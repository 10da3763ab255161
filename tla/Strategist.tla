------------------------------ MODULE Strategist ------------------------------
(***************************************************************************)
(* One call of Strategist.execute (pipeline/strategist.py): the phases of  *)
(* a strategy in dependency order, each attempted with a bounded fan-out   *)
(* of tacticians, gated, paid for, and replanned while its depth allows.   *)
(* Beside it POST /v3/runs/{run_id}/inject queues directives for the run   *)
(* (pipeline/runners/injection_queue.py).                                  *)
(*                                                                         *)
(* Everything runs in one event loop: execute is alone with its data but   *)
(* at the await of gather_bounded, where tacticians start, return and      *)
(* raise in any order.  Amounts of RU are left out: a charge is the set of *)
(* slots whose work it pays.                                               *)
(***************************************************************************)
EXTENDS PhaseGate, Sequences

CONSTANTS
    Strategies,     \* strategies with the envelope of the run
    Outputs,        \* what a tactician may find
    MaxParallel,    \* _DEFAULT_MAX_PARALLEL_TACTICIANS
    Tactics,        \* ids of the tactics catalog
    Messages,       \* directives a user may inject
    MaxRaises,      \* bound on the tacticians that raise
    MaxRefused,     \* bound on the charges the wallet does not record
    Nothing         \* no tactic override, no dependency

LegalPhaseIds == {"extract", "gather", "disconfirm", "synthesize"}

\* hypothesis_count_policy; n is N of "fixed:N".
Policies == [kind : {"from_dial", "from_prior_phase", "fixed"}, n : Nat \ {0}]
OnFails == {"replan", "swap_tactic", "ask_user", "terminate"}
Depths == {"shallow", "search", "deep", "abyss"}

\* A strategy that passed its validators, and of the budget envelope the
\* depth and the resolved hypothesis count.  last[p] is the dependency the
\* policy from_prior_phase counts.  tactics[p] has the ids of the tactics
\* compatible with p, by cost.
ValidStrategy(s) ==
    LET all == DOMAIN s.deps
    IN  /\ all # {} /\ all \subseteq LegalPhaseIds
        /\ s.deps \in [all -> SUBSET all]
        /\ \E rank \in [all -> 1 .. 4] : \A p \in all : \A d \in s.deps[p] : rank[d] < rank[p]
        /\ s.last \in [all -> all \cup {Nothing}]
        /\ \A p \in all : s.last[p] \in s.deps[p] \cup {Nothing}
        /\ s.policy \in [all -> Policies]
        /\ s.onFail \in [all -> OnFails]
        /\ s.checks \in [all -> SUBSET CheckKinds]
        /\ s.quiet \subseteq all
        /\ s.depth \in Depths /\ s.dial \in Nat \ {0}
        /\ s.tactics \in [all -> Seq(Tactics)]

ASSUME StrategiesAssumption == \A s \in Strategies : ValidStrategy(s)
ASSUME OutputsAssumption ==
    Outputs \subseteq SUBSET Finding /\ \A found \in Outputs : IsFiniteSet(found)
ASSUME ParallelAssumption == MaxParallel \in Nat \ {0}
ASSUME NothingAssumption == Nothing \notin LegalPhaseIds \cup Tactics

VARIABLES
    strat,      \* the strategy of the run
    order,      \* phases_in_order, as far as _topo_sort has come
    pc,         \* "sort", "brief", "gather" or how execute ended
    at,         \* index of the phase
    attempt,    \* replan_attempts
    uow,        \* what current_unit_of_work carries over to the next attempt
    used,       \* tactics_used_this_phase
    tasks,      \* tacticians that wait for the semaphore or run
    outs,       \* outputs of the current attempt
    outputs,    \* phase_outputs_by_id, of the phases that passed
    worked,     \* tacticians that returned
    raised,     \* attempts in which a tactician raised
    charges,    \* wallet.consume: idempotency key and slots paid
    refused,    \* history: attempts whose charge the wallet did not record
    briefs,     \* unit_of_work of every attempt
    sent,       \* directives injected
    pending     \* the injection queue of the run

attemptVars == <<attempt, uow, used>>
taskVars == <<tasks, outs, worked, raised>>
resultVars == <<outputs, charges, refused, briefs>>
vars == <<strat, order, pc, at, attemptVars, taskVars, resultVars, sent, pending>>

Phases == DOMAIN strat.deps
Ends == {"completed", "ask_user", "terminated", "error"}

\* DEPTH_TO_REPLAN_BUDGET
ReplanLimit(depth) ==
    IF depth = "shallow" THEN 0 ELSE IF depth = "search" THEN 1 ELSE IF depth = "deep" THEN 3 ELSE 99

Phase == order[at]

FreshUow == [hint |-> FALSE, override |-> Nothing, directives |-> {}]

Task == [phase : LegalPhaseIds, attempt : Nat, slot : Nat \ {0}, state : {"waiting", "running"}]
OfBatch(t) == t.phase = Phase /\ t.attempt = attempt
Batch == [phase |-> Phase, attempt |-> attempt]

Init ==
    /\ strat \in Strategies
    /\ order = <<>> /\ pc = "sort" /\ at = 1 /\ attempt = 0
    /\ uow = FreshUow /\ used = {}
    /\ tasks = {} /\ outs = {} /\ worked = {} /\ raised = {}
    /\ outputs = <<>>
    /\ charges = {} /\ refused = {} /\ briefs = {} /\ sent = {} /\ pending = {}

-----------------------------------------------------------------------------
(* The order of the phases.                                                *)

Sorted == {order[i] : i \in DOMAIN order}

\* Mutant of Ready: a phase is queued when one of its dependencies is popped.
ReadyEarly == {p \in Phases \ Sorted : strat.deps[p] = {} \/ strat.deps[p] \cap Sorted # {}}

\* The queue of Kahn's algorithm: phases with in_degree 0.  The code pops the
\* first of them; which one comes first matters to no property.
Ready == {p \in Phases \ Sorted : strat.deps[p] \subseteq Sorted}

SortPops ==
    /\ pc = "sort"
    /\ \E p \in Ready : order' = Append(order, p)
    /\ UNCHANGED <<strat, pc, at, attemptVars, taskVars, resultVars, sent, pending>>

SortEnds ==
    /\ pc = "sort" /\ Ready = {} /\ Sorted = Phases
    /\ pc' = "brief"
    /\ UNCHANGED <<strat, order, at, attemptVars, taskVars, resultVars, sent, pending>>

-----------------------------------------------------------------------------
(* One attempt: the unit of work, and the tacticians.                      *)

\* _resolve_n_tacticians
Tacticians(p) ==
    LET policy == strat.policy[p].kind
        prior == strat.last[p]
    IN  IF policy = "from_dial" THEN strat.dial
        ELSE IF policy = "from_prior_phase"
        THEN IF prior \notin DOMAIN outputs THEN 1
             ELSE IF DistinctNames(outputs[prior]) = {} THEN 1
             ELSE Cardinality(DistinctNames(outputs[prior]))
        ELSE strat.policy[p].n

\* Mutant of Overlay: the unit of work is built anew for each attempt.
OverlayForgotten == [FreshUow EXCEPT !.directives = pending]

\* What is carried over from the attempt before, and the drained queue.
Overlay == [uow EXCEPT !.directives = @ \cup pending]

Brief ==
    /\ pc = "brief" /\ at \in DOMAIN order
    /\ uow' = Overlay
    /\ pending' = {}
    /\ briefs' = briefs \cup {[phase |-> Phase, attempt |-> attempt, unit |-> uow']}
    /\ tasks' = tasks \cup
         {[phase |-> Phase, attempt |-> attempt, slot |-> i, state |-> "waiting"] :
             i \in 1 .. Tacticians(Phase)}
    /\ outs' = {}
    /\ pc' = "gather"
    /\ UNCHANGED <<strat, order, at, attempt, used, worked, raised, outputs, charges, refused, sent>>

Running(b) == {t \in tasks : t.state = "running" /\ t.phase = b.phase /\ t.attempt = b.attempt}

\* Mutant of Permitted: nothing bounds the fan-out.
PermittedAll(t) == TRUE

\* Mutant of Permitted: a permit too few.
PermittedFewer(t) == Cardinality(Running(t)) + 1 < MaxParallel

\* The semaphore is made anew by every call of gather_bounded.
Permitted(t) == Cardinality(Running(t)) < MaxParallel

TaskStarts(t) ==
    /\ t.state = "waiting" /\ Permitted(t)
    /\ tasks' = (tasks \ {t}) \cup {[t EXCEPT !.state = "running"]}
    /\ UNCHANGED <<strat, order, pc, at, attemptVars, outs, worked, raised, resultVars, sent, pending>>

\* After a sibling has raised, nobody waits for the output.
TaskReturns(t, found) ==
    /\ t.state = "running"
    /\ tasks' = tasks \ {t}
    /\ worked' = worked \cup {[phase |-> t.phase, attempt |-> t.attempt, slot |-> t.slot]}
    /\ outs' = IF pc = "gather" /\ OfBatch(t) /\ Batch \notin raised
               THEN outs \cup {[slot |-> t.slot, found |-> found]} ELSE outs
    /\ UNCHANGED <<strat, order, pc, at, attemptVars, raised, resultVars, sent, pending>>

\* The gather raises for the first of them; its siblings go on, and those that
\* wait still get their turn.
TaskRaises(t) ==
    /\ t.state = "running"
    /\ Cardinality(raised) < MaxRaises
    /\ tasks' = tasks \ {t}
    /\ raised' = raised \cup {[phase |-> t.phase, attempt |-> t.attempt]}
    /\ outs' = IF pc = "gather" /\ OfBatch(t) THEN {} ELSE outs
    /\ UNCHANGED <<strat, order, pc, at, attemptVars, worked, resultVars, sent, pending>>

-----------------------------------------------------------------------------
(* The gate, and what follows from it.                                     *)

Gathered == pc = "gather" /\ (Batch \in raised \/ ~\E t \in tasks : OfBatch(t))

Passed == GatePasses(strat.checks[Phase], outs, Phase, Phase \in strat.quiet, strat.dial)

\* Mutant of ChargeKey: the attempt is not part of the key.
ChargeKeyOfPhase == [phase |-> Phase, attempt |-> 0]

\* The idempotency key: a key that was used before pays nothing.
ChargeKey == Batch

Charged ==
    /\ charges' = IF \E c \in charges : c.key = ChargeKey THEN charges
                  ELSE charges \cup {[key |-> ChargeKey, slots |-> {o.slot : o \in outs}]}
    /\ UNCHANGED refused

\* wallet.consume never raises: without a wallet, or on a database error, it
\* answers ok=False, and execute does not look.
Refused ==
    /\ Cardinality(refused) < MaxRefused
    /\ refused' = refused \cup {Batch}
    /\ UNCHANGED charges

Charge == Charged \/ Refused

GatePass ==
    /\ Gathered /\ Passed /\ Charge
    /\ outputs' = [p \in DOMAIN outputs \cup {Phase} |-> IF p = Phase THEN outs ELSE outputs[p]]
    /\ at' = at + 1 /\ attempt' = 0 /\ uow' = FreshUow /\ used' = {}
    /\ pc' = "brief"
    /\ UNCHANGED <<strat, order, taskVars, briefs, sent, pending>>

\* An output is merged and checked without validation, before the attempt is
\* paid: a count that is no number, a name that cannot be hashed raise.
AggregateRaises ==
    /\ Gathered /\ outs # {}
    /\ pc' = "error"
    /\ UNCHANGED <<strat, order, at, attemptVars, taskVars, resultVars, sent, pending>>

Failed(onFail) == Gathered /\ ~Passed /\ strat.onFail[Phase] = onFail /\ Charge

Stop(status) ==
    /\ pc' = status
    /\ UNCHANGED <<strat, order, at, attemptVars, taskVars, outputs, briefs, sent, pending>>

Again ==
    /\ attempt' = attempt + 1
    /\ pc' = "brief"
    /\ UNCHANGED <<strat, order, at, taskVars, outputs, briefs, sent, pending>>

MayReplan == attempt < ReplanLimit(strat.depth)

AskUser == Failed("ask_user") /\ Stop("ask_user")

\* With and without attempts left.
Terminate == Failed("terminate") /\ Stop("terminated")

Exhausted ==
    \E onFail \in {"replan", "swap_tactic"} : Failed(onFail) /\ ~MayReplan /\ Stop("terminated")

Replan ==
    /\ Failed("replan") /\ MayReplan
    /\ uow' = [uow EXCEPT !.hint = TRUE]
    /\ used' = used
    /\ Again

Unused == {i \in DOMAIN strat.tactics[Phase] : strat.tactics[Phase][i] \notin used}

\* tactics_used_this_phase has the tactics picked, not the one of attempt 0.
Remember(tactic) == used \cup ({uow.override} \ {Nothing}) \cup {tactic}

\* _pick_alternative_tactic: the cheapest not yet used.
SwapTactic ==
    /\ Failed("swap_tactic") /\ MayReplan
    /\ \E i \in Unused :
         /\ \A j \in Unused : i <= j
         /\ uow' = [uow EXCEPT !.override = strat.tactics[Phase][i]]
         /\ used' = Remember(strat.tactics[Phase][i])
    /\ Again

NoAlternative ==
    Failed("swap_tactic") /\ MayReplan /\ Unused = {} /\ Stop("terminated")

\* Ranking the candidates of the last phase may raise.
Complete ==
    /\ pc = "brief" /\ at \notin DOMAIN order
    /\ pc' \in {"completed", "error"}
    /\ UNCHANGED <<strat, order, at, attemptVars, taskVars, resultVars, sent, pending>>

\* POST /v3/runs/{run_id}/inject, whatever the run's status.
Inject(m) ==
    /\ m \notin sent
    /\ sent' = sent \cup {m} /\ pending' = pending \cup {m}
    /\ UNCHANGED <<strat, order, pc, at, attemptVars, taskVars, resultVars>>

Execute ==
    \/ SortPops \/ SortEnds \/ Brief \/ Complete
    \/ GatePass \/ AggregateRaises \/ AskUser \/ Terminate
    \/ Exhausted \/ Replan \/ SwapTactic \/ NoAlternative

TaskStep(t) ==
    TaskStarts(t) \/ TaskRaises(t) \/ \E found \in Outputs : TaskReturns(t, found)

Next ==
    \/ Execute
    \/ \E t \in tasks : TaskStep(t)
    \/ \E m \in Messages : Inject(m)

\* The event loop runs what can run, and tacticians end: their subprocesses
\* have a timeout.
Fairness == WF_vars(Execute) /\ WF_vars(\E t \in tasks : TaskStep(t))

Spec == Init /\ [][Next]_vars /\ Fairness

-----------------------------------------------------------------------------
(* Properties.                                                             *)

Attempt == [phase : LegalPhaseIds, attempt : Nat]

TypeOK ==
    /\ strat \in Strategies
    /\ order \in Seq(Phases)
    /\ pc \in {"sort", "brief", "gather"} \cup Ends
    /\ at \in Nat \ {0} /\ attempt \in Nat
    /\ uow \in [hint : BOOLEAN, override : Tactics \cup {Nothing}, directives : SUBSET Messages]
    /\ used \subseteq Tactics
    /\ tasks \subseteq Task
    /\ outs \subseteq TacticianOutput
    /\ DOMAIN outputs \subseteq Phases /\ outputs \in [DOMAIN outputs -> SUBSET TacticianOutput]
    /\ worked \subseteq [phase : LegalPhaseIds, attempt : Nat, slot : Nat \ {0}]
    /\ raised \subseteq Attempt
    /\ charges \subseteq [key : Attempt, slots : SUBSET (Nat \ {0})]
    /\ refused \subseteq Attempt
    /\ \A b \in briefs : b.phase \in Phases /\ b.attempt \in Nat
    /\ sent \subseteq Messages /\ pending \subseteq Messages

\* No tactician is briefed for a phase before all the phases its own depends
\* on have passed: what it is given of them is all there.
DepsPassed ==
    \A b \in briefs : strat.deps[b.phase] \subseteq DOMAIN outputs

\* A phase is attempted again only to correct a failure, and within the depth
\* of the run: every attempt but the first has a hint or another tactic.
CorrectedRetry ==
    \A b \in briefs :
        /\ b.attempt <= ReplanLimit(strat.depth)
        /\ b.attempt > 0 => b.unit.hint \/ b.unit.override # Nothing

\* No two attempts of a phase are told to use the same tactic.
TacticsFresh ==
    \A b, c \in briefs :
        b.phase = c.phase /\ b.attempt # c.attempt /\ b.unit.override # Nothing
            => b.unit.override # c.unit.override

\* A directive reaches the attempt that drains it and all later ones of the
\* phase, and no other phase; none is lost while the run lasts.
DirectiveKept ==
    /\ sent = pending \cup UNION {b.unit.directives : b \in briefs}
    /\ \A b, c \in briefs :
         IF b.phase # c.phase THEN b.unit.directives \cap c.unit.directives = {}
         ELSE b.attempt <= c.attempt => b.unit.directives \subseteq c.unit.directives

WorkOf(b) == {w.slot : w \in {x \in worked : x.phase = b.phase /\ x.attempt = b.attempt}}

\* Each attempt is paid for by itself: a charge pays exactly what the attempt
\* in its key has worked, nothing if a tactician raised, and work that was
\* gated goes unpaid only if its siblings' raise gave it away or the wallet
\* refused this attempt's own charge.
WorkIsCharged ==
    /\ \A c \in charges : c.slots = IF c.key \in raised THEN {} ELSE WorkOf(c.key)
    /\ \A w \in worked :
         LET b == [phase |-> w.phase, attempt |-> w.attempt]
         IN  \/ b \in raised \cup refused
             \/ pc \in {"gather", "error"} /\ at \in DOMAIN order /\ b = Batch
             \/ \E c \in charges : c.key = b

\* At most MaxParallel subprocesses run, and none outlives its attempt, until
\* a tactician raises: the siblings it leaves behind are nobody's.
OneBatch ==
    raised = {} =>
        /\ tasks # {} => pc = "gather"
        /\ \A t \in tasks : OfBatch(t)
        /\ Cardinality({t \in tasks : t.state = "running"}) <= MaxParallel

\* An attempt in which a tactician raised never passes its gate, though the
\* phase need not call tools and its checks ask for nothing.
RaiseNeverPasses ==
    \A b \in raised : b.phase \in DOMAIN outputs =>
        \E c \in briefs : c.phase = b.phase /\ c.attempt > b.attempt

\* The strategist keeps the promise of PhasePlan.
Plan == INSTANCE PhasePlan WITH
    Phases <- LegalPhaseIds,
    deps <- strat.deps,
    done <- DOMAIN outputs,
    verdict <- IF pc \in Ends THEN pc ELSE "running"

ImplementsPlan == Plan!PlanSpec

\* The run comes to an end.
RunEnds == <>(pc \in Ends)

\* budget.consume: "FAILS CLOSED on DB error."  Not kept: execute passes the
\* gate although the charge of its attempt was refused.
GatedIsPaid == \A b \in refused : b.phase \notin DOMAIN outputs

\* The briefing of the disconfirm phase: "Do not advance without a disconfirm
\* entry per hypothesis."  Not kept: the gate counts entries over all the
\* tacticians.
EveryHypothesisRefuted ==
    \A p \in DOMAIN outputs :
        "disconfirm_logged_per_hypothesis" \in strat.checks[p] /\ strat.last[p] # Nothing =>
            \A n \in DistinctNames(outputs[strat.last[p]]) :
                \E g \in AggregatedFindings(outputs[p]) : g.finding.name = n /\ g.finding.refutes
=============================================================================
