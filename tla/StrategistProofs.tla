------------------------- MODULE StrategistProofs -------------------------
(***************************************************************************)
(* Proofs about Strategist, for every set of strategies that pass their    *)
(* validators, every fan-out and every behaviour of the tacticians.        *)
(***************************************************************************)
EXTENDS Strategist, FiniteSetTheorems, TLAPS

USE StrategiesAssumption, OutputsAssumption, ParallelAssumption, NothingAssumption

-----------------------------------------------------------------------------
(* The steps of execute that follow a gate.                                *)

\* It ends, with the work of the attempt paid or not.
Stops ==
    /\ Gathered /\ pc' \in {"ask_user", "terminated", "error"}
    /\ Charge \/ (pc' = "error" /\ UNCHANGED <<charges, refused>>)
    /\ UNCHANGED <<strat, order, at, attemptVars, taskVars, outputs, briefs, sent, pending>>

\* The next attempt is told to do something else.
Correction ==
    \/ /\ strat.onFail[Phase] = "replan"
       /\ uow' = [uow EXCEPT !.hint = TRUE] /\ used' = used
    \/ /\ strat.onFail[Phase] = "swap_tactic"
       /\ \E tactic \in Tactics \ used :
            uow' = [uow EXCEPT !.override = tactic] /\ used' = Remember(tactic)

Retries ==
    /\ Gathered /\ ~Passed /\ Charge /\ MayReplan /\ Correction
    /\ attempt' = attempt + 1 /\ pc' = "brief"
    /\ UNCHANGED <<strat, order, at, taskVars, outputs, briefs, sent, pending>>

\* What execute does is one of these,
LEMMA ExecuteCases ==
    ASSUME TypeOK, Gathered => at \in DOMAIN order, Execute
    PROVE  SortPops \/ SortEnds \/ Brief \/ Complete \/ GatePass \/ Stops \/ Retries
<1>1. CASE AskUser \/ Terminate \/ Exhausted \/ NoAlternative \/ AggregateRaises
  BY <1>1 DEF AskUser, Terminate, Exhausted, NoAlternative, AggregateRaises, Failed, Stop, Stops, resultVars
<1>2. CASE Replan
  BY <1>2 DEF Replan, Failed, Again, Retries, Correction
<1>3. CASE SwapTactic
  <2>1. PICK i \in Unused :
          uow' = [uow EXCEPT !.override = strat.tactics[Phase][i]] /\ used' = Remember(strat.tactics[Phase][i])
    BY <1>3 DEF SwapTactic
  <2>2. Gathered /\ ~Passed /\ Charge /\ MayReplan /\ strat.onFail[Phase] = "swap_tactic" /\ Again
    BY <1>3 DEF SwapTactic, Failed
  <2>3. Phase \in Phases /\ ValidStrategy(strat)
    BY <2>2 DEF TypeOK, Phase
  <2>4. strat.tactics[Phase] \in Seq(Tactics)
    BY <2>3 DEF ValidStrategy, Phases
  <2>5. strat.tactics[Phase][i] \in Tactics \ used
    BY <2>4 DEF Unused
  <2> QED
    BY <2>1, <2>2, <2>5 DEF Retries, Correction, Again
<1> QED
  BY <1>1, <1>2, <1>3 DEF Execute

\* and every step is one of them or of the tacticians and the user.
LEMMA StepCases ==
    ASSUME TypeOK, Gathered => at \in DOMAIN order, [Next]_vars
    PROVE  \/ SortPops \/ SortEnds \/ Brief \/ Complete \/ GatePass \/ Stops \/ Retries
           \/ \E t \in tasks : TaskStep(t)
           \/ \E m \in Messages : Inject(m)
           \/ UNCHANGED vars
BY ExecuteCases DEF Next

-----------------------------------------------------------------------------
(* Types, and the order of the phases.                                     *)

\* Each phase comes once, after all it depends on; until the order is
\* complete nothing has happened.
OrderOK ==
    /\ \A i \in DOMAIN order : \A d \in strat.deps[order[i]] : \E j \in DOMAIN order : j < i /\ order[j] = d
    /\ \A i, j \in DOMAIN order : order[i] = order[j] => i = j
    /\ pc = "sort" => at = 1 /\ attempt = 0 /\ uow = FreshUow /\ used = {}
                      /\ tasks = {} /\ worked = {} /\ raised = {} /\ charges = {} /\ briefs = {}
    /\ pc # "sort" => Sorted = Phases
    /\ pc \notin {"sort", "brief", "completed", "error"} => at \in DOMAIN order
    /\ pc = "completed" => at \notin DOMAIN order

\* The phases with an output are those the run is past.
PassedOK == DOMAIN outputs = {order[i] : i \in {j \in DOMAIN order : j < at}}

Plain == TypeOK /\ OrderOK /\ PassedOK

LEMMA PlainInit == Init => Plain
<1> SUFFICES ASSUME Init PROVE Plain
  OBVIOUS
<1>1. uow \in [hint : BOOLEAN, override : Tactics \cup {Nothing}, directives : SUBSET Messages]
  BY DEF Init, FreshUow
<1>2. TypeOK
  <2>1. order \in Seq(Phases)
    BY DEF Init
  <2>2. DOMAIN outputs = {} /\ outputs \in [DOMAIN outputs -> SUBSET TacticianOutput]
    BY DEF Init
  <2> QED
    BY <1>1, <2>1, <2>2 DEF Init, TypeOK
<1>3. OrderOK
  BY DEF Init, OrderOK
<1>4. PassedOK
  BY DEF Init, PassedOK
<1> QED
  BY <1>2, <1>3, <1>4 DEF Plain

\* What a step that leaves strategy, order and outputs alone has to keep.
LEMMA PlainKept ==
    ASSUME Plain, UNCHANGED <<strat, order, at, outputs>>, pc # "sort", pc' \notin {"sort", "completed"},
           pc' # "brief" => at \in DOMAIN order, attempt' \in Nat,
           uow' \in [hint : BOOLEAN, override : Tactics \cup {Nothing}, directives : SUBSET Messages],
           used' \subseteq Tactics, tasks' \subseteq Task, outs' \subseteq TacticianOutput,
           worked' \subseteq [phase : LegalPhaseIds, attempt : Nat, slot : Nat \ {0}],
           raised' \subseteq Attempt, charges' \subseteq [key : Attempt, slots : SUBSET (Nat \ {0})],
           refused' \subseteq Attempt,
           \A b \in briefs' : b.phase \in Phases /\ b.attempt \in Nat,
           sent' \subseteq Messages, pending' \subseteq Messages,
           pc' \in {"brief", "gather"} \cup Ends
    PROVE  Plain'
<1>1. Phases' = Phases /\ Sorted' = Sorted
  BY DEF Phases, Sorted
<1>2. TypeOK'
  BY <1>1 DEF Plain, TypeOK
<1>3. OrderOK'
  BY <1>1 DEF Plain, OrderOK
<1>4. PassedOK'
  BY DEF Plain, PassedOK
<1> QED
  BY <1>2, <1>3, <1>4 DEF Plain

LEMMA ChargeType ==
    ASSUME TypeOK, at \in DOMAIN order, Charge
    PROVE  charges' \subseteq [key : Attempt, slots : SUBSET (Nat \ {0})] /\ refused' \subseteq Attempt
<1>1. Phase \in LegalPhaseIds
  BY DEF TypeOK, Phase, Phases, ValidStrategy
<1>2. ChargeKey \in Attempt /\ Batch \in Attempt /\ {o.slot : o \in outs} \in SUBSET (Nat \ {0})
  BY <1>1 DEF ChargeKey, Batch, Attempt, TypeOK, TacticianOutput
<1> QED
  BY <1>2 DEF TypeOK, Charge, Charged, Refused

\* Appending a phase whose dependencies are sorted keeps the order right.
LEMMA PlainSorts == ASSUME Plain, SortPops PROVE Plain'
<1>1. PICK p \in Ready : order' = Append(order, p)
  BY DEF SortPops
<1>2. /\ pc = "sort" /\ order \in Seq(Phases) /\ p \in Phases /\ p \notin Sorted /\ strat.deps[p] \subseteq Sorted
      /\ UNCHANGED <<strat, pc, at, attempt, uow, used, tasks, outs, worked, raised, outputs, charges, refused, briefs, sent, pending>>
  BY <1>1 DEF SortPops, Ready, Plain, TypeOK, attemptVars, taskVars, resultVars
<1>3. Phases' = Phases
  BY <1>2 DEF Phases
<1>4. /\ order' \in Seq(Phases) /\ Len(order') = Len(order) + 1 /\ order'[Len(order) + 1] = p
      /\ Len(order) \in Nat /\ \A i \in 1..Len(order) : order'[i] = order[i]
      /\ DOMAIN order = 1..Len(order) /\ DOMAIN order' = 1..(Len(order) + 1)
  BY <1>1, <1>2
<1>5. TypeOK'
  BY <1>2, <1>3, <1>4 DEF Plain, TypeOK
<1>6. OrderOK'
  <2>1. \A i, j \in DOMAIN order' : order'[i] = order'[j] => i = j
    BY <1>2, <1>4 DEF Plain, OrderOK, Sorted
  <2>2. ASSUME NEW i \in DOMAIN order', NEW d \in strat.deps[order'[i]]
        PROVE  \E j \in DOMAIN order' : j < i /\ order'[j] = d
    <3>1. CASE i = Len(order) + 1
      BY <1>2, <1>4, <2>2, <3>1 DEF Sorted
    <3>2. CASE i # Len(order) + 1
      <4>1. i \in DOMAIN order /\ order'[i] = order[i]
        BY <1>4, <3>2
      <4>2. PICK j \in DOMAIN order : j < i /\ order[j] = d
        BY <2>2, <4>1 DEF Plain, OrderOK
      <4> QED
        BY <1>4, <4>2
    <3> QED
      BY <3>1, <3>2
  <2> QED
    BY <1>2, <2>1, <2>2 DEF Plain, OrderOK
<1>7. PassedOK'
  <2>1. at = 1 /\ DOMAIN outputs = {}
    BY <1>2, <1>4 DEF Plain, OrderOK, PassedOK
  <2> QED
    BY <1>2, <1>4, <2>1 DEF PassedOK
<1> QED
  BY <1>5, <1>6, <1>7 DEF Plain

LEMMA PlainPasses == ASSUME Plain, GatePass PROVE Plain'
<1>1. /\ pc = "gather" /\ pc' = "brief" /\ at' = at + 1 /\ attempt' = 0 /\ uow' = FreshUow /\ used' = {}
      /\ outputs' = [p \in DOMAIN outputs \cup {Phase} |-> IF p = Phase THEN outs ELSE outputs[p]]
      /\ UNCHANGED <<strat, order, tasks, outs, worked, raised, briefs, sent, pending>>
  BY DEF GatePass, Gathered, taskVars
<1>2. at \in DOMAIN order /\ Phase \in Phases /\ Phases' = Phases /\ Sorted' = Sorted
  BY <1>1 DEF Plain, OrderOK, TypeOK, Phase, Phases, Sorted
<1>3. charges' \subseteq [key : Attempt, slots : SUBSET (Nat \ {0})] /\ refused' \subseteq Attempt
  BY <1>2, ChargeType DEF GatePass, Plain
<1>4. uow' \in [hint : BOOLEAN, override : Tactics \cup {Nothing}, directives : SUBSET Messages]
  BY <1>1 DEF FreshUow
<1>5. DOMAIN outputs' = DOMAIN outputs \cup {Phase} /\ outputs' \in [DOMAIN outputs' -> SUBSET TacticianOutput]
  BY <1>1 DEF Plain, TypeOK
<1>6. TypeOK'
  BY <1>1, <1>2, <1>3, <1>4, <1>5 DEF Plain, TypeOK
<1>7. OrderOK'
  BY <1>1, <1>2 DEF Plain, OrderOK
<1>8. PassedOK'
  <2>1. at \in Nat /\ DOMAIN order \subseteq Nat
    BY DEF Plain, TypeOK
  <2>2. {j \in DOMAIN order : j < at + 1} = {j \in DOMAIN order : j < at} \cup {at}
    BY <1>2, <2>1
  <2>3. DOMAIN outputs' = {order[i] : i \in {j \in DOMAIN order : j < at + 1}}
    BY <1>5, <2>2 DEF Plain, PassedOK, Phase
  <2> QED
    BY <1>1, <2>3 DEF PassedOK
<1> QED
  BY <1>6, <1>7, <1>8 DEF Plain

LEMMA PlainNext == ASSUME Plain, [Next]_vars PROVE Plain'
<1>0. TypeOK /\ OrderOK /\ PassedOK
  BY DEF Plain
<1>a. Gathered => at \in DOMAIN order
  BY <1>0 DEF Gathered, OrderOK
<1>1. CASE SortEnds
  <2>1. pc = "sort" /\ pc' = "brief" /\ Sorted = Phases
        /\ UNCHANGED <<strat, order, at, attempt, uow, used, tasks, outs, worked, raised, outputs, charges, refused, briefs, sent, pending>>
    BY <1>1 DEF SortEnds, attemptVars, taskVars, resultVars
  <2>2. Phases' = Phases /\ Sorted' = Sorted
    BY <2>1 DEF Phases, Sorted
  <2>3. TypeOK'
    BY <1>0, <2>1, <2>2 DEF TypeOK
  <2> QED
    BY <1>0, <2>1, <2>2, <2>3 DEF Plain, OrderOK, PassedOK
<1>2. CASE Brief
  <2>1. Phase \in Phases /\ Phase \in LegalPhaseIds
    BY <1>0, <1>2 DEF Brief, TypeOK, Phase, Phases, ValidStrategy
  <2>2. uow' \in [hint : BOOLEAN, override : Tactics \cup {Nothing}, directives : SUBSET Messages]
    BY <1>0, <1>2 DEF Brief, Overlay, TypeOK
  <2>3. tasks' \subseteq Task
    <3> SUFFICES ASSUME NEW i \in 1 .. Tacticians(Phase)
                 PROVE  [phase |-> Phase, attempt |-> attempt, slot |-> i, state |-> "waiting"] \in Task
      BY <1>0, <1>2 DEF Brief, TypeOK
    <3>1. i \in Nat \ {0}
      OBVIOUS
    <3> QED
      BY <1>0, <2>1, <3>1 DEF Task, TypeOK
  <2>4. \A b \in briefs' : b.phase \in Phases /\ b.attempt \in Nat
    BY <1>0, <1>2, <2>1 DEF Brief, TypeOK
  <2> QED
    BY <1>0, <1>2, <2>2, <2>3, <2>4, PlainKept DEF Brief, TypeOK
<1>3. CASE Complete
  <2>1. pc = "brief" /\ pc' \in {"completed", "error"} /\ at \notin DOMAIN order
        /\ UNCHANGED <<strat, order, at, attempt, uow, used, tasks, outs, worked, raised, outputs, charges, refused, briefs, sent, pending>>
    BY <1>3 DEF Complete, attemptVars, taskVars, resultVars
  <2>2. Phases' = Phases /\ Sorted' = Sorted
    BY <2>1 DEF Phases, Sorted
  <2>3. TypeOK'
    BY <1>0, <2>1, <2>2 DEF TypeOK, Ends
  <2> QED
    BY <1>0, <2>1, <2>2, <2>3 DEF Plain, OrderOK, PassedOK
<1>4. CASE Stops
  <2>1. charges' \subseteq [key : Attempt, slots : SUBSET (Nat \ {0})] /\ refused' \subseteq Attempt
    BY <1>0, <1>a, <1>4, ChargeType DEF Stops, TypeOK
  <2> QED
    BY <1>0, <1>a, <1>4, <2>1, PlainKept DEF Stops, Gathered, TypeOK, Ends, attemptVars, taskVars
<1>5. CASE Retries
  <2>1. charges' \subseteq [key : Attempt, slots : SUBSET (Nat \ {0})] /\ refused' \subseteq Attempt
    BY <1>0, <1>a, <1>5, ChargeType DEF Retries
  <2>2. uow' \in [hint : BOOLEAN, override : Tactics \cup {Nothing}, directives : SUBSET Messages]
    BY <1>0, <1>5 DEF Retries, Correction, TypeOK
  <2>3. used' \subseteq Tactics
    BY <1>0, <1>5 DEF Retries, Correction, Remember, TypeOK
  <2> QED
    BY <1>0, <1>a, <1>5, <2>1, <2>2, <2>3, PlainKept DEF Retries, Gathered, TypeOK, taskVars
<1>6. ASSUME NEW t \in tasks, TaskStep(t) PROVE Plain'
  <2>1. t \in Task /\ pc # "sort"
    BY <1>0 DEF TypeOK, OrderOK
  <2>2. /\ tasks' \subseteq Task /\ outs' \subseteq TacticianOutput /\ raised' \subseteq Attempt
        /\ worked' \subseteq [phase : LegalPhaseIds, attempt : Nat, slot : Nat \ {0}]
        /\ UNCHANGED <<strat, order, pc, at, attempt, uow, used, outputs, charges, refused, briefs, sent, pending>>
    <3>1. CASE TaskStarts(t)
      <4>1. [t EXCEPT !.state = "running"] \in Task
        BY <2>1 DEF Task
      <4> QED
        BY <1>0, <3>1, <4>1 DEF TaskStarts, TypeOK, attemptVars, resultVars
    <3>2. CASE TaskRaises(t)
      <4>1. [phase |-> t.phase, attempt |-> t.attempt] \in Attempt
        BY <2>1 DEF Task, Attempt
      <4> QED
        BY <1>0, <3>2, <4>1 DEF TaskRaises, TypeOK, attemptVars, resultVars
    <3>3. ASSUME NEW found \in Outputs, TaskReturns(t, found)
          PROVE  /\ tasks' \subseteq Task /\ outs' \subseteq TacticianOutput /\ raised' \subseteq Attempt
                 /\ worked' \subseteq [phase : LegalPhaseIds, attempt : Nat, slot : Nat \ {0}]
                 /\ UNCHANGED <<strat, order, pc, at, attempt, uow, used, outputs, charges, refused, briefs, sent, pending>>
      <4>1. [phase |-> t.phase, attempt |-> t.attempt, slot |-> t.slot]
              \in [phase : LegalPhaseIds, attempt : Nat, slot : Nat \ {0}]
        BY <2>1 DEF Task
      <4>2. [slot |-> t.slot, found |-> found] \in TacticianOutput
        BY <2>1 DEF Task, TacticianOutput
      <4> QED
        BY <1>0, <3>3, <4>1, <4>2 DEF TaskReturns, TypeOK, attemptVars, resultVars
    <3> QED
      BY <1>6, <3>1, <3>2, <3>3 DEF TaskStep
  <2>3. Phases' = Phases /\ Sorted' = Sorted
    BY <2>2 DEF Phases, Sorted
  <2>4. TypeOK'
    BY <1>0, <2>2, <2>3 DEF TypeOK
  <2> QED
    BY <1>0, <2>1, <2>2, <2>3, <2>4 DEF Plain, OrderOK, PassedOK
<1>7. ASSUME NEW m \in Messages, Inject(m) PROVE Plain'
  <2>1. UNCHANGED <<strat, order, pc, at, attempt, uow, used, tasks, outs, worked, raised, outputs, charges, refused, briefs>>
        /\ sent' = sent \cup {m} /\ pending' = pending \cup {m}
    BY <1>7 DEF Inject, attemptVars, taskVars, resultVars
  <2>2. Phases' = Phases /\ Sorted' = Sorted
    BY <2>1 DEF Phases, Sorted
  <2>3. TypeOK'
    BY <1>0, <2>1, <2>2 DEF TypeOK
  <2> QED
    BY <1>0, <2>1, <2>2, <2>3 DEF Plain, OrderOK, PassedOK
<1>8. CASE UNCHANGED vars
  <2>1. UNCHANGED <<strat, order, pc, at, attempt, uow, used, tasks, outs, worked, raised, outputs, charges, refused, briefs, sent, pending>>
    BY <1>8 DEF vars, attemptVars, taskVars, resultVars
  <2>2. Phases' = Phases /\ Sorted' = Sorted
    BY <2>1 DEF Phases, Sorted
  <2>3. TypeOK'
    BY <1>0, <2>1, <2>2 DEF TypeOK
  <2> QED
    BY <1>0, <2>1, <2>2, <2>3 DEF Plain, OrderOK, PassedOK
<1> QED
  BY <1>0, <1>a, <1>1, <1>2, <1>3, <1>4, <1>5, <1>6, <1>7, <1>8, StepCases, PlainSorts, PlainPasses

-----------------------------------------------------------------------------
(* The history: which attempts have begun.                                 *)

Past(b) == \E i \in DOMAIN order : b.phase = order[i] /\ (i < at \/ (i = at /\ b.attempt < attempt))

Current(b) == at \in DOMAIN order /\ b.phase = order[at] /\ b.attempt = attempt

Begun(b) == Past(b) \/ (Current(b) /\ pc # "brief")

\* Everything that is remembered is of an attempt that has begun, and until
\* its gate an attempt is not charged.
HistoryOK ==
    /\ \A b \in briefs : Begun(b)
    /\ \A b \in raised : Begun(b)
    /\ \A w \in worked : Begun(w)
    /\ \A t \in tasks : Begun(t)
    /\ \A c \in charges : Begun(c.key) /\ (pc = "gather" => Past(c.key))

\* An attempt is current or past, not both.
LEMMA CurrentIsNotPast ==
    ASSUME Plain, NEW b, Current(b) PROVE ~Past(b)
<1> SUFFICES ASSUME NEW i \in DOMAIN order, b.phase = order[i],
                    i < at \/ (i = at /\ b.attempt < attempt)
             PROVE  FALSE
  BY DEF Past
<1>1. i = at
  BY DEF Plain, OrderOK, Current
<1>2. b.attempt = attempt /\ attempt \in Nat /\ at \in Nat
  BY DEF Plain, TypeOK, Current
<1> QED
  BY <1>1, <1>2

\* What has begun stays so, whatever step is taken.
LEMMA BegunStays ==
    ASSUME Plain, [Next]_vars, NEW b, b.attempt \in Nat, Begun(b), pc # "sort"
    PROVE  Begun(b)'
<1>0. /\ at \in Nat /\ attempt \in Nat /\ order \in Seq(Phases) /\ DOMAIN order \subseteq Nat
      /\ Gathered => at \in DOMAIN order
  BY DEF Plain, TypeOK, OrderOK, Gathered
<1>1. CASE UNCHANGED <<order, at, attempt>> /\ (pc' # "brief" \/ pc = "brief")
  BY <1>1 DEF Begun, Past, Current
<1>2. CASE GatePass
  <2>1. order' = order /\ at' = at + 1
    BY <1>2 DEF GatePass
  <2> QED
    BY <1>0, <2>1 DEF Begun, Past, Current
<1>3. CASE Retries
  <2>1. order' = order /\ at' = at /\ attempt' = attempt + 1
    BY <1>3 DEF Retries
  <2> QED
    BY <1>0, <2>1 DEF Begun, Past, Current
<1>4. CASE SortEnds \/ SortPops
  BY <1>4 DEF SortEnds, SortPops
<1>5. CASE Brief \/ Complete \/ Stops
  BY <1>1, <1>5 DEF Brief, Complete, Stops, attemptVars
<1>6. ASSUME NEW t \in tasks, TaskStep(t) PROVE UNCHANGED <<order, pc, at, attempt>>
  BY <1>6 DEF TaskStep, TaskStarts, TaskReturns, TaskRaises, attemptVars
<1>7. CASE \E m \in Messages : Inject(m)
  BY <1>1, <1>7 DEF Inject, attemptVars
<1>8. CASE UNCHANGED vars
  BY <1>1, <1>8 DEF vars, attemptVars
<1> QED
  BY <1>0, <1>1, <1>2, <1>3, <1>4, <1>5, <1>6, <1>7, <1>8, StepCases DEF Plain

\* Steps from a state in which the order is complete; those before change none
\* of what is remembered.
LEMMA HistoryNext == ASSUME Plain, HistoryOK, [Next]_vars PROVE HistoryOK'
<1>0. /\ TypeOK /\ OrderOK /\ Plain'
      /\ Gathered => at \in DOMAIN order
  BY PlainNext DEF Plain, OrderOK, Gathered
<1>1. CASE pc = "sort"
  <2>1. tasks = {} /\ worked = {} /\ raised = {} /\ charges = {} /\ briefs = {}
    BY <1>0, <1>1 DEF OrderOK
  <2>2. tasks' = {} /\ worked' = {} /\ raised' = {} /\ charges' = {} /\ briefs' = {}
    <3>1. CASE SortPops \/ SortEnds
      BY <2>1, <3>1 DEF SortPops, SortEnds, taskVars, resultVars
    <3>2. CASE \E m \in Messages : Inject(m)
      BY <2>1, <3>2 DEF Inject, taskVars, resultVars
    <3>3. CASE UNCHANGED vars
      BY <2>1, <3>3 DEF vars, taskVars, resultVars
    <3> QED
      BY <1>0, <1>1, <2>1, <3>1, <3>2, <3>3, StepCases
         DEF Brief, Complete, GatePass, Stops, Retries, Gathered
  <2> QED
    BY <2>2 DEF HistoryOK
<1>2. CASE pc # "sort"
  <2>0. /\ \A b \in briefs : b.attempt \in Nat
        /\ \A b \in raised : b.attempt \in Nat
        /\ \A w \in worked : w.attempt \in Nat
        /\ \A t \in tasks : t.attempt \in Nat
        /\ \A c \in charges : c.key.attempt \in Nat
    BY <1>0 DEF TypeOK, Task, Attempt
  <2>1. /\ \A b \in briefs : Begun(b)'
        /\ \A b \in raised : Begun(b)'
        /\ \A w \in worked : Begun(w)'
        /\ \A t \in tasks : Begun(t)'
        /\ \A c \in charges : Begun(c.key)'
    BY <1>2, <2>0, BegunStays DEF HistoryOK
  <2>2. CASE Brief
    <3>1. /\ pc = "brief" /\ pc' = "gather" /\ at \in DOMAIN order
          /\ UNCHANGED <<order, at, attempt, worked, raised, charges>>
          /\ tasks' = tasks \cup
                {[phase |-> Phase, attempt |-> attempt, slot |-> i, state |-> "waiting"] : i \in 1 .. Tacticians(Phase)}
          /\ briefs' = briefs \cup {[phase |-> Phase, attempt |-> attempt, unit |-> uow']}
      BY <2>2 DEF Brief
    <3>2. (\A b \in briefs' : Begun(b)') /\ (\A t \in tasks' : Begun(t)')
      BY <2>1, <3>1 DEF Begun, Current, Phase
    <3>3. \A c \in charges : Past(c.key)'
      BY <3>1 DEF HistoryOK, Begun, Past
    <3> QED
      BY <2>1, <3>1, <3>2, <3>3 DEF HistoryOK
  <2>3. CASE GatePass \/ Stops \/ Retries
    <3>1. /\ Gathered /\ pc' # "gather" /\ UNCHANGED <<tasks, worked, raised, briefs>>
          /\ Charge \/ charges' = charges
      BY <2>3 DEF GatePass, Stops, Retries, taskVars
    <3>2. Begun(ChargeKey)
      BY <1>0, <3>1 DEF Begun, Current, ChargeKey, Batch, Phase, Gathered
    <3>3. PICK key : key = ChargeKey
      OBVIOUS
    <3>4. key.attempt \in Nat
      BY <1>0, <3>3 DEF ChargeKey, Batch, TypeOK
    <3>5. Begun(key)'
      BY <1>2, <3>2, <3>3, <3>4, BegunStays
    <3>6. \A c \in charges' : c \in charges \/ c.key = key
      BY <3>1, <3>3 DEF Charge, Charged, Refused
    <3> QED
      BY <2>1, <3>1, <3>5, <3>6 DEF HistoryOK
  <2>4. ASSUME NEW t \in tasks, TaskStep(t) PROVE HistoryOK'
    <3>1. UNCHANGED <<order, pc, at, attempt, briefs, charges>>
      BY <2>4 DEF TaskStep, TaskStarts, TaskReturns, TaskRaises, attemptVars, resultVars
    <3>2. Begun(t)' /\ t \in Task
      BY <1>0, <2>1 DEF TypeOK
    <3>3. /\ \A u \in tasks' : u \in tasks \/ (u.phase = t.phase /\ u.attempt = t.attempt)
          /\ \A w \in worked' : w \in worked \/ (w.phase = t.phase /\ w.attempt = t.attempt)
          /\ \A b \in raised' : b \in raised \/ (b.phase = t.phase /\ b.attempt = t.attempt)
      BY <2>4, <3>2 DEF TaskStep, TaskStarts, TaskReturns, TaskRaises, Task
    <3>4. /\ \A u \in tasks' : Begun(u)'
          /\ \A w \in worked' : Begun(w)'
          /\ \A b \in raised' : Begun(b)'
      BY <2>1, <3>1, <3>2, <3>3 DEF Begun, Past, Current
    <3>5. \A c \in charges : pc = "gather" => Past(c.key)'
      BY <3>1 DEF HistoryOK, Past
    <3> QED
      BY <2>1, <3>1, <3>4, <3>5 DEF HistoryOK
  <2>5. CASE Complete \/ UNCHANGED vars \/ \E m \in Messages : Inject(m)
    <3>1. UNCHANGED <<order, at, attempt, tasks, worked, raised, charges, briefs>> /\ (pc' = pc \/ pc' \in {"completed", "error"})
      BY <2>5 DEF Complete, Inject, vars, attemptVars, taskVars, resultVars
    <3>2. \A c \in charges : pc' = "gather" => Past(c.key)'
      BY <3>1 DEF HistoryOK, Past
    <3> QED
      BY <2>1, <3>1, <3>2 DEF HistoryOK
  <2> QED
    BY <1>0, <1>2, <2>2, <2>3, <2>4, <2>5, StepCases DEF SortPops, SortEnds
<1> QED
  BY <1>1, <1>2

\* What a phase depends on comes before it in the order.
LEMMA HistoryDeps == ASSUME Plain, HistoryOK PROVE DepsPassed
<1> SUFFICES ASSUME NEW b \in briefs, NEW d \in strat.deps[b.phase] PROVE d \in DOMAIN outputs
  BY DEF DepsPassed
<1>1. PICK i \in DOMAIN order : b.phase = order[i] /\ i <= at
  BY DEF HistoryOK, Begun, Past, Current, Plain, TypeOK
<1>2. PICK j \in DOMAIN order : j < i /\ order[j] = d
  BY <1>1 DEF Plain, OrderOK
<1>3. j < at
  BY <1>1, <1>2 DEF Plain, TypeOK
<1> QED
  BY <1>2, <1>3 DEF Plain, PassedOK

-----------------------------------------------------------------------------
(* Corrections and tactics.                                                *)

RetryOK ==
    /\ attempt <= ReplanLimit(strat.depth)
    /\ attempt > 0 => uow.hint \/ uow.override # Nothing
    /\ CorrectedRetry

\* The tactics of the phase so far are used, and the next one is another.
TacticsOK ==
    /\ uow.override # Nothing =>
         uow.override \in used /\ at \in DOMAIN order /\ strat.onFail[Phase] = "swap_tactic"
    /\ \A b \in briefs : at \in DOMAIN order /\ b.phase = Phase /\ b.unit.override # Nothing =>
         b.unit.override \in used /\ (pc = "brief" => b.unit.override # uow.override)
    /\ TacticsFresh

\* In the first attempt of a phase nothing of it has begun.
LEMMA NewPhase ==
    ASSUME Plain, HistoryOK, GatePass, NEW b \in briefs, at' \in DOMAIN order, b.phase = order[at']
    PROVE  FALSE
<1>1. at \in DOMAIN order /\ at' = at + 1 /\ at \in Nat /\ DOMAIN order \subseteq Nat
  BY DEF Plain, OrderOK, TypeOK, GatePass, Gathered
<1>2. PICK i \in DOMAIN order : b.phase = order[i] /\ i <= at
  BY <1>1 DEF HistoryOK, Begun, Past, Current
<1>3. i = at'
  BY <1>2 DEF Plain, OrderOK
<1> QED
  BY <1>1, <1>2, <1>3

LEMMA RetryNext == ASSUME Plain, HistoryOK, RetryOK, [Next]_vars PROVE RetryOK'
<1>0. TypeOK /\ (Gathered => at \in DOMAIN order)
  BY DEF Plain, OrderOK, Gathered
<1>1. CASE Brief
  <2>1. /\ uow' = [uow EXCEPT !.directives = @ \cup pending]
        /\ briefs' = briefs \cup {[phase |-> Phase, attempt |-> attempt, unit |-> uow']}
        /\ attempt' = attempt /\ strat' = strat
    BY <1>1 DEF Brief, Overlay
  <2>2. uow'.hint = uow.hint /\ uow'.override = uow.override
    BY <1>0, <2>1 DEF TypeOK
  <2>3. ASSUME NEW b \in briefs' PROVE /\ b.attempt <= ReplanLimit(strat.depth)
                                       /\ b.attempt > 0 => b.unit.hint \/ b.unit.override # Nothing
    <3>1. CASE b \in briefs
      BY <3>1 DEF RetryOK, CorrectedRetry
    <3>2. CASE b = [phase |-> Phase, attempt |-> attempt, unit |-> uow']
      <4>1. b.attempt = attempt /\ b.unit = uow'
        BY <3>2
      <4>2. b.unit.hint = uow.hint /\ b.unit.override = uow.override
        BY <2>2, <4>1
      <4> QED
        BY <4>1, <4>2, Zenon DEF RetryOK
    <3> QED
      BY <2>1, <2>3, <3>1, <3>2
  <2>4. CorrectedRetry'
    BY <2>1, <2>3, Zenon DEF CorrectedRetry
  <2>5. attempt' > 0 => uow'.hint \/ uow'.override # Nothing
    BY <2>1, <2>2, Zenon DEF RetryOK
  <2>6. attempt' <= ReplanLimit(strat'.depth)
    BY <2>1, Zenon DEF RetryOK
  <2> QED
    BY <2>4, <2>5, <2>6 DEF RetryOK
<1>2. CASE GatePass
  <2>1. attempt' = 0 /\ briefs' = briefs /\ strat' = strat /\ uow' = FreshUow
    BY <1>2 DEF GatePass
  <2>2. 0 <= ReplanLimit(strat.depth)
    BY DEF ReplanLimit
  <2> QED
    BY <2>1, <2>2 DEF RetryOK, CorrectedRetry
<1>3. CASE Retries
  <2>1. attempt' = attempt + 1 /\ briefs' = briefs /\ strat' = strat /\ MayReplan /\ attempt \in Nat
    BY <1>0, <1>3 DEF Retries, TypeOK
  <2>2. attempt' <= ReplanLimit(strat.depth)
    BY <2>1 DEF MayReplan, ReplanLimit
  <2>3. uow'.hint \/ uow'.override # Nothing
    BY <1>0, <1>3 DEF Retries, Correction, TypeOK
  <2> QED
    BY <2>1, <2>2, <2>3 DEF RetryOK, CorrectedRetry
<1>4. ASSUME UNCHANGED <<strat, attempt, uow, briefs>> PROVE RetryOK'
  BY <1>4 DEF RetryOK, CorrectedRetry
<1>5. CASE SortPops \/ SortEnds \/ Complete \/ Stops \/ (\E m \in Messages : Inject(m)) \/ UNCHANGED vars
  BY <1>4, <1>5 DEF SortPops, SortEnds, Complete, Stops, Inject, vars, attemptVars, resultVars
<1>6. CASE \E t \in tasks : TaskStep(t)
  BY <1>4, <1>6 DEF TaskStep, TaskStarts, TaskReturns, TaskRaises, attemptVars, resultVars
<1> QED
  BY <1>0, <1>1, <1>2, <1>3, <1>5, <1>6, StepCases

LEMMA TacticsNext == ASSUME Plain, HistoryOK, TacticsOK, [Next]_vars PROVE TacticsOK'
<1>0. TypeOK /\ (Gathered => at \in DOMAIN order)
  BY DEF Plain, OrderOK, Gathered
<1>1. CASE Brief
  <2>1. /\ uow' = [uow EXCEPT !.directives = @ \cup pending]
        /\ briefs' = briefs \cup {[phase |-> Phase, attempt |-> attempt, unit |-> uow']}
        /\ UNCHANGED <<strat, order, at, attempt, used>> /\ pc = "brief" /\ pc' = "gather" /\ at \in DOMAIN order
    BY <1>1 DEF Brief, Overlay
  <2>2. uow'.override = uow.override /\ Phase' = Phase
    BY <1>0, <2>1 DEF TypeOK, Phase
  <2>3. \A b \in briefs : b.phase = Phase /\ b.unit.override # Nothing => b.unit.override # uow.override
    BY <2>1 DEF TacticsOK
  <2>4. PICK e : e = [phase |-> Phase, attempt |-> attempt, unit |-> uow']
    OBVIOUS
  <2>5. e.phase = Phase /\ e.unit.override = uow.override /\ briefs' = briefs \cup {e}
    BY <2>1, <2>2, <2>4
  <2>6. TacticsFresh'
    <3> SUFFICES ASSUME NEW b \in briefs', NEW c \in briefs', b.phase = c.phase, b.attempt # c.attempt,
                        b.unit.override # Nothing
                 PROVE  b.unit.override # c.unit.override
      BY DEF TacticsFresh
    <3>1. CASE b \in briefs /\ c \in briefs
      BY <3>1 DEF TacticsOK, TacticsFresh
    <3>2. CASE b \in briefs /\ c = e
      BY <2>3, <2>5, <3>2
    <3>3. CASE b = e /\ c \in briefs
      BY <2>3, <2>5, <3>3
    <3> QED
      BY <2>5, <3>1, <3>2, <3>3
  <2>7. \A b \in briefs' : b.phase = Phase /\ b.unit.override # Nothing => b.unit.override \in used
    BY <2>1, <2>5 DEF TacticsOK
  <2>8. uow'.override # Nothing => uow'.override \in used /\ strat.onFail[Phase] = "swap_tactic"
    BY <2>2 DEF TacticsOK
  <2> QED
    BY <2>1, <2>2, <2>6, <2>7, <2>8 DEF TacticsOK
<1>2. CASE GatePass
  <2>1. /\ UNCHANGED <<strat, order, briefs>> /\ uow' = FreshUow
    BY <1>2 DEF GatePass
  <2>2. uow'.override = Nothing
    BY <2>1 DEF FreshUow
  <2>3. \A b \in briefs' : ~(at' \in DOMAIN order' /\ b.phase = Phase')
    BY <1>2, <2>1, NewPhase DEF Phase
  <2> QED
    BY <2>1, <2>2, <2>3 DEF TacticsOK, TacticsFresh
<1>3. CASE Retries
  <2>1. /\ UNCHANGED <<strat, order, at, briefs>> /\ at \in DOMAIN order /\ Phase' = Phase /\ Correction
    BY <1>0, <1>3 DEF Retries, Phase
  <2>2. CASE strat.onFail[Phase] = "replan" /\ uow' = [uow EXCEPT !.hint = TRUE] /\ used' = used
    <3>1. uow'.override = uow.override /\ uow.override = Nothing
      BY <1>0, <2>2 DEF TypeOK, TacticsOK
    <3> QED
      BY <2>1, <2>2, <3>1 DEF TacticsOK, TacticsFresh
  <2>3. ASSUME NEW tactic \in Tactics \ used, strat.onFail[Phase] = "swap_tactic",
               uow' = [uow EXCEPT !.override = tactic], used' = Remember(tactic)
        PROVE  TacticsOK'
    <3>1. uow'.override = tactic /\ used \subseteq used' /\ tactic \in used'
      BY <1>0, <2>3 DEF TypeOK, Remember
    <3> QED
      BY <2>1, <2>3, <3>1 DEF TacticsOK, TacticsFresh
  <2> QED
    BY <2>1, <2>2, <2>3 DEF Correction
<1>4. ASSUME UNCHANGED <<strat, at, uow, used, briefs>>, UNCHANGED order, pc' # "brief" \/ pc = "brief" PROVE TacticsOK'
  BY <1>4 DEF TacticsOK, TacticsFresh, Phase
<1>5. CASE Complete \/ Stops \/ (\E m \in Messages : Inject(m)) \/ UNCHANGED vars
  BY <1>4, <1>5 DEF Complete, Stops, Inject, vars, attemptVars, resultVars
<1>6. CASE \E t \in tasks : TaskStep(t)
  BY <1>4, <1>6 DEF TaskStep, TaskStarts, TaskReturns, TaskRaises, attemptVars, resultVars
<1>7. CASE SortPops \/ SortEnds
  <2>1. briefs = {} /\ briefs' = {} /\ uow = FreshUow /\ uow' = uow
    BY <1>7 DEF Plain, OrderOK, SortPops, SortEnds, attemptVars, resultVars
  <2> QED
    BY <2>1 DEF TacticsOK, TacticsFresh, FreshUow
<1> QED
  BY <1>0, <1>1, <1>2, <1>3, <1>5, <1>6, <1>7, StepCases
-----------------------------------------------------------------------------
(* Directives.                                                             *)

\* What is drained was not drained before, and what is carried over to the
\* next attempt is in the briefs of the phase.
DirectivesOK ==
    /\ \A b \in briefs : b.unit.directives \cap pending = {}
    /\ \A b \in briefs : at \in DOMAIN order /\ b.phase = Phase => b.unit.directives \subseteq uow.directives
    /\ \A x \in uow.directives : \E b \in briefs : at \in DOMAIN order /\ b.phase = Phase /\ x \in b.unit.directives
    /\ DirectiveKept

LEMMA DirectivesNext == ASSUME Plain, HistoryOK, DirectivesOK, [Next]_vars PROVE DirectivesOK'
<1>0. TypeOK /\ (Gathered => at \in DOMAIN order)
  BY DEF Plain, OrderOK, Gathered
<1>1. CASE Brief
  <2>1. /\ uow' = [uow EXCEPT !.directives = @ \cup pending] /\ pending' = {}
        /\ briefs' = briefs \cup {[phase |-> Phase, attempt |-> attempt, unit |-> uow']}
        /\ UNCHANGED <<order, at, attempt, sent>> /\ pc = "brief" /\ at \in DOMAIN order
    BY <1>1 DEF Brief, Overlay
  <2>2. uow'.directives = uow.directives \cup pending /\ Phase' = Phase
    BY <1>0, <2>1 DEF TypeOK, Phase
  <2>3. PICK e : e = [phase |-> Phase, attempt |-> attempt, unit |-> uow']
    OBVIOUS
  <2>4. /\ e.phase = Phase /\ e.attempt = attempt /\ e.unit.directives = uow.directives \cup pending
        /\ briefs' = briefs \cup {e}
    BY <2>1, <2>2, <2>3
  <2>5. sent' = pending' \cup UNION {b.unit.directives : b \in briefs'}
    <3>1. sent = pending \cup UNION {b.unit.directives : b \in briefs}
      BY DEF DirectivesOK, DirectiveKept
    <3>2. uow.directives \subseteq UNION {b.unit.directives : b \in briefs}
      BY DEF DirectivesOK
    <3> QED
      BY <2>1, <2>4, <3>1, <3>2
  <2>6. ASSUME NEW b \in briefs
        PROVE  IF b.phase # e.phase THEN b.unit.directives \cap e.unit.directives = {}
               ELSE b.unit.directives \subseteq e.unit.directives /\ b.attempt < e.attempt
    <3>1. CASE b.phase # Phase
      <4>1. b.unit.directives \cap uow.directives = {}
        BY <3>1 DEF DirectivesOK, DirectiveKept
      <4> QED
        BY <2>4, <3>1, <4>1 DEF DirectivesOK
    <3>2. CASE b.phase = Phase
      <4>1. Past(b)
        BY <2>1 DEF HistoryOK, Begun
      <4>2. PICK i \in DOMAIN order : b.phase = order[i] /\ (i < at \/ (i = at /\ b.attempt < attempt))
        BY <4>1 DEF Past
      <4>3. i = at
        BY <2>1, <3>2, <4>2 DEF Phase, Plain, OrderOK
      <4>4. b.attempt < attempt
        BY <1>0, <4>2, <4>3 DEF TypeOK
      <4> QED
        BY <2>1, <2>4, <3>2, <4>4 DEF DirectivesOK
    <3> QED
      BY <3>1, <3>2
  <2>7. DirectiveKept'
    <3> SUFFICES ASSUME NEW b \in briefs', NEW c \in briefs'
                 PROVE  IF b.phase # c.phase THEN b.unit.directives \cap c.unit.directives = {}
                        ELSE b.attempt <= c.attempt => b.unit.directives \subseteq c.unit.directives
      BY <2>5 DEF DirectiveKept
    <3>1. CASE b \in briefs /\ c \in briefs
      BY <3>1 DEF DirectivesOK, DirectiveKept
    <3>2. CASE b \in briefs /\ c = e
      BY <2>6, <3>2
    <3>3. CASE b = e /\ c \in briefs
      <4>1. c.attempt \in Nat /\ attempt \in Nat
        BY <1>0, <3>3 DEF TypeOK
      <4> QED
        BY <2>4, <2>6, <3>3, <4>1
    <3> QED
      BY <2>4, <3>1, <3>2, <3>3
  <2>8. \A b \in briefs' : b.phase = Phase => b.unit.directives \subseteq uow'.directives
    BY <2>2, <2>4, <2>6
  <2>9. \A x \in uow'.directives : e \in briefs' /\ e.phase = Phase /\ x \in e.unit.directives
    BY <2>2, <2>4
  <2> QED
    BY <2>1, <2>2, <2>7, <2>8, <2>9 DEF DirectivesOK
<1>2. CASE GatePass
  <2>1. UNCHANGED <<order, briefs, sent, pending>> /\ uow' = FreshUow
    BY <1>2 DEF GatePass
  <2>2. uow'.directives = {}
    BY <2>1 DEF FreshUow
  <2>3. \A b \in briefs' : ~(at' \in DOMAIN order' /\ b.phase = Phase')
    BY <1>2, <2>1, NewPhase DEF Phase
  <2> QED
    BY <2>1, <2>2, <2>3 DEF DirectivesOK, DirectiveKept
<1>3. ASSUME UNCHANGED <<order, at, briefs, sent, pending>>, uow'.directives = uow.directives PROVE DirectivesOK'
  BY <1>3 DEF DirectivesOK, DirectiveKept, Phase
<1>4. CASE Retries
  <2>1. uow'.directives = uow.directives
    BY <1>0, <1>4 DEF Retries, Correction, TypeOK
  <2> QED
    BY <1>3, <1>4, <2>1 DEF Retries
<1>5. CASE SortEnds \/ Complete \/ Stops \/ UNCHANGED vars
  BY <1>3, <1>5 DEF SortEnds, Complete, Stops, vars, attemptVars, resultVars
<1>6. CASE \E t \in tasks : TaskStep(t)
  BY <1>3, <1>6 DEF TaskStep, TaskStarts, TaskReturns, TaskRaises, attemptVars, resultVars
<1>7. CASE SortPops
  <2>1. briefs = {} /\ briefs' = {} /\ uow' = uow /\ sent' = sent /\ pending' = pending /\ uow.directives = {}
    BY <1>7 DEF Plain, OrderOK, SortPops, attemptVars, resultVars, FreshUow
  <2> QED
    BY <2>1 DEF DirectivesOK, DirectiveKept
<1>8. ASSUME NEW m \in Messages, Inject(m) PROVE DirectivesOK'
  <2>1. /\ m \notin sent /\ sent' = sent \cup {m} /\ pending' = pending \cup {m}
        /\ UNCHANGED <<order, at, uow, briefs>> /\ Phase' = Phase
    BY <1>8 DEF Inject, attemptVars, resultVars, Phase
  <2>2. \A b \in briefs : m \notin b.unit.directives
    BY <2>1 DEF DirectivesOK, DirectiveKept
  <2> QED
    BY <2>1, <2>2 DEF DirectivesOK, DirectiveKept
<1> QED
  BY <1>0, <1>1, <1>2, <1>4, <1>5, <1>6, <1>7, <1>8, StepCases

-----------------------------------------------------------------------------
(* Tacticians: whose they are, what they returned, and who raised.         *)

BatchOf(t) == [phase |-> t.phase, attempt |-> t.attempt]

\* A tactician that outlives its attempt had a sibling that raised; until one
\* raises, every tactician that returned is among the outputs.
TasksOK ==
    /\ \A t \in tasks : (pc = "gather" /\ OfBatch(t)) \/ BatchOf(t) \in raised
    /\ pc = "gather" => IF Batch \in raised THEN outs = {}
                        ELSE \A w \in worked : OfBatch(w) => \E o \in outs : o.slot = w.slot

LEMMA TasksNext == ASSUME Plain, HistoryOK, TasksOK, [Next]_vars PROVE TasksOK'
<1>0. TypeOK /\ (Gathered => at \in DOMAIN order)
  BY DEF Plain, OrderOK, Gathered
<1>1. CASE Brief
  <2>1. /\ pc = "brief" /\ pc' = "gather" /\ at \in DOMAIN order /\ UNCHANGED <<order, at, attempt, raised, worked>>
        /\ outs' = {} /\ tasks' = tasks \cup
                {[phase |-> Phase, attempt |-> attempt, slot |-> i, state |-> "waiting"] : i \in 1 .. Tacticians(Phase)}
    BY <1>1 DEF Brief
  <2>2. \A t \in tasks' : OfBatch(t)' \/ BatchOf(t) \in raised
    BY <2>1 DEF TasksOK, OfBatch, Phase
  <2>3. \A w \in worked : ~OfBatch(w)'
    <3> SUFFICES ASSUME NEW w \in worked, OfBatch(w) PROVE FALSE
      BY <2>1 DEF OfBatch, Phase
    <3>1. Past(w) /\ Current(w)
      BY <2>1 DEF HistoryOK, Begun, Current, OfBatch, Phase
    <3> QED
      BY <3>1, CurrentIsNotPast
  <2> QED
    BY <2>1, <2>2, <2>3 DEF TasksOK, BatchOf
<1>2. CASE GatePass \/ Stops \/ Retries
  <2>1. Gathered /\ pc' # "gather" /\ UNCHANGED <<tasks, raised>>
    BY <1>2 DEF GatePass, Stops, Retries, taskVars
  <2>2. \A t \in tasks : OfBatch(t) => BatchOf(t) \in raised
    BY <2>1 DEF Gathered, BatchOf, Batch, OfBatch
  <2> QED
    BY <2>1, <2>2 DEF TasksOK, BatchOf
<1>3. CASE Complete \/ UNCHANGED vars \/ SortPops \/ SortEnds \/ (\E m \in Messages : Inject(m))
  <2>1. UNCHANGED <<tasks, outs, worked, raised, at, attempt>>
        /\ (pc' = pc \/ (pc # "gather" /\ pc' # "gather")) /\ (pc = "gather" => order' = order)
    BY <1>3 DEF Complete, vars, SortPops, SortEnds, Inject, attemptVars, taskVars, resultVars
  <2> QED
    BY <2>1 DEF TasksOK, OfBatch, BatchOf, Batch, Phase
<1>4. ASSUME NEW t \in tasks, TaskStep(t) PROVE TasksOK'
  <2>1. UNCHANGED <<order, pc, at, attempt>> /\ Phase' = Phase /\ Batch' = Batch /\ t \in Task
    BY <1>0, <1>4 DEF TaskStep, TaskStarts, TaskReturns, TaskRaises, attemptVars, resultVars, Phase, Batch, TypeOK
  <2>2. CASE TaskStarts(t)
    <3>1. /\ tasks' = (tasks \ {t}) \cup {[t EXCEPT !.state = "running"]}
          /\ UNCHANGED <<outs, worked, raised>>
      BY <2>2 DEF TaskStarts
    <3>2. \A u \in tasks' : \E v \in tasks : u.phase = v.phase /\ u.attempt = v.attempt
      BY <2>1, <3>1 DEF Task
    <3> QED
      BY <2>1, <3>1, <3>2 DEF TasksOK, OfBatch, BatchOf
  <2>3. CASE TaskRaises(t)
    <3>1. /\ tasks' = tasks \ {t} /\ raised' = raised \cup {BatchOf(t)} /\ worked' = worked
          /\ outs' = IF pc = "gather" /\ OfBatch(t) THEN {} ELSE outs
      BY <2>3 DEF TaskRaises, BatchOf
    <3>2. CASE pc = "gather" /\ OfBatch(t)
      BY <2>1, <3>1, <3>2 DEF TasksOK, OfBatch, BatchOf, Batch
    <3>3. CASE ~(pc = "gather" /\ OfBatch(t))
      BY <2>1, <3>1, <3>3 DEF TasksOK, OfBatch, BatchOf
    <3> QED
      BY <3>2, <3>3
  <2>4. ASSUME NEW found \in Outputs, TaskReturns(t, found) PROVE TasksOK'
    <3>1. PICK w : w = [phase |-> t.phase, attempt |-> t.attempt, slot |-> t.slot]
      OBVIOUS
    <3>2. /\ tasks' = tasks \ {t} /\ raised' = raised /\ worked' = worked \cup {w}
          /\ outs' = IF pc = "gather" /\ OfBatch(t) /\ Batch \notin raised
                     THEN outs \cup {[slot |-> t.slot, found |-> found]} ELSE outs
      BY <2>4, <3>1 DEF TaskReturns
    <3>3. w.phase = t.phase /\ w.attempt = t.attempt /\ w.slot = t.slot
      BY <3>1
    <3>4. \A u \in tasks' : (pc' = "gather" /\ OfBatch(u)') \/ BatchOf(u)' \in raised'
      BY <2>1, <3>2 DEF TasksOK, OfBatch, BatchOf
    <3>5. CASE pc = "gather" /\ Batch \in raised
      <4>1. outs' = {}
        BY <3>2, <3>5 DEF TasksOK
      <4> QED
        BY <2>1, <3>2, <3>4, <3>5, <4>1 DEF TasksOK
    <3>6. CASE pc = "gather" /\ Batch \notin raised
      <4>1. \A v \in worked : OfBatch(v) => \E o \in outs' : o.slot = v.slot
        BY <3>2, <3>6 DEF TasksOK
      <4>2. OfBatch(w) => \E o \in outs' : o.slot = w.slot
        <5> SUFFICES ASSUME OfBatch(w) PROVE \E o \in outs' : o.slot = w.slot
          OBVIOUS
        <5>1. PICK o : o = [slot |-> t.slot, found |-> found]
          OBVIOUS
        <5>2. o.slot = w.slot /\ o \in outs'
          BY <3>2, <3>3, <3>6, <5>1 DEF OfBatch
        <5> QED
          BY <5>2
      <4>3. \A v : OfBatch(v)' <=> OfBatch(v)
        BY <2>1 DEF OfBatch
      <4>5. worked' = worked \cup {w}
        BY <3>2
      <4>6. \A v \in worked' : OfBatch(v)' => \E o \in outs' : o.slot = v.slot
        BY <4>1, <4>2, <4>3, <4>5, Zenon
      <4>4. Batch' \notin raised'
        BY <2>1, <3>2, <3>6
      <4> QED
        BY <3>4, <4>4, <4>6 DEF TasksOK
    <3>7. CASE pc # "gather"
      BY <2>1, <3>4, <3>7 DEF TasksOK
    <3> QED
      BY <3>5, <3>6, <3>7
  <2> QED
    BY <1>4, <2>2, <2>3, <2>4 DEF TaskStep
<1> QED
  BY <1>0, <1>1, <1>2, <1>3, <1>4, StepCases

\* Until its gate nobody has paid for the current attempt.
LEMMA KeyIsFresh ==
    ASSUME Plain, HistoryOK, pc = "gather" PROVE \A c \in charges : c.key # ChargeKey
<1> SUFFICES ASSUME NEW c \in charges, c.key = ChargeKey PROVE FALSE
  OBVIOUS
<1>1. Past(c.key)
  BY DEF HistoryOK
<1>2. Current(c.key)
  BY DEF Plain, OrderOK, Current, ChargeKey, Batch, Phase
<1> QED
  BY <1>1, <1>2, CurrentIsNotPast

\* What WorkIsCharged asks of one attempt's work, and of one charge.
Paid(w) ==
    \/ BatchOf(w) \in raised \cup refused
    \/ pc \in {"gather", "error"} /\ at \in DOMAIN order /\ BatchOf(w) = Batch
    \/ \E c \in charges : c.key = BatchOf(w)

Exact(c) == c.slots = IF c.key \in raised THEN {} ELSE WorkOf(c.key)

LEMMA WorkIsPaid == WorkIsCharged <=> (\A c \in charges : Exact(c)) /\ \A w \in worked : Paid(w)
  BY DEF WorkIsCharged, Paid, Exact, BatchOf

\* While tacticians are gathered, every output is of one that returned.
OutsWorked == pc = "gather" => \A o \in outs : \E w \in worked : OfBatch(w) /\ w.slot = o.slot

LEMMA OutsNext == ASSUME Plain, OutsWorked, [Next]_vars PROVE OutsWorked'
<1>0. TypeOK /\ (Gathered => at \in DOMAIN order)
  BY DEF Plain, OrderOK, Gathered
<1>1. CASE Brief
  BY <1>1 DEF Brief, OutsWorked
<1>2. CASE UNCHANGED <<order, pc, at, attempt, outs, worked>> \/ pc' # "gather"
  BY <1>2 DEF OutsWorked, OfBatch, Phase
<1>3. CASE SortPops \/ SortEnds \/ Complete \/ GatePass \/ Stops \/ Retries
  BY <1>2, <1>3 DEF SortPops, SortEnds, Complete, GatePass, Stops, Retries
<1>4. CASE UNCHANGED vars \/ \E m \in Messages : Inject(m)
  BY <1>2, <1>4 DEF Inject, vars, attemptVars, taskVars
<1>5. ASSUME NEW t \in tasks, TaskStep(t) PROVE OutsWorked'
  <2>1. UNCHANGED <<order, pc, at, attempt>> /\ Phase' = Phase
    BY <1>5 DEF TaskStep, TaskStarts, TaskReturns, TaskRaises, attemptVars, Phase
  <2>2. CASE worked' = worked /\ outs' \subseteq outs
    BY <2>1, <2>2 DEF OutsWorked, OfBatch
  <2>3. ASSUME NEW found \in Outputs, TaskReturns(t, found) PROVE OutsWorked'
    <3>1. PICK w : w = [phase |-> t.phase, attempt |-> t.attempt, slot |-> t.slot]
      OBVIOUS
    <3>2. w.phase = t.phase /\ w.attempt = t.attempt /\ w.slot = t.slot /\ worked' = worked \cup {w}
      BY <2>3, <3>1 DEF TaskReturns
    <3>3. \A o \in outs' : o \in outs \/ (o.slot = w.slot /\ pc = "gather" /\ OfBatch(t))
      BY <2>3, <3>2 DEF TaskReturns
    <3> QED
      BY <2>1, <3>2, <3>3 DEF OutsWorked, OfBatch
  <2> QED
    BY <1>5, <2>2, <2>3 DEF TaskStep, TaskStarts, TaskRaises
<1> QED
  BY <1>0, <1>1, <1>3, <1>4, <1>5, StepCases

\* What a gate charges is what its attempt has worked.
LEMMA ChargeExact ==
    ASSUME Plain, HistoryOK, TasksOK, OutsWorked, pc = "gather", at \in DOMAIN order
    PROVE  {o.slot : o \in outs} = IF Batch \in raised THEN {} ELSE WorkOf(Batch)
<1>1. CASE Batch \in raised
  BY <1>1 DEF TasksOK
<1>2. CASE Batch \notin raised
  <2>1. \A w \in worked : OfBatch(w) <=> w.phase = Batch.phase /\ w.attempt = Batch.attempt
    BY DEF OfBatch, Batch
  <2>2. \A w \in worked : OfBatch(w) => \E o \in outs : o.slot = w.slot
    BY <1>2 DEF TasksOK
  <2> QED
    BY <1>2, <2>1, <2>2 DEF OutsWorked, WorkOf
<1> QED
  BY <1>1, <1>2

LEMMA WorkNext ==
    ASSUME Plain, HistoryOK, TasksOK, OutsWorked, WorkIsCharged, [Next]_vars PROVE WorkIsCharged'
<1>0. /\ TypeOK /\ (Gathered => at \in DOMAIN order)
      /\ \A c \in charges : Exact(c)
      /\ \A w \in worked : Paid(w)
  BY WorkIsPaid DEF Plain, OrderOK, Gathered
<1>a. SUFFICES (\A c \in charges' : Exact(c)') /\ \A w \in worked' : Paid(w)'
  BY DEF WorkIsCharged, Paid, Exact, BatchOf
<1>1. CASE GatePass \/ Stops \/ Retries
  <2>1. /\ Gathered /\ pc = "gather" /\ at \in DOMAIN order /\ UNCHANGED <<order, raised, worked>>
        /\ \/ Charge
           \/ pc' = "error" /\ UNCHANGED <<at, attempt, charges, refused>>
    BY <1>0, <1>1 DEF GatePass, Stops, Retries, taskVars, attemptVars, Gathered
  <2>2. CASE pc' = "error" /\ UNCHANGED <<at, attempt, charges, refused>>
    BY <1>0, <2>1, <2>2 DEF Paid, Exact, WorkOf, BatchOf, Batch, Phase
  <2>3. CASE Charged
    <3>1. PICK c : c = [key |-> ChargeKey, slots |-> {o.slot : o \in outs}]
      OBVIOUS
    <3>2. charges' = charges \cup {c} /\ refused' = refused
      BY <2>1, <2>3, <3>1, KeyIsFresh DEF Charged
    <3>3. c.key = Batch /\ Exact(c)
      BY <2>1, <3>1, ChargeExact DEF Exact, ChargeKey
    <3>4. \A d \in charges' : Exact(d)'
      BY <1>0, <2>1, <3>2, <3>3 DEF Exact, WorkOf
    <3>5. ASSUME NEW w \in worked PROVE Paid(w)'
      BY <1>0, <2>1, <3>2, <3>3 DEF Paid, BatchOf
    <3> QED
      BY <2>1, <3>4, <3>5
  <2>4. CASE Refused
    <3>1. charges' = charges /\ refused' = refused \cup {Batch}
      BY <2>4 DEF Refused
    <3> QED
      BY <1>0, <2>1, <3>1 DEF Paid, Exact, WorkOf, BatchOf
  <2> QED
    BY <2>1, <2>2, <2>3, <2>4 DEF Charge
<1>2. CASE UNCHANGED <<worked, raised, charges, refused>> /\ pc \notin {"gather", "error"}
  BY <1>0, <1>2 DEF Paid, Exact, WorkOf, BatchOf
<1>3. CASE UNCHANGED <<order, pc, at, attempt, worked, raised, charges, refused>>
  BY <1>0, <1>3 DEF Paid, Exact, WorkOf, BatchOf, Batch, Phase
<1>4. CASE SortPops \/ SortEnds \/ Brief \/ Complete
  BY <1>2, <1>4 DEF SortPops, SortEnds, Brief, Complete, taskVars, resultVars
<1>5. CASE UNCHANGED vars \/ \E m \in Messages : Inject(m)
  BY <1>3, <1>5 DEF Inject, vars, attemptVars, taskVars, resultVars
<1>6. ASSUME NEW t \in tasks, TaskStep(t)
      PROVE  (\A c \in charges' : Exact(c)') /\ \A w \in worked' : Paid(w)'
  <2>1. /\ UNCHANGED <<order, pc, at, attempt, charges, refused>> /\ raised \subseteq raised' /\ Batch' = Batch
        /\ pc = "gather" => at \in DOMAIN order
    BY <1>6 DEF TaskStep, TaskStarts, TaskReturns, TaskRaises, attemptVars, resultVars, Phase, Batch, Plain, OrderOK
  <2>2. \A w \in worked : Paid(w)'
    BY <1>0, <2>1 DEF Paid, BatchOf
  <2>3. BatchOf(t) \in raised \/ (pc = "gather" /\ BatchOf(t) = Batch)
    BY DEF TasksOK, OfBatch, BatchOf, Batch
  <2>4. ASSUME NEW w \in worked', w.phase = t.phase, w.attempt = t.attempt PROVE Paid(w)'
    <3>1. BatchOf(w) = BatchOf(t)
      BY <2>4 DEF BatchOf
    <3> QED
      BY <2>1, <2>3, <3>1 DEF Paid, BatchOf
  <2>5. /\ \A w \in worked' : w \in worked \/ (w.phase = t.phase /\ w.attempt = t.attempt)
        /\ worked \subseteq worked'
        /\ \A b \in raised' : b \in raised \/ b = BatchOf(t)
    BY <1>6 DEF TaskStep, TaskStarts, TaskReturns, TaskRaises, BatchOf
  <2>6. ASSUME NEW c \in charges PROVE Exact(c)'
    <3>1. CASE c.key \in raised
      BY <1>0, <2>1, <3>1 DEF Exact
    <3>2. CASE c.key \notin raised
      <4>1. c.key # BatchOf(t)
        BY <2>3, <3>2, KeyIsFresh DEF ChargeKey
      <4>2. c.key \notin raised'
        BY <2>5, <3>2, <4>1
      <4>3. c.key \in Attempt
        BY <1>0 DEF TypeOK
      <4>4. ~(c.key.phase = t.phase /\ c.key.attempt = t.attempt)
        BY <4>1, <4>3 DEF BatchOf, Attempt
      <4>5. WorkOf(c.key)' = WorkOf(c.key)
        BY <2>1, <2>5, <4>4 DEF WorkOf
      <4> QED
        BY <1>0, <2>1, <3>2, <4>2, <4>5 DEF Exact
    <3> QED
      BY <3>1, <3>2
  <2> QED
    BY <2>1, <2>2, <2>4, <2>5, <2>6
<1> QED
  BY <1>0, <1>1, <1>3, <1>4, <1>5, <1>6, StepCases

\* The gate is shut on an attempt without outputs, whatever its checks.
LEMMA NoOutputsNoPass ==
    ASSUME NEW checks, NEW role, NEW quiet, NEW dial PROVE ~GatePasses(checks, {}, role, quiet, dial)
  BY DEF GatePasses, NoBrainWork, NoToolCallsRequired, AggregatedFindings

\* The attempt that is under way was briefed.
RaiseOK ==
    /\ pc = "gather" => \E c \in briefs : c.phase = Phase /\ c.attempt = attempt
    /\ RaiseNeverPasses

LEMMA RaiseNext == ASSUME Plain, HistoryOK, TasksOK, RaiseOK, [Next]_vars PROVE RaiseOK'
<1>0. TypeOK /\ (Gathered => at \in DOMAIN order)
  BY DEF Plain, OrderOK, Gathered
<1>1. CASE Brief
  <2>1. /\ briefs' = briefs \cup {[phase |-> Phase, attempt |-> attempt, unit |-> uow']}
        /\ UNCHANGED <<order, at, attempt, raised, outputs>>
    BY <1>1 DEF Brief
  <2>2. PICK e : e = [phase |-> Phase, attempt |-> attempt, unit |-> uow']
    OBVIOUS
  <2>3. e \in briefs' /\ e.phase = Phase' /\ e.attempt = attempt' /\ briefs \subseteq briefs'
    BY <2>1, <2>2 DEF Phase
  <2>4. RaiseNeverPasses'
    BY <2>1, <2>3 DEF RaiseOK, RaiseNeverPasses
  <2> QED
    BY <2>3, <2>4 DEF RaiseOK
<1>2. CASE GatePass
  <2>1. /\ pc = "gather" /\ pc' # "gather" /\ Passed /\ UNCHANGED <<raised, briefs>> /\ at \in DOMAIN order
        /\ DOMAIN outputs' = DOMAIN outputs \cup {Phase}
    BY <1>0, <1>2 DEF GatePass, Gathered, taskVars
  <2>2. Batch \notin raised
    BY <2>1, NoOutputsNoPass DEF TasksOK, Passed
  <2>3. ASSUME NEW b \in raised, b.phase = Phase
        PROVE  \E c \in briefs : c.phase = b.phase /\ c.attempt > b.attempt
    <3>1. PICK c \in briefs : c.phase = Phase /\ c.attempt = attempt
      BY <2>1 DEF RaiseOK
    <3>2. b \in Attempt /\ b.attempt \in Nat
      BY <1>0 DEF TypeOK, Attempt
    <3>3. b.attempt # attempt
      BY <2>2, <2>3, <3>2 DEF Batch, Attempt
    <3>4. PICK i \in DOMAIN order : b.phase = order[i] /\ i <= at /\ (i = at => b.attempt <= attempt)
      <4>1. at \in Nat /\ attempt \in Nat /\ DOMAIN order \subseteq Nat /\ Begun(b)
        BY <1>0 DEF HistoryOK, TypeOK
      <4> QED
        BY <3>2, <4>1 DEF Begun, Past, Current
    <3>5. i = at
      BY <2>1, <2>3, <3>4 DEF Plain, OrderOK, Phase
    <3>6. c.attempt > b.attempt
      BY <1>0, <3>1, <3>2, <3>3, <3>4, <3>5 DEF TypeOK
    <3> QED
      BY <2>3, <3>1, <3>6
  <2>4. RaiseNeverPasses'
    BY <2>1, <2>3 DEF RaiseOK, RaiseNeverPasses
  <2> QED
    BY <2>1, <2>4 DEF RaiseOK
<1>3. CASE UNCHANGED <<raised, outputs, briefs>> /\ pc' # "gather"
  BY <1>3 DEF RaiseOK, RaiseNeverPasses
<1>4. CASE UNCHANGED <<order, pc, at, attempt, raised, outputs, briefs>>
  BY <1>4 DEF RaiseOK, RaiseNeverPasses, Phase
<1>5. CASE SortPops \/ SortEnds \/ Complete \/ Stops \/ Retries
  BY <1>3, <1>5 DEF SortPops, SortEnds, Complete, Stops, Retries, taskVars, resultVars
<1>6. CASE UNCHANGED vars \/ \E m \in Messages : Inject(m)
  BY <1>4, <1>6 DEF Inject, vars, attemptVars, taskVars, resultVars
<1>7. ASSUME NEW t \in tasks, TaskStep(t) PROVE RaiseOK'
  <2>1. UNCHANGED <<order, pc, at, attempt, outputs, briefs>>
    BY <1>7 DEF TaskStep, TaskStarts, TaskReturns, TaskRaises, attemptVars, resultVars
  <2>2. CASE raised' = raised
    BY <1>4, <2>1, <2>2
  <2>3. CASE TaskRaises(t)
    <3>1. raised' = raised \cup {BatchOf(t)}
      BY <2>3 DEF TaskRaises, BatchOf
    <3>2. BatchOf(t) \in raised \/ t.phase \notin DOMAIN outputs
      <4>1. CASE pc = "gather" /\ OfBatch(t)
        <5>1. at \in DOMAIN order /\ t.phase = order[at] /\ at \in Nat
          BY <1>0, <4>1 DEF OfBatch, Phase, Plain, OrderOK, TypeOK
        <5>2. \A i \in DOMAIN order : order[i] = order[at] => i = at
          BY <5>1 DEF Plain, OrderOK
        <5> QED
          BY <5>1, <5>2 DEF Plain, PassedOK
      <4> QED
        BY <4>1 DEF TasksOK
    <3>3. BatchOf(t).phase = t.phase
      BY DEF BatchOf
    <3> QED
      BY <2>1, <3>1, <3>2, <3>3 DEF RaiseOK, RaiseNeverPasses, Phase
  <2> QED
    BY <1>7, <2>2, <2>3 DEF TaskStep, TaskStarts, TaskReturns
<1> QED
  BY <1>0, <1>1, <1>2, <1>5, <1>6, <1>7, StepCases

\* Nothing outlives its attempt as long as nobody raises.
BatchOK ==
    /\ raised = {} => IsFiniteSet({t \in tasks : t.state = "running"})
    /\ OneBatch

LEMMA BatchNext == ASSUME Plain, TasksOK, BatchOK, [Next]_vars PROVE BatchOK'
<1> DEFINE Run(ts) == {t \in ts : t.state = "running"}
<1>0. TypeOK /\ (Gathered => at \in DOMAIN order)
  BY DEF Plain, OrderOK, Gathered
<1>1. SUFFICES ASSUME raised' = {}
               PROVE  /\ IsFiniteSet(Run(tasks')) /\ Cardinality(Run(tasks')) <= MaxParallel
                      /\ tasks' # {} => pc' = "gather"
                      /\ \A t \in tasks' : OfBatch(t)'
  BY DEF BatchOK, OneBatch
<1>2. raised = {}
  <2>1. raised \subseteq raised'
    <3>1. ASSUME NEW t \in tasks, TaskStep(t) PROVE raised \subseteq raised'
      BY <3>1 DEF TaskStep, TaskStarts, TaskReturns, TaskRaises
    <3>2. CASE SortPops \/ SortEnds \/ Brief \/ Complete \/ GatePass \/ Stops \/ Retries
      BY <3>2 DEF SortPops, SortEnds, Brief, Complete, GatePass, Stops, Retries, taskVars
    <3>3. CASE UNCHANGED vars \/ \E m \in Messages : Inject(m)
      BY <3>3 DEF Inject, vars, taskVars
    <3> QED
      BY <1>0, <3>1, <3>2, <3>3, StepCases
  <2> QED
    BY <1>1, <2>1
<1>3. /\ IsFiniteSet(Run(tasks)) /\ Cardinality(Run(tasks)) <= MaxParallel /\ Cardinality(Run(tasks)) \in Nat
      /\ tasks # {} => pc = "gather"
      /\ \A t \in tasks : OfBatch(t)
  BY <1>2, FS_CardinalityType DEF BatchOK, OneBatch
<1>4. ASSUME Run(tasks') = {} PROVE IsFiniteSet(Run(tasks')) /\ Cardinality(Run(tasks')) <= MaxParallel
  <2>1. Cardinality({}) = 0 /\ IsFiniteSet({})
    BY FS_EmptySet
  <2>2. 0 <= MaxParallel
    OBVIOUS
  <2> QED
    BY <1>4, <2>1, <2>2
<1>5. CASE Brief
  <2>1. /\ pc = "brief" /\ pc' = "gather" /\ UNCHANGED <<order, at, attempt>>
        /\ tasks' = tasks \cup
                {[phase |-> Phase, attempt |-> attempt, slot |-> i, state |-> "waiting"] : i \in 1 .. Tacticians(Phase)}
    BY <1>5 DEF Brief
  <2>2. tasks = {}
    BY <1>3, <2>1
  <2>3. \A t \in tasks' : t.state = "waiting" /\ OfBatch(t)'
    BY <2>1, <2>2 DEF OfBatch, Phase
  <2>4. Run(tasks') = {}
    BY <2>3
  <2> QED
    BY <1>4, <2>1, <2>3, <2>4
<1>6. CASE GatePass \/ Stops \/ Retries
  <2>1. Gathered /\ tasks' = tasks
    BY <1>6 DEF GatePass, Stops, Retries, taskVars
  <2>2. tasks = {}
    BY <1>2, <1>3, <2>1 DEF Gathered
  <2> QED
    BY <1>4, <2>1, <2>2
<1>7. CASE SortPops \/ SortEnds \/ Complete
  <2>1. tasks = {} /\ tasks' = {}
    BY <1>3, <1>7 DEF SortPops, SortEnds, Complete, taskVars
  <2> QED
    BY <1>4, <2>1
<1>8. CASE UNCHANGED vars \/ \E m \in Messages : Inject(m)
  <2>1. UNCHANGED <<order, pc, at, attempt, tasks>>
    BY <1>8 DEF Inject, vars, attemptVars, taskVars
  <2> QED
    BY <1>3, <2>1 DEF OfBatch, Phase
<1>9. ASSUME NEW t \in tasks, TaskStep(t)
      PROVE  /\ IsFiniteSet(Run(tasks')) /\ Cardinality(Run(tasks')) <= MaxParallel
             /\ tasks' # {} => pc' = "gather"
             /\ \A u \in tasks' : OfBatch(u)'
  <2>1. UNCHANGED <<order, pc, at, attempt>> /\ t \in Task /\ pc = "gather"
    BY <1>0, <1>3, <1>9 DEF TaskStep, TaskStarts, TaskReturns, TaskRaises, attemptVars, resultVars, TypeOK
  <2>2. CASE tasks' = tasks \ {t}
    <3>1. Run(tasks') \subseteq Run(tasks)
      BY <2>2
    <3>2. IsFiniteSet(Run(tasks')) /\ Cardinality(Run(tasks')) <= Cardinality(Run(tasks))
      BY <1>3, <3>1, FS_Subset
    <3>3. Cardinality(Run(tasks')) \in Nat
      BY <3>2, FS_CardinalityType
    <3> QED
      BY <1>3, <2>1, <2>2, <3>2, <3>3 DEF OfBatch, Phase
  <2>3. CASE TaskStarts(t)
    <3>1. PICK u : u = [t EXCEPT !.state = "running"]
      OBVIOUS
    <3>2. u.phase = t.phase /\ u.attempt = t.attempt /\ u.state = "running"
      BY <2>1, <3>1 DEF Task
    <3>3. tasks' = (tasks \ {t}) \cup {u} /\ t.state = "waiting" /\ Cardinality(Running(t)) < MaxParallel
      BY <2>3, <3>1 DEF TaskStarts, Permitted
    <3>4. Run(tasks') = Run(tasks) \cup {u}
      BY <3>2, <3>3
    <3>5. Running(t) = Run(tasks)
      BY <1>3 DEF Running, OfBatch
    <3>6. IsFiniteSet(Run(tasks')) /\ Cardinality(Run(tasks')) <= Cardinality(Run(tasks)) + 1
      <4>1. IsFiniteSet(Run(tasks) \cup {u}) /\ Cardinality(Run(tasks) \cup {u}) =
                IF u \in Run(tasks) THEN Cardinality(Run(tasks)) ELSE Cardinality(Run(tasks)) + 1
        BY <1>3, FS_AddElement
      <4> HIDE DEF Run
      <4> QED
        BY <1>3, <3>4, <4>1
    <3>7. Cardinality(Run(tasks')) \in Nat /\ Cardinality(Run(tasks)) < MaxParallel
      BY <3>3, <3>5, <3>6, FS_CardinalityType
    <3>8. \A v \in tasks' : OfBatch(v)'
      BY <1>3, <2>1, <3>2, <3>3 DEF OfBatch, Phase
    <3> QED
      BY <1>3, <2>1, <3>6, <3>7, <3>8
  <2> QED
    BY <1>9, <2>2, <2>3 DEF TaskStep, TaskReturns, TaskRaises
<1> QED
  BY <1>0, <1>5, <1>6, <1>7, <1>8, <1>9, StepCases

-----------------------------------------------------------------------------
(***************************************************************************)
(* How long a run takes.  Neither _topo_sort nor gather_bounded can get    *)
(* stuck, and what execute has left to do shrinks with every step; the     *)
(* tacticians of an attempt are finitely many, and so are the names that   *)
(* set their number.                                                       *)
(***************************************************************************)

\* Among phases there is one of least rank.
LEMMA LeastRank ==
    ASSUME NEW S, S # {}, NEW rank \in [S -> 1 .. 4]
    PROVE  \E p \in S : \A q \in S : rank[p] <= rank[q]
<1>1. \A p \in S : rank[p] \in {1, 2, 3, 4}
  OBVIOUS
<1>2. CASE \E p \in S : rank[p] = 1
  BY <1>1, <1>2
<1>3. CASE (\A p \in S : rank[p] # 1) /\ \E p \in S : rank[p] = 2
  BY <1>1, <1>3
<1>4. CASE (\A p \in S : rank[p] \notin {1, 2}) /\ \E p \in S : rank[p] = 3
  BY <1>1, <1>4
<1>5. CASE \A p \in S : rank[p] \notin {1, 2, 3}
  BY <1>1, <1>5
<1> QED
  BY <1>2, <1>3, <1>4, <1>5

\* As long as phases are missing from the order, the queue has one.
LEMMA SortGoesOn == TypeOK => Ready # {} \/ Sorted = Phases
<1> SUFFICES ASSUME TypeOK, Sorted # Phases PROVE Ready # {}
  OBVIOUS
<1>1. ValidStrategy(strat) /\ Sorted \subseteq Phases
  BY DEF TypeOK, Sorted
<1>2. strat.deps \in [Phases -> SUBSET Phases]
  BY <1>1 DEF ValidStrategy, Phases
<1>3. PICK rank \in [Phases -> 1 .. 4] : \A p \in Phases : \A d \in strat.deps[p] : rank[d] < rank[p]
  BY <1>1 DEF ValidStrategy, Phases
<1>4. PICK left : left = Phases \ Sorted
  OBVIOUS
<1>5. left # {} /\ left \subseteq Phases
  BY <1>1, <1>4
<1>6. PICK p \in left : \A q \in left : rank[p] <= rank[q]
  <2>1. [q \in left |-> rank[q]] \in [left -> 1 .. 4]
    BY <1>3, <1>5
  <2>2. \E p \in left : \A q \in left : [x \in left |-> rank[x]][p] <= [x \in left |-> rank[x]][q]
    BY <1>5, <2>1, LeastRank
  <2> QED
    BY <2>2
<1>7. ASSUME NEW d \in strat.deps[p] PROVE d \in Sorted
  <2>1. d \in Phases /\ rank[d] < rank[p] /\ rank[d] \in 1 .. 4 /\ rank[p] \in 1 .. 4
    BY <1>2, <1>3, <1>5, <1>6
  <2>2. d \notin left
    BY <1>6, <2>1
  <2> QED
    BY <1>4, <2>1, <2>2
<1> QED
  BY <1>4, <1>5, <1>6, <1>7 DEF Ready

\* Of a batch that is not over, a tactician runs or is let in.
LEMMA GatherGoesOn ==
    ASSUME TypeOK, pc = "gather", ~Gathered
    PROVE  \E t \in tasks : OfBatch(t) /\ (t.state = "running" \/ Permitted(t))
<1>1. PICK t \in tasks : OfBatch(t)
  BY DEF Gathered
<1>2. CASE \E u \in tasks : OfBatch(u) /\ u.state = "running"
  BY <1>2
<1>3. CASE \A u \in tasks : OfBatch(u) => u.state # "running"
  <2>1. Running(t) = {}
    BY <1>1, <1>3 DEF Running, OfBatch
  <2>2. Cardinality(Running(t)) = 0
    BY <2>1, FS_EmptySet
  <2>3. Permitted(t)
    BY <2>2 DEF Permitted
  <2> QED
    BY <1>1, <2>3
<1> QED
  BY <1>2, <1>3

\* The values of a function on a finite set.
LEMMA ImageFinite ==
    ASSUME NEW S, IsFiniteSet(S), NEW f, f = [x \in S |-> f[x]]
    PROVE  IsFiniteSet({f[x] : x \in S})
<1> DEFINE T == {f[x] : x \in S}
<1>1. f \in Surjection(S, T)
  <2>1. f \in [S -> T]
    OBVIOUS
  <2>2. \A t \in T : \E s \in S : f[s] = t
    OBVIOUS
  <2> QED
    BY <2>1, <2>2 DEF Surjection
<1> HIDE DEF T
<1>2. IsFiniteSet(T)
  BY <1>1, FS_Surjection
<1> QED
  BY <1>2 DEF T

\* What a tactician found names finitely many.
LEMMA NamesFinite == \A found \in Outputs : IsFiniteSet({f.name : f \in found})
<1> SUFFICES ASSUME NEW found \in Outputs PROVE IsFiniteSet({f.name : f \in found})
  OBVIOUS
<1> DEFINE g == [f \in found |-> f.name]
<1>1. IsFiniteSet({g[f] : f \in found})
  <2>1. g = [f \in found |-> g[f]]
    OBVIOUS
  <2> HIDE DEF g
  <2> QED
    BY <2>1, ImageFinite
<1>2. {g[f] : f \in found} = {f.name : f \in found}
  OBVIOUS
<1> QED
  BY <1>1, <1>2

\* The outputs name finitely many, and the tasks are finitely many.
FiniteOK ==
    /\ IsFiniteSet(DistinctNames(outs))
    /\ \A p \in DOMAIN outputs : IsFiniteSet(DistinctNames(outputs[p]))
    /\ IsFiniteSet(tasks)
    /\ at <= Len(order) + 1

\* A tactician that returns adds the names it found.
LEMMA NamesAdded ==
    ASSUME IsFiniteSet(DistinctNames(outs)), NEW found \in Outputs, NEW slot
    PROVE  IsFiniteSet(DistinctNames(outs \cup {[slot |-> slot, found |-> found]}))
<1>1. DistinctNames(outs \cup {[slot |-> slot, found |-> found]})
        \subseteq DistinctNames(outs) \cup {f.name : f \in found}
  BY DEF DistinctNames
<1>2. IsFiniteSet(DistinctNames(outs) \cup {f.name : f \in found})
  BY NamesFinite, FS_Union
<1>3. PICK more : more = DistinctNames(outs \cup {[slot |-> slot, found |-> found]})
  OBVIOUS
<1>4. PICK all : all = DistinctNames(outs) \cup {f.name : f \in found}
  OBVIOUS
<1>5. IsFiniteSet(more)
  <2>1. more \in SUBSET all /\ IsFiniteSet(all)
    BY <1>1, <1>2, <1>3, <1>4
  <2> QED
    BY <2>1, FS_Subset
<1> QED
  BY <1>3, <1>5

\* A phase is attempted by a number of tacticians.
LEMMA FanOut ==
    ASSUME TypeOK, FiniteOK, at \in DOMAIN order
    PROVE  Tacticians(Phase) \in Nat
<1>1. Phase \in Phases /\ ValidStrategy(strat)
  BY DEF TypeOK, Phase
<1>2. /\ strat.policy[Phase] \in Policies /\ strat.dial \in Nat
  BY <1>1 DEF ValidStrategy, Phases
<1>3. strat.last[Phase] \in DOMAIN outputs => Cardinality(DistinctNames(outputs[strat.last[Phase]])) \in Nat
  BY FS_CardinalityType DEF FiniteOK
<1> QED
  BY <1>2, <1>3 DEF Tacticians, Policies

\* Each step adds finitely many tasks and names.
LEMMA FiniteNext == ASSUME Plain, FiniteOK, [Next]_vars PROVE FiniteOK'
<1>0. TypeOK /\ (Gathered => at \in DOMAIN order)
  BY DEF Plain, OrderOK, Gathered
<1>1. IsFiniteSet(DistinctNames({}))
  <2>1. DistinctNames({}) = {}
    BY DEF DistinctNames
  <2> QED
    BY <2>1, FS_EmptySet
<1>2. CASE Brief
  <2>1. /\ at \in DOMAIN order /\ outs' = {} /\ UNCHANGED <<outputs, at, order>>
        /\ tasks' = tasks \cup
             {[phase |-> Phase, attempt |-> attempt, slot |-> i, state |-> "waiting"] :
                 i \in 1 .. Tacticians(Phase)}
    BY <1>2 DEF Brief
  <2>2. PICK n \in Nat : n = Tacticians(Phase)
    BY <1>0, <2>1, FanOut
  <2> DEFINE g == [i \in 1 .. n |->
                     [phase |-> Phase, attempt |-> attempt, slot |-> i, state |-> "waiting"]]
  <2>3. IsFiniteSet(1 .. n)
    BY FS_BoundedSetOfNaturals
  <2>4. IsFiniteSet({g[i] : i \in 1 .. n})
    <3>1. g = [i \in 1 .. n |-> g[i]]
      OBVIOUS
    <3> HIDE DEF g
    <3> QED
      BY <2>3, <3>1, ImageFinite
  <2>5. tasks' = tasks \cup {g[i] : i \in 1 .. n}
    BY <2>1, <2>2
  <2>6. IsFiniteSet(tasks')
    <3> HIDE DEF g
    <3> QED
      BY <2>4, <2>5, FS_Union DEF FiniteOK
  <2> QED
    BY <1>1, <2>1, <2>6 DEF FiniteOK
<1>3. CASE GatePass
  <2>1. /\ at \in DOMAIN order /\ at' = at + 1 /\ UNCHANGED <<tasks, outs, order>>
        /\ outputs' = [p \in DOMAIN outputs \cup {Phase} |-> IF p = Phase THEN outs ELSE outputs[p]]
    BY <1>0, <1>3 DEF GatePass, taskVars
  <2>2. \A p \in DOMAIN outputs' : outputs'[p] = outs \/ (p \in DOMAIN outputs /\ outputs'[p] = outputs[p])
    BY <2>1
  <2>3. at <= Len(order) /\ at \in Nat /\ Len(order) \in Nat
    BY <1>0, <2>1 DEF TypeOK
  <2>4. \A p \in DOMAIN outputs' : IsFiniteSet(DistinctNames(outputs'[p]))
    BY <2>2 DEF FiniteOK
  <2> QED
    BY <2>1, <2>3, <2>4 DEF FiniteOK
<1>4. CASE SortPops
  <2>1. UNCHANGED <<tasks, outs, outputs, at>> /\ \E p \in Ready : order' = Append(order, p)
    BY <1>4 DEF SortPops, taskVars, resultVars
  <2>2. Len(order') = Len(order) + 1 /\ Len(order) \in Nat /\ at \in Nat
    BY <1>0, <2>1 DEF TypeOK, Ready
  <2> QED
    BY <2>1, <2>2 DEF FiniteOK
<1>5. CASE SortEnds \/ Complete \/ Stops \/ Retries \/ (\E m \in Messages : Inject(m)) \/ UNCHANGED vars
  <2>1. UNCHANGED <<tasks, outs, outputs, at, order>>
    BY <1>5 DEF SortEnds, Complete, Stops, Retries, Inject, vars, taskVars, resultVars
  <2> QED
    BY <2>1 DEF FiniteOK
<1>6. ASSUME NEW t \in tasks, TaskStep(t) PROVE FiniteOK'
  <2>1. UNCHANGED <<outputs, at, order>>
    BY <1>6 DEF TaskStep, TaskStarts, TaskReturns, TaskRaises, resultVars
  <2>2. IsFiniteSet(tasks')
    <3>1. PICK u : tasks' = tasks \ {t} \/ tasks' = (tasks \ {t}) \cup {u}
      BY <1>6 DEF TaskStep, TaskStarts, TaskReturns, TaskRaises
    <3>2. PICK rest : rest = tasks \ {t}
      OBVIOUS
    <3>3. IsFiniteSet(rest)
      BY <3>2, FS_RemoveElement DEF FiniteOK
    <3>4. IsFiniteSet(rest \cup {u})
      BY <3>3, FS_AddElement
    <3> QED
      BY <3>1, <3>2, <3>3, <3>4
  <2>3. IsFiniteSet(DistinctNames(outs'))
    <3>1. \/ outs' = outs \/ outs' = {}
          \/ \E found \in Outputs : outs' = outs \cup {[slot |-> t.slot, found |-> found]}
      BY <1>6 DEF TaskStep, TaskStarts, TaskReturns, TaskRaises
    <3> QED
      BY <1>1, <3>1, NamesAdded DEF FiniteOK
  <2> QED
    BY <2>1, <2>2, <2>3 DEF FiniteOK
<1> QED
  BY <1>0, <1>2, <1>3, <1>4, <1>5, <1>6, StepCases

\* What is left to do: phases to sort, phases to attempt and, of the phase
\* under way, attempts; an attempt has two steps.
Limit == ReplanLimit(strat.depth)

Unsorted == Cardinality(Phases \ Sorted)

PhasesLeft == Len(order) + Unsorted + 1 - at

ExecuteLeft ==
    IF pc \in Ends THEN 0
    ELSE 1 + Unsorted + (IF pc = "sort" THEN 1 ELSE 0) + PhasesLeft * (2 * Limit + 2)
           + 2 * (Limit - attempt) + (IF pc = "gather" THEN 0 ELSE 1)

TasksLeft == Cardinality(tasks) + Cardinality({t \in tasks : t.state = "waiting"})

\* A phase more or less.
LEMMA PhaseWeight ==
    ASSUME NEW k \in Nat, NEW l \in {0, 1, 3, 99}
    PROVE  /\ k * (2 * l + 2) \in Nat
           /\ (k + 1) * (2 * l + 2) = k * (2 * l + 2) + 2 * l + 2
<1>1. CASE l = 0
  BY <1>1
<1>2. CASE l = 1
  BY <1>2
<1>3. CASE l = 3
  BY <1>3
<1>4. CASE l = 99
  BY <1>4
<1> QED
  BY <1>1, <1>2, <1>3, <1>4

\* The phases are finitely many.
LEMMA PhasesFinite == TypeOK => IsFiniteSet(Phases \ Sorted) /\ Unsorted \in Nat
<1> SUFFICES ASSUME TypeOK PROVE IsFiniteSet(Phases \ Sorted) /\ Unsorted \in Nat
  OBVIOUS
<1>1. Phases \ Sorted \subseteq {"extract", "gather", "disconfirm", "synthesize"}
  BY DEF TypeOK, ValidStrategy, Phases, LegalPhaseIds
<1>2. IsFiniteSet({"extract", "gather", "disconfirm", "synthesize"})
  <2>1. IsFiniteSet({} \cup {"extract"})
    BY FS_EmptySet, FS_AddElement
  <2>2. IsFiniteSet({} \cup {"extract"} \cup {"gather"})
    BY <2>1, FS_AddElement
  <2>3. IsFiniteSet({} \cup {"extract"} \cup {"gather"} \cup {"disconfirm"})
    BY <2>2, FS_AddElement
  <2>4. IsFiniteSet({} \cup {"extract"} \cup {"gather"} \cup {"disconfirm"} \cup {"synthesize"})
    BY <2>3, FS_AddElement
  <2>5. {} \cup {"extract"} \cup {"gather"} \cup {"disconfirm"} \cup {"synthesize"}
          = {"extract", "gather", "disconfirm", "synthesize"}
    OBVIOUS
  <2> QED
    BY <2>4, <2>5
<1>3. IsFiniteSet(Phases \ Sorted)
  <2>1. PICK S : S = Phases \ Sorted
    OBVIOUS
  <2>2. IsFiniteSet(S)
    BY <1>1, <1>2, <2>1, FS_Subset
  <2> QED
    BY <2>1, <2>2
<1> QED
  BY <1>3, FS_CardinalityType DEF Unsorted

\* The numbers the measure is made of.
LEMMA MeasureTypes ==
    ASSUME TypeOK, RetryOK, FiniteOK
    PROVE  /\ Limit \in {0, 1, 3, 99} /\ attempt \in Nat /\ attempt <= Limit
           /\ Unsorted \in Nat /\ PhasesLeft \in Nat /\ at \in Nat /\ Len(order) \in Nat
           /\ ExecuteLeft \in Nat /\ TasksLeft \in Nat
<1>1. Limit \in {0, 1, 3, 99} /\ attempt \in Nat /\ attempt <= Limit
  BY DEF TypeOK, RetryOK, Limit, ReplanLimit
<1>2. Unsorted \in Nat /\ PhasesLeft \in Nat /\ at \in Nat /\ Len(order) \in Nat
  BY PhasesFinite DEF TypeOK, FiniteOK, PhasesLeft
<1>3. ExecuteLeft \in Nat
  <2>1. PhasesLeft * (2 * Limit + 2) \in Nat
    BY <1>1, <1>2, PhaseWeight
  <2>2. PICK w \in Nat : w = PhasesLeft * (2 * Limit + 2)
    BY <2>1
  <2>3. ExecuteLeft = IF pc \in Ends THEN 0
           ELSE 1 + Unsorted + (IF pc = "sort" THEN 1 ELSE 0) + w
                  + 2 * (Limit - attempt) + (IF pc = "gather" THEN 0 ELSE 1)
    BY <2>2 DEF ExecuteLeft
  <2> HIDE DEF Limit
  <2> QED
    BY <1>1, <1>2, <2>3
<1>4. TasksLeft \in Nat
  <2>1. PICK waiting : waiting = {t \in tasks : t.state = "waiting"}
    OBVIOUS
  <2>2. IsFiniteSet(waiting)
    BY <2>1, FS_Subset DEF FiniteOK
  <2> QED
    BY <2>1, <2>2, FS_CardinalityType DEF TasksLeft, FiniteOK
<1> QED
  BY <1>1, <1>2, <1>3, <1>4

\* Each step of execute leaves less to do.
LEMMA ExecuteCountsDown ==
    ASSUME Plain, RetryOK, FiniteOK, Execute
    PROVE  ExecuteLeft' < ExecuteLeft
<1>0. TypeOK /\ (Gathered => at \in DOMAIN order) /\ (pc # "sort" => Sorted = Phases)
  BY DEF Plain, OrderOK, Gathered
<1>1. PICK l \in {0, 1, 3, 99}, a \in Nat, u \in Nat, k \in Nat, w \in Nat :
        /\ l = Limit /\ a = attempt /\ a <= l /\ u = Unsorted /\ k = PhasesLeft
        /\ w = k * (2 * l + 2)
  <2>1. PhasesLeft * (2 * Limit + 2) \in Nat
    BY <1>0, MeasureTypes, PhaseWeight
  <2> QED
    BY <1>0, <2>1, MeasureTypes
<1>2. ExecuteLeft = IF pc \in Ends THEN 0
        ELSE 1 + u + (IF pc = "sort" THEN 1 ELSE 0) + w + 2 * (l - a) + (IF pc = "gather" THEN 0 ELSE 1)
  BY <1>1 DEF ExecuteLeft
<1>3. ASSUME NEW v \in Nat, UNCHANGED <<strat, at>>, Unsorted' = v, Len(order') + v = Len(order) + u
      PROVE  ExecuteLeft' = IF pc' \in Ends THEN 0
               ELSE 1 + v + (IF pc' = "sort" THEN 1 ELSE 0) + w + 2 * (l - attempt')
                      + (IF pc' = "gather" THEN 0 ELSE 1)
  <2>1. Limit' = l
    BY <1>1, <1>3 DEF Limit
  <2>2. PhasesLeft' = k
    BY <1>1, <1>3 DEF PhasesLeft
  <2> QED
    BY <1>1, <1>3, <2>1, <2>2 DEF ExecuteLeft
<1>4. ASSUME UNCHANGED <<strat, order>> PROVE Unsorted' = u
  <2>1. (Phases \ Sorted)' = Phases \ Sorted
    BY <1>4 DEF Phases, Sorted
  <2> QED
    BY <1>1, <2>1 DEF Unsorted
<1>5. CASE SortPops
  <2>1. /\ pc = "sort" /\ UNCHANGED <<strat, at, attempt, pc>>
    BY <1>5 DEF SortPops, attemptVars
  <2>2. PICK p \in Ready : order' = Append(order, p)
    BY <1>5 DEF SortPops
  <2>3. Sorted' = Sorted \cup {p} /\ Len(order') = Len(order) + 1 /\ Len(order) \in Nat
    <3>1. order \in Seq(Phases) /\ p \in Phases
      BY <1>0, <2>2 DEF TypeOK, Ready
    <3> QED
      BY <2>2, <3>1 DEF Sorted
  <2>4. (Phases \ Sorted)' = (Phases \ Sorted) \ {p} /\ p \in Phases \ Sorted
    BY <2>1, <2>2, <2>3 DEF Phases, Ready
  <2>5. Unsorted' = u - 1 /\ u - 1 \in Nat
    <3>1. PICK S : S = Phases \ Sorted
      OBVIOUS
    <3>2. IsFiniteSet(S) /\ p \in S /\ Cardinality(S) = u
      BY <1>0, <1>1, <2>4, <3>1, PhasesFinite DEF Unsorted
    <3>3. Cardinality(S \ {p}) = u - 1 /\ IsFiniteSet(S \ {p})
      BY <3>2, FS_RemoveElement
    <3>4. Cardinality(S \ {p}) \in Nat
      BY <3>3, FS_CardinalityType
    <3> QED
      BY <2>4, <3>1, <3>3, <3>4 DEF Unsorted
  <2>6. ExecuteLeft' = IF pc' \in Ends THEN 0
          ELSE 1 + (u - 1) + (IF pc' = "sort" THEN 1 ELSE 0) + w + 2 * (l - attempt')
                 + (IF pc' = "gather" THEN 0 ELSE 1)
    BY <1>3, <2>1, <2>3, <2>5
  <2> QED
    BY <1>1, <1>2, <2>1, <2>6 DEF Ends
<1>6. ASSUME UNCHANGED <<strat, at, order>>
      PROVE  ExecuteLeft' = IF pc' \in Ends THEN 0
               ELSE 1 + u + (IF pc' = "sort" THEN 1 ELSE 0) + w + 2 * (l - attempt')
                      + (IF pc' = "gather" THEN 0 ELSE 1)
  BY <1>3, <1>4, <1>6
<1>7. CASE SortEnds \/ Brief
  <2>1. /\ UNCHANGED <<strat, at, order, attempt>>
        /\ (pc = "sort" /\ pc' = "brief") \/ (pc = "brief" /\ pc' = "gather")
    BY <1>7 DEF SortEnds, Brief, attemptVars
  <2> QED
    BY <1>1, <1>2, <1>6, <2>1 DEF Ends
<1>8. CASE Complete \/ Stops
  <2>1. UNCHANGED <<strat, at, order>> /\ pc \in {"brief", "gather"} /\ pc' \in Ends
    BY <1>8 DEF Complete, Stops, Gathered, Ends
  <2> QED
    BY <1>1, <1>2, <1>6, <2>1 DEF Ends
<1>9. CASE Retries
  <2>1. /\ UNCHANGED <<strat, at, order>> /\ pc = "gather" /\ pc' = "brief" /\ attempt' = a + 1
    BY <1>1, <1>9 DEF Retries, Gathered
  <2> QED
    BY <1>1, <1>2, <1>6, <2>1 DEF Ends
<1>10. CASE GatePass
  <2>1. /\ UNCHANGED <<strat, order>> /\ pc = "gather" /\ pc' = "brief" /\ attempt' = 0
        /\ at' = at + 1 /\ at \in DOMAIN order
    BY <1>0, <1>10 DEF GatePass, Gathered
  <2>2. at <= Len(order) /\ at \in Nat /\ Len(order) \in Nat
    BY <1>0, <2>1 DEF TypeOK
  <2>3. Unsorted' = u /\ Limit' = l
    BY <1>1, <1>4, <2>1 DEF Limit
  <2>4. PhasesLeft' = k - 1 /\ k - 1 \in Nat
    BY <1>1, <2>1, <2>2, <2>3 DEF PhasesLeft
  <2>5. PICK v \in Nat : v = (k - 1) * (2 * l + 2) /\ w = v + 2 * l + 2
    <3>1. ((k - 1) + 1) * (2 * l + 2) = (k - 1) * (2 * l + 2) + 2 * l + 2 /\ (k - 1) * (2 * l + 2) \in Nat
      BY <2>4, PhaseWeight
    <3>2. (k - 1) + 1 = k
      OBVIOUS
    <3> QED
      BY <1>1, <3>1, <3>2
  <2>6. ExecuteLeft' = 1 + u + v + 2 * l + 1
    BY <2>1, <2>3, <2>4, <2>5 DEF ExecuteLeft, Ends
  <2> QED
    BY <1>1, <1>2, <2>1, <2>5, <2>6 DEF Ends
<1> QED
  BY <1>0, <1>5, <1>7, <1>8, <1>9, <1>10, ExecuteCases

\* A tactician that starts, returns or raises leaves execute's steps, and less of its own.
LEMMA TasksCountDown ==
    ASSUME Plain, FiniteOK, NEW t \in tasks, TaskStep(t)
    PROVE  ExecuteLeft' = ExecuteLeft /\ TasksLeft' < TasksLeft
<1>1. UNCHANGED <<strat, order, pc, at, attempt>>
  BY DEF TaskStep, TaskStarts, TaskReturns, TaskRaises, attemptVars
<1>2. ExecuteLeft' = ExecuteLeft
  BY <1>1 DEF ExecuteLeft, PhasesLeft, Unsorted, Limit, Phases, Sorted
<1>3. PICK waiting : waiting = {x \in tasks : x.state = "waiting"}
  OBVIOUS
<1>4. PICK waitingNext : waitingNext = {x \in tasks' : x.state = "waiting"}
  OBVIOUS
<1>5. /\ IsFiniteSet(tasks) /\ IsFiniteSet(waiting)
      /\ Cardinality(tasks) \in Nat /\ Cardinality(waiting) \in Nat
  <2>1. IsFiniteSet(tasks) /\ waiting \in SUBSET tasks
    BY <1>3 DEF FiniteOK
  <2> QED
    BY <2>1, FS_Subset, FS_CardinalityType
<1>6. PICK rest : rest = tasks \ {t}
  OBVIOUS
<1>7. IsFiniteSet(rest) /\ Cardinality(rest) = Cardinality(tasks) - 1 /\ Cardinality(rest) \in Nat
  <2>1. IsFiniteSet(rest) /\ Cardinality(rest) = Cardinality(tasks) - 1
    BY <1>5, <1>6, FS_RemoveElement
  <2> QED
    BY <2>1, FS_CardinalityType
<1>8. TasksLeft = Cardinality(tasks) + Cardinality(waiting)
  BY <1>3 DEF TasksLeft
<1>9. TasksLeft' = Cardinality(tasks') + Cardinality(waitingNext)
  BY <1>4 DEF TasksLeft
<1>10. CASE tasks' = rest
  <2>1. waitingNext \in SUBSET waiting
    BY <1>3, <1>4, <1>6, <1>10
  <2>2. Cardinality(waitingNext) <= Cardinality(waiting) /\ Cardinality(waitingNext) \in Nat
    BY <1>5, <2>1, FS_Subset, FS_CardinalityType
  <2> QED
    BY <1>2, <1>5, <1>7, <1>8, <1>9, <1>10, <2>2
<1>11. CASE TaskStarts(t)
  <2>1. PICK x : x = [t EXCEPT !.state = "running"]
    OBVIOUS
  <2>2. t.state = "waiting" /\ x.state # "waiting" /\ tasks' = rest \cup {x}
    <3>1. t \in Task
      BY DEF Plain, TypeOK
    <3> QED
      BY <1>6, <1>11, <2>1, <3>1 DEF TaskStarts, Task
  <2>3. Cardinality(tasks') <= Cardinality(tasks) /\ Cardinality(tasks') \in Nat
    <3>1. /\ IsFiniteSet(rest \cup {x})
          /\ Cardinality(rest \cup {x}) = IF x \in rest THEN Cardinality(rest) ELSE Cardinality(rest) + 1
      BY <1>7, FS_AddElement
    <3> QED
      BY <1>5, <1>7, <2>2, <3>1
  <2>4. waitingNext = waiting \ {t} /\ t \in waiting
    BY <1>3, <1>4, <1>6, <2>2
  <2>5. Cardinality(waitingNext) = Cardinality(waiting) - 1
    BY <1>5, <2>4, FS_RemoveElement
  <2> QED
    BY <1>2, <1>5, <1>8, <1>9, <2>3, <2>5
<1> QED
  BY <1>6, <1>10, <1>11 DEF TaskStep, TaskReturns, TaskRaises

\* A directive changes nothing of what is left.
LEMMA InjectLeaves ==
    ASSUME UNCHANGED vars \/ \E m \in Messages : Inject(m)
    PROVE  ExecuteLeft' = ExecuteLeft /\ TasksLeft' = TasksLeft
<1>1. UNCHANGED <<strat, order, pc, at, attempt, tasks>>
  BY DEF Inject, vars, attemptVars, taskVars
<1> QED
  BY <1>1 DEF ExecuteLeft, PhasesLeft, Unsorted, Limit, Phases, Sorted, TasksLeft

-----------------------------------------------------------------------------
(* PhasePlan.                                                              *)

Verdict == IF pc \in Ends THEN pc ELSE "running"

LEMMA PlanInits == Init => Plan!PlanInit
<1> SUFFICES ASSUME Init PROVE Plan!PlanInit
  OBVIOUS
<1>1. ValidStrategy(strat) /\ DOMAIN outputs = {} /\ pc = "sort"
  BY DEF Init
<1>2. \E all \in SUBSET LegalPhaseIds : strat.deps \in [all -> SUBSET all]
  BY <1>1 DEF ValidStrategy
<1> QED
  BY <1>1, <1>2 DEF Plan!PlanInit, Ends

\* The phase that is attempted may run, and is of the plan.
LEMMA AttemptedMayRun ==
    ASSUME Plain, at \in DOMAIN order
    PROVE  /\ Phase \in LegalPhaseIds /\ Phase \in DOMAIN strat.deps \ DOMAIN outputs
           /\ strat.deps[Phase] \subseteq DOMAIN outputs
<1>1. Phase \in DOMAIN strat.deps /\ ValidStrategy(strat) /\ at \in Nat /\ DOMAIN order \subseteq Nat
  BY DEF Plain, TypeOK, Phase, Phases
<1>2. Phase \in LegalPhaseIds
  BY <1>1 DEF ValidStrategy
<1>3. Phase \notin DOMAIN outputs
  <2>1. \A i \in DOMAIN order : order[i] = order[at] => i = at
    BY DEF Plain, OrderOK
  <2> QED
    BY <1>1, <2>1 DEF Plain, PassedOK, Phase
<1>4. ASSUME NEW d \in strat.deps[Phase] PROVE d \in DOMAIN outputs
  <2>1. PICK j \in DOMAIN order : j < at /\ order[j] = d
    BY DEF Plain, OrderOK, Phase
  <2> QED
    BY <2>1 DEF Plain, PassedOK
<1> QED
  BY <1>1, <1>2, <1>3, <1>4

LEMMA PlanNexts == ASSUME Plain, [Next]_vars PROVE [Plan!PlanNext]_(Plan!plan)
<1>0. TypeOK /\ (Gathered => at \in DOMAIN order)
  BY DEF Plain, OrderOK, Gathered
<1>1. CASE GatePass
  <2>1. /\ pc = "gather" /\ pc' = "brief" /\ strat' = strat /\ at \in DOMAIN order
        /\ DOMAIN outputs' = DOMAIN outputs \cup {Phase}
    BY <1>0, <1>1 DEF GatePass, Gathered
  <2>2. Plan!FinishPhase(Phase)
    BY <2>1, AttemptedMayRun DEF Plan!FinishPhase, Plan!MayRun, Ends
  <2> QED
    BY <2>1, <2>2, AttemptedMayRun DEF Plan!PlanNext
<1>2. CASE Stops
  <2>1. /\ pc = "gather" /\ pc' \in {"ask_user", "terminated", "error"} /\ strat' = strat /\ at \in DOMAIN order
        /\ outputs' = outputs
    BY <1>0, <1>2 DEF Stops, Gathered
  <2>2. Plan!StopAt(Phase)
    BY <2>1, AttemptedMayRun DEF Plan!StopAt, Plan!MayRun, Ends
  <2> QED
    BY <2>1, <2>2, AttemptedMayRun DEF Plan!PlanNext
<1>3. CASE Complete
  <2>1. /\ pc = "brief" /\ pc' \in {"completed", "error"} /\ at \notin DOMAIN order /\ UNCHANGED <<strat, outputs>>
    BY <1>3 DEF Complete, resultVars
  <2>2. DOMAIN outputs = DOMAIN strat.deps
    <3>1. Sorted = DOMAIN strat.deps
      BY <2>1 DEF Plain, OrderOK, Phases
    <3>2. at \in Nat /\ at > Len(order) /\ DOMAIN order = 1 .. Len(order) /\ Len(order) \in Nat
      BY <1>0, <2>1 DEF TypeOK
    <3>3. {j \in DOMAIN order : j < at} = DOMAIN order
      BY <3>2
    <3> QED
      BY <3>1, <3>3 DEF Plain, PassedOK, Sorted
  <2> QED
    BY <2>1, <2>2 DEF Plan!PlanNext, Plan!Complete, Ends
<1>4. CASE UNCHANGED <<strat, outputs>> /\ Verdict' = Verdict
  BY <1>4 DEF Plan!plan, Verdict
<1>5. CASE SortPops \/ SortEnds \/ Brief \/ Retries
  <2>1. UNCHANGED <<strat, outputs>> /\ pc \in {"sort", "brief", "gather"} /\ pc' \in {"sort", "brief", "gather"}
    BY <1>5 DEF SortPops, SortEnds, Brief, Retries, Gathered, resultVars
  <2> QED
    BY <1>4, <2>1 DEF Verdict, Ends
<1>6. CASE (\E t \in tasks : TaskStep(t)) \/ (\E m \in Messages : Inject(m)) \/ UNCHANGED vars
  <2>1. UNCHANGED <<strat, outputs, pc>>
    BY <1>6 DEF TaskStep, TaskStarts, TaskReturns, TaskRaises, Inject, vars, resultVars
  <2> QED
    BY <1>4, <2>1 DEF Verdict
<1> QED
  BY <1>0, <1>1, <1>2, <1>3, <1>5, <1>6, StepCases

-----------------------------------------------------------------------------
(* The theorems.                                                           *)

StrategistInv ==
    Plain /\ HistoryOK /\ RetryOK /\ TacticsOK /\ DirectivesOK /\ TasksOK /\ OutsWorked /\ WorkIsCharged
    /\ RaiseOK /\ BatchOK

LEMMA StrategistInits == Init => StrategistInv
<1> SUFFICES ASSUME Init PROVE StrategistInv
  OBVIOUS
<1>1. /\ pc = "sort" /\ at = 1 /\ attempt = 0 /\ uow = FreshUow /\ used = {} /\ order = <<>>
      /\ tasks = {} /\ outs = {} /\ worked = {} /\ raised = {} /\ charges = {} /\ briefs = {} /\ sent = {} /\ pending = {}
  BY DEF Init
<1>2. uow.override = Nothing /\ uow.directives = {}
  BY <1>1 DEF FreshUow
<1>3. HistoryOK /\ TasksOK /\ OutsWorked /\ WorkIsCharged /\ RaiseOK
  BY <1>1 DEF HistoryOK, TasksOK, OutsWorked, WorkIsCharged, RaiseOK, RaiseNeverPasses
<1>4. RetryOK
  BY <1>1 DEF RetryOK, CorrectedRetry, ReplanLimit
<1>5. TacticsOK
  BY <1>1, <1>2 DEF TacticsOK, TacticsFresh
<1>6. DirectivesOK
  BY <1>1, <1>2 DEF DirectivesOK, DirectiveKept
<1>7. BatchOK
  <2>1. {t \in tasks : t.state = "running"} = {}
    BY <1>1
  <2>2. Cardinality({}) = 0 /\ IsFiniteSet({}) /\ 0 <= MaxParallel
    BY FS_EmptySet
  <2> QED
    BY <1>1, <2>1, <2>2 DEF BatchOK, OneBatch
<1> QED
  BY <1>3, <1>4, <1>5, <1>6, <1>7, PlainInit DEF StrategistInv

\* The inductive invariant holds in every state of execute.
THEOREM StrategistCorrect == Spec => []StrategistInv
<1>1. ASSUME StrategistInv, [Next]_vars PROVE StrategistInv'
  BY <1>1, PlainNext, HistoryNext, RetryNext, TacticsNext, DirectivesNext, TasksNext, OutsNext, WorkNext, RaiseNext, BatchNext
     DEF StrategistInv
<1> QED
  BY <1>1, StrategistInits, PTL DEF Spec

\* Every variable of the strategist has its type.
THEOREM StrategistTypeCorrect == Spec => []TypeOK
<1>1. StrategistInv => TypeOK
  BY DEF StrategistInv, Plain
<1> QED
  BY <1>1, StrategistCorrect, PTL

\* However the strategy is ordered, no phase is briefed before those it
\* depends on have passed (_topo_sort and the loop over phases_in_order).
THEOREM StrategistDepsPassed == Spec => []DepsPassed
<1>1. StrategistInv => DepsPassed
  BY HistoryDeps DEF StrategistInv
<1> QED
  BY <1>1, StrategistCorrect, PTL

\* A phase is attempted again only with a hint or another tactic, and at most
\* as often as the depth allows (DEPTH_TO_REPLAN_BUDGET).
THEOREM StrategistCorrectedRetry == Spec => []CorrectedRetry
<1>1. StrategistInv => CorrectedRetry
  BY DEF StrategistInv, RetryOK
<1> QED
  BY <1>1, StrategistCorrect, PTL

\* No tactic is told twice to a phase (_pick_alternative_tactic).
THEOREM StrategistTacticsFresh == Spec => []TacticsFresh
<1>1. StrategistInv => TacticsFresh
  BY DEF StrategistInv, TacticsOK
<1> QED
  BY <1>1, StrategistCorrect, PTL

\* A directive of the injection queue reaches one phase, and every attempt of
\* it from the one that drains the queue on.
THEOREM StrategistDirectiveKept == Spec => []DirectiveKept
<1>1. StrategistInv => DirectiveKept
  BY DEF StrategistInv, DirectivesOK
<1> QED
  BY <1>1, StrategistCorrect, PTL

\* Whatever the wallet records or refuses and whoever raises, a charge pays
\* exactly its own attempt's work, and gated work without one was refused or
\* given away (wallet.consume and its idempotency_key in execute).
THEOREM StrategistWorkIsCharged == Spec => []WorkIsCharged
<1>1. StrategistInv => WorkIsCharged
  BY DEF StrategistInv
<1> QED
  BY <1>1, StrategistCorrect, PTL

\* The semaphore bounds all tacticians of the run until one of them raises.
THEOREM StrategistOneBatch == Spec => []OneBatch
<1>1. StrategistInv => OneBatch
  BY DEF StrategistInv, BatchOK
<1> QED
  BY <1>1, StrategistCorrect, PTL

\* An attempt in which a tactician raised does not pass its gate, whatever the
\* checks of the phase.
THEOREM StrategistRaiseNeverPasses == Spec => []RaiseNeverPasses
<1>1. StrategistInv => RaiseNeverPasses
  BY DEF StrategistInv, RaiseOK
<1> QED
  BY <1>1, StrategistCorrect, PTL

\* execute implements the plan of phases: the verdict and the set of phases
\* passed change only as PhasePlan allows.
THEOREM StrategistImplementsPlan == Spec => ImplementsPlan
<1>1. StrategistInv /\ [Next]_vars => [Plan!PlanNext]_(Plan!plan)
  BY PlanNexts DEF StrategistInv
<1> QED
  BY <1>1, PlanInits, StrategistCorrect, PTL DEF Spec, ImplementsPlan, Plan!PlanSpec

(***************************************************************************)
(* Nobody waits for what cannot come.  The queue of _topo_sort never runs  *)
(* empty before all phases are in order, so that its ValueError is never   *)
(* raised for a strategy that passed the validators; and of a gather that  *)
(* is not over, a tactician runs or gets a permit.                         *)
(***************************************************************************)
THEOREM StrategistNeverStuck ==
    Spec => []( /\ pc = "sort" => Ready # {} \/ Sorted = Phases
                /\ pc = "gather" => \/ Gathered
                                    \/ \E t \in tasks : OfBatch(t) /\ (t.state = "running" \/ Permitted(t)))
<1>1. TypeOK => ( /\ pc = "sort" => Ready # {} \/ Sorted = Phases
                  /\ pc = "gather" => \/ Gathered
                                      \/ \E t \in tasks : OfBatch(t) /\ (t.state = "running" \/ Permitted(t)))
  BY SortGoesOn, GatherGoesOn
<1> QED
  BY <1>1, StrategistTypeCorrect, PTL

(***************************************************************************)
(* A run cannot go on for ever: every step of execute leaves it less to    *)
(* do, and every step of a tactician less for the tacticians, whatever is  *)
(* replanned, swapped, raised or injected.  It is what RunEnds rests on    *)
(* besides fairness.                                                       *)
(***************************************************************************)
THEOREM StrategistIsBounded ==
    Spec => /\ [](ExecuteLeft \in Nat /\ TasksLeft \in Nat)
            /\ [][ \/ Execute /\ ExecuteLeft' < ExecuteLeft
                   \/ /\ \E t \in tasks : TaskStep(t)
                      /\ ExecuteLeft' = ExecuteLeft /\ TasksLeft' < TasksLeft
                   \/ /\ \E m \in Messages : Inject(m)
                      /\ ExecuteLeft' = ExecuteLeft /\ TasksLeft' = TasksLeft ]_vars
<1>1. Init => FiniteOK
  <2> SUFFICES ASSUME Init PROVE FiniteOK
    OBVIOUS
  <2>1. DistinctNames(outs) = {} /\ tasks = {} /\ DOMAIN outputs = {}
    BY DEF Init, DistinctNames
  <2>2. at <= Len(order) + 1
    BY DEF Init
  <2>3. IsFiniteSet(DistinctNames(outs)) /\ IsFiniteSet(tasks)
    BY <2>1, FS_EmptySet
  <2> QED
    BY <2>1, <2>2, <2>3 DEF FiniteOK
<1>2. StrategistInv /\ FiniteOK /\ [Next]_vars => FiniteOK'
  BY FiniteNext DEF StrategistInv
<1>3. StrategistInv /\ FiniteOK => ExecuteLeft \in Nat /\ TasksLeft \in Nat
  BY MeasureTypes DEF StrategistInv, Plain
<1>4. StrategistInv /\ FiniteOK /\ [Next]_vars =>
        [ \/ Execute /\ ExecuteLeft' < ExecuteLeft
          \/ /\ \E t \in tasks : TaskStep(t)
             /\ ExecuteLeft' = ExecuteLeft /\ TasksLeft' < TasksLeft
          \/ /\ \E m \in Messages : Inject(m)
             /\ ExecuteLeft' = ExecuteLeft /\ TasksLeft' = TasksLeft ]_vars
  BY ExecuteCountsDown, TasksCountDown, InjectLeaves DEF StrategistInv, Next
<1> QED
  BY <1>1, <1>2, <1>3, <1>4, StrategistCorrect, PTL DEF Spec

=============================================================================
