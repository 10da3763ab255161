--------------------------- MODULE EngineBilling ---------------------------
(***************************************************************************)
(* How runs of engine v2 are admitted, launched and billed: POST           *)
(* /v3/preflight/confirm (routers/v3/preflight.py), the admission gate     *)
(* (services/admission_gate.py), run_engine_v2 (pipeline/engine_v2.py) and *)
(* the consume calls of Strategist.execute, over the wallets of several    *)
(* users.                                                                  *)
(*                                                                         *)
(* The API is one uvicorn process.  Confirm handlers and engines are       *)
(* asyncio tasks, so code between two awaits is indivisible: each action   *)
(* below is such a stretch.  An engine counts what it consumes by          *)
(* replacing the module attribute wallet.consume with a wrapper that adds  *)
(* to its own sum and calls what the attribute was before.  All engines of *)
(* the process share that attribute.  The model keeps of a wrapper the set *)
(* of engines whose sums a call adds to; {} is the consume of budget.py.   *)
(***************************************************************************)
EXTENDS WalletOps, FiniteSetsExt

CONSTANTS
    Users, Runs,
    Engines,                \* bound: calls of run_engine_v2 at one time
    Owner,                  \* Owner[r]: the user of run r
    P90,                    \* P90[r]: the estimate that confirm holds for r
    Costs,                  \* actual_ru of a phase attempt
    Finals,                 \* the final statuses that runs of the instance get
    MaxAttempts,            \* bound: phase attempts of one run
    GlobalMax, PerUserMax,  \* GLOBAL_MAX_CONCURRENT, PER_USER_MAX_CONCURRENT
    Faults                  \* which of AllFaults the environment commits

AllFaults ==
    {"retry",       \* a client confirms a run_id again
     "setup",       \* the catalogs do not load, or lack the strategy
     "crash",       \* the strategist raises between two phases
     "db",          \* a wallet call meets a database error
     "rows",        \* a statement on pipeline_runs meets a database error
     "restart",     \* the API process restarts
     "sweep"}       \* a sweep fails a running row that is old, live or not

ASSUME RunsAssumption ==
    /\ IsFiniteSet(Runs) /\ Runs # {}
    /\ Owner \in [Runs -> Users] /\ P90 \in [Runs -> Nat]
    /\ Costs \subseteq Nat /\ Faults \subseteq AllFaults
    /\ Finals \subseteq {"succeeded", "failed", "ask_user"}
    /\ MaxAttempts \in Nat /\ GlobalMax \in Nat /\ PerUserMax \in Nat

VARIABLES
    wallet,     \* wallet[u]: the row of user_budget_wallets
    ledger,     \* the table wallet_operations, as a set of rows
    status,     \* status[r]: the column pipeline_runs.status, or "absent"
    engine,     \* engine[e]: the local variables of the engine task
    consume,    \* the attribute wallet.consume
    disturbed   \* history: the runs that were not alone with their engine and
                \* the wallet.  Its engine ran beside another one, a confirm
                \* was repeated after something was done for the run or with
                \* another amount, or a database error lost a wallet call

vars == <<wallet, ledger, status, engine, consume, disturbed>>

Attempts == 1 .. MaxAttempts
Statuses == {"absent", "running", "succeeded", "failed", "ask_user"}

LedgerRow ==
    [op : {"hold", "consume", "release", "refund"}, run : Runs, n : {0} \cup Attempts,
     amount : Nat, held_after : Nat]

\* hold is hold_amount_ru, left is max(0, hold_amount_ru - sum_consumed_ru),
\* paid the phase attempts made so far, saved is _orig_wallet_consume.
EngineState ==
    [pc : {"idle", "scheduled", "running"}, run : Runs,
     hold : Nat, left : Nat, paid : SUBSET Attempts, saved : SUBSET Engines]

\* A task before its first step: the local variables as they start out.
Scheduled(r, heldRu) ==
    [pc |-> "scheduled", run |-> r, hold |-> heldRu, left |-> heldRu,
     paid |-> {}, saved |-> {}]

Idle == [Scheduled(CHOOSE r \in Runs : TRUE, 0) EXCEPT !.pc = "idle"]

TypeOK ==
    /\ wallet \in [Users -> WalletRow]
    /\ ledger \subseteq LedgerRow
    /\ status \in [Runs -> Statuses]
    /\ engine \in [Engines -> EngineState]
    /\ consume \subseteq Engines
    /\ disturbed \subseteq Runs

\* Rows exist: POST /v3/preflight has provisioned them.
Init ==
    /\ wallet = [u \in Users |-> Starter]
    /\ ledger = {}
    /\ status = [r \in Runs |-> "absent"]
    /\ engine = [e \in Engines |-> Idle]
    /\ consume = {}
    /\ disturbed = {}

-----------------------------------------------------------------------------
(* Wallet calls.  The key of a call names its operation, its run and for a *)
(* consume the phase and the attempt, n.                                   *)

RowsOf(op, r) == {row \in ledger : row.op = op /\ row.run = r}
\* Mutant of HasKey: only a hold is looked up by its key.
HasHoldKey(op, r, n) == op = "hold" /\ RowsOf(op, r) # {}

HasKey(op, r, n) == \E row \in RowsOf(op, r) : row.n = n

\* The operation takes effect, unless its key already has.
Billed(op, r, n, amount) ==
    LET w == wallet[Owner[r]]
        v == Updated(op, w, amount)
    IN  IF HasKey(op, r, n) \/ ~UpdateMatches(op, w, amount)
          THEN UNCHANGED <<wallet, ledger>>
          ELSE /\ wallet' = [wallet EXCEPT ![Owner[r]] = v]
               /\ ledger' = ledger \cup
                    {[op |-> op, run |-> r, n |-> n, amount |-> amount, held_after |-> v.held]}

\* consume, release and refund as the engine calls them: an error is
\* reported or swallowed, but no caller here looks.
WalletCall(op, r, n, amount) ==
    \/ Billed(op, r, n, amount) /\ UNCHANGED disturbed
    \/ /\ "db" \in Faults
       /\ disturbed' = disturbed \cup {r}
       /\ UNCHANGED <<wallet, ledger>>

-----------------------------------------------------------------------------
(* Confirm.                                                                *)

RunningRuns == {r \in Runs : status[r] = "running"}

\* Mutant of Admitted: the caps are compared off by one.
AdmittedAtCap(u) ==
    /\ Cardinality(RunningRuns) <= GlobalMax
    /\ Cardinality({r \in RunningRuns : Owner[r] = u}) <= PerUserMax

\* check_admission: a count of rows; an engine without a running row is not
\* counted.  The daily cap, and the rows of the other paths that start runs,
\* are left out: with them the gate refuses more often (ConfirmHolds).
Admitted(u) ==
    /\ Cardinality(RunningRuns) < GlobalMax
    /\ Cardinality({r \in RunningRuns : Owner[r] = u}) < PerUserMax

\* wallet.hold succeeds, now or in an earlier call with the same run_id, and
\* answers heldRu: the amount, or the held_after of the earlier row.
HoldPlaced(r, heldRu) ==
    \/ /\ HasKey("hold", r, 0)
       /\ "retry" \in Faults
       /\ \E row \in RowsOf("hold", r) : heldRu = row.held_after
       /\ UNCHANGED <<wallet, ledger>>
    \/ /\ ~HasKey("hold", r, 0)
       /\ UpdateMatches("hold", wallet[Owner[r]], P90[r])
       /\ heldRu = P90[r]
       /\ Billed("hold", r, 0, P90[r])

HeldAmounts(r) == {P90[r]} \cup {row.held_after : row \in RowsOf("hold", r)}

\* INSERT INTO pipeline_runs ... ON CONFLICT DO NOTHING; errors are logged.
RowInserted(r) ==
    \/ status' = [status EXCEPT ![r] = IF @ = "absent" THEN "running" ELSE @]
    \/ "rows" \in Faults /\ UNCHANGED status

\* The hold is placed and no engine launched: start_run is not set, the gate
\* answers 429, or the acknowledgement of the hold is lost.  The hold stays.
ConfirmHolds(r) ==
    /\ HoldPlaced(r, P90[r])
    /\ UNCHANGED <<status, engine, consume, disturbed>>

\* History: an engine works on the run, or its hold was paid from.
Touched(r) ==
    \/ \E e \in Engines : engine[e].pc # "idle" /\ engine[e].run = r
    \/ \E row \in ledger : row.run = r /\ row.op # "hold"

\* Hold, gate, row, create_task.  The gate admits when it cannot count.  The
\* sum of the engine that had the slot before has no reader any more.
ConfirmLaunches(r, e) ==
    /\ engine[e].pc = "idle"
    /\ Admitted(Owner[r]) \/ "rows" \in Faults
    /\ \E heldRu \in HeldAmounts(r) :
          /\ HoldPlaced(r, heldRu)
          /\ engine' = [f \in Engines |->
                          IF f = e THEN Scheduled(r, heldRu)
                                   ELSE [engine[f] EXCEPT !.saved = @ \ {e}]]
          /\ disturbed' = IF Touched(r) \/ heldRu # P90[r] THEN disturbed \cup {r} ELSE disturbed
    /\ consume' = consume \ {e}
    /\ RowInserted(r)

-----------------------------------------------------------------------------
(* The engine.                                                             *)

Running == {e \in Engines : engine[e].pc = "running"}

\* Row inserted if it is missing, catalogs loaded, wrapper installed, up to
\* the first await.
Start(e) ==
    /\ engine[e].pc = "scheduled"
    /\ engine' = [engine EXCEPT ![e].pc = "running", ![e].saved = consume]
    /\ consume' = consume \cup {e}
    /\ disturbed' = IF Running = {} THEN disturbed
                     ELSE disturbed \cup {engine[f].run : f \in Running \cup {e}}
    /\ RowInserted(engine[e].run)
    /\ UNCHANGED <<wallet, ledger>>

\* Catalog load failed or the strategy is unknown: refund and raise.  The
\* row keeps the status "running".
SetupFails(e) ==
    /\ "setup" \in Faults
    /\ engine[e].pc = "scheduled"
    /\ engine' = [engine EXCEPT ![e] = Idle]
    /\ WalletCall("refund", engine[e].run, 0, engine[e].hold)
    /\ RowInserted(engine[e].run)
    /\ UNCHANGED consume

\* A phase attempt was gated and is paid for, through the wrappers.  Which
\* attempts are made is up to the gates, so two engines of a run can differ.
Consume(e, n, cost) ==
    /\ engine[e].pc = "running"
    /\ n \notin engine[e].paid
    /\ engine' = [f \in Engines |->
                    [engine[f] EXCEPT !.left = IF f \in consume THEN AtLeastZero(@ - cost) ELSE @,
                                      !.paid = IF f = e THEN @ \cup {n} ELSE @]]
    /\ WalletCall("consume", engine[e].run, n, cost)
    /\ UNCHANGED <<status, consume>>

\* The final UPDATE of pipeline_runs, whatever the status was; errors are
\* logged.
FinalStatus(r, final) ==
    \/ status' = [status EXCEPT ![r] = IF @ = "absent" THEN @ ELSE final]
    \/ "rows" \in Faults /\ UNCHANGED status

Returns(e) ==
    /\ engine[e].pc = "running" /\ engine[e].paid # {}
    /\ engine' = [engine EXCEPT ![e] = Idle]

\* Mutants of Finish.  The unused part of the hold is not released;
FinishKeepsHold(e, final) ==
    /\ Returns(e)
    /\ consume' = engine[e].saved
    /\ FinalStatus(engine[e].run, final)
    /\ UNCHANGED <<wallet, ledger, disturbed>>

\* the hold is given back by operation op in the full amount.
FinishGivesBack(e, final, op) ==
    /\ Returns(e)
    /\ consume' = engine[e].saved
    /\ WalletCall(op, engine[e].run, 0, engine[e].hold)
    /\ FinalStatus(engine[e].run, final)

FinishReleasesAll(e, final) == FinishGivesBack(e, final, "release")
FinishRefunds(e, final)     == FinishGivesBack(e, final, "refund")

\* The strategist returned: restore the attribute, release what is left of
\* the hold, write the final status.
Finish(e, final) ==
    /\ Returns(e)
    /\ consume' = engine[e].saved
    /\ IF engine[e].left > 0
         THEN WalletCall("release", engine[e].run, 0, engine[e].left)
         ELSE UNCHANGED <<wallet, ledger, disturbed>>
    /\ FinalStatus(engine[e].run, final)

\* The strategist raised: refund the full hold, restore the attribute.
Crash(e) ==
    /\ "crash" \in Faults
    /\ engine[e].pc = "running"
    /\ consume' = engine[e].saved
    /\ WalletCall("refund", engine[e].run, 0, engine[e].hold)
    /\ engine' = [engine EXCEPT ![e] = Idle]
    /\ UNCHANGED status

-----------------------------------------------------------------------------
(* The process and the sweeps (main.py).                                   *)

\* All tasks are gone, the modules are loaded anew; startup marks the runs
\* that were running as failed, or logs that it could not.
Restart ==
    /\ "restart" \in Faults
    /\ \E e \in Engines : engine[e].pc # "idle"
    /\ engine' = [e \in Engines |-> Idle]
    /\ consume' = {}
    /\ \/ status' = [r \in Runs |-> IF status[r] = "running" THEN "failed" ELSE status[r]]
       \/ "rows" \in Faults /\ UNCHANGED status
    /\ UNCHANGED <<wallet, ledger, disturbed>>

\* _stale_run_sweep looks at the age of the row only: it may be the row of a
\* live engine, or of one that ended without a final status.
Sweep(r) ==
    /\ "sweep" \in Faults
    /\ status[r] = "running"
    /\ status' = [status EXCEPT ![r] = "failed"]
    /\ UNCHANGED <<wallet, ledger, engine, consume, disturbed>>

EngineStep(e) ==
    \/ Start(e)
    \/ \E n \in Attempts, cost \in Costs : Consume(e, n, cost)
    \/ \E final \in Finals : Finish(e, final)

Next ==
    \/ \E r \in Runs : ConfirmHolds(r) \/ Sweep(r)
    \/ \E r \in Runs, e \in Engines : ConfirmLaunches(r, e)
    \/ \E e \in Engines : EngineStep(e) \/ SetupFails(e) \/ Crash(e)
    \/ Restart

Spec == Init /\ [][Next]_vars

\* The event loop runs every task that is ready; attempts are bounded by the
\* replan budget, so an engine that is never interrupted returns.  The sweep
\* runs every five minutes for as long as the process does.
FairSpec ==
    /\ Spec
    /\ \A e \in Engines : WF_vars(EngineStep(e))
    /\ \A r \in Runs : WF_vars(Sweep(r))

-----------------------------------------------------------------------------
(* What is owed.                                                           *)

AmountOf(rows) == SumFunction([row \in rows |-> row.amount])

RunsOf(u) == {r \in Runs : Owner[r] = u}

Placed(r)  == AmountOf(RowsOf("hold", r))
Charged(r) == AmountOf(RowsOf("consume", r))
Freed(r)   == AmountOf(RowsOf("release", r))
Repaid(r)  == AmountOf(RowsOf("refund", r))

\* What the operations of a run took from held_ru.
Taken(r) == Charged(r) + Freed(r) + Repaid(r)

\* What is left of a run's hold, and what was taken beyond it.
Open(r)   == AtLeastZero(Placed(r) - Taken(r))
Excess(r) == AtLeastZero(Taken(r) - Placed(r))

\* Only an engine that returns writes these: nothing should be left of the hold.
Returned(r) == status[r] \in {"succeeded", "ask_user"}

Clean(r) == Returned(r) /\ r \notin disturbed

\* Why more than its hold can be taken for a run: it was disturbed, it cost
\* more than its estimate, or a crash refunded a hold that was paid from.
Overdraws(r) ==
    \/ r \in disturbed
    \/ Charged(r) > Placed(r)
    \/ Charged(r) > 0 /\ RowsOf("refund", r) # {}

ChargedTo(u) == SumFunction([r \in RunsOf(u) |-> Charged(r)])
LiveHolds(u) == SumFunction([r \in RunsOf(u) |-> Open(r)])

-----------------------------------------------------------------------------
(***************************************************************************)
(* No schedule of confirms, retries, engines and faults makes an UPDATE    *)
(* break the CHECK constraint balance_ru >= held_ru.                       *)
(***************************************************************************)
Solvent == \A u \in Users : wallet[u].held <= wallet[u].balance

(***************************************************************************)
(* Each phase attempt of a run is paid for at most once, also when two     *)
(* engines work on the same run, and what a user has spent is exactly what *)
(* the consume rows of his runs say (cost_breakdown and forecast sum them).*)
(***************************************************************************)
PaidOnce ==
    /\ \A x, y \in ledger : x.op = y.op /\ x.run = y.run /\ x.n = y.n => x = y
    /\ \A u \in Users : wallet[u].spent = ChargedTo(u)

(***************************************************************************)
(* The admission gate keeps its caps: the number of runs with status       *)
(* "running", in all and per user, stays within them.  (It counts rows; an *)
(* engine whose row a sweep has failed is no longer counted.)              *)
(***************************************************************************)
AdmissionCap ==
    /\ Cardinality(RunningRuns) <= GlobalMax
    /\ \A u \in Users : Cardinality(RunningRuns \cap RunsOf(u)) <= PerUserMax

(***************************************************************************)
(* "release unused hold back to spendable balance": no more is held of a   *)
(* user's balance than is left of the holds of the runs no engine has      *)
(* returned from.  Not kept: overlapping engines count each other's        *)
(* consumption and release too little.                                     *)
(***************************************************************************)
NoHoldLeak ==
    \A u \in Users :
        wallet[u].held <= SumFunction([r \in RunsOf(u) |-> IF Returned(r) THEN 0 ELSE Open(r)])

(***************************************************************************)
(* What is kept of it: only runs whose engine has not returned, or that    *)
(* were disturbed, have anything held.  An engine that was alone leaves    *)
(* nothing behind, whatever other runs, sweeps and restarts do.            *)
(***************************************************************************)
OnlyDisturbedLeak ==
    \A u \in Users :
        wallet[u].held <= SumFunction([r \in RunsOf(u) |-> IF Clean(r) THEN 0 ELSE Open(r)])

(***************************************************************************)
(* "held_ru >= sum(active_holds.hold_amount)": what a run has left of its  *)
(* hold is still reserved for it.  What is missing is what was taken       *)
(* beyond their own holds for the runs of which that can happen.           *)
(***************************************************************************)
HoldsCovered ==
    \A u \in Users :
        wallet[u].held
          + SumFunction([r \in RunsOf(u) |-> IF Overdraws(r) THEN Excess(r) ELSE 0])
            >= LiveHolds(u)

(***************************************************************************)
(* Without topups nobody has more RU than what he has not spent of the     *)
(* starter balance, but for refunds (which credit a hold that no operation *)
(* debited), and only of runs that did not return cleanly.                 *)
(***************************************************************************)
NothingMinted ==
    \A u \in Users :
        wallet[u].balance <=
            AtLeastZero(StarterBalance - wallet[u].spent)
              + SumFunction([r \in RunsOf(u) |-> IF Clean(r) THEN 0 ELSE Repaid(r)])

(***************************************************************************)
(* A run that is running comes to an end, also one that a sweep has failed *)
(* under its engine: nothing is left of its hold, or its row says that it  *)
(* failed and no engine works on it any more.  Of a disturbed run, part of *)
(* the hold may be left for good.                                          *)
(***************************************************************************)
Ended(r) ==
    \/ Open(r) = 0 \/ r \in disturbed
    \/ status[r] = "failed" /\ \A e \in Engines : engine[e].pc # "idle" => engine[e].run # r

RunEnds == \A r \in Runs : status[r] = "running" ~> Ended(r)

(***************************************************************************)
(* "orphan watchdog handles stuck held_ru": what a running run holds is    *)
(* eventually used up or given back, whatever happens to the run.  Not     *)
(* kept: a restart fails the row and leaves the hold.                      *)
(***************************************************************************)
HoldSettles == \A r \in Runs : status[r] = "running" ~> Open(r) = 0

=============================================================================
