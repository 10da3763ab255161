------------------------------ MODULE LoopRun ------------------------------
(***************************************************************************)
(* One research run on the loop path: POST /v3/agent/message               *)
(* (routers/v3/agent.py) inserts its row and starts IsLoopRunWorkflow      *)
(* (temporal/workflows/is_loop_run.py), whose activities write the row and *)
(* the trail (temporal/activities/).  The row has other writers: the       *)
(* orphan watchdog and the stale-run sweep, which fail what is queued for  *)
(* too long, and POST /v3/runs/{id}/cancel.  The brain turns are those of  *)
(* TurnLoop.                                                               *)
(*                                                                         *)
(* The row keeps pipeline-{run_id} as its workflow id and the workflow is  *)
(* started as is-loop-run-{run_id}: whoever asks Temporal for the workflow *)
(* of the row is told that there is none.                                  *)
(*                                                                         *)
(* One worker process runs all activities in one event loop: between two   *)
(* awaits an activity is alone with the row, and none awaits between the   *)
(* look at the status and the write that depends on it, but post_process,  *)
(* whose look only saves work.                                             *)
(***************************************************************************)
EXTENDS TurnLoop

CONSTANT Faults         \* which of AllFaults the environment commits

AllFaults ==
    {"dispatch",    \* the handler does not live to dispatch, or gets no answer
     "activity",    \* an activity fails in all its attempts
     "late",        \* ... and the last one still runs when it is given up
     "slow",        \* the run takes longer than the watchdog allows
     "pause",       \* the user cancels the run through the API
     "dup"}         \* the signal brain_answer is delivered more than once

ASSUME FaultsAssumption == Faults \subseteq AllFaults

VARIABLES
    row,        \* pipeline_runs.status
    trail,      \* status in the row of research_trails, "none" if there is none
    pc,         \* where the workflow is
    question,   \* 1 in the preflight part, 2 in the conflict check
    answer,     \* _brain_answer: the question it answers, 0 for None
    clarified,  \* clarified[q]: what was appended to the query for question q
    outcome,    \* what the workflow returns, "error" for an exception
    zombies,    \* activities given up that may still run
    pausing     \* the cancel handler has checked the row and not yet written it

workflowVars == <<pc, question, answer, clarified, outcome>>
vars == <<row, trail, workflowVars, zombies, pausing, loopVars>>

Questions == {1, 2}
NotAsked == 0
Asked == 3
Finals == {"succeeded", "failed", "paused"}

TypeOK ==
    /\ LoopTypeOK
    /\ row \in {"queued", "awaiting_input"} \cup Finals
    /\ trail \in {"none", "succeeded", "failed", "cancelled"}
    /\ pc \in {"dispatch", "check", "mark", "wait", "reserve", "init", "loop", "post", "abort", "done"}
    /\ question \in Questions /\ answer \in {0} \cup Questions
    /\ clarified \in [Questions -> {NotAsked, Asked} \cup Questions]
    /\ outcome \in {"none", "succeeded", "failed", "cancelled", "error"}
    /\ zombies \subseteq {"mark", "post", "abort"} /\ pausing \in BOOLEAN

\* The row is inserted with status 'queued' and budget_status 'reserved'.
Init ==
    /\ LoopInit
    /\ row = "queued" /\ trail = "none"
    /\ pc = "dispatch" /\ question = 1 /\ answer = 0
    /\ clarified = [q \in Questions |-> NotAsked]
    /\ outcome = "none" /\ zombies = {} /\ pausing = FALSE

-----------------------------------------------------------------------------
(* The handler of POST /v3/agent/message.                                  *)

Dispatch ==
    /\ pc = "dispatch" /\ pc' = "check"
    /\ UNCHANGED <<row, trail, question, answer, clarified, outcome, zombies, pausing, loopVars>>

\* start_workflow raises: the row is marked failed if it is still queued.
\* The server may have started the workflow all the same.
DispatchFails ==
    /\ pc = "dispatch"
    /\ \/ pc' = "done"
       \/ "dispatch" \in Faults /\ pc' = "check"
    /\ row' = IF row = "queued" THEN "failed" ELSE row
    /\ UNCHANGED <<trail, question, answer, clarified, outcome, zombies, pausing, loopVars>>

\* The handler's own preflight finds something to ask: there is no workflow,
\* the answer takes the run to the single-shot brain (_run_is_research).
HandlerAsks ==
    /\ pc = "dispatch" /\ pc' = "done"
    /\ row' = "awaiting_input"
    /\ UNCHANGED <<trail, question, answer, clarified, outcome, zombies, pausing, loopVars>>

\* The process ends while the handler retrieves past research.
HandlerDies ==
    /\ "dispatch" \in Faults
    /\ pc = "dispatch" /\ pc' = "done"
    /\ UNCHANGED <<row, trail, question, answer, clarified, outcome, zombies, pausing, loopVars>>

-----------------------------------------------------------------------------
(* The workflow up to the first brain turn.                                *)

\* After the preflight comes the conflict check, then the budget.
Cleared ==
    /\ question' = 2
    /\ pc' = IF question = 1 THEN "check" ELSE "reserve"

\* preflight_validation or conflict_check finds nothing to ask.  The latter
\* fails open.
NothingToAsk ==
    /\ pc = "check" /\ Cleared
    /\ UNCHANGED <<row, trail, answer, clarified, outcome, zombies, pausing, loopVars>>

Blocks ==
    /\ pc = "check" /\ pc' = "mark"
    /\ UNCHANGED <<row, trail, question, answer, clarified, outcome, zombies, pausing, loopVars>>

\* mark_awaiting_input: whatever the status was.
Mark ==
    /\ pc = "mark" /\ pc' = "wait"
    /\ row' = "awaiting_input"
    /\ clarified' = [clarified EXCEPT ![question] = Asked]
    /\ UNCHANGED <<trail, question, answer, outcome, zombies, pausing, loopVars>>

\* Mutant of Answered: _brain_answer is not reset.
AnsweredKept ==
    /\ pc = "wait" /\ answer # 0 /\ ~cancelled
    /\ clarified' = [clarified EXCEPT ![question] = answer]
    /\ Cleared
    /\ UNCHANGED <<row, trail, answer, outcome, zombies, pausing, loopVars>>

\* The answer is appended to the query.
Answered ==
    /\ pc = "wait" /\ answer # 0 /\ ~cancelled
    /\ clarified' = [clarified EXCEPT ![question] = answer]
    /\ answer' = 0
    /\ Cleared
    /\ UNCHANGED <<row, trail, outcome, zombies, pausing, loopVars>>

\* Mutant of WaitTimesOut: there is no timeout.
WaitsForever == FALSE /\ UNCHANGED vars

\* Nobody answers for ten minutes: wait_condition raises, run() ends with the
\* exception and leaves the row as it is.
WaitTimesOut ==
    /\ pc = "wait" /\ answer = 0 /\ ~cancelled
    /\ pc' = "done" /\ outcome' = "error"
    /\ UNCHANGED <<row, trail, question, answer, clarified, zombies, pausing, loopVars>>

CancelledBeforeLoop ==
    /\ pc \in {"wait", "reserve"} /\ cancelled
    /\ pc' = "abort" /\ outcome' = "cancelled"
    /\ UNCHANGED <<row, trail, question, answer, clarified, zombies, pausing, loopVars>>

\* reserve_budget finds budget_status = 'reserved'; init_working_memory.
Proceed ==
    /\ \/ pc = "reserve" /\ ~cancelled /\ pc' = "init"
       \/ pc = "init" /\ pc' = "loop"
    /\ UNCHANGED <<row, trail, question, answer, clarified, outcome, zombies, pausing, loopVars>>

GivenUp(activity) ==
    \/ UNCHANGED zombies
    \/ "late" \in Faults /\ zombies' = zombies \cup {activity}

\* One of these activities raises in its last attempt or times out, and so
\* does run().  (Not so conflict_check, which fails open.)
ActivityFails ==
    /\ "activity" \in Faults
    /\ pc \in {"mark", "reserve", "init"} \/ (pc = "check" /\ question = 1)
    /\ pc' = "done" /\ outcome' = "error"
    /\ IF pc = "mark" THEN GivenUp("mark") ELSE UNCHANGED zombies
    /\ UNCHANGED <<row, trail, question, answer, clarified, pausing, loopVars>>

-----------------------------------------------------------------------------
(* The loop and what comes after it.                                       *)

BrainTurn ==
    /\ pc = "loop"
    /\ Turn \/ TurnFails
    /\ pc' = IF reason' = "none" THEN "loop" ELSE "post"
    /\ UNCHANGED <<row, trail, question, answer, clarified, outcome, zombies, pausing>>

\* _final_status
FinalStatus ==
    IF reason = "cancelled_by_user" THEN "cancelled"
    ELSE IF reason = "turn_error" THEN "failed"
    ELSE "succeeded"

\* Mutant of PostProcess: a row that is failed is left alone, too.
PostProcessOnce ==
    IF row \in Finals
      THEN UNCHANGED <<row, trail>>
      ELSE trail' = FinalStatus /\ row' = "succeeded"

\* post_process, an attempt from start to end.  An error in the trail's two
\* statements is logged; the DELETE alone may have taken place.
PostProcess ==
    IF row = "succeeded"
      THEN UNCHANGED <<row, trail>>
      ELSE /\ row' = "succeeded"
           /\ \/ trail' = FinalStatus
              \/ "activity" \in Faults /\ trail' \in {trail, "none"}

Post ==
    /\ pc = "post" /\ pc' = "done"
    /\ outcome' = FinalStatus
    /\ PostProcess
    /\ UNCHANGED <<question, answer, clarified, zombies, pausing, loopVars>>

\* An attempt ends after the trail, or after the row, and is repeated.
PostRetried ==
    /\ "activity" \in Faults
    /\ pc = "post"
    /\ \/ PostProcess
       \/ row # "succeeded" /\ trail' = FinalStatus /\ UNCHANGED row
    /\ UNCHANGED <<workflowVars, zombies, pausing, loopVars>>

PostFails ==
    /\ "activity" \in Faults
    /\ pc = "post" /\ pc' = "abort" /\ outcome' = "failed"
    /\ GivenUp("post")
    /\ UNCHANGED <<row, trail, question, answer, clarified, pausing, loopVars>>

\* Mutant of MarkFailed: the status is not looked at.
MarkFailedAlways == row' = "failed"

\* release_budget_and_mark_failed.  ('cancelled' is never written.)
MarkFailed == row' = IF row \in {"succeeded", "failed"} THEN row ELSE "failed"

\* _abort swallows the errors of its activity.
Abort ==
    /\ pc = "abort" /\ pc' = "done"
    /\ \/ MarkFailed /\ UNCHANGED zombies
       \/ "activity" \in Faults /\ GivenUp("abort") /\ UNCHANGED row
    /\ UNCHANGED <<trail, question, answer, clarified, outcome, pausing, loopVars>>

\* An activity that was given up comes to its end.
Late(activity) ==
    /\ activity \in zombies /\ zombies' = zombies \ {activity}
    /\ \/ activity = "mark"  /\ row' = "awaiting_input" /\ UNCHANGED trail
       \/ activity = "post"  /\ PostProcess
       \/ activity = "abort" /\ MarkFailed /\ UNCHANGED trail
    /\ UNCHANGED <<workflowVars, pausing, loopVars>>

-----------------------------------------------------------------------------
(* Signals, and the other writers of the row.                              *)

\* Questions the user has seen: one that was marked before, or is waited for.
Seen == {q \in Questions : clarified[q] # NotAsked}

\* The signal brain_answer; the last one wins.
BrainAnswer(q) ==
    /\ pc \notin {"dispatch", "done"}
    /\ q \in Seen
    /\ (clarified[q] = Asked /\ answer = 0) \/ "dup" \in Faults
    /\ answer' = q
    /\ UNCHANGED <<row, trail, pc, question, clarified, outcome, zombies, pausing, loopVars>>

CancelRun ==
    /\ pc \notin {"dispatch", "done"}
    /\ Cancel
    /\ UNCHANGED <<row, trail, workflowVars, zombies, pausing>>

\* Mutant of Watchdog: only running rows are looked at.
WatchdogIgnoresQueued == FALSE /\ UNCHANGED vars

\* orphan_watchdog and metrics._fail_stale_runs: a queued row past its time
\* is failed.
Watchdog ==
    /\ row = "queued" /\ (pc = "done" \/ "slow" \in Faults)
    /\ row' = "failed"
    /\ UNCHANGED <<trail, workflowVars, zombies, pausing, loopVars>>

\* cancel_pipeline_run: it checks the row, awaits Temporal, which knows no
\* such workflow, and writes the row.
PauseChecks ==
    /\ "pause" \in Faults
    /\ ~pausing /\ row = "queued"
    /\ pausing' = TRUE
    /\ UNCHANGED <<row, trail, workflowVars, zombies, loopVars>>

PauseWrites ==
    /\ pausing /\ pausing' = FALSE
    /\ row' = "paused"
    /\ UNCHANGED <<trail, workflowVars, zombies, loopVars>>

-----------------------------------------------------------------------------
Workflow ==
    \/ NothingToAsk \/ Blocks \/ Mark \/ Answered \/ WaitTimesOut \/ CancelledBeforeLoop
    \/ Proceed \/ ActivityFails \/ BrainTurn \/ Post \/ PostFails \/ Abort

Handler == Dispatch \/ DispatchFails \/ HandlerAsks \/ HandlerDies

Done == pc = "done" /\ UNCHANGED vars

Next ==
    \/ Handler \/ Workflow \/ PostRetried \/ Watchdog \/ CancelRun
    \/ PauseChecks \/ PauseWrites \/ Done
    \/ \E q \in Questions : BrainAnswer(q)
    \/ \E activity \in zombies : Late(activity)

\* The event loop runs the handler; every activity and the wait have a
\* timeout; the watchdog runs every five minutes.
Fairness == WF_vars(Handler) /\ WF_vars(Workflow) /\ WF_vars(Watchdog)

Spec == Init /\ [][Next]_vars /\ Fairness

-----------------------------------------------------------------------------
(***************************************************************************)
(* No brain turn is paid for before the questions are settled: past the    *)
(* gates, each question that was asked has got the answer to it, and not   *)
(* the answer to another.                                                  *)
(***************************************************************************)
ClarifiedFirst ==
    pc \in {"reserve", "init", "loop", "post"} => \A q \in Questions : clarified[q] \in {NotAsked, q}

(***************************************************************************)
(* A row says succeeded only after the brain loop ended; no dispatch,      *)
(* watchdog or abandoned activity makes a run succeed that never ran.      *)
(***************************************************************************)
SuccessIsEarned == row = "succeeded" => reason # "none"

(***************************************************************************)
(* A workflow that returns "succeeded" leaves a row that says so, also     *)
(* when a watchdog had failed the run or a late activity or the cancel     *)
(* handler wrote it meanwhile, and no trail that says otherwise.           *)
(***************************************************************************)
SuccessIsShown ==
    pc = "done" /\ outcome = "succeeded" =>
        row \in {"succeeded", "paused"} /\ trail \in {"none", "succeeded"}

(***************************************************************************)
(* Nothing but a cancel request already under way takes a run that has     *)
(* succeeded to another status: no abort, late attempt or watchdog.        *)
(***************************************************************************)
SucceededStays == [][row = "succeeded" /\ ~pausing => row' = "succeeded"]_vars

(***************************************************************************)
(* The workflow ends, whether anybody answers its questions or not.        *)
(***************************************************************************)
WorkflowEnds == <>(pc = "done")

(***************************************************************************)
(* "must transition the pipeline_runs row to a terminal status so it       *)
(* doesn't sit in 'queued' forever": it does not, whatever fails.          *)
(***************************************************************************)
LeavesQueue == <>[](row # "queued")

(***************************************************************************)
(* Row and trail tell the same: a run whose trail says failed or cancelled *)
(* is not a succeeded one.  Not kept: post-processing makes the row        *)
(* succeeded whatever the loop ended with.                                 *)
(***************************************************************************)
RowMatchesTrail == row \in {"succeeded", "failed"} /\ trail # "none" => row = trail

=============================================================================
