--------------------------- MODULE LoopRunProofs ---------------------------
(***************************************************************************)
(* Proofs about LoopRun, for every number of turns and every set of        *)
(* faults: types, and that success is earned, shown and kept; and, unless  *)
(* signals are duplicated, that questions get their own answers.           *)
(***************************************************************************)
EXTENDS LoopRun, TLAPS

USE MaxTurnsAssumption, FaultsAssumption

\* Points of the workflow at which the loop has no terminate_reason yet.
Before == {"dispatch", "check", "mark", "wait", "reserve", "init", "loop"}

\* What the point of the workflow says about reason, outcome and the
\* activities that can still be under way.
Order ==
    /\ pc \in Before => reason = "none" /\ outcome = "none" /\ zombies = {}
    /\ pc = "post" => reason # "none" /\ outcome = "none" /\ zombies = {}
    /\ pc = "abort" => outcome \in {"failed", "cancelled"} /\ zombies \subseteq {"post"}
    /\ "mark" \in zombies => reason = "none"
    /\ "post" \in zombies => reason # "none"
    /\ "abort" \in zombies => outcome # "succeeded"
    /\ outcome = "succeeded" => reason # "none"

\* The trail is that of the loop's end.
TrailOfEnd == trail # "none" => reason # "none" /\ trail = FinalStatus

\* What a workflow that returned "succeeded" leaves.
Shown == outcome = "succeeded" => FinalStatus = "succeeded" /\ row \in {"succeeded", "paused"}

RunInv == TypeOK /\ Order /\ SuccessIsEarned /\ TrailOfEnd /\ Shown

\* The invariant holds when the handler has inserted the row,
LEMMA RunInitInv == Init => RunInv
<1> SUFFICES ASSUME Init PROVE RunInv
  OBVIOUS
<1>1. pausing \in BOOLEAN /\ cancelled \in BOOLEAN
  BY Zenon DEF Init, LoopInit
<1>2. TypeOK
  BY <1>1 DEF Init, TypeOK, LoopInit, LoopTypeOK, Reasons, Questions, NotAsked, Asked, Finals
<1>3. Order /\ SuccessIsEarned /\ TrailOfEnd /\ Shown
  BY DEF Init, LoopInit, Order, Before, SuccessIsEarned, TrailOfEnd, Shown
<1> QED
  BY <1>2, <1>3 DEF RunInv

\* and every step of workflow, handler and the row's other writers keeps it.
LEMMA RunNextInv == RunInv /\ [Next]_vars => RunInv'
<1> SUFFICES ASSUME RunInv, [Next]_vars PROVE RunInv'
  OBVIOUS
<1> USE DEF RunInv, TypeOK, LoopTypeOK, Reasons, Questions, NotAsked, Asked, Finals,
            Order, Before, SuccessIsEarned, TrailOfEnd, Shown, FinalStatus, loopVars
<1>1. CASE Dispatch
  BY <1>1 DEF Dispatch
<1>2. CASE DispatchFails
  BY <1>2 DEF DispatchFails
<1>3. CASE HandlerAsks
  BY <1>3 DEF HandlerAsks
<1>4. CASE HandlerDies
  BY <1>4 DEF HandlerDies
<1>5. CASE NothingToAsk
  BY <1>5 DEF NothingToAsk, Cleared
<1>6. CASE Blocks
  BY <1>6 DEF Blocks
<1>7. CASE Mark
  BY <1>7 DEF Mark
<1>8. CASE Answered
  BY <1>8 DEF Answered, Cleared
<1>9. CASE WaitTimesOut
  BY <1>9 DEF WaitTimesOut
<1>10. CASE CancelledBeforeLoop
  BY <1>10 DEF CancelledBeforeLoop
<1>11. CASE Proceed
  BY <1>11 DEF Proceed
<1>12. CASE ActivityFails
  BY <1>12 DEF ActivityFails, GivenUp
<1>13. CASE BrainTurn
  BY <1>13 DEF BrainTurn, Turn, TurnFails, Outcomes
<1>14. CASE Post
  BY <1>14 DEF Post, PostProcess
<1>15. CASE PostFails
  <2>1. zombies = {} /\ zombies' \in {{}, {"post"}}
    BY <1>15, Zenon DEF PostFails, GivenUp
  <2> QED
    BY <1>15, <2>1 DEF PostFails
<1>16. CASE Abort
  <2>1. zombies \subseteq {"post"} /\ (zombies' = zombies \/ zombies' = zombies \cup {"abort"})
    BY <1>16 DEF Abort, GivenUp
  <2>2. row' \in {row, "failed"}
    BY <1>16 DEF Abort, MarkFailed
  <2>3. /\ pc = "abort" /\ pc' = "done"
        /\ UNCHANGED <<trail, question, answer, clarified, outcome, pausing, turn, reason, cancelled>>
    BY <1>16 DEF Abort
  <2>4. TypeOK'
    <3>1. zombies' \subseteq {"mark", "post", "abort"}
      BY <2>1
    <3> QED
      BY <2>2, <2>3, <3>1
  <2>5. Order'
    <3>1. "mark" \notin zombies' /\ ("post" \in zombies' => "post" \in zombies)
      BY <2>1
    <3> QED
      BY <2>3, <3>1
  <2> QED
    BY <2>2, <2>3, <2>4, <2>5
<1>17. CASE PostRetried
  BY <1>17 DEF PostRetried, PostProcess, workflowVars
<1>18. CASE Watchdog
  BY <1>18 DEF Watchdog, workflowVars
<1>19. CASE CancelRun
  BY <1>19 DEF CancelRun, Cancel, workflowVars
<1>20. CASE PauseChecks
  BY <1>20 DEF PauseChecks, workflowVars
<1>21. CASE PauseWrites
  <2>1. pausing' \in BOOLEAN
    BY <1>21, Zenon DEF PauseWrites
  <2> QED
    BY <1>21, <2>1 DEF PauseWrites, workflowVars
<1>22. ASSUME NEW q \in Questions, BrainAnswer(q) PROVE RunInv'
  BY <1>22 DEF BrainAnswer
<1>23. ASSUME NEW activity \in zombies, Late(activity) PROVE RunInv'
  BY <1>23 DEF Late, PostProcess, MarkFailed, workflowVars
<1>24. CASE UNCHANGED vars
  BY <1>24 DEF vars, workflowVars
<1> QED
  BY <1>1, <1>2, <1>3, <1>4, <1>5, <1>6, <1>7, <1>8, <1>9, <1>10, <1>11, <1>12, <1>13, <1>14,
     <1>15, <1>16, <1>17, <1>18, <1>19, <1>20, <1>21, <1>22, <1>23, <1>24
     DEF Next, Handler, Workflow, Done

(***************************************************************************)
(* The inductive invariant: types, what each point of the workflow implies *)
(* about its outcome and its activities, and where success and trail come  *)
(* from.                                                                   *)
(***************************************************************************)
THEOREM RunCorrect == Spec => []RunInv
<1>1. RunInv /\ [Next]_vars => RunInv'
  BY RunNextInv
<1> QED
  BY RunInitInv, <1>1, PTL DEF Spec

(***************************************************************************)
(* Type correctness.                                                       *)
(***************************************************************************)
THEOREM RunTypeCorrect == Spec => []TypeOK
<1>1. RunInv => TypeOK
  BY DEF RunInv
<1> QED
  BY RunCorrect, <1>1, PTL

(***************************************************************************)
(* No row says succeeded before the brain loop ended, whatever the other   *)
(* writers do (post_process is the only one to write it).                  *)
(***************************************************************************)
THEOREM RunSuccessIsEarned == Spec => []SuccessIsEarned
<1>1. RunInv => SuccessIsEarned
  BY DEF RunInv
<1> QED
  BY RunCorrect, <1>1, PTL

(***************************************************************************)
(* A workflow that returned "succeeded" keeps a row and a trail that do    *)
(* not deny it, through all late activities, watchdogs and cancels.        *)
(***************************************************************************)
THEOREM RunSuccessIsShown == Spec => []SuccessIsShown
<1>1. RunInv => SuccessIsShown
  BY DEF RunInv, SuccessIsShown, Shown, TrailOfEnd, FinalStatus
<1> QED
  BY RunCorrect, <1>1, PTL

(***************************************************************************)
(* Only a cancel request under way takes a success back: what else writes  *)
(* the row looks at it, or is over before there is a success.              *)
(***************************************************************************)
THEOREM RunSucceededStays == Spec => SucceededStays
<1>1. RunInv /\ [Next]_vars => [row = "succeeded" /\ ~pausing => row' = "succeeded"]_vars
  <2> SUFFICES ASSUME RunInv, [Next]_vars, row = "succeeded", ~pausing PROVE row' = "succeeded"
    OBVIOUS
  <2>1. reason # "none" /\ "mark" \notin zombies
        /\ pc \notin {"dispatch", "check", "mark", "wait", "reserve", "init", "loop"}
    BY DEF RunInv, SuccessIsEarned, Order, Before
  <2>2. CASE Handler \/ Done \/ UNCHANGED vars
    BY <2>1, <2>2 DEF Handler, Dispatch, DispatchFails, HandlerAsks, HandlerDies, Done, vars
  <2>3. CASE Workflow
    <3>1. Post \/ PostFails \/ Abort
      BY <2>1, <2>3 DEF Workflow, NothingToAsk, Blocks, Mark, Answered, WaitTimesOut,
                        CancelledBeforeLoop, Proceed, ActivityFails, BrainTurn
    <3> QED
      BY <3>1 DEF Post, PostProcess, PostFails, Abort, MarkFailed
  <2>4. CASE PostRetried \/ Watchdog \/ CancelRun \/ PauseChecks \/ PauseWrites
    BY <2>4 DEF PostRetried, PostProcess, Watchdog, CancelRun, PauseChecks, PauseWrites
  <2>5. ASSUME NEW q \in Questions, BrainAnswer(q) PROVE row' = "succeeded"
    BY <2>5 DEF BrainAnswer
  <2>6. ASSUME NEW activity \in zombies, Late(activity) PROVE row' = "succeeded"
    BY <2>1, <2>6 DEF Late, PostProcess, MarkFailed
  <2> QED
    BY <2>2, <2>3, <2>4, <2>5, <2>6 DEF Next
<1> QED
  BY RunCorrect, <1>1, PTL DEF Spec, SucceededStays

-----------------------------------------------------------------------------
\* A question is asked while the workflow waits for its answer, and an answer
\* is there for the question it waits with.
Clarification ==
    /\ \A q \in Questions : clarified[q] \in {NotAsked, Asked, q}
    /\ pc \notin {"abort", "done"} =>
        /\ \A q \in Questions : clarified[q] = Asked => pc = "wait" /\ question = q
        /\ answer # 0 => pc = "wait" /\ answer = question

\* One answer per question, given while it is asked: no step breaks that.
LEMMA ClarificationNext ==
    ASSUME "dup" \notin Faults, TypeOK, Clarification, [Next]_vars
    PROVE  Clarification'
<1> USE DEF TypeOK, Clarification, Questions, NotAsked, Asked
<1>1. CASE UNCHANGED <<pc, question, answer, clarified>>
  BY <1>1
<1>2. CASE Handler
  BY <1>2 DEF Handler, Dispatch, DispatchFails, HandlerAsks, HandlerDies
<1>3. CASE NothingToAsk \/ Blocks \/ Proceed
  BY <1>3 DEF NothingToAsk, Cleared, Blocks, Proceed
<1>4. CASE Mark
  BY <1>4 DEF Mark
<1>5. CASE Answered
  BY <1>5 DEF Answered, Cleared
<1>6. CASE WaitTimesOut \/ CancelledBeforeLoop \/ ActivityFails \/ PostFails \/ Post \/ Abort
  BY <1>6 DEF WaitTimesOut, CancelledBeforeLoop, ActivityFails, PostFails, Post, Abort
<1>7. CASE BrainTurn
  BY <1>7 DEF BrainTurn
<1>8. ASSUME NEW q \in Questions, BrainAnswer(q) PROVE Clarification'
  BY <1>8 DEF BrainAnswer, Seen
<1>9. CASE PostRetried \/ Watchdog \/ CancelRun \/ PauseChecks \/ PauseWrites \/ Done
           \/ (\E activity \in zombies : Late(activity)) \/ UNCHANGED vars
  <2>1. UNCHANGED <<pc, question, answer, clarified>>
    BY <1>9 DEF PostRetried, Watchdog, CancelRun, PauseChecks, PauseWrites, Done, Late,
                workflowVars, vars
  <2> QED
    BY <2>1, <1>1
<1> QED
  BY <1>2, <1>3, <1>4, <1>5, <1>6, <1>7, <1>8, <1>9 DEF Next, Workflow

(***************************************************************************)
(* Unless the signal is duplicated, no brain turn begins with a question   *)
(* open or with the answer to another question.                            *)
(***************************************************************************)
THEOREM RunClarifiedFirst == "dup" \notin Faults /\ Spec => []ClarifiedFirst
<1> SUFFICES ASSUME "dup" \notin Faults PROVE Spec => []ClarifiedFirst
  OBVIOUS
<1>1. Init => Clarification
  BY DEF Init, Clarification, Questions, NotAsked, Asked
<1>2. TypeOK /\ Clarification /\ [Next]_vars => Clarification'
  BY ClarificationNext
<1>3. Clarification => ClarifiedFirst
  BY DEF Clarification, ClarifiedFirst, Questions, NotAsked, Asked
<1> QED
  BY RunTypeCorrect, <1>1, <1>2, <1>3, PTL DEF Spec

-----------------------------------------------------------------------------
(***************************************************************************)
(* How long a run takes: each question costs a check, a mark and a wait,   *)
(* the loop its turns, and what comes after it two steps more.             *)
(***************************************************************************)
PointsLeft ==
    [dispatch |-> 12, check |-> 11, mark |-> 10, wait |-> 9, reserve |-> 5, init |-> 4,
     loop |-> 3, post |-> 2, abort |-> 1, done |-> 0]

StepsLeft ==
    PointsLeft[pc] - (IF pc \in {"check", "mark", "wait"} /\ question = 2 THEN 3 ELSE 0)
        + (IF pc \in Before THEN MaxTurns - turn ELSE 0)

\* The handler asks no second question, and until the loop ends there is a
\* turn left to take.
Ahead ==
    /\ pc = "dispatch" => question = 1
    /\ reason = "none" => turn < MaxTurns

\* The steps left are a number within bounds.
LEMMA StepsBounded == TypeOK /\ Ahead => StepsLeft \in 0 .. MaxTurns + 12
BY DEF TypeOK, LoopTypeOK, Ahead, Questions, Before, StepsLeft, PointsLeft

\* A step of handler or workflow counts down, and no other adds to what is left.
LEMMA StepsCountDown ==
    ASSUME RunInv, Ahead, [Next]_vars
    PROVE  /\ Ahead' /\ StepsLeft' <= StepsLeft
           /\ Handler \/ Workflow => StepsLeft' < StepsLeft
<1> USE DEF RunInv, TypeOK, LoopTypeOK, Reasons, Questions, Order, Before, Ahead,
            StepsLeft, PointsLeft, loopVars
<1>1. CASE Handler
  BY <1>1 DEF Handler, Dispatch, DispatchFails, HandlerAsks, HandlerDies
<1>2. CASE NothingToAsk \/ Blocks \/ Mark \/ Answered
  BY <1>2 DEF NothingToAsk, Blocks, Mark, Answered, Cleared
<1>3. CASE WaitTimesOut \/ CancelledBeforeLoop \/ Proceed \/ ActivityFails
  BY <1>3 DEF WaitTimesOut, CancelledBeforeLoop, Proceed, ActivityFails
<1>4. CASE BrainTurn
  BY <1>4 DEF BrainTurn, Turn, TurnFails, Outcomes
<1>5. CASE Post \/ PostFails \/ Abort
  BY <1>5 DEF Post, PostFails, Abort
<1>6. CASE PostRetried \/ Watchdog \/ CancelRun \/ PauseChecks \/ PauseWrites \/ Done
           \/ (\E q \in Questions : BrainAnswer(q))
           \/ (\E activity \in zombies : Late(activity)) \/ UNCHANGED vars
  <2>1. UNCHANGED <<pc, question, turn, reason>>
    BY <1>6 DEF PostRetried, Watchdog, CancelRun, Cancel, PauseChecks, PauseWrites, Done,
                BrainAnswer, Late, workflowVars, vars
  <2>2. ~Handler /\ ~Workflow
    BY <1>1, <1>2, <1>3, <1>4, <1>5, <2>1 DEF Workflow
  <2> QED
    BY <2>1, <2>2
<1> QED
  BY <1>1, <1>2, <1>3, <1>4, <1>5, <1>6 DEF Next, Workflow

(***************************************************************************)
(* The run is over after MaxTurns + 12 steps of its handler and its        *)
(* workflow: each of them counts down, and what cancels, answers, sweeps   *)
(* or comes late gives none of them back.  It is what WorkflowEnds rests   *)
(* on besides fairness.                                                    *)
(***************************************************************************)
THEOREM RunIsBounded ==
    Spec => /\ [](StepsLeft \in 0 .. MaxTurns + 12)
            /\ [][/\ StepsLeft' <= StepsLeft
                  /\ Handler \/ Workflow => StepsLeft' < StepsLeft]_vars
<1>1. Init => Ahead
  BY DEF Init, LoopInit, Ahead
<1>2. RunInv /\ Ahead /\ [Next]_vars => Ahead'
  BY StepsCountDown
<1>3. RunInv /\ Ahead => StepsLeft \in 0 .. MaxTurns + 12
  BY StepsBounded DEF RunInv
<1>4. RunInv /\ Ahead /\ [Next]_vars =>
        [/\ StepsLeft' <= StepsLeft
         /\ Handler \/ Workflow => StepsLeft' < StepsLeft]_vars
  BY StepsCountDown
<1> QED
  BY RunCorrect, <1>1, <1>2, <1>3, <1>4, PTL DEF Spec

=============================================================================
