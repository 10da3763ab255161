----------------------------- MODULE ClarifyDesk -----------------------------
(***************************************************************************)
(* A single-shot research run and the three places where it waits for its  *)
(* user: the preflight question before the brains start, the questions of  *)
(* the brains (QuestionRelay) and the confirmation of an identification    *)
(* before the result is delivered.  One endpoint, brain_answer, serves all *)
(* three and finds out by what is pending (routers/v3/agent.py,            *)
(* routers/v3/brain_questions.py).  What is pending lives in the memory of *)
(* the API process; a confirmation is kept in the row as well, from where  *)
(* the start of the process and the poll of the browser load it again.     *)
(***************************************************************************)
EXTENDS QuestionRelay

CONSTANTS
    First, FollowUp,    \* the two preflight questions
    MaxCrashes,         \* restarts of the API
    MaxTrails           \* bounds how often the same result is accepted

ASSUME PreflightAssumption == First \in Questions /\ FollowUp \in Questions
ASSUME BoundsAssumption == MaxCrashes \in Nat /\ MaxTrails \in Nat \ {0}

VARIABLES
    up,         \* the API process runs
    row,        \* pipeline_runs.status
    cdata,      \* confirmation_data: candidates it lists as rejected, 0 for NULL
    trails,     \* rows of research_trails for the run
    preflight,  \* _PREFLIGHT_PENDING[run]: its turn, 0 when there is none
    confirm,    \* _CONFIRM_PENDING[run]: candidates it lists, 0 when there is none
    rejected,   \* _CONFIRM_PENDING["rejected:" run]: candidates
    research,   \* "intake", "idle", or where _run_is_research is
    enriched,   \* the query is an identification task
    delivers,   \* tasks of _deliver_confirmed_result to run
    launches,   \* research tasks created so far
    settled,    \* questions answered at the preflight
    unmarked,   \* history: 1 if the last research could not write "running"
    crashes

deskVars == <<up, row, cdata, trails, preflight, confirm, rejected, research,
              enriched, delivers, launches, settled, unmarked, crashes>>
vars == <<relayVars, deskVars>>

Statuses == {"queued", "awaiting_input", "running", "confirm_pending", "succeeded", "failed"}
MaxRejected == 2    \* candidates a user rejects before the gate lets a result pass

TypeOK ==
    /\ RelayTypeOK
    /\ up \in BOOLEAN /\ row \in Statuses
    /\ cdata \in 0..MaxRejected /\ confirm \in 0..MaxRejected /\ rejected \in 0..MaxRejected
    /\ trails \in 0..MaxTrails /\ delivers \in 0..MaxTrails
    /\ preflight \in 0..2
    /\ research \in {"intake", "idle", "queued", "brains", "finishing"}
    /\ enriched \in BOOLEAN /\ launches \in Nat
    /\ settled \subseteq Questions /\ unmarked \in 0..1 /\ crashes \in 0..MaxCrashes

\* send_message has inserted the row and looks for past research.
Init ==
    /\ RelayInit
    /\ up = TRUE /\ row = "queued" /\ cdata = 0 /\ trails = 0
    /\ preflight = 0 /\ confirm = 0 /\ rejected = 0
    /\ research = "intake" /\ enriched = FALSE /\ delivers = 0 /\ launches = 0
    /\ settled = {} /\ unmarked = 0 /\ crashes = 0

Launch == research' = "queued" /\ launches' = launches + 1

-----------------------------------------------------------------------------
(* Preflight                                                               *)

\* The run is held and the question shown; no brain starts.
Block ==
    /\ up /\ research = "intake"
    /\ row' = "awaiting_input" /\ preflight' = 1 /\ research' = "idle"
    /\ UNCHANGED <<relayVars, up, cdata, trails, confirm, rejected, enriched, delivers,
                   launches, settled, unmarked, crashes>>

Direct ==
    /\ up /\ research = "intake" /\ Launch
    /\ UNCHANGED <<relayVars, up, row, cdata, trails, preflight, confirm, rejected, enriched,
                   delivers, settled, unmarked, crashes>>

Pending == IF preflight = 1 THEN First ELSE FollowUp

\* Mutant of PopPreflight: the entry is read and stays.
PopPreflightKept == preflight' = preflight

PopPreflight == preflight' = 0

Remember == manifest' = manifest \cup {Pending}

\* The answer names a platform and it is the first one: one more question.
AnswerFollowUp ==
    /\ up /\ preflight = 1
    /\ Remember /\ settled' = settled \cup {Pending}
    /\ preflight' = 2
    /\ UNCHANGED <<tool, handler, reply, event, stored, crowded, up, row, cdata, trails, confirm,
                   rejected, research, enriched, delivers, launches, unmarked, crashes>>

\* The query is decomposed into signals and the research launched.
AnswerLaunch ==
    /\ up /\ preflight > 0
    /\ Remember /\ settled' = settled \cup {Pending}
    /\ PopPreflight /\ Launch /\ enriched' = TRUE
    /\ UNCHANGED <<tool, handler, reply, event, stored, crowded, up, row, cdata, trails, confirm,
                   rejected, delivers, unmarked, crashes>>

-----------------------------------------------------------------------------
(* _run_is_research                                                        *)

\* Tasks start in the order they were created.  An error of the UPDATE is
\* swallowed.
ResearchStarts ==
    /\ up /\ research = "queued" /\ delivers = 0
    /\ research' = "brains"
    /\ \/ row' = "running" /\ unmarked' = 0
       \/ row' = row /\ unmarked' = 1
    /\ UNCHANGED <<relayVars, up, cdata, trails, preflight, confirm, rejected, enriched, delivers,
                   launches, settled, crashes>>

BrainAsks(q) ==
    /\ up /\ research = "brains" /\ (AskKnown(q) \/ AskUser(q))
    /\ UNCHANGED deskVars

BrainsEnd ==
    /\ up /\ research = "brains" /\ CloseTools
    /\ UNCHANGED <<handler, reply, event, stored, manifest, crowded>>

\* A brain fails, or a statement after it; of the trail of an earlier result
\* only the DELETE may have been done.  The UPDATE of the row may fail too.
BrainsFail ==
    /\ BrainsEnd /\ research' = "idle" /\ row' \in {"failed", row}
    /\ trails' \in {trails, 0}
    /\ UNCHANGED <<up, cdata, preflight, confirm, rejected, enriched, delivers, launches, settled,
                   unmarked, crashes>>

\* Mutant of Hold: what the row keeps lacks the candidate that is asked about.
HoldShort(n) == cdata' = n /\ confirm' = n + 1

\* The list of rejected candidates grows by the one the user is asked about,
\* in the row first and then in memory.
Hold(n) == cdata' = n + 1 /\ confirm' = n + 1

\* An identification whose candidate is not certain enough may be held.
Gate == enriched /\ rejected < MaxRejected

BrainsHeld ==
    /\ BrainsEnd /\ Gate
    /\ Hold(rejected) /\ row' = "confirm_pending" /\ research' = "idle"
    /\ UNCHANGED <<up, trails, preflight, rejected, enriched, delivers, launches, settled, unmarked, crashes>>

\* The trail of an earlier result of the run is deleted, then one inserted.
BrainsStored ==
    /\ BrainsEnd /\ trails' = 1 /\ research' = "finishing"
    /\ UNCHANGED <<up, row, cdata, preflight, confirm, rejected, enriched, delivers, launches,
                   settled, unmarked, crashes>>

\* Memory, graph, scorecard and plugin requests: an error there that is not
\* swallowed fails the run; the row keeps its status if it cannot be written.
ResearchFinishes ==
    /\ up /\ research = "finishing" /\ research' = "idle"
    /\ row' \in {"succeeded", "failed", row}
    /\ UNCHANGED <<relayVars, up, cdata, trails, preflight, confirm, rejected, enriched, delivers,
                   launches, settled, unmarked, crashes>>

-----------------------------------------------------------------------------
(* Confirmation                                                            *)

\* Yes, or not sure.
AnswerAccepts ==
    /\ up /\ preflight = 0 /\ confirm > 0 /\ trails + delivers < MaxTrails
    /\ confirm' = 0 /\ delivers' = delivers + 1
    /\ UNCHANGED <<relayVars, up, row, cdata, trails, preflight, rejected, research, enriched,
                   launches, settled, unmarked, crashes>>

KeepRejected == rejected' = confirm

\* No: the run starts over, under the same id.
AnswerRejects ==
    /\ up /\ preflight = 0 /\ confirm > 0
    /\ confirm' = 0 /\ row' = "queued" /\ cdata' = 0
    /\ KeepRejected /\ Launch
    /\ UNCHANGED <<relayVars, up, trails, preflight, enriched, delivers, settled, unmarked, crashes>>

\* The UPDATE of the row fails after the confirmation was taken from memory.
AnswerRejectLost ==
    /\ up /\ preflight = 0 /\ confirm > 0
    /\ confirm' = 0
    /\ UNCHANGED <<relayVars, up, row, cdata, trails, preflight, rejected, research, enriched,
                   delivers, launches, settled, unmarked, crashes>>

\* What the user may be answering: a question a brain has put, or once more the
\* preflight or a confirmation, which is none of a brain.
Answered == Shown \cup (IF settled = {} THEN {} ELSE {NoQuestion})

AnswerInFlight ==
    /\ up /\ preflight = 0 /\ confirm = 0 /\ \E a \in Answered : AnswerEvent(a)
    /\ UNCHANGED deskVars

\* Mutant of Delivered: the row first, the trail second, either may fail.
DeliveredRowFirst ==
    \/ row' = "succeeded" /\ cdata' = 0 /\ trails' \in {trails, trails + 1}
    \/ UNCHANGED <<row, cdata, trails>>

\* Trail first, then the row; an error ends the task and is only logged.
Delivered ==
    \/ row' = "succeeded" /\ cdata' = 0 /\ trails' = trails + 1
    \/ UNCHANGED <<row, cdata>> /\ trails' \in {trails, trails + 1}

Deliver ==
    /\ up /\ delivers > 0 /\ delivers' = delivers - 1
    /\ Delivered
    /\ UNCHANGED <<relayVars, up, preflight, confirm, rejected, research, enriched, launches,
                   settled, unmarked, crashes>>

\* Mutant of LoadHeld: the poll lists what the row holds and leaves memory alone.
LoadHeldNot == UNCHANGED confirm

LoadHeld == confirm' = cdata

\* get_pending_confirmations: rows that wait and are not in memory.
Poll ==
    /\ up /\ row = "confirm_pending" /\ confirm = 0
    /\ LoadHeld
    /\ UNCHANGED <<relayVars, up, row, cdata, trails, preflight, rejected, research, enriched,
                   delivers, launches, settled, unmarked, crashes>>

-----------------------------------------------------------------------------
(* The process                                                             *)

Crash ==
    /\ up /\ crashes < MaxCrashes
    /\ up' = FALSE /\ crashes' = crashes + 1
    /\ RelayDies
    /\ preflight' = 0 /\ confirm' = 0 /\ rejected' = 0 /\ delivers' = 0 /\ research' = "idle"
    /\ UNCHANGED <<row, cdata, trails, enriched, launches, settled, unmarked>>

\* The brains of a running run died with the process.
Reap == row' = IF row = "running" THEN "failed" ELSE row

\* lifespan: confirmations are loaded, running runs failed.
Restart ==
    /\ ~up /\ up' = TRUE
    /\ confirm' = IF row = "confirm_pending" THEN cdata ELSE 0
    /\ Reap
    /\ UNCHANGED <<relayVars, cdata, trails, preflight, rejected, research, enriched, delivers,
                   launches, settled, unmarked, crashes>>

-----------------------------------------------------------------------------
Relay(q) == (Resume(q) \/ TimeOut(q) \/ GiveUp(q)) /\ UNCHANGED deskVars

Answers == AnswerFollowUp \/ AnswerLaunch \/ AnswerAccepts \/ AnswerRejects \/ AnswerRejectLost
           \/ AnswerInFlight

Research == ResearchStarts \/ BrainsFail \/ BrainsHeld \/ BrainsStored \/ ResearchFinishes

Next ==
    \/ Block \/ Direct \/ Answers \/ Research \/ Deliver \/ Poll \/ Crash \/ Restart
    \/ \E q \in Questions : BrainAsks(q) \/ Relay(q)

\* The event loop runs its tasks, a brain ends within its limit of half an
\* hour, the operator starts a process that ended again and the browser polls
\* every fifteen seconds.  The user need not answer.
Fairness == WF_vars(Research) /\ WF_vars(Deliver) /\ WF_vars(Restart) /\ WF_vars(Poll)

Spec == Init /\ [][Next]_vars /\ Fairness

-----------------------------------------------------------------------------
\* The research is done over at most twice: every candidate the user rejects is
\* on the list the next hold starts from, also when the process restarts while
\* the user thinks, so that the third result passes the gate (agent.py,
\* should_confirm).
RerunsBounded == launches <= MaxRejected + 1

\* A result held for confirmation is in the row, with the candidates rejected
\* so far, and what memory holds of it agrees: neither a restart nor an answer
\* whose delivery failed can lose it (agent.py, get_pending_confirmations).
HeldIsRecoverable ==
    row = "confirm_pending" => cdata > 0 /\ confirm \in {0, cdata}

\* A run shown as succeeded has a trail to show, whichever of the research and
\* the delivery tasks wrote the status, and whatever failed between its writes,
\* unless a rerun could not even write that it is running: the status is then
\* that of the result before, whose trail goes.
VerdictHasTrail == row = "succeeded" /\ unmarked = 0 => trails > 0

\* As long as the process lives, a question the user answered at the preflight
\* is never put to the user again by a brain, in the first research or a rerun
\* (_CLARIFICATION_MANIFEST).
ClarifiedOnce == crashes = 0 => \A q \in settled : handler[q] = "none"

\* Answers that come twice, a poll that loads a confirmation again and restarts
\* never start a research while one of the run is queued or under way.
OneAtATime == [][launches' # launches => research \in {"intake", "idle"}]_vars

\* A held result can be answered again after its delivery failed or the process
\* restarted, or it has been delivered.
HeldIsAnswerable == (row = "confirm_pending") ~> (confirm > 0 \/ row # "confirm_pending")
=============================================================================
