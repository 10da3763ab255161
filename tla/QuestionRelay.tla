---------------------------- MODULE QuestionRelay ----------------------------
(***************************************************************************)
(* The questions a brain puts to the user while it works.  The ask_user    *)
(* tool of the MCP server posts to /v3/agent/brain-question and its client *)
(* gives up after a minute; the handler registers an event for the run and *)
(* waits for five minutes; /v3/agent/brain-answer, which names the run but *)
(* not the question, sets whatever event the run has                       *)
(* (routers/v3/brain_questions.py).  All of it for one run.                *)
(***************************************************************************)
EXTENDS Naturals, FiniteSets

CONSTANTS
    Questions,  \* questions brains may put, each once
    Brains,     \* brains that work on the run together
    NoQuestion  \* not a question of a brain

ASSUME QuestionsAssumption == NoQuestion \notin Questions
ASSUME BrainsAssumption == Brains \in Nat

VARIABLES
    tool,       \* tool call of the brain: "unasked", "open", "lost", "answered"
    handler,    \* its request: "none", "waiting", "woken", "replied", "timedout", "dead"
    reply,      \* the answer the request returned, {} for an empty one
    event,      \* _pending_events[run]: the question that registered it
    stored,     \* _pending_answers[run]: at most one answer
    manifest,   \* _CLARIFICATION_MANIFEST[run]: questions answered before the research
    crowded     \* questions whose request was open together with another one

relayVars == <<tool, handler, reply, event, stored, manifest, crowded>>

Option == Questions \cup {NoQuestion}

\* Of an answer: the question the user had before him, which nothing in the
\* code knows, and the one whose event was registered when it was posted.
Answer == [to : Option, at : Questions]

Opened == {q \in Questions : handler[q] \in {"waiting", "woken"}}

RelayTypeOK ==
    /\ tool \in [Questions -> {"unasked", "open", "lost", "answered"}]
    /\ handler \in [Questions -> {"none", "waiting", "woken", "replied", "timedout", "dead"}]
    /\ reply \in [Questions -> SUBSET Answer]
    /\ event \in Option /\ stored \subseteq Answer
    /\ manifest \subseteq Questions /\ crowded \subseteq Questions

RelayInit ==
    /\ tool = [q \in Questions |-> "unasked"]
    /\ handler = [q \in Questions |-> "none"]
    /\ reply = [q \in Questions |-> {}]
    /\ event = NoQuestion /\ stored = {}
    /\ manifest = {} /\ crowded = {}

CanAsk(q) ==
    /\ tool[q] = "unasked"
    /\ Cardinality({p \in Questions : tool[p] = "open"}) < Brains

\* Answered before the research began: the brain gets that answer.
AskKnown(q) ==
    /\ CanAsk(q) /\ q \in manifest
    /\ tool' = [tool EXCEPT ![q] = "answered"]
    /\ UNCHANGED <<handler, reply, event, stored, manifest, crowded>>

\* Mutant of Register: an answer that is there already is taken.
RegisterEarly(q) ==
    /\ event' = q /\ stored' = stored
    /\ handler' = [handler EXCEPT ![q] = IF stored = {} THEN "waiting" ELSE "woken"]

\* The question is pushed and, without an await in between, the event of the
\* run replaced, an answer nobody has fetched removed.
Register(q) ==
    /\ event' = q /\ stored' = {}
    /\ handler' = [handler EXCEPT ![q] = "waiting"]

AskUser(q) ==
    /\ CanAsk(q) /\ q \notin manifest
    /\ tool' = [tool EXCEPT ![q] = "open"]
    /\ Register(q)
    /\ crowded' = IF Opened = {} THEN crowded ELSE crowded \cup Opened \cup {q}
    /\ UNCHANGED <<reply, manifest>>

\* The client of the MCP server waits for sixty seconds.
GiveUp(q) ==
    /\ tool[q] = "open" /\ tool' = [tool EXCEPT ![q] = "lost"]
    /\ UNCHANGED <<handler, reply, event, stored, manifest, crowded>>

\* The answer a names the run only: whatever question it was given to, and
\* however late or often, it goes to the request whose event is registered.
AnswerEvent(a) ==
    /\ event # NoQuestion
    /\ stored' = {[to |-> a, at |-> event]}
    /\ handler' = [handler EXCEPT ![event] = "woken"]
    /\ UNCHANGED <<tool, reply, event, manifest, crowded>>

\* What the request takes out is the run's: an answer, if there is one, and
\* the event, also when another request registered it.
Resume(q) ==
    /\ handler[q] = "woken"
    /\ handler' = [handler EXCEPT ![q] = "replied"]
    /\ reply' = [reply EXCEPT ![q] = stored]
    /\ tool' = IF tool[q] = "open" THEN [tool EXCEPT ![q] = "answered"] ELSE tool
    /\ event' = NoQuestion /\ stored' = {}
    /\ UNCHANGED <<manifest, crowded>>

\* After 300 seconds, when the client has long given up.  wait_for may
\* cancel a wait whose event was set in the same moment; the answer stays.
TimeOut(q) ==
    /\ q \in Opened /\ tool[q] # "open"
    /\ handler' = [handler EXCEPT ![q] = "timedout"]
    /\ event' = NoQuestion
    /\ UNCHANGED <<tool, reply, stored, manifest, crowded>>

\* The brains end: calls they have open are lost, their requests go on.
CloseTools == tool' = [q \in Questions |-> IF tool[q] = "open" THEN "lost" ELSE tool[q]]

\* The process of the API ends.
RelayDies ==
    /\ CloseTools
    /\ handler' = [q \in Questions |-> IF q \in Opened THEN "dead" ELSE handler[q]]
    /\ event' = NoQuestion /\ stored' = {} /\ manifest' = {}
    /\ UNCHANGED <<reply, crowded>>

-----------------------------------------------------------------------------
Shown == {q \in Questions : handler[q] # "none"}

\* A request that was never open together with another one of the run returns
\* an answer, and one that was posted while its own event was registered: what
\* an earlier request left behind, an answer it never fetched or an event,
\* never leaks into it.  The answer may have been given to an earlier question
\* (brain_answer is told the run only), then to one whose request had ended
\* (brain_question, brain_answer case 3).
SoloGetsFresh ==
    \A q \in Questions \ crowded : handler[q] = "replied" =>
        \E a \in reply[q] : a.at = q /\ a.to \notin Opened

\* The user's answer to a question is what its request returns, if no other one
\* was open with it.  Not kept: a late answer to a question that timed out is
\* returned to the next one.
SoloGetsOwn ==
    \A q \in Questions \ crowded : handler[q] = "replied" => \E a \in reply[q] : a.to = q

\* An answer brain_answer takes for an in-flight question reaches the tool
\* call of the brain that waits for it (brain_questions.py:130).
AcceptedReachesBrain ==
    \A q \in Questions : (\E a \in reply[q] : a.to = q) => tool[q] = "answered"
=============================================================================
