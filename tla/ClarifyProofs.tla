--------------------------- MODULE ClarifyProofs ---------------------------
(***************************************************************************)
(* Proofs about ClarifyDesk and QuestionRelay, for any questions, brains,  *)
(* restarts and trails: types, how often the research starts, what is held *)
(* and shown, and which answers a question gets.                           *)
(***************************************************************************)
EXTENDS ClarifyDesk, TLAPS

USE QuestionsAssumption, PreflightAssumption, BoundsAssumption

DeskTypes ==
    /\ row \in Statuses
    /\ cdata \in 0..MaxRejected /\ confirm \in 0..MaxRejected /\ rejected \in 0..MaxRejected
    /\ trails \in Nat /\ delivers \in Nat /\ trails + delivers <= MaxTrails
    /\ preflight \in 0..2
    /\ research \in {"intake", "idle", "queued", "brains", "finishing"}
    /\ launches \in Nat /\ settled \subseteq Questions /\ crashes \in 0..MaxCrashes
    /\ unmarked \in 0..1

Switches == up \in BOOLEAN /\ enriched \in BOOLEAN

\* The run is in one place: a question, a confirmation, a research or nothing.
Placed ==
    /\ research = "intake" \/ preflight > 0 =>
          /\ launches = 0 /\ rejected = 0 /\ delivers = 0
          /\ row \in {"queued", "awaiting_input"}
    /\ research # "idle" => preflight = 0
    /\ research # "idle" \/ preflight > 0 => confirm = 0 /\ row # "confirm_pending"
    /\ research \in {"brains", "finishing"} => delivers = 0
    /\ up = FALSE => research = "idle" /\ preflight = 0 /\ confirm = 0 /\ delivers = 0

\* A research but the first follows a rejection, and what is held or listed
\* counts the researches.
Counts ==
    /\ launches <= MaxRejected + 1
    /\ confirm > 0 => confirm = launches
    /\ row = "confirm_pending" => cdata = launches /\ launches > 0
    /\ research \in {"queued", "brains", "finishing"} => launches = rejected + 1

\* A research that could write so is on a running row, and a trail is there
\* before the row says so.
Evident ==
    /\ VerdictHasTrail
    /\ research \in {"brains", "finishing"} /\ unmarked = 0 => row = "running"
    /\ research = "finishing" => trails > 0

DeskInv == DeskTypes /\ Placed /\ Counts /\ Evident

\* An answer posted while the event of the request was registered, to a
\* request that is not open with it.
Fresh(answers, q) == \E a \in answers : a.at = q /\ (a.to = q \/ a.to \notin Opened)

\* Every answer was given to a question that was put, or to none; the event is
\* that of an open request; one that was never open together with another one
\* finds an answer to it.
RelayInv ==
    /\ RelayTypeOK
    /\ event # NoQuestion => event \in Opened
    /\ \A p, q \in Opened : p # q => q \in crowded
    /\ \A q \in Questions : tool[q] = "unasked" => handler[q] = "none"
    /\ \A q \in Questions : \A a \in stored \cup reply[q] : a.to \in Shown \cup {NoQuestion}
    /\ \A q \in Questions \ crowded : handler[q] = "woken" => Fresh(stored, q)
    /\ SoloGetsFresh

\* Before the first research no brain asks, and until the process dies it
\* remembers what the user settled.
Remembered ==
    /\ launches = 0 => \A q \in Questions : handler[q] = "none"
    /\ crashes = 0 => settled \subseteq manifest
    /\ ClarifiedOnce

ClarifyInv == Switches /\ DeskInv /\ RelayInv /\ Remembered

-----------------------------------------------------------------------------
\* The types, places and counts hold at the start
LEMMA ClarifyInit == Init => ClarifyInv
<1> SUFFICES ASSUME Init PROVE ClarifyInv
  OBVIOUS
<1>1. Switches
  BY Zenon DEF Init, Switches
<1>2. DeskInv
  BY DEF Init, DeskInv, DeskTypes, Placed, Counts, Evident, VerdictHasTrail, Statuses, MaxRejected
<1>3. Opened = {}
  BY DEF Init, RelayInit, Opened
<1>4. RelayTypeOK
  BY DEF Init, RelayInit, RelayTypeOK, Option
<1>5. RelayInv
  BY <1>3, <1>4 DEF Init, RelayInit, RelayInv, SoloGetsFresh
<1>6. Remembered
  BY DEF Init, RelayInit, Remembered, ClarifiedOnce
<1> QED
  BY <1>1, <1>2, <1>5, <1>6 DEF ClarifyInv

\* and after every step of the desk.
LEMMA DeskStep ==
    ASSUME DeskInv, Switches, Next
    PROVE  DeskInv'
<1> USE DEF DeskInv, DeskTypes, Placed, Counts, Evident, VerdictHasTrail, Statuses, MaxRejected
<1>1. CASE Block
  BY <1>1 DEF Block
<1>2. CASE Direct
  BY <1>2 DEF Direct, Launch
<1>3. CASE AnswerFollowUp
  <2>1. settled' \subseteq Questions
    BY <1>3 DEF AnswerFollowUp, Pending
  <2> QED
    BY <1>3, <2>1 DEF AnswerFollowUp
<1>4. CASE AnswerLaunch
  <2>1. settled' \subseteq Questions
    BY <1>4 DEF AnswerLaunch, Pending
  <2> QED
    BY <1>4, <2>1 DEF AnswerLaunch, Launch, PopPreflight
<1>5. CASE AnswerAccepts
  BY <1>5 DEF AnswerAccepts
<1>6. CASE AnswerRejects
  BY <1>6 DEF AnswerRejects, KeepRejected, Launch
<1>17. CASE AnswerRejectLost
  BY <1>17 DEF AnswerRejectLost
<1>7. CASE ResearchStarts
  BY <1>7 DEF ResearchStarts
<1>8. CASE BrainsFail
  <2>1. /\ trails' \in Nat /\ trails' <= trails /\ delivers' = delivers
        /\ research = "brains" /\ research' = "idle"
        /\ cdata' = cdata /\ preflight' = preflight /\ confirm' = confirm /\ rejected' = rejected
        /\ launches' = launches /\ settled' = settled /\ unmarked' = unmarked
        /\ crashes' = crashes
    BY <1>8 DEF BrainsFail, BrainsEnd
  <2>2. row' = "failed" \/ row' = row
    BY <1>8 DEF BrainsFail
  <2>8. trails' + delivers' <= MaxTrails
    <3>1. \A a, b, c, d \in Nat : a + b <= c /\ d <= a => d + b <= c
      OBVIOUS
    <3>2. trails + delivers <= MaxTrails /\ trails \in Nat /\ delivers \in Nat /\ MaxTrails \in Nat
      OBVIOUS
    <3> QED
      BY ONLY <2>1, <3>1, <3>2
  <2>9. row' \in Statuses
    BY <2>1, <2>2
  <2>3. DeskTypes'
    BY <2>1, <2>8, <2>9
  <2>4. confirm' = 0 /\ preflight' = 0 /\ delivers' = 0 /\ row' # "confirm_pending"
    BY <2>1, <2>2
  <2>5. Placed' /\ Counts'
    BY <2>1, <2>2, <2>4
  <2>6. row' = "succeeded" => unmarked' # 0
    BY <2>1, <2>2
  <2>7. Evident'
    BY <2>1, <2>6
  <2> QED
    BY <2>3, <2>5, <2>7
<1>9. CASE BrainsHeld
  BY <1>9 DEF BrainsHeld, BrainsEnd, Gate, Hold
<1>10. CASE BrainsStored
  BY <1>10 DEF BrainsStored, BrainsEnd
<1>11. CASE ResearchFinishes
  BY <1>11 DEF ResearchFinishes
<1>12. CASE Deliver
  BY <1>12 DEF Deliver, Delivered
<1>13. CASE Poll
  BY <1>13 DEF Poll, LoadHeld
<1>14. CASE Crash
  BY <1>14 DEF Crash
<1>15. CASE Restart
  BY <1>15 DEF Restart, Reap
<1>16. CASE UNCHANGED deskVars
  BY <1>16 DEF deskVars
<1> QED
  BY <1>1, <1>2, <1>3, <1>4, <1>5, <1>6, <1>7, <1>8, <1>9, <1>10, <1>11, <1>12, <1>13, <1>14,
     <1>15, <1>16, <1>17 DEF Next, Answers, Research, AnswerInFlight, BrainAsks, Relay

\* The process runs or not, the query is an identification or not.
LEMMA SwitchStep ==
    ASSUME Switches, Next
    PROVE  Switches'
<1>1. up' \in {TRUE, FALSE, up} /\ enriched' \in {TRUE, enriched}
  BY Zenon DEF Next, Block, Direct, Answers, AnswerFollowUp, AnswerLaunch, AnswerAccepts,
     AnswerRejects, AnswerRejectLost, AnswerInFlight, Research, ResearchStarts, BrainsFail, BrainsHeld, BrainsStored,
     ResearchFinishes, Deliver, Poll, Crash, Restart, BrainAsks, Relay, deskVars
<1> QED
  BY <1>1, Zenon DEF Switches

-----------------------------------------------------------------------------
\* A new question: what is open with it is crowded from now on, an answer that
\* is there goes, and none was given to it.
LEMMA AskUserKeeps ==
    ASSUME RelayInv, NEW q \in Questions, AskUser(q)
    PROVE  RelayInv'
<1>1. /\ tool[q] = "unasked" /\ tool' = [tool EXCEPT ![q] = "open"]
      /\ handler' = [handler EXCEPT ![q] = "waiting"]
      /\ event' = q /\ stored' = {} /\ reply' = reply /\ manifest' = manifest
      /\ crowded' = IF Opened = {} THEN crowded ELSE crowded \cup Opened \cup {q}
  BY DEF AskUser, Register, CanAsk
<1>2. /\ handler \in [Questions -> {"none", "waiting", "woken", "replied", "timedout", "dead"}]
      /\ tool \in [Questions -> {"unasked", "open", "lost", "answered"}]
      /\ reply \in [Questions -> SUBSET Answer] /\ crowded \subseteq Questions
  BY DEF RelayInv, RelayTypeOK
<1>3. Opened' = Opened \cup {q} /\ Shown' = Shown \cup {q} /\ q \notin Shown
  BY <1>1, <1>2 DEF Opened, Shown, RelayInv
<1>4. Opened \subseteq Questions
  BY DEF Opened
<1>5. RelayTypeOK'
  BY <1>1, <1>4 DEF RelayInv, RelayTypeOK, Option
<1>6. \A x, y \in Opened' : x # y => y \in crowded'
  BY <1>1, <1>3 DEF RelayInv
<1>7. ASSUME NEW x \in Questions \ crowded', handler'[x] = "woken"
      PROVE  FALSE
  <2>1. x # q /\ handler[x] = "woken"
    BY <1>1, <1>2, <1>7
  <2>2. x \in Opened
    BY <1>7, <2>1 DEF Opened
  <2> QED
    BY <1>1, <1>7, <2>2
<1>8. SoloGetsFresh'
  <2> SUFFICES ASSUME NEW x \in Questions \ crowded', handler'[x] = "replied"
               PROVE  \E a \in reply'[x] : a.at = x /\ a.to \notin Opened'
    BY DEF SoloGetsFresh
  <2>1. x # q /\ handler[x] = "replied" /\ x \notin crowded
    BY <1>1, <1>2
  <2>2. PICK a \in reply[x] : a.at = x /\ a.to \notin Opened
    BY <2>1 DEF RelayInv, SoloGetsFresh
  <2>3. a.to # q
    BY <1>3 DEF RelayInv
  <2> QED
    BY <1>1, <1>3, <2>2, <2>3
<1>9. \A x \in Questions : /\ tool'[x] = "unasked" => handler'[x] = "none"
                           /\ \A a \in stored' \cup reply'[x] : a.to \in Shown' \cup {NoQuestion}
  BY <1>1, <1>2, <1>3 DEF RelayInv
<1> QED
  BY <1>1, <1>3, <1>5, <1>6, <1>7, <1>8, <1>9 DEF RelayInv

\* The answer goes to the request whose event it is.
LEMMA AnswerEventKeeps ==
    ASSUME RelayInv, NEW a \in Shown \cup {NoQuestion}, AnswerEvent(a)
    PROVE  RelayInv'
<1>1. /\ event \in Opened /\ stored' = {[to |-> a, at |-> event]}
      /\ handler' = [handler EXCEPT ![event] = "woken"]
      /\ UNCHANGED <<tool, reply, event, manifest, crowded>>
  BY DEF AnswerEvent, RelayInv
<1>2. /\ handler \in [Questions -> {"none", "waiting", "woken", "replied", "timedout", "dead"}]
      /\ tool \in [Questions -> {"unasked", "open", "lost", "answered"}]
  BY DEF RelayInv, RelayTypeOK
<1>3. event \in Questions /\ handler[event] # "none" /\ a \in Option
  BY <1>1 DEF Opened, Shown, Option
<1>4. Opened' = Opened /\ Shown' = Shown
  BY <1>1, <1>2, <1>3 DEF Opened, Shown
<1>5. RelayTypeOK'
  <2>1. stored' \subseteq Answer
    BY <1>1, <1>3 DEF Answer
  <2> QED
    BY <1>1, <1>3, <2>1 DEF RelayInv, RelayTypeOK, Option
<1>6. ASSUME NEW x \in Questions \ crowded', handler'[x] = "woken"
      PROVE  Fresh(stored, x)'
  <2>1. x \in Opened
    BY <1>1, <1>2, <1>3, <1>6 DEF Opened
  <2>2. x = event
    BY <1>1, <1>6, <2>1 DEF RelayInv
  <2>3. a = x \/ a \notin Opened
    BY <1>1, <1>6, <2>1, <2>2 DEF RelayInv
  <2> QED
    BY <1>1, <1>4, <2>2, <2>3 DEF Fresh
<1>7. SoloGetsFresh'
  <2> SUFFICES ASSUME NEW x \in Questions \ crowded', handler'[x] = "replied"
               PROVE  \E r \in reply'[x] : r.at = x /\ r.to \notin Opened'
    BY DEF SoloGetsFresh
  <2>1. handler[x] = "replied"
    BY <1>1, <1>2, <1>3
  <2> QED
    BY <1>1, <1>4, <2>1 DEF RelayInv, SoloGetsFresh
<1>8. \A x \in Questions : /\ tool'[x] = "unasked" => handler'[x] = "none"
                           /\ \A r \in stored' \cup reply'[x] : r.to \in Shown' \cup {NoQuestion}
  <2> SUFFICES ASSUME NEW x \in Questions
               PROVE  /\ tool'[x] = "unasked" => handler'[x] = "none"
                      /\ \A r \in stored' \cup reply'[x] : r.to \in Shown' \cup {NoQuestion}
    OBVIOUS
  <2>1. tool'[x] = "unasked" => handler'[x] = "none"
    BY <1>1, <1>2, <1>3 DEF RelayInv
  <2>2. \A r \in reply'[x] : r.to \in Shown' \cup {NoQuestion}
    BY <1>1, <1>4 DEF RelayInv
  <2>3. \A r \in stored' : r.to \in Shown' \cup {NoQuestion}
    BY <1>1, <1>4
  <2> QED
    BY <2>1, <2>2, <2>3
<1> QED
  BY <1>1, <1>4, <1>5, <1>6, <1>7, <1>8 DEF RelayInv

\* The request that wakes takes the answer of the run: one for it, when no
\* other request was open with it.
LEMMA ResumeKeeps ==
    ASSUME RelayInv, NEW q \in Questions, Resume(q)
    PROVE  RelayInv'
<1>1. /\ handler[q] = "woken" /\ handler' = [handler EXCEPT ![q] = "replied"]
      /\ reply' = [reply EXCEPT ![q] = stored]
      /\ tool' = IF tool[q] = "open" THEN [tool EXCEPT ![q] = "answered"] ELSE tool
      /\ event' = NoQuestion /\ stored' = {} /\ UNCHANGED <<manifest, crowded>>
  BY DEF Resume
<1>2. /\ handler \in [Questions -> {"none", "waiting", "woken", "replied", "timedout", "dead"}]
      /\ tool \in [Questions -> {"unasked", "open", "lost", "answered"}]
      /\ reply \in [Questions -> SUBSET Answer] /\ stored \subseteq Answer
  BY DEF RelayInv, RelayTypeOK
<1>3. Opened' = Opened \ {q} /\ q \in Opened /\ Shown' = Shown
  BY <1>1, <1>2 DEF Opened, Shown
<1>4. RelayTypeOK'
  <2>1. tool' \in [Questions -> {"unasked", "open", "lost", "answered"}]
    BY <1>1, <1>2
  <2> QED
    BY <1>1, <1>2, <2>1 DEF RelayInv, RelayTypeOK, Option
<1>5. ASSUME NEW x \in Questions \ crowded', handler'[x] = "woken"
      PROVE  FALSE
  <2>1. x # q /\ x \in Opened
    BY <1>1, <1>2, <1>5 DEF Opened
  <2> QED
    BY <1>1, <1>3, <1>5, <2>1 DEF RelayInv
<1>6. SoloGetsFresh'
  <2> SUFFICES ASSUME NEW x \in Questions \ crowded', handler'[x] = "replied"
               PROVE  \E a \in reply'[x] : a.at = x /\ a.to \notin Opened'
    BY DEF SoloGetsFresh
  <2>1. CASE x = q
    <3>1. PICK a \in stored : a.at = q /\ (a.to = q \/ a.to \notin Opened)
      BY <1>1, <2>1 DEF RelayInv, Fresh
    <3> QED
      BY <1>1, <1>2, <1>3, <2>1, <3>1
  <2>2. CASE x # q
    <3>1. PICK a \in reply[x] : a.at = x /\ a.to \notin Opened
      BY <1>1, <1>2, <2>2 DEF RelayInv, SoloGetsFresh
    <3> QED
      BY <1>1, <1>2, <1>3, <2>2, <3>1
  <2> QED
    BY <2>1, <2>2
<1>7. ASSUME NEW x \in Questions
      PROVE  /\ tool'[x] = "unasked" => handler'[x] = "none"
             /\ \A a \in stored' \cup reply'[x] : a.to \in Shown' \cup {NoQuestion}
  <2>1. tool'[x] = "unasked" => tool[x] = "unasked" /\ handler[x] = "none"
    BY <1>1, <1>2 DEF RelayInv
  <2>2. tool'[x] = "unasked" => handler'[x] = "none"
    BY <1>1, <1>2, <2>1
  <2>3. reply'[x] \in {stored, reply[x]}
    BY <1>1, <1>2
  <2> QED
    BY <1>1, <1>3, <2>2, <2>3 DEF RelayInv
<1> QED
  BY <1>1, <1>3, <1>4, <1>5, <1>6, <1>7 DEF RelayInv

\* A request that times out takes the event of the run with it.
LEMMA TimeOutKeeps ==
    ASSUME RelayInv, NEW q \in Questions, TimeOut(q)
    PROVE  RelayInv'
<1>1. /\ handler' = [handler EXCEPT ![q] = "timedout"] /\ event' = NoQuestion /\ q \in Opened
      /\ UNCHANGED <<tool, reply, stored, manifest, crowded>>
  BY DEF TimeOut
<1>2. handler \in [Questions -> {"none", "waiting", "woken", "replied", "timedout", "dead"}]
  BY DEF RelayInv, RelayTypeOK
<1>3. Opened' = Opened \ {q} /\ Shown' = Shown
  BY <1>1, <1>2 DEF Opened, Shown
<1>4. RelayTypeOK'
  BY <1>1 DEF RelayInv, RelayTypeOK, Option
<1>5. ASSUME NEW x \in Questions \ crowded', handler'[x] = "woken"
      PROVE  Fresh(stored, x)'
  <2>1. handler[x] = "woken"
    BY <1>1, <1>2, <1>5
  <2>2. PICK a \in stored : a.at = x /\ (a.to = x \/ a.to \notin Opened)
    BY <1>1, <2>1 DEF RelayInv, Fresh
  <2> QED
    BY <1>1, <1>3, <2>2 DEF Fresh
<1>6. SoloGetsFresh'
  <2> SUFFICES ASSUME NEW x \in Questions \ crowded', handler'[x] = "replied"
               PROVE  \E a \in reply'[x] : a.at = x /\ a.to \notin Opened'
    BY DEF SoloGetsFresh
  <2>1. handler[x] = "replied"
    BY <1>1, <1>2
  <2> QED
    BY <1>1, <1>3, <2>1 DEF RelayInv, SoloGetsFresh
<1>7. \A x \in Questions : /\ tool'[x] = "unasked" => handler'[x] = "none"
                           /\ \A a \in stored' \cup reply'[x] : a.to \in Shown' \cup {NoQuestion}
  BY <1>1, <1>2, <1>3 DEF RelayInv, Opened
<1> QED
  BY <1>1, <1>3, <1>4, <1>5, <1>6, <1>7 DEF RelayInv

\* With the process everything that is open dies.
LEMMA RelayDiesKeeps ==
    ASSUME RelayInv, RelayDies
    PROVE  RelayInv'
<1>1. /\ tool' = [q \in Questions |-> IF tool[q] = "open" THEN "lost" ELSE tool[q]]
      /\ handler' = [q \in Questions |-> IF q \in Opened THEN "dead" ELSE handler[q]]
      /\ event' = NoQuestion /\ stored' = {} /\ manifest' = {}
      /\ UNCHANGED <<reply, crowded>>
  BY DEF RelayDies, CloseTools
<1>2. Opened' = {} /\ Shown' = Shown
  BY <1>1 DEF Opened, Shown
<1>3. RelayTypeOK'
  BY <1>1 DEF RelayInv, RelayTypeOK, Option
<1>4. \A x \in Questions : handler'[x] # "woken"
  BY <1>1 DEF Opened
<1>5. SoloGetsFresh'
  <2> SUFFICES ASSUME NEW x \in Questions \ crowded', handler'[x] = "replied"
               PROVE  \E a \in reply'[x] : a.at = x /\ a.to \notin Opened'
    BY DEF SoloGetsFresh
  <2>1. handler[x] = "replied"
    BY <1>1
  <2> QED
    BY <1>1, <1>2, <2>1 DEF RelayInv, SoloGetsFresh
<1>6. \A x \in Questions : /\ tool'[x] = "unasked" => handler'[x] = "none"
                           /\ \A a \in stored' \cup reply'[x] : a.to \in Shown' \cup {NoQuestion}
  BY <1>1, <1>2 DEF RelayInv, Opened
<1> QED
  BY <1>1, <1>2, <1>3, <1>4, <1>5, <1>6 DEF RelayInv

\* What changes nothing but the tool calls or the manifest.
LEMMA QuietKeeps ==
    ASSUME RelayInv, UNCHANGED <<handler, reply, event, stored, crowded>>,
           tool' \in [Questions -> {"unasked", "open", "lost", "answered"}],
           \A q \in Questions : tool'[q] = "unasked" => tool[q] = "unasked",
           manifest' \subseteq Questions
    PROVE  RelayInv'
<1>1. Opened' = Opened /\ Shown' = Shown
  BY DEF Opened, Shown
<1>2. \A q \in Questions : Fresh(stored, q) => Fresh(stored, q)'
  BY <1>1 DEF Fresh
<1>3. SoloGetsFresh'
  BY <1>1 DEF RelayInv, SoloGetsFresh
<1> QED
  BY <1>1, <1>2, <1>3 DEF RelayInv, RelayTypeOK

\* Every step keeps what the relay relies on.
LEMMA RelayStep ==
    ASSUME RelayInv, [Next]_vars
    PROVE  RelayInv'
<1>1. /\ tool \in [Questions -> {"unasked", "open", "lost", "answered"}]
      /\ manifest \subseteq Questions
  BY DEF RelayInv, RelayTypeOK
<1>2. CASE UNCHANGED relayVars
  BY <1>1, <1>2, QuietKeeps DEF relayVars
<1>3. ASSUME NEW q \in Questions, BrainAsks(q)
      PROVE  RelayInv'
  <2>1. CASE AskKnown(q)
    <3>1. /\ tool' \in [Questions -> {"unasked", "open", "lost", "answered"}]
          /\ \A x \in Questions : tool'[x] = "unasked" => tool[x] = "unasked"
      BY <1>1, <2>1 DEF AskKnown
    <3> QED
      BY <1>1, <2>1, <3>1, QuietKeeps DEF AskKnown
  <2> QED
    BY <1>3, <2>1, AskUserKeeps DEF BrainAsks
<1>4. ASSUME NEW q \in Questions, Relay(q)
      PROVE  RelayInv'
  <2>1. CASE GiveUp(q)
    <3>1. /\ tool' \in [Questions -> {"unasked", "open", "lost", "answered"}]
          /\ \A x \in Questions : tool'[x] = "unasked" => tool[x] = "unasked"
      BY <1>1, <2>1 DEF GiveUp
    <3> QED
      BY <1>1, <2>1, <3>1, QuietKeeps DEF GiveUp
  <2> QED
    BY <1>4, <2>1, ResumeKeeps, TimeOutKeeps DEF Relay
<1>5. CASE AnswerInFlight
  <2>1. PICK a \in Answered : AnswerEvent(a)
    BY <1>5 DEF AnswerInFlight
  <2> QED
    BY <2>1, AnswerEventKeeps DEF Answered
<1>6. CASE AnswerFollowUp \/ AnswerLaunch
  <2>1. manifest' \subseteq Questions
    BY <1>1, <1>6 DEF AnswerFollowUp, AnswerLaunch, Remember, Pending
  <2> QED
    BY <1>1, <1>6, <2>1, QuietKeeps DEF AnswerFollowUp, AnswerLaunch
<1>7. CASE BrainsEnd
  <2>1. /\ tool' \in [Questions -> {"unasked", "open", "lost", "answered"}]
        /\ \A x \in Questions : tool'[x] = "unasked" => tool[x] = "unasked"
    BY <1>1, <1>7 DEF BrainsEnd, CloseTools
  <2> QED
    BY <1>1, <1>7, <2>1, QuietKeeps DEF BrainsEnd
<1>8. CASE Crash
  BY <1>8, RelayDiesKeeps DEF Crash
<1>9. CASE \/ Block \/ Direct \/ AnswerAccepts \/ AnswerRejects \/ AnswerRejectLost \/ ResearchStarts
           \/ ResearchFinishes \/ Deliver \/ Poll \/ Restart
  BY <1>2, <1>9 DEF Block, Direct, AnswerAccepts, AnswerRejects, AnswerRejectLost, ResearchStarts,
     ResearchFinishes, Deliver, Poll, Restart
<1> QED
  BY <1>2, <1>3, <1>4, <1>5, <1>6, <1>7, <1>8, <1>9
  DEF Next, vars, Answers, Research, BrainsFail, BrainsHeld, BrainsStored

\* Every step keeps what the process remembers.
LEMMA RememberedStep ==
    ASSUME ClarifyInv, Next
    PROVE  Remembered'
<1>1. /\ handler \in [Questions -> {"none", "waiting", "woken", "replied", "timedout", "dead"}]
      /\ launches \in Nat /\ crashes \in Nat /\ settled \subseteq Questions
      /\ (launches = 0 => \A q \in Questions : handler[q] = "none")
      /\ (crashes = 0 => settled \subseteq manifest)
      /\ (crashes = 0 => \A q \in settled : handler[q] = "none")
      /\ (research \in {"brains", "finishing"} => launches > 0)
      /\ (preflight > 0 => launches = 0)
  BY DEF ClarifyInv, RelayInv, RelayTypeOK, DeskInv, DeskTypes, Remembered, ClarifiedOnce,
         Counts, Placed
<1> USE DEF Remembered, ClarifiedOnce
<1>2. CASE UNCHANGED <<handler, manifest, settled, crashes>> /\ launches' >= launches
  BY <1>1, <1>2
<1>3. ASSUME NEW q \in Questions, BrainAsks(q)
      PROVE  Remembered'
  <2>1. UNCHANGED <<settled, crashes, launches, manifest>> /\ launches > 0
    BY <1>1, <1>3 DEF BrainAsks, deskVars, AskKnown, AskUser
  <2>2. handler' = handler \/ (q \notin manifest /\ handler' = [handler EXCEPT ![q] = "waiting"])
    BY <1>3 DEF BrainAsks, AskKnown, AskUser, Register
  <2> QED
    BY <1>1, <2>1, <2>2
<1>4. ASSUME NEW q \in Questions, Relay(q)
      PROVE  Remembered'
  <2>1. UNCHANGED <<settled, crashes, launches, manifest>>
    BY <1>4 DEF Relay, deskVars, Resume, TimeOut, GiveUp
  <2>2. \/ handler' = handler
        \/ /\ handler[q] # "none"
           /\ \A x \in Questions : x # q => handler'[x] = handler[x]
    BY <1>1, <1>4 DEF Relay, Resume, TimeOut, GiveUp, Opened
  <2> QED
    BY <1>1, <2>1, <2>2
<1>5. CASE AnswerInFlight
  <2>1. UNCHANGED <<settled, crashes, launches, manifest>> /\ event \in Opened
        /\ handler' = [handler EXCEPT ![event] = "woken"]
    BY <1>5 DEF AnswerInFlight, AnswerEvent, deskVars, ClarifyInv, RelayInv
  <2>2. handler[event] # "none" /\ \A x \in Questions : x # event => handler'[x] = handler[x]
    BY <1>1, <2>1 DEF Opened
  <2>3. event \in Questions
    BY <2>1 DEF Opened
  <2> QED
    BY <1>1, <2>1, <2>2, <2>3
<1>6. CASE AnswerFollowUp \/ AnswerLaunch
  <2>1. /\ settled' = settled \cup {Pending} /\ manifest' = manifest \cup {Pending}
        /\ UNCHANGED <<handler, crashes>> /\ launches' >= launches /\ launches = 0
    BY <1>1, <1>6 DEF AnswerFollowUp, AnswerLaunch, Remember, Launch
  <2>2. Pending \in Questions
    BY DEF Pending
  <2> QED
    BY <1>1, <2>1, <2>2
<1>7. CASE Crash
  <2>1. crashes' # 0 /\ launches' = launches
        /\ handler' = [q \in Questions |-> IF q \in Opened THEN "dead" ELSE handler[q]]
    BY <1>1, <1>7 DEF Crash, RelayDies
  <2>2. launches = 0 => \A q \in Questions : handler'[q] = "none"
    BY <1>1, <2>1 DEF Opened
  <2> QED
    BY <2>1, <2>2
<1>8. CASE \/ Block \/ Direct \/ AnswerAccepts \/ AnswerRejects \/ AnswerRejectLost \/ Research
           \/ Deliver \/ Poll \/ Restart
  <2>1. UNCHANGED <<handler, manifest, settled, crashes>> /\ launches' >= launches
    BY <1>1, <1>8 DEF Block, Direct, AnswerAccepts, AnswerRejects, AnswerRejectLost, Research, ResearchStarts,
       BrainsFail, BrainsHeld, BrainsStored, BrainsEnd, ResearchFinishes, Deliver, Poll, Restart,
       Launch, relayVars
  <2> QED
    BY <1>2, <2>1
<1> QED
  BY <1>3, <1>4, <1>5, <1>6, <1>7, <1>8 DEF Next, Answers

-----------------------------------------------------------------------------
\* The invariant of a run and its waiting places.
THEOREM ClarifyCorrect == Spec => []ClarifyInv
<1>1. ClarifyInv /\ [Next]_vars => ClarifyInv'
  <2>1. CASE Next
    BY <2>1, DeskStep, SwitchStep, RelayStep, RememberedStep DEF ClarifyInv
  <2>2. CASE UNCHANGED vars
    <3>1. UNCHANGED relayVars /\ UNCHANGED deskVars
      BY <2>2 DEF vars
    <3>2. ClarifyInv => RelayInv'
      BY <2>2, RelayStep DEF ClarifyInv
    <3>3. ClarifyInv => Switches'
      BY <3>1, Zenon DEF ClarifyInv, Switches, deskVars
    <3>4. ClarifyInv => DeskInv'
      BY <3>1 DEF ClarifyInv, DeskInv, DeskTypes, Placed, Counts, Evident, VerdictHasTrail, deskVars
    <3>5. ClarifyInv => Remembered'
      BY <3>1 DEF ClarifyInv, Remembered, ClarifiedOnce, deskVars, relayVars
    <3> QED
      BY <3>2, <3>3, <3>4, <3>5 DEF ClarifyInv
  <2> QED
    BY <2>1, <2>2
<1> QED
  BY <1>1, ClarifyInit, PTL DEF Spec

\* The tables in memory, the row and the tasks keep their types; there are
\* never more trails and deliveries than confirmations were accepted.
THEOREM ClarifyTypeCorrect == Spec => []TypeOK
<1>1. ClarifyInv => TypeOK
  <2> SUFFICES ASSUME ClarifyInv PROVE TypeOK
    OBVIOUS
  <2>1. up \in BOOLEAN /\ enriched \in BOOLEAN
    BY Zenon DEF ClarifyInv, Switches
  <2> QED
    BY <2>1 DEF ClarifyInv, RelayInv, DeskInv, DeskTypes, TypeOK
<1> QED
  BY <1>1, ClarifyCorrect, PTL

\* Two rejections at most start the research over (should_confirm).
THEOREM ClarifyRerunsBounded == Spec => []RerunsBounded
<1>1. ClarifyInv => RerunsBounded
  BY DEF ClarifyInv, DeskInv, Counts, RerunsBounded
<1> QED
  BY <1>1, ClarifyCorrect, PTL

\* A held result is in the row and memory agrees (get_pending_confirmations).
THEOREM ClarifyHeldIsRecoverable == Spec => []HeldIsRecoverable
<1>1. ClarifyInv => HeldIsRecoverable
  BY DEF ClarifyInv, DeskInv, DeskTypes, Counts, HeldIsRecoverable
<1> QED
  BY <1>1, ClarifyCorrect, PTL

\* A run shown as succeeded has a trail, or a rerun of it could not write that it
\* is running (_deliver_confirmed_result).
THEOREM ClarifyVerdictHasTrail == Spec => []VerdictHasTrail
<1>1. ClarifyInv => VerdictHasTrail
  BY DEF ClarifyInv, DeskInv, Evident
<1> QED
  BY <1>1, ClarifyCorrect, PTL

\* A question that was alone gets an answer, and one posted while its own event
\* was registered (brain_question).
THEOREM ClarifySoloGetsFresh == Spec => []SoloGetsFresh
<1>1. ClarifyInv => SoloGetsFresh
  BY DEF ClarifyInv, RelayInv
<1> QED
  BY <1>1, ClarifyCorrect, PTL

\* What the user settled at the preflight is not asked again
\* (_CLARIFICATION_MANIFEST).
THEOREM ClarifySettledOnce == Spec => []ClarifiedOnce
<1>1. ClarifyInv => ClarifiedOnce
  BY DEF ClarifyInv, Remembered
<1> QED
  BY <1>1, ClarifyCorrect, PTL

\* No research is started while one of the run is queued or under way
\* (brain_answer).
THEOREM ClarifyOneAtATime == Spec => OneAtATime
<1>1. ClarifyInv /\ [Next]_vars =>
        [launches' # launches => research \in {"intake", "idle"}]_vars
  <2> SUFFICES ASSUME ClarifyInv, Next, launches' # launches
               PROVE  research \in {"intake", "idle"}
    BY DEF vars
  <2>1. /\ research \in {"intake", "idle", "queued", "brains", "finishing"}
        /\ preflight > 0 => research = "idle"
        /\ confirm > 0 => research = "idle"
    BY DEF ClarifyInv, DeskInv, DeskTypes, Placed
  <2>2. Direct \/ AnswerLaunch \/ AnswerRejects
    BY DEF Next, Block, Answers, AnswerFollowUp, AnswerAccepts, AnswerRejectLost, AnswerInFlight, Research,
       ResearchStarts, BrainsFail, BrainsHeld, BrainsStored, ResearchFinishes, Deliver, Poll,
       Crash, Restart, BrainAsks, Relay, deskVars
  <2> QED
    BY <2>1, <2>2 DEF Direct, AnswerLaunch, AnswerRejects
<1> QED
  BY <1>1, ClarifyCorrect, PTL DEF Spec, OneAtATime
=============================================================================
