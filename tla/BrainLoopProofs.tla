-------------------------- MODULE BrainLoopProofs --------------------------
(***************************************************************************)
(* Proofs about BrainLoop, for every number of turns, every finite set of  *)
(* hypotheses and whatever deltas the brain emits: types, the counts and   *)
(* the focus of the memory, when the test phase ends, and that the loop    *)
(* implements TurnLoop.                                                    *)
(***************************************************************************)
EXTENDS BrainLoop, FiniteSetTheorems, TLAPS

USE BrainAssumption

\* The turns of the memory are turns taken; a loop that goes on has a turn
\* left, and if it is to synthesize the phase has just begun.
Clock ==
    /\ wm.entered <= wm.turn /\ wm.lastResolved <= wm.turn
    /\ reason = "none" => wm.turn < MaxTurns
    /\ wm.phase = "test" => wm.entered >= 1
    /\ wm.phase = "synthesize" => wm.entered >= 2
    /\ wm.phase = "synthesize" /\ reason = "none" => wm.entered = wm.turn

\* Past the first phase there are hypotheses enough.
EnoughKnown == wm.phase # "explore" => Cardinality(Known(wm)) >= MIN_HYPOTHESES

BrainInv == TypeOK /\ CountsMatch /\ TargetIsOpen /\ NoIdleTesting /\ Clock /\ EnoughKnown

\* m is what the activity returns from wm: a turn later, the hypotheses wm
\* knows still known, counts and focus up to date, the phase as it was.
Merged(m) ==
    /\ m \in Memory
    /\ m.turn = wm.turn + 1 /\ m.phase = wm.phase /\ m.entered = wm.entered
    /\ \A h \in Hypotheses : wm.hypothesis[h] # "absent" => m.hypothesis[h] # "absent"
    /\ m.resolved = Cardinality(Resolved(m))
    /\ m.lastResolved = IF m.resolved > wm.resolved THEN m.turn ELSE wm.lastResolved
    /\ m.target = IF wm.target \in Open(m) THEN wm.target ELSE NoTarget

-----------------------------------------------------------------------------
(***************************************************************************)
(* The sets of hypotheses are finite, and so have a number of elements;    *)
(* when as many have a verdict as there are, none is open.                 *)
(***************************************************************************)
LEMMA Counted ==
    ASSUME NEW m \in Memory
    PROVE  /\ Cardinality(Known(m)) \in Nat /\ Cardinality(Resolved(m)) \in Nat
           /\ IsFiniteSet(Known(m)) /\ IsFiniteSet(Resolved(m))
           /\ Cardinality(Resolved(m)) >= Cardinality(Known(m)) =>
                 Resolved(m) = Known(m) /\ Open(m) = {}
<1>1. IsFiniteSet(Hypotheses)
  OBVIOUS
<1>2. Known(m) \in SUBSET Hypotheses
  BY DEF Known
<1>3. Resolved(m) \in SUBSET Known(m)
  BY DEF Known, Resolved, Verdicts
<1>4. IsFiniteSet(Known(m))
  BY <1>1, <1>2, FS_Subset
<1>5. IsFiniteSet(Resolved(m)) /\ Cardinality(Resolved(m)) <= Cardinality(Known(m))
      /\ (Cardinality(Known(m)) = Cardinality(Resolved(m)) => Known(m) = Resolved(m))
  BY <1>3, <1>4, FS_Subset
<1>6. Cardinality(Known(m)) \in Nat /\ Cardinality(Resolved(m)) \in Nat
  BY <1>4, <1>5, FS_CardinalityType
<1>7. Resolved(m) = Known(m) => Open(m) = {}
  BY DEF Known, Resolved, Open, Verdicts
<1> QED
  BY <1>4, <1>5, <1>6, <1>7

\* A patch makes a contradiction of a contradiction.
LEMMA PatchedType ==
    ASSUME NEW c \in {NotFlagged} \cup Contradiction, NEW p \in Patches
    PROVE  Patched(c, p) \in {NotFlagged} \cup Contradiction
<1>1. CASE c = NotFlagged
  BY <1>1 DEF Patched, Patches, Contradiction, NotFlagged
<1>2. CASE c # NotFlagged
  <2>1. c \in Contradiction
    BY <1>2
  <2>2. c.status \in {"open", "resolved"} /\ c.won \in BOOLEAN
    BY <2>1, Zenon DEF Contradiction
  <2>3. p.status \in {"none", "open", "resolved"} /\ p.won \in {"none", "yes", "no"}
    BY DEF Patches
  <2>4. (IF p.status # "none" THEN p.status ELSE IF p.won = "yes" THEN "resolved" ELSE c.status)
          \in {"open", "resolved"}
    BY <2>2, <2>3
  <2>5. (IF p.won = "none" THEN c.won ELSE p.won = "yes") \in BOOLEAN
    BY <2>2, Zenon
  <2> QED
    BY <1>2, <2>4, <2>5, Zenon DEF Patched, Contradiction
<1> QED
  BY <1>1, <1>2

\* A delta leaves what is left out and merges what is there.
LEMMA ApplyMerges ==
    ASSUME NEW m \in Memory, NEW delta \in Delta
    PROVE  LET w == Apply(m, delta)
           IN  /\ w \in Memory
               /\ w.turn = m.turn /\ w.phase = m.phase /\ w.entered = m.entered
               /\ \A h \in Hypotheses : m.hypothesis[h] # "absent" => w.hypothesis[h] # "absent"
               /\ w.resolved = Cardinality(Resolved(w))
               /\ w.lastResolved = IF w.resolved > m.resolved THEN m.turn ELSE m.lastResolved
               /\ w.target = IF m.target \in Open(w) THEN m.target ELSE NoTarget
<1> DEFINE H == [h \in Hypotheses |->
                  IF delta.hypothesis[h] = "none" THEN m.hypothesis[h] ELSE delta.hypothesis[h]]
           C == [c \in Contradictions |-> Patched(m.contradiction[c], delta.contradiction[c])]
           A == m.answered \/ delta.answered
           told == [m EXCEPT !.hypothesis = H, !.contradiction = C, !.answered = A]
           w == Apply(m, delta)
<1>1. H \in [Hypotheses -> {"absent"} \cup HypothesisStatus]
  BY DEF Memory, Delta
<1>2. C \in [Contradictions -> {NotFlagged} \cup Contradiction]
  BY PatchedType DEF Memory, Delta
<1>3. A \in BOOLEAN
  BY Zenon
<1>4. /\ told \in Memory /\ told.hypothesis = H /\ told.turn = m.turn /\ told.phase = m.phase
      /\ told.entered = m.entered /\ told.target = m.target /\ told.lastResolved = m.lastResolved
  <2> HIDE DEF H, C, A
  <2> QED
    BY <1>1, <1>2, <1>3, Zenon DEF Memory
<1>5. w = [told EXCEPT !.resolved = Cardinality(Resolved(told)),
             !.lastResolved = IF Cardinality(Resolved(told)) > m.resolved THEN m.turn ELSE @,
             !.target = IF @ \in Open(told) THEN @ ELSE NoTarget]
  BY DEF Apply
<1>6. Cardinality(Resolved(told)) \in Nat
  BY <1>4, Counted
<1>7. m.turn \in Nat /\ m.lastResolved \in Nat /\ m.target \in Hypotheses \cup {NoTarget}
  BY DEF Memory
<1> HIDE DEF told, w
<1>8. PICK count : count = Cardinality(Resolved(told))
  OBVIOUS
<1>9. PICK last : last = IF count > m.resolved THEN m.turn ELSE m.lastResolved
  OBVIOUS
<1>10. PICK target : target = IF m.target \in Open(told) THEN m.target ELSE NoTarget
  OBVIOUS
<1>11. w = [told EXCEPT !.resolved = count, !.lastResolved = last, !.target = target]
  BY <1>4, <1>5, <1>8, <1>9, <1>10
<1>12. count \in Nat /\ last \in Nat /\ target \in Hypotheses \cup {NoTarget}
  BY <1>6, <1>7, <1>8, <1>9, <1>10
<1>13. /\ w \in Memory /\ w.hypothesis = told.hypothesis /\ w.turn = told.turn
       /\ w.phase = told.phase /\ w.entered = told.entered
       /\ w.resolved = count /\ w.lastResolved = last /\ w.target = target
  BY <1>4, <1>11, <1>12, Zenon DEF Memory
<1>14. Resolved(w) = Resolved(told) /\ Open(w) = Open(told)
  BY <1>13 DEF Resolved, Open
<1>15. \A h \in Hypotheses : m.hypothesis[h] # "absent" => H[h] # "absent"
  BY DEF Delta, HypothesisStatus, Verdicts
<1> HIDE DEF H
<1> QED
  BY <1>4, <1>8, <1>9, <1>10, <1>13, <1>14, <1>15 DEF w

\* The three ways in which the workflow moves on from the memory m.
Stays(m, w) == w = m /\ ~IsStagnantInTest(m)

StartsTest(m, w) ==
    /\ m.phase = "explore" /\ Cardinality(Known(m)) >= MIN_HYPOTHESES
    /\ w = [m EXCEPT !.phase = "test", !.entered = m.turn]

AllSettled(m, w) ==
    /\ m.phase = "test" /\ OpenContradictions(m) = {}
    /\ Known(m) # {} /\ m.resolved >= Cardinality(Known(m))
    /\ w = [m EXCEPT !.phase = "synthesize", !.entered = m.turn]

GivesUp(m, w) ==
    /\ IsStagnantInTest(m)
    /\ w = InPhase(AbandonOpenHypotheses(m), "synthesize")

\* There is no other way.
LEMMA PhaseStepCases ==
    ASSUME NEW m \in Memory
    PROVE  \/ Stays(m, PhaseStep(m)) \/ StartsTest(m, PhaseStep(m))
           \/ AllSettled(m, PhaseStep(m)) \/ GivesUp(m, PhaseStep(m))
<1>1. m.turn \in Nat /\ m.phase \in Phases
  BY DEF Memory
<1>2. CASE ComputeNextPhase(m) = m.phase
  BY <1>2 DEF PhaseStep, InPhase, Stays, GivesUp
<1>3. CASE ComputeNextPhase(m) # m.phase
  <2>1. PICK next : next = InPhase(m, ComputeNextPhase(m))
    OBVIOUS
  <2>2. next = [m EXCEPT !.phase = ComputeNextPhase(m), !.entered = m.turn]
    BY <1>3, <2>1 DEF InPhase
  <2>3. next.phase = ComputeNextPhase(m) /\ next.entered = m.turn /\ next.turn = m.turn
    BY <2>2, Zenon DEF Memory
  <2>4. ~IsStagnantInTest(next)
    BY <1>1, <2>3 DEF IsStagnantInTest, STAGNATION_TURNS
  <2>5. PhaseStep(m) = next
    BY <2>1, <2>4 DEF PhaseStep
  <2> QED
    BY <1>3, <2>2, <2>5 DEF ComputeNextPhase, StartsTest, AllSettled
<1> QED
  BY <1>2, <1>3

\* What it is to give up: the open hypotheses are abandoned, and nothing is
\* left to focus on.
LEMMA GivingUp ==
    ASSUME NEW m \in Memory, NEW w, GivesUp(m, w)
    PROVE  /\ w \in Memory
           /\ w.turn = m.turn /\ w.phase = "synthesize" /\ w.entered = m.turn
           /\ w.lastResolved = m.lastResolved /\ w.contradiction = m.contradiction
           /\ w.target = NoTarget
           /\ w.hypothesis = [h \in Hypotheses |->
                  IF m.hypothesis[h] = "open" THEN "abandoned" ELSE m.hypothesis[h]]
           /\ w.resolved = Cardinality(Resolved(w))
           /\ Resolved(w) = Known(m) /\ Known(w) = Known(m) /\ Open(w) = {}
<1>1. PICK H : H = [h \in Hypotheses |->
                  IF m.hypothesis[h] = "open" THEN "abandoned" ELSE m.hypothesis[h]]
  OBVIOUS
<1>2. H \in [Hypotheses -> {"absent"} \cup HypothesisStatus]
  BY <1>1 DEF Memory, HypothesisStatus, Verdicts
<1>3. PICK given : given = [m EXCEPT !.hypothesis = H]
  OBVIOUS
<1>4. given \in Memory /\ given.hypothesis = H
  BY <1>2, <1>3, Zenon DEF Memory
<1>5. PICK count : count = Cardinality(Resolved(given))
  OBVIOUS
<1>6. count \in Nat
  BY <1>4, <1>5, Counted
<1>7. PICK a : a = [given EXCEPT !.resolved = count, !.target = NoTarget]
  OBVIOUS
<1>8. a = AbandonOpenHypotheses(m)
  BY <1>1, <1>3, <1>5, <1>7 DEF AbandonOpenHypotheses
<1>9. a \in Memory /\ a.hypothesis = H /\ a.resolved = count /\ a.target = NoTarget
      /\ a.turn = m.turn /\ a.phase = m.phase
      /\ a.lastResolved = m.lastResolved /\ a.contradiction = m.contradiction
  BY <1>3, <1>4, <1>6, <1>7, Zenon DEF Memory
<1>10. a.phase # "synthesize" /\ m.turn \in Nat
  BY <1>9 DEF GivesUp, IsStagnantInTest, Memory
<1>11. w = [a EXCEPT !.phase = "synthesize", !.entered = m.turn]
  BY <1>8, <1>9, <1>10 DEF GivesUp, InPhase
<1>12. "synthesize" \in Phases
  BY DEF Phases
<1>13. w \in Memory /\ w.hypothesis = H /\ w.resolved = count /\ w.target = NoTarget
       /\ w.turn = m.turn /\ w.phase = "synthesize" /\ w.entered = m.turn
       /\ w.lastResolved = m.lastResolved /\ w.contradiction = m.contradiction
  BY <1>9, <1>10, <1>11, <1>12, Zenon DEF Memory
<1>14. Resolved(w) = Resolved(given)
  BY <1>4, <1>13 DEF Resolved
<1>15. Resolved(w) = Known(m) /\ Known(w) = Known(m) /\ Open(w) = {}
  BY <1>1, <1>13 DEF Resolved, Known, Open, Verdicts, Memory, HypothesisStatus
<1> QED
  BY <1>1, <1>5, <1>13, <1>14, <1>15

-----------------------------------------------------------------------------
\* What every way to move on leaves of the merged memory, and what it says
\* of the phase.
LEMMA Moved ==
    ASSUME BrainInv, reason = "none", NEW m, Merged(m), NEW w, w = PhaseStep(m)
    PROVE  /\ w \in Memory /\ w.turn = wm.turn + 1 /\ w.turn <= MaxTurns
           /\ w.resolved = Cardinality(Resolved(w))
           /\ w.lastResolved <= w.turn /\ w.entered <= w.turn
           /\ w.phase = "test" => w.entered >= 1 /\ ~IsStagnantInTest(w)
           /\ w.phase = "synthesize" => w.entered >= 2
           /\ w.phase = "synthesize" => (w.entered = w.turn \/ (w.entered < w.turn /\ w.turn >= 3))
           /\ w.phase # "explore" => Cardinality(Known(w)) >= MIN_HYPOTHESES
           /\ w.target # NoTarget => w.phase = "test" /\ w.target \in Open(w)
           /\ w.phase # wm.phase =>
                 \/ wm.phase = "explore" /\ w.phase = "test"
                 \/ /\ wm.phase = "test" /\ w.phase = "synthesize"
                    /\ Cardinality(Resolved(w)) >= MIN_HYPOTHESES /\ Open(w) = {}
           /\ Stays(m, w) \/ StartsTest(m, w) \/ AllSettled(m, w) \/ GivesUp(m, w)
<1>1. /\ m \in Memory /\ m.turn = wm.turn + 1 /\ m.phase = wm.phase /\ m.entered = wm.entered
      /\ m.resolved = Cardinality(Resolved(m))
      /\ m.lastResolved = wm.lastResolved \/ m.lastResolved = m.turn
      /\ m.target = IF wm.target \in Open(m) THEN wm.target ELSE NoTarget
  BY DEF Merged
<1>2. /\ wm \in Memory /\ wm.turn \in Nat /\ wm.entered \in Nat /\ wm.lastResolved \in Nat
      /\ wm.phase \in Phases /\ m.turn \in Nat /\ m.entered \in Nat /\ m.lastResolved \in Nat
  BY <1>1 DEF BrainInv, TypeOK, Memory
<1>3. /\ wm.entered <= wm.turn /\ wm.lastResolved <= wm.turn /\ wm.turn < MaxTurns
      /\ wm.phase = "test" => wm.entered >= 1
      /\ wm.phase = "synthesize" => wm.entered >= 2 /\ wm.entered = wm.turn
      /\ wm.target # NoTarget => wm.phase = "test"
  BY DEF BrainInv, Clock, TargetIsOpen
<1>4. Known(wm) \in SUBSET Known(m)
  BY DEF Known, Merged
<1>5. /\ Cardinality(Known(wm)) \in Nat /\ Cardinality(Known(m)) \in Nat
      /\ IsFiniteSet(Known(m)) /\ IsFiniteSet(Known(wm))
  BY <1>1, <1>2, Counted
<1>6. Cardinality(Known(wm)) <= Cardinality(Known(m))
  BY <1>4, <1>5, FS_Subset
<1>7. wm.phase # "explore" => Cardinality(Known(m)) >= MIN_HYPOTHESES
  BY <1>5, <1>6 DEF BrainInv, EnoughKnown, MIN_HYPOTHESES
<1>8. m.turn <= MaxTurns /\ m.entered <= m.turn /\ m.lastResolved <= m.turn
      /\ (wm.phase = "test" => m.turn >= 2)
  BY <1>1, <1>2, <1>3
<1>9. m.target # NoTarget => wm.phase = "test" /\ m.target \in Open(m)
  BY <1>1, <1>3
<1>10. Stays(m, w) \/ StartsTest(m, w) \/ AllSettled(m, w) \/ GivesUp(m, w)
  BY <1>1, PhaseStepCases
<1>11. CASE Stays(m, w)
  <2>1. w = m /\ ~IsStagnantInTest(w)
    BY <1>11 DEF Stays
  <2> QED
    BY <1>1, <1>2, <1>3, <1>7, <1>8, <1>9, <1>11, <2>1
<1>12. CASE StartsTest(m, w)
  <2>1. w = [m EXCEPT !.phase = "test", !.entered = m.turn]
        /\ wm.phase = "explore" /\ Cardinality(Known(m)) >= MIN_HYPOTHESES
    BY <1>1, <1>12 DEF StartsTest
  <2>2. "test" \in Phases
    BY DEF Phases
  <2>3. /\ w \in Memory /\ w.phase = "test" /\ w.entered = m.turn /\ w.turn = m.turn
        /\ w.hypothesis = m.hypothesis /\ w.target = m.target
        /\ w.resolved = m.resolved /\ w.lastResolved = m.lastResolved
    BY <1>1, <1>2, <2>1, <2>2, Zenon DEF Memory
  <2>4. Known(w) = Known(m) /\ Resolved(w) = Resolved(m)
    BY <2>3 DEF Known, Resolved
  <2>5. m.target = NoTarget
    BY <1>9, <2>1
  <2>6. ~IsStagnantInTest(w)
    BY <1>2, <2>3 DEF IsStagnantInTest, STAGNATION_TURNS
  <2> QED
    BY <1>1, <1>2, <1>8, <1>12, <2>1, <2>3, <2>4, <2>5, <2>6
<1>13. CASE AllSettled(m, w)
  <2>1. w = [m EXCEPT !.phase = "synthesize", !.entered = m.turn]
        /\ wm.phase = "test" /\ m.resolved >= Cardinality(Known(m))
    BY <1>1, <1>13 DEF AllSettled
  <2>2. "synthesize" \in Phases
    BY DEF Phases
  <2>3. /\ w \in Memory /\ w.phase = "synthesize" /\ w.entered = m.turn /\ w.turn = m.turn
        /\ w.hypothesis = m.hypothesis /\ w.target = m.target
        /\ w.resolved = m.resolved /\ w.lastResolved = m.lastResolved
    BY <1>1, <1>2, <2>1, <2>2, Zenon DEF Memory
  <2>4. Known(w) = Known(m) /\ Resolved(w) = Resolved(m) /\ Open(w) = Open(m)
    BY <2>3 DEF Known, Resolved, Open
  <2>5. Resolved(m) = Known(m) /\ Open(m) = {}
    BY <1>1, <2>1, Counted
  <2>6. m.target = NoTarget
    BY <1>9, <2>5
  <2> QED
    BY <1>1, <1>2, <1>7, <1>8, <1>13, <2>1, <2>3, <2>4, <2>5, <2>6
<1>14. CASE GivesUp(m, w)
  <2>1. /\ w \in Memory
        /\ w.turn = m.turn /\ w.phase = "synthesize" /\ w.entered = m.turn
        /\ w.lastResolved = m.lastResolved /\ w.target = NoTarget
        /\ w.resolved = Cardinality(Resolved(w))
        /\ Resolved(w) = Known(m) /\ Known(w) = Known(m) /\ Open(w) = {}
    BY <1>1, <1>14, GivingUp
  <2>2. wm.phase = "test"
    BY <1>1, <1>14 DEF GivesUp, IsStagnantInTest
  <2> QED
    BY <1>1, <1>2, <1>7, <1>8, <1>14, <2>1, <2>2
<1> QED
  BY <1>10, <1>11, <1>12, <1>13, <1>14

\* x is the memory w with a hypothesis to focus on, if it needs one.
Refocused(w, x) == \E target \in Targets(w) : x = [w EXCEPT !.target = target]

\* The next memory is the one moved on from, with a focus: fields other
\* than the focus, and the sets, are the same.
LEMMA Focused ==
    ASSUME NEW w \in Memory, w.target # NoTarget => w.phase = "test" /\ w.target \in Open(w),
           NEW x, Refocused(w, x)
    PROVE  /\ x \in Memory
           /\ x.turn = w.turn /\ x.phase = w.phase /\ x.entered = w.entered
           /\ x.hypothesis = w.hypothesis /\ x.contradiction = w.contradiction
           /\ x.resolved = w.resolved /\ x.lastResolved = w.lastResolved
           /\ Known(x) = Known(w) /\ Open(x) = Open(w) /\ Resolved(x) = Resolved(w)
           /\ OpenContradictions(x) = OpenContradictions(w)
           /\ w.target # NoTarget => x.target = w.target
           /\ x.target # NoTarget => x.phase = "test" /\ x.target \in Open(x)
           /\ x.phase = "test" /\ Open(x) # {} => x.target # NoTarget
<1> PICK target \in Targets(w) : x = [w EXCEPT !.target = target]
  BY DEF Refocused
<1>1. w.target \in Hypotheses \cup {NoTarget} /\ Open(w) \subseteq Hypotheses
  BY DEF Memory, Open
<1>2. target \in Hypotheses \cup {NoTarget}
  BY <1>1 DEF Targets
<1>3. /\ x \in Memory
      /\ x.turn = w.turn /\ x.phase = w.phase /\ x.entered = w.entered
      /\ x.hypothesis = w.hypothesis /\ x.contradiction = w.contradiction
      /\ x.resolved = w.resolved /\ x.lastResolved = w.lastResolved /\ x.target = target
  BY <1>2, Zenon DEF Memory
<1>4. Known(x) = Known(w) /\ Open(x) = Open(w) /\ Resolved(x) = Resolved(w)
      /\ OpenContradictions(x) = OpenContradictions(w)
  BY <1>3 DEF Known, Open, Resolved, OpenContradictions
<1>5. CASE w.phase = "test" /\ w.target = NoTarget /\ Open(w) # {}
  <2>1. target \in Open(w) /\ target # NoTarget
    BY <1>1, <1>5 DEF Targets
  <2> QED
    BY <1>3, <1>4, <1>5, <2>1
<1>6. CASE ~(w.phase = "test" /\ w.target = NoTarget /\ Open(w) # {})
  <2>1. target = w.target
    BY <1>6 DEF Targets
  <2> QED
    BY <1>3, <1>4, <1>6, <2>1
<1> QED
  BY <1>5, <1>6

\* A turn that merged m keeps the invariant, and is a turn of TurnLoop.
LEMMA ContinueInv ==
    ASSUME BrainInv, reason = "none", NEW m, Merged(m), Continue(m)
    PROVE  BrainInv' /\ LOOP!Turn
<1>1. PICK target \in Targets(PhaseStep(m)) : wm' = [PhaseStep(m) EXCEPT !.target = target]
  BY DEF Continue
<1>2. reason' = ShouldTerminate(wm', MaxTurns, cancelled) /\ cancelled' = cancelled
  BY DEF Continue
<1>3. PICK w : w = PhaseStep(m)
  OBVIOUS
<1>4. PICK x : x = wm'
  OBVIOUS
<1>5. Refocused(w, x)
  BY <1>1, <1>3, <1>4 DEF Refocused
<1>6. /\ w \in Memory /\ w.turn = wm.turn + 1 /\ w.turn <= MaxTurns
      /\ w.resolved = Cardinality(Resolved(w))
      /\ w.lastResolved <= w.turn /\ w.entered <= w.turn
      /\ w.phase = "test" => w.entered >= 1 /\ ~IsStagnantInTest(w)
      /\ w.phase = "synthesize" => w.entered >= 2
      /\ w.phase = "synthesize" => (w.entered = w.turn \/ (w.entered < w.turn /\ w.turn >= 3))
      /\ w.phase # "explore" => Cardinality(Known(w)) >= MIN_HYPOTHESES
      /\ w.target # NoTarget => w.phase = "test" /\ w.target \in Open(w)
  BY <1>3, Moved
<1>7. /\ x \in Memory
      /\ x.turn = w.turn /\ x.phase = w.phase /\ x.entered = w.entered
      /\ x.resolved = w.resolved /\ x.lastResolved = w.lastResolved
      /\ Known(x) = Known(w) /\ Open(x) = Open(w) /\ Resolved(x) = Resolved(w)
      /\ x.target # NoTarget => x.phase = "test" /\ x.target \in Open(x)
      /\ x.phase = "test" /\ Open(x) # {} => x.target # NoTarget
  <2>1. w \in Memory /\ (w.target # NoTarget => w.phase = "test" /\ w.target \in Open(w))
    BY <1>6
  <2> QED
    BY <1>5, <2>1, Focused
<1>8. x.turn \in Nat /\ x.entered \in Nat /\ x.lastResolved \in Nat /\ x.phase \in Phases
      /\ wm.turn \in Nat /\ cancelled \in BOOLEAN
  BY <1>7 DEF Memory, BrainInv, TypeOK
<1>9. /\ wm.turn < MaxTurns
  BY DEF BrainInv, Clock
<1>10. reason' = IF cancelled THEN "cancelled_by_user"
                 ELSE IF x.phase = "synthesize" /\ x.entered < x.turn THEN "synthesized"
                 ELSE IF x.turn >= MaxTurns THEN "max_turns_reached" ELSE "none"
  BY <1>2, <1>4 DEF ShouldTerminate
<1>11. /\ reason' \in {"none", "cancelled_by_user", "synthesized", "max_turns_reached"}
       /\ cancelled' \in BOOLEAN
  BY <1>2, <1>8, <1>10
<1>12. TypeOK'
  BY <1>4, <1>6, <1>7, <1>11 DEF TypeOK
<1>13. CountsMatch'
  BY <1>4, <1>6, <1>7 DEF CountsMatch, Resolved
<1>14. TargetIsOpen'
  BY <1>4, <1>7 DEF TargetIsOpen, Open
<1>15. NoIdleTesting'
  <2>1. x.phase = "test" =>
           \/ x.turn < x.entered + STAGNATION_TURNS
           \/ x.turn < x.lastResolved + STAGNATION_TURNS
    BY <1>6, <1>7, <1>8 DEF IsStagnantInTest, STAGNATION_TURNS
  <2> QED
    BY <1>4, <2>1 DEF NoIdleTesting
<1>16. Clock'
  <2>1. /\ x.entered <= x.turn /\ x.lastResolved <= x.turn
        /\ x.phase = "test" => x.entered >= 1
        /\ x.phase = "synthesize" => x.entered >= 2
    BY <1>6, <1>7
  <2>2. reason' = "none" => x.turn < MaxTurns
    BY <1>8, <1>10
  <2>3. x.phase = "synthesize" /\ reason' = "none" => x.entered = x.turn
    BY <1>6, <1>7, <1>10
  <2> QED
    BY <1>4, <2>1, <2>2, <2>3 DEF Clock
<1>17. EnoughKnown'
  BY <1>4, <1>6, <1>7 DEF EnoughKnown, Known
<1>18. LOOP!Turn
  <2>1. wm'.turn = wm.turn + 1
    BY <1>4, <1>6, <1>7
  <2>2. reason' \in LOOP!Outcomes(wm.turn + 1)
    <3>1. x.turn = wm.turn + 1 /\ x.turn <= MaxTurns
      BY <1>6, <1>7
    <3>2. CASE cancelled
      BY <1>10, <3>2 DEF LOOP!Outcomes
    <3>3. CASE ~cancelled /\ x.phase = "synthesize" /\ x.entered < x.turn
      <4>1. wm.turn + 1 >= 3
        BY <1>6, <1>7, <1>8, <3>1, <3>3
      <4> QED
        BY <1>10, <3>3, <4>1 DEF LOOP!Outcomes, LOOP!FewestTurns
    <3>4. CASE ~cancelled /\ ~(x.phase = "synthesize" /\ x.entered < x.turn)
      <4>1. reason' = IF wm.turn + 1 = MaxTurns THEN "max_turns_reached" ELSE "none"
        BY <1>8, <1>10, <3>1, <3>4
      <4> QED
        BY <3>4, <4>1 DEF LOOP!Outcomes
    <3> QED
      BY <3>2, <3>3, <3>4
  <2> QED
    BY <1>2, <1>9, <2>1, <2>2 DEF LOOP!Turn
<1> QED
  BY <1>12, <1>13, <1>14, <1>15, <1>16, <1>17, <1>18 DEF BrainInv

\* What the brain's delta makes of the memory is a merge,
LEMMA TurnMerges ==
    ASSUME BrainInv, NEW delta \in Deltas
    PROVE  Merged(Apply(NextTurn, delta))
<1>1. wm \in Memory /\ wm.turn \in Nat
  BY DEF BrainInv, TypeOK, Memory
<1>2. PICK n : n = NextTurn
  OBVIOUS
<1>3. /\ n \in Memory /\ n.turn = wm.turn + 1 /\ n.phase = wm.phase /\ n.entered = wm.entered
      /\ n.hypothesis = wm.hypothesis /\ n.resolved = wm.resolved
      /\ n.lastResolved = wm.lastResolved /\ n.target = wm.target
  <2>1. PICK k : k = wm.turn + 1
    OBVIOUS
  <2>2. k \in Nat /\ n = [wm EXCEPT !.turn = k]
    BY <1>1, <1>2, <2>1 DEF NextTurn
  <2> QED
    BY <1>1, <2>1, <2>2, Zenon DEF Memory
<1>4. delta \in Delta
  OBVIOUS
<1>5. PICK w : w = Apply(n, delta)
  OBVIOUS
<1>6. /\ w \in Memory
      /\ w.turn = n.turn /\ w.phase = n.phase /\ w.entered = n.entered
      /\ \A h \in Hypotheses : n.hypothesis[h] # "absent" => w.hypothesis[h] # "absent"
      /\ w.resolved = Cardinality(Resolved(w))
      /\ w.lastResolved = IF w.resolved > n.resolved THEN n.turn ELSE n.lastResolved
      /\ w.target = IF n.target \in Open(w) THEN n.target ELSE NoTarget
  BY <1>3, <1>4, <1>5, ApplyMerges
<1>7. Merged(w)
  BY <1>3, <1>6 DEF Merged
<1> QED
  BY <1>2, <1>5, <1>7

\* and so is a turn that brings none.
LEMMA EmptyTurnMerges ==
    ASSUME BrainInv
    PROVE  Merged(NextTurn)
<1>1. wm \in Memory /\ wm.turn \in Nat /\ wm.resolved = Cardinality(Resolved(wm))
      /\ wm.target = IF wm.target \in Open(wm) THEN wm.target ELSE NoTarget
  BY DEF BrainInv, TypeOK, Memory, CountsMatch, TargetIsOpen
<1>2. PICK n : n = NextTurn
  OBVIOUS
<1>3. /\ n \in Memory /\ n.turn = wm.turn + 1 /\ n.phase = wm.phase /\ n.entered = wm.entered
      /\ n.hypothesis = wm.hypothesis /\ n.resolved = wm.resolved
      /\ n.lastResolved = wm.lastResolved /\ n.target = wm.target
  <2>1. PICK k : k = wm.turn + 1
    OBVIOUS
  <2>2. k \in Nat /\ n = [wm EXCEPT !.turn = k]
    BY <1>1, <1>2, <2>1 DEF NextTurn
  <2> QED
    BY <1>1, <2>1, <2>2, Zenon DEF Memory
<1>4. Resolved(n) = Resolved(wm) /\ Open(n) = Open(wm)
  BY <1>3 DEF Resolved, Open
<1>5. Cardinality(Resolved(wm)) \in Nat
  BY <1>1, Counted
<1>6. Merged(n)
  BY <1>1, <1>3, <1>4, <1>5 DEF Merged
<1> QED
  BY <1>2, <1>6

\* The invariant holds before the first turn,
LEMMA BrainInitInv == Init => BrainInv
<1> SUFFICES ASSUME Init PROVE BrainInv
  OBVIOUS
<1>1. PICK H : H = [h \in Hypotheses |-> "absent"]
  OBVIOUS
<1>2. PICK C : C = [c \in Contradictions |-> NotFlagged]
  OBVIOUS
<1>3. H \in [Hypotheses -> {"absent"} \cup HypothesisStatus]
      /\ C \in [Contradictions -> {NotFlagged} \cup Contradiction] /\ "explore" \in Phases
  BY <1>1, <1>2 DEF Phases
<1>4. wm = [turn |-> 0, phase |-> "explore", entered |-> 0, hypothesis |-> H,
            contradiction |-> C, target |-> NoTarget, resolved |-> 0,
            lastResolved |-> 0, answered |-> FALSE]
  BY <1>1, <1>2 DEF Init, EmptyMemory
<1>5. 0 \in Nat /\ FALSE \in BOOLEAN /\ NoTarget \in Hypotheses \cup {NoTarget}
  OBVIOUS
<1>6. wm \in Memory
  BY <1>3, <1>4, <1>5, Zenon DEF Memory
<1>7. /\ wm.turn = 0 /\ wm.phase = "explore" /\ wm.entered = 0 /\ wm.hypothesis = H
      /\ wm.target = NoTarget /\ wm.resolved = 0 /\ wm.lastResolved = 0
  BY <1>4
<1>8. Resolved(wm) = {}
  BY <1>1, <1>7 DEF Resolved, Verdicts
<1>9. Cardinality({}) = 0
  BY FS_EmptySet
<1>10. TypeOK
  <2>1. reason = "none" /\ cancelled \in BOOLEAN
    BY DEF Init
  <2> QED
    BY <1>6, <1>7, <2>1 DEF TypeOK
<1>11. CountsMatch
  BY <1>7, <1>8, <1>9 DEF CountsMatch
<1>12. TargetIsOpen /\ NoIdleTesting /\ EnoughKnown
  BY <1>7 DEF TargetIsOpen, NoIdleTesting, EnoughKnown
<1>13. Clock
  BY <1>7 DEF Clock
<1> QED
  BY <1>10, <1>11, <1>12, <1>13 DEF BrainInv

\* and every step keeps it and is a step of TurnLoop or a stutter.
LEMMA BrainStep ==
    ASSUME BrainInv, [Next]_vars
    PROVE  BrainInv' /\ [LOOP!LoopNext]_(LOOP!loopVars)
<1>1. ASSUME NEW delta \in Deltas, Turn(delta)
      PROVE  BrainInv' /\ LOOP!Turn
  BY <1>1, TurnMerges, ContinueInv DEF Turn
<1>2. CASE EmptyTurn
  BY <1>2, EmptyTurnMerges, ContinueInv DEF EmptyTurn, LOOP!LoopNext
<1>3. CASE TurnFails
  <2>1. BrainInv'
    BY <1>3 DEF TurnFails, BrainInv, TypeOK, CountsMatch, TargetIsOpen, NoIdleTesting, Clock,
                EnoughKnown, Known, Open, Resolved
  <2> QED
    BY <1>3, <2>1 DEF TurnFails, LOOP!LoopNext, LOOP!TurnFails
<1>4. CASE CancelRun
  <2>1. cancelled' \in BOOLEAN
    BY <1>4 DEF CancelRun
  <2>2. BrainInv'
    BY <1>4, <2>1 DEF CancelRun, BrainInv, TypeOK, CountsMatch, TargetIsOpen, NoIdleTesting, Clock,
                EnoughKnown, Known, Open, Resolved
  <2> QED
    BY <1>4, <2>2 DEF CancelRun, LOOP!LoopNext, LOOP!Cancel
<1>5. CASE Ended \/ UNCHANGED vars
  <2>1. UNCHANGED vars
    BY <1>5 DEF Ended
  <2>2. BrainInv'
    BY <2>1 DEF vars, BrainInv, TypeOK, CountsMatch, TargetIsOpen, NoIdleTesting, Clock,
                EnoughKnown, Known, Open, Resolved
  <2> QED
    BY <2>1, <2>2 DEF vars, LOOP!loopVars
<1> QED
  BY <1>1, <1>2, <1>3, <1>4, <1>5 DEF Next, LOOP!LoopNext

\* What a turn that merged m and gave up on the test phase with a
\* contradiction open has behind it.
LEMMA GaveUp ==
    ASSUME BrainInv, NEW m, Merged(m), NEW w, GivesUp(m, w)
    PROVE  /\ w.turn >= wm.entered + STAGNATION_TURNS
           /\ w.turn >= wm.lastResolved + STAGNATION_TURNS
           /\ \/ \A h \in Open(wm) : w.hypothesis[h] = "abandoned"
              \/ \E h \in Resolved(wm) :
                    wm.hypothesis[h] = "abandoned" \/ w.hypothesis[h] # wm.hypothesis[h]
<1>1. /\ m \in Memory /\ wm \in Memory /\ m.turn = wm.turn + 1 /\ m.entered = wm.entered
      /\ m.resolved = Cardinality(Resolved(m)) /\ wm.resolved = Cardinality(Resolved(wm))
      /\ m.lastResolved = IF m.resolved > wm.resolved THEN m.turn ELSE wm.lastResolved
      /\ \A h \in Hypotheses : wm.hypothesis[h] # "absent" => m.hypothesis[h] # "absent"
  BY DEF Merged, BrainInv, TypeOK, CountsMatch
<1>2. m.turn \in Nat /\ m.entered \in Nat /\ m.lastResolved \in Nat
  BY <1>1 DEF Memory
<1>3. /\ w.turn = m.turn
      /\ \A h \in Hypotheses :
            w.hypothesis[h] = IF m.hypothesis[h] = "open" THEN "abandoned" ELSE m.hypothesis[h]
  <2>1. m \in Memory
    BY <1>1
  <2>2. w.turn = m.turn
    BY <2>1, GivingUp
  <2>3. w.hypothesis = [h \in Hypotheses |->
            IF m.hypothesis[h] = "open" THEN "abandoned" ELSE m.hypothesis[h]]
    BY <2>1, GivingUp, Zenon
  <2> QED
    BY <2>2, <2>3
<1>4. m.turn >= m.entered + STAGNATION_TURNS /\ m.turn >= m.lastResolved + STAGNATION_TURNS
  BY DEF GivesUp, IsStagnantInTest
<1>5. m.lastResolved = wm.lastResolved /\ ~(m.resolved > wm.resolved)
  BY <1>1, <1>2, <1>4 DEF STAGNATION_TURNS
<1>6. ASSUME \A h \in Resolved(wm) :
               wm.hypothesis[h] # "abandoned" /\ w.hypothesis[h] = wm.hypothesis[h],
             NEW h \in Open(wm)
      PROVE  w.hypothesis[h] = "abandoned"
  <2>1. Resolved(wm) \in SUBSET Resolved(m)
    BY <1>3, <1>6 DEF Resolved, Verdicts
  <2>2. /\ IsFiniteSet(Resolved(m)) /\ Cardinality(Resolved(m)) \in Nat
        /\ Cardinality(Resolved(wm)) \in Nat
    BY <1>1, Counted
  <2>3. /\ Cardinality(Resolved(wm)) <= Cardinality(Resolved(m))
        /\ Cardinality(Resolved(m)) = Cardinality(Resolved(wm)) => Resolved(m) = Resolved(wm)
    BY <2>1, <2>2, FS_Subset
  <2>4. Resolved(m) = Resolved(wm)
    BY <1>1, <1>5, <2>2, <2>3
  <2>5. h \in Hypotheses /\ wm.hypothesis[h] = "open"
    BY DEF Open
  <2>6. m.hypothesis[h] \notin Verdicts /\ m.hypothesis[h] # "absent"
    BY <1>1, <2>4, <2>5 DEF Resolved, Verdicts
  <2>7. m.hypothesis[h] = "open"
    BY <1>1, <2>5, <2>6 DEF Memory, HypothesisStatus
  <2> QED
    BY <1>3, <2>5, <2>7
<1> QED
  BY <1>1, <1>2, <1>3, <1>4, <1>5, <1>6 DEF STAGNATION_TURNS

\* What a turn that merged m may do to phase, focus and contradictions.
LEMMA ContinueKeeps ==
    ASSUME BrainInv, reason = "none", NEW m, Merged(m), Continue(m)
    PROVE  /\ wm.target # NoTarget /\ wm'.target # wm.target => wm.target \notin Open(wm')
           /\ wm'.phase # wm.phase =>
                 \/ /\ wm.phase = "explore" /\ wm'.phase = "test"
                    /\ Cardinality(Known(wm')) >= MIN_HYPOTHESES
                 \/ /\ wm.phase = "test" /\ wm'.phase = "synthesize"
                    /\ Cardinality(Resolved(wm')) >= MIN_HYPOTHESES /\ Open(wm') = {}
           /\ wm'.phase = "synthesize" /\ wm.phase = "test" /\ OpenContradictions(wm') # {} =>
                 /\ wm'.turn >= wm.entered + STAGNATION_TURNS
                 /\ wm'.turn >= wm.lastResolved + STAGNATION_TURNS
                 /\ \/ \A h \in Open(wm) : wm'.hypothesis[h] = "abandoned"
                    \/ \E h \in Resolved(wm) :
                          wm.hypothesis[h] = "abandoned" \/ wm'.hypothesis[h] # wm.hypothesis[h]
<1>1. PICK target \in Targets(PhaseStep(m)) : wm' = [PhaseStep(m) EXCEPT !.target = target]
  BY DEF Continue
<1>2. PICK w : w = PhaseStep(m)
  OBVIOUS
<1>3. PICK x : x = wm'
  OBVIOUS
<1>4. Refocused(w, x)
  BY <1>1, <1>2, <1>3 DEF Refocused
<1>5. /\ w \in Memory
      /\ w.phase # "explore" => Cardinality(Known(w)) >= MIN_HYPOTHESES
      /\ w.target # NoTarget => w.phase = "test" /\ w.target \in Open(w)
      /\ w.phase # wm.phase =>
            \/ wm.phase = "explore" /\ w.phase = "test"
            \/ /\ wm.phase = "test" /\ w.phase = "synthesize"
               /\ Cardinality(Resolved(w)) >= MIN_HYPOTHESES /\ Open(w) = {}
      /\ Stays(m, w) \/ StartsTest(m, w) \/ AllSettled(m, w) \/ GivesUp(m, w)
  BY <1>2, Moved
<1>6. /\ x.turn = w.turn /\ x.phase = w.phase /\ x.hypothesis = w.hypothesis
      /\ Known(x) = Known(w) /\ Open(x) = Open(w) /\ Resolved(x) = Resolved(w)
      /\ OpenContradictions(x) = OpenContradictions(w)
      /\ w.target # NoTarget => x.target = w.target
  <2>1. w \in Memory /\ (w.target # NoTarget => w.phase = "test" /\ w.target \in Open(w))
    BY <1>5
  <2> QED
    BY <1>4, <2>1, Focused
<1>7. /\ m \in Memory /\ m.phase = wm.phase
      /\ m.target = IF wm.target \in Open(m) THEN wm.target ELSE NoTarget
  BY DEF Merged
<1>8. ASSUME wm.target # NoTarget, wm.target \in Open(w)
      PROVE  w.target = wm.target
  <2>1. wm.phase = "test"
    BY <1>8 DEF BrainInv, TargetIsOpen
  <2>2. CASE Stays(m, w)
    BY <1>7, <1>8, <2>2 DEF Stays
  <2>3. CASE StartsTest(m, w)
    BY <1>7, <2>1, <2>3 DEF StartsTest
  <2>4. CASE AllSettled(m, w)
    <3>1. m.resolved = Cardinality(Resolved(m))
      BY DEF Merged
    <3>2. Open(m) = {}
      BY <1>7, <2>4, <3>1, Counted DEF AllSettled
    <3>3. w.hypothesis = m.hypothesis
      BY <1>7, <2>4, Zenon DEF AllSettled, Memory
    <3> QED
      BY <1>8, <3>2, <3>3 DEF Open
  <2>5. CASE GivesUp(m, w)
    BY <1>7, <1>8, <2>5, GivingUp
  <2> QED
    BY <1>5, <2>2, <2>3, <2>4, <2>5
<1>9. wm.target # NoTarget /\ x.target # wm.target => wm.target \notin Open(x)
  BY <1>6, <1>8
<1>10. ASSUME x.phase = "synthesize", wm.phase = "test", OpenContradictions(x) # {}
       PROVE  /\ x.turn >= wm.entered + STAGNATION_TURNS
              /\ x.turn >= wm.lastResolved + STAGNATION_TURNS
              /\ \/ \A h \in Open(wm) : x.hypothesis[h] = "abandoned"
                 \/ \E h \in Resolved(wm) :
                       wm.hypothesis[h] = "abandoned" \/ x.hypothesis[h] # wm.hypothesis[h]
  <2>1. ~Stays(m, w)
    BY <1>6, <1>7, <1>10 DEF Stays
  <2>2. ~StartsTest(m, w)
    BY <1>7, <1>10 DEF StartsTest
  <2>3. ~AllSettled(m, w)
    <3> SUFFICES ASSUME AllSettled(m, w) PROVE FALSE
      OBVIOUS
    <3>1. w.contradiction = m.contradiction /\ OpenContradictions(m) = {}
      BY <1>7, Zenon DEF AllSettled, Memory
    <3>2. OpenContradictions(w) = {}
      BY <3>1 DEF OpenContradictions
    <3> QED
      BY <1>6, <1>10, <3>2
  <2>4. GivesUp(m, w)
    BY <1>5, <2>1, <2>2, <2>3
  <2> QED
    BY <1>6, <2>4, GaveUp
<1>11. x.phase # wm.phase =>
          \/ /\ wm.phase = "explore" /\ x.phase = "test"
             /\ Cardinality(Known(x)) >= MIN_HYPOTHESES
          \/ /\ wm.phase = "test" /\ x.phase = "synthesize"
             /\ Cardinality(Resolved(x)) >= MIN_HYPOTHESES /\ Open(x) = {}
  BY <1>5, <1>6
<1> QED
  BY <1>3, <1>9, <1>10, <1>11

\* What any step may do to phase, focus and contradictions.
LEMMA StepKeeps ==
    ASSUME BrainInv, [Next]_vars
    PROVE  /\ wm.target # NoTarget /\ wm'.target # wm.target => wm.target \notin Open(wm')
           /\ wm'.phase # wm.phase =>
                 \/ /\ wm.phase = "explore" /\ wm'.phase = "test"
                    /\ Cardinality(Known(wm')) >= MIN_HYPOTHESES
                 \/ /\ wm.phase = "test" /\ wm'.phase = "synthesize"
                    /\ Cardinality(Resolved(wm')) >= MIN_HYPOTHESES /\ Open(wm') = {}
           /\ wm'.phase = "synthesize" /\ wm.phase = "test" /\ OpenContradictions(wm') # {} =>
                 /\ wm'.turn >= wm.entered + STAGNATION_TURNS
                 /\ wm'.turn >= wm.lastResolved + STAGNATION_TURNS
                 /\ \/ \A h \in Open(wm) : wm'.hypothesis[h] = "abandoned"
                    \/ \E h \in Resolved(wm) :
                          wm.hypothesis[h] = "abandoned" \/ wm'.hypothesis[h] # wm.hypothesis[h]
<1>1. CASE \E delta \in Deltas : Turn(delta)
  BY <1>1, TurnMerges, ContinueKeeps DEF Turn
<1>2. CASE EmptyTurn
  BY <1>2, EmptyTurnMerges, ContinueKeeps DEF EmptyTurn
<1>3. CASE wm' = wm
  BY <1>3
<1> QED
  BY <1>1, <1>2, <1>3 DEF Next, TurnFails, CancelRun, Ended, vars

-----------------------------------------------------------------------------
\* The invariant of the loop.
THEOREM BrainInvariant == Spec => []BrainInv
<1>1. BrainInv /\ [Next]_vars => BrainInv'
  BY BrainStep
<1> QED
  BY <1>1, BrainInitInv, PTL DEF Spec

\* The memory stays a memory, at most MaxTurns turns old: WorkingMemory.apply
\* and the workflow's steps keep the types.
THEOREM BrainTypes == Spec => []TypeOK
<1>1. BrainInv => TypeOK
  BY DEF BrainInv
<1> QED
  BY <1>1, BrainInvariant, PTL

\* hypotheses_resolved counts the hypotheses with a verdict.
THEOREM CountIsExact == Spec => []CountsMatch
<1>1. BrainInv => CountsMatch
  BY DEF BrainInv
<1> QED
  BY <1>1, BrainInvariant, PTL

\* A test turn focuses on an open hypothesis if there is one.
THEOREM FocusIsOpen == Spec => []TargetIsOpen
<1>1. BrainInv => TargetIsOpen
  BY DEF BrainInv
<1> QED
  BY <1>1, BrainInvariant, PTL

\* No third test turn after two that resolved nothing.
THEOREM TestingProgresses == Spec => []NoIdleTesting
<1>1. BrainInv => NoIdleTesting
  BY DEF BrainInv
<1> QED
  BY <1>1, BrainInvariant, PTL

\* pick_target_hypothesis is asked for another hypothesis only when the one
\* in focus is not open any more.
THEOREM FocusStays == Spec => TargetSticks
<1>1. BrainInv /\ [Next]_vars =>
        [wm.target # NoTarget /\ wm'.target # wm.target => wm.target \notin Open(wm')]_vars
  BY StepKeeps
<1> QED
  BY <1>1, BrainInvariant, PTL DEF Spec, TargetSticks

\* The phases go one way, and synthesis starts from verdicts.
THEOREM SynthesisIsGrounded == Spec => SynthesizesVerdicts
<1>1. BrainInv /\ [Next]_vars =>
        [wm'.phase # wm.phase =>
           \/ wm.phase = "explore" /\ wm'.phase = "test" /\ Cardinality(Known(wm')) >= MIN_HYPOTHESES
           \/ /\ wm.phase = "test" /\ wm'.phase = "synthesize"
              /\ Cardinality(Resolved(wm')) >= MIN_HYPOTHESES /\ Open(wm') = {}]_vars
  BY StepKeeps
<1> QED
  BY <1>1, BrainInvariant, PTL DEF Spec, SynthesizesVerdicts

\* An open contradiction keeps a run that makes progress from synthesizing.
THEOREM ContradictionsGate == Spec => GatedOnContradictions
<1>1. BrainInv /\ [Next]_vars =>
        [wm'.phase = "synthesize" /\ wm.phase = "test" /\ OpenContradictions(wm') # {} =>
           /\ wm'.turn >= wm.entered + STAGNATION_TURNS
           /\ wm'.turn >= wm.lastResolved + STAGNATION_TURNS
           /\ \/ \A h \in Open(wm) : wm'.hypothesis[h] = "abandoned"
              \/ \E h \in Resolved(wm) :
                    wm.hypothesis[h] = "abandoned" \/ wm'.hypothesis[h] # wm.hypothesis[h]]_vars
  BY StepKeeps
<1> QED
  BY <1>1, BrainInvariant, PTL DEF Spec, GatedOnContradictions

\* The loop with its memory is the loop that TurnLoop promises: turns one
\* after the other, at most MaxTurns, and no answer before the third.
THEOREM BrainImplementsLoop == Spec => ImplementsTurnLoop
<1>1. Init => LOOP!LoopInit
  BY DEF Init, LOOP!LoopInit, EmptyMemory
<1>2. BrainInv /\ [Next]_vars => [LOOP!LoopNext]_(LOOP!loopVars)
  BY BrainStep
<1> QED
  BY <1>1, <1>2, BrainInvariant, PTL DEF Spec, ImplementsTurnLoop, LOOP!LoopSpec
=============================================================================
