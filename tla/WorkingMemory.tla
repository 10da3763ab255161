--------------------------- MODULE WorkingMemory ---------------------------
(***************************************************************************)
(* The working memory of a research run and the pure functions on it       *)
(* (pipeline/runners/working_memory.py): how the delta of a brain turn is  *)
(* merged, which phase comes next, when the test phase is stagnant and     *)
(* when the loop ends.  Of a hypothesis the model keeps its status, of a   *)
(* contradiction its status and whether it has a winner, of the summary    *)
(* whether there is one.  Findings, facts, questions and the evidence      *)
(* matrix decide nothing here and are left out, and so are the confidences *)
(* by which pick_target_hypothesis ranks the open hypotheses.              *)
(***************************************************************************)
EXTENDS Naturals, FiniteSets

CONSTANTS
    Hypotheses,         \* bound: the hypotheses a run can come up with
    Contradictions,     \* bound: the contradictions it can flag
    NoTarget            \* current_target_hypothesis_id is None

MIN_HYPOTHESES == 2     \* PHASE_TRANSITION_MIN_HYPOTHESES
STAGNATION_TURNS == 2

Phases == {"explore", "test", "synthesize"}
Verdicts == {"supported", "refuted", "abandoned"}
HypothesisStatus == {"open"} \cup Verdicts

\* status and whether winner is other than "unknown"
Contradiction == [status : {"open", "resolved"}, won : BOOLEAN]
NotFlagged == [status |-> "absent", won |-> FALSE]

Memory ==
    [turn : Nat, phase : Phases, entered : Nat,             \* phase_entered_at_turn
     hypothesis : [Hypotheses -> {"absent"} \cup HypothesisStatus],
     contradiction : [Contradictions -> {NotFlagged} \cup Contradiction],
     target : Hypotheses \cup {NoTarget},                   \* current_target_hypothesis_id
     resolved : Nat,                                        \* hypotheses_resolved
     lastResolved : Nat,                                    \* last_resolved_at_turn
     answered : BOOLEAN]                                    \* synthesis_summary is not empty

EmptyMemory ==
    [turn |-> 0, phase |-> "explore", entered |-> 0,
     hypothesis |-> [h \in Hypotheses |-> "absent"],
     contradiction |-> [c \in Contradictions |-> NotFlagged],
     target |-> NoTarget, resolved |-> 0, lastResolved |-> 0, answered |-> FALSE]

Known(wm) == {h \in Hypotheses : wm.hypothesis[h] # "absent"}
Open(wm) == {h \in Hypotheses : wm.hypothesis[h] = "open"}
Resolved(wm) == {h \in Hypotheses : wm.hypothesis[h] \in Verdicts}
OpenContradictions(wm) == {c \in Contradictions : wm.contradiction[c].status = "open"}

-----------------------------------------------------------------------------
(***************************************************************************)
(* A delta says of each hypothesis nothing ("none") or a status: a new     *)
(* hypothesis comes with one, a known one is patched.  Of a contradiction  *)
(* it says nothing, flags it, or patches status and winner ("none" is a    *)
(* field left out).  The brain is free in all of it.                       *)
(***************************************************************************)
Patches == [status : {"none", "open", "resolved"}, won : {"none", "yes", "no"}]

Delta ==
    [hypothesis : [Hypotheses -> {"none"} \cup HypothesisStatus],
     contradiction : [Contradictions -> Patches], answered : BOOLEAN]

\* What a patch makes of a contradiction.  A new one comes with its fields;
\* to update one that is not known does nothing; a winner without a status
\* resolves.
Patched(c, p) ==
    IF c = NotFlagged
      THEN IF p.status = "none" THEN c ELSE [status |-> p.status, won |-> p.won = "yes"]
      ELSE [status |-> IF p.status # "none" THEN p.status
                       ELSE IF p.won = "yes" THEN "resolved" ELSE c.status,
            won    |-> IF p.won = "none" THEN c.won ELSE p.won = "yes"]

\* Mutant of Apply: the target stays when it gets its verdict.
ApplyKeepsTarget(wm, delta) ==
    LET told == [wm EXCEPT
            !.hypothesis = [h \in Hypotheses |->
                IF delta.hypothesis[h] = "none" THEN @[h] ELSE delta.hypothesis[h]]]
        count == Cardinality(Resolved(told))
    IN  [told EXCEPT !.resolved = count,
                     !.lastResolved = IF count > wm.resolved THEN wm.turn ELSE @]

\* WorkingMemory.apply.
Apply(wm, delta) ==
    LET told == [wm EXCEPT
            !.hypothesis = [h \in Hypotheses |->
                IF delta.hypothesis[h] = "none" THEN @[h] ELSE delta.hypothesis[h]],
            !.contradiction = [c \in Contradictions |-> Patched(@[c], delta.contradiction[c])],
            !.answered = @ \/ delta.answered]
        count == Cardinality(Resolved(told))
    IN  [told EXCEPT
            !.resolved = count,
            !.lastResolved = IF count > wm.resolved THEN wm.turn ELSE @,
            !.target = IF @ \in Open(told) THEN @ ELSE NoTarget]

-----------------------------------------------------------------------------
\* Mutant of ComputeNextPhase: the gate on contradictions is missing.
NextPhaseUngated(wm) ==
    IF wm.phase = "explore" /\ Cardinality(Known(wm)) >= MIN_HYPOTHESES
      THEN "test"
      ELSE IF wm.phase = "test" /\ Known(wm) # {} /\ wm.resolved >= Cardinality(Known(wm))
             THEN "synthesize"
             ELSE wm.phase

ComputeNextPhase(wm) ==
    IF wm.phase = "explore" /\ Cardinality(Known(wm)) >= MIN_HYPOTHESES
      THEN "test"
      ELSE IF /\ wm.phase = "test"
              /\ Known(wm) # {} /\ wm.resolved >= Cardinality(Known(wm))
              /\ OpenContradictions(wm) = {}
             THEN "synthesize"
             ELSE wm.phase

InPhase(wm, phase) ==
    IF phase = wm.phase THEN wm ELSE [wm EXCEPT !.phase = phase, !.entered = wm.turn]

\* Mutant of IsStagnantInTest: off by one.
IsStagnantLate(wm) ==
    /\ wm.phase = "test"
    /\ wm.turn > wm.entered + STAGNATION_TURNS
    /\ wm.turn > wm.lastResolved + STAGNATION_TURNS

IsStagnantInTest(wm) ==
    /\ wm.phase = "test"
    /\ wm.turn >= wm.entered + STAGNATION_TURNS
    /\ wm.turn >= wm.lastResolved + STAGNATION_TURNS

AbandonOpenHypotheses(wm) ==
    LET given == [wm EXCEPT !.hypothesis =
                    [h \in Hypotheses |-> IF @[h] = "open" THEN "abandoned" ELSE @[h]]]
    IN  [given EXCEPT !.resolved = Cardinality(Resolved(given)), !.target = NoTarget]

\* Mutant of ShouldTerminate: to enter the phase counts as its turn.
TerminatesEarly(wm, maxTurns, isCancelled) ==
    IF isCancelled THEN "cancelled_by_user"
    ELSE IF wm.phase = "synthesize" /\ wm.entered <= wm.turn THEN "synthesized"
    ELSE IF wm.turn >= maxTurns THEN "max_turns_reached"
    ELSE "none"

ShouldTerminate(wm, maxTurns, isCancelled) ==
    IF isCancelled THEN "cancelled_by_user"
    ELSE IF wm.phase = "synthesize" /\ wm.entered < wm.turn THEN "synthesized"
    ELSE IF wm.turn >= maxTurns THEN "max_turns_reached"
    ELSE "none"

=============================================================================
