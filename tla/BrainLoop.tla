----------------------------- MODULE BrainLoop -----------------------------
(***************************************************************************)
(* The loop of IsLoopRunWorkflow (temporal/workflows/is_loop_run.py) with  *)
(* the activity run_brain_turn (temporal/activities/brain_turn.py): "the   *)
(* workflow body owns phase transitions and termination — the LLM does NOT *)
(* decide when the run ends".  A turn is the activity, whose delta is up   *)
(* to the brain, and the workflow code up to the next activity; a signal   *)
(* is handled between two turns.                                           *)
(***************************************************************************)
EXTENDS WorkingMemory

CONSTANTS
    MaxTurns,           \* max_turns
    Deltas              \* the deltas the brain of this instance emits

ASSUME BrainAssumption ==
    /\ MaxTurns \in Nat \ {0} /\ Deltas \subseteq Delta
    /\ NoTarget \notin Hypotheses /\ IsFiniteSet(Hypotheses)

VARIABLES
    wm,         \* the WorkingMemory the workflow holds between two turns
    reason,     \* terminate_reason, "none" while the loop goes on
    cancelled   \* _cancelled

vars == <<wm, reason, cancelled>>

TypeOK ==
    /\ wm \in Memory /\ wm.turn <= MaxTurns
    /\ reason \in {"none", "cancelled_by_user", "synthesized", "max_turns_reached", "turn_error"}
    /\ cancelled \in BOOLEAN

\* init_working_memory
Init == wm = EmptyMemory /\ reason = "none" /\ cancelled = FALSE

-----------------------------------------------------------------------------
\* In the test phase a turn needs a hypothesis to focus on; which of the open
\* ones is up to their confidences.
Targets(m) ==
    IF m.phase = "test" /\ m.target = NoTarget /\ Open(m) # {} THEN Open(m) ELSE {m.target}

\* Mutant of PhaseStep: forced to synthesize, the open hypotheses stay open.
PhaseStepKeepsOpen(m) ==
    LET next == InPhase(m, ComputeNextPhase(m))
    IN  IF IsStagnantInTest(next) THEN InPhase(next, "synthesize") ELSE next

\* The workflow code between two turns: the phase moves on, and a test phase
\* that is stagnant is given up.
PhaseStep(m) ==
    LET next == InPhase(m, ComputeNextPhase(m))
    IN  IF IsStagnantInTest(next)
          THEN InPhase(AbandonOpenHypotheses(next), "synthesize")
          ELSE next

\* The activity returned memory m.
Continue(m) ==
    \E target \in Targets(PhaseStep(m)) :
        /\ wm' = [PhaseStep(m) EXCEPT !.target = target]
        /\ reason' = ShouldTerminate(wm', MaxTurns, cancelled)
        /\ UNCHANGED cancelled

NextTurn == [wm EXCEPT !.turn = @ + 1]

\* The brain answers with a delta.
Turn(delta) ==
    /\ reason = "none"
    /\ wm.turn <= MaxTurns                          \* bound, for the mutants
    /\ Continue(Apply(NextTurn, delta))

\* The subprocess fails or times out, or its delta does not validate: the
\* turn counts, nothing is merged.
EmptyTurn ==
    /\ reason = "none"
    /\ wm.turn <= MaxTurns
    /\ Continue(NextTurn)

\* The activity fails twice, or takes longer than four minutes.
TurnFails ==
    /\ reason = "none"
    /\ reason' = "turn_error"
    /\ UNCHANGED <<wm, cancelled>>

CancelRun ==
    /\ ~cancelled
    /\ cancelled' = TRUE
    /\ UNCHANGED <<wm, reason>>

Ended == reason # "none" /\ UNCHANGED vars

Next == (\E delta \in Deltas : Turn(delta)) \/ EmptyTurn \/ TurnFails \/ CancelRun \/ Ended

Spec == Init /\ [][Next]_vars

-----------------------------------------------------------------------------
(***************************************************************************)
(* The memory's count of resolved hypotheses, which decides on the phase   *)
(* and on stagnation, is the number of hypotheses with a verdict, whatever *)
(* the brain opened, resolved or reopened and the workflow abandoned.      *)
(***************************************************************************)
CountsMatch == wm.resolved = Cardinality(Resolved(wm))

(***************************************************************************)
(* The hypothesis a test turn focuses on is open; there is one whenever    *)
(* the next turn is a test turn and something is open, and none outside    *)
(* the test phase.                                                         *)
(***************************************************************************)
TargetIsOpen ==
    /\ wm.target # NoTarget => wm.phase = "test" /\ wm.target \in Open(wm)
    /\ wm.phase = "test" /\ Open(wm) # {} => wm.target # NoTarget

(***************************************************************************)
(* The focus stays on a hypothesis until it has a verdict.                 *)
(***************************************************************************)
TargetSticks ==
    [][wm.target # NoTarget /\ wm'.target # wm.target => wm.target \notin Open(wm')]_vars

(***************************************************************************)
(* "2+ test turns without progress": a run never goes into another test    *)
(* turn when the last two resolved nothing.                                *)
(***************************************************************************)
NoIdleTesting ==
    wm.phase = "test" =>
        \/ wm.turn < wm.entered + STAGNATION_TURNS
        \/ wm.turn < wm.lastResolved + STAGNATION_TURNS

(***************************************************************************)
(* The phases go one way, one at a time, and a run starts to synthesize    *)
(* only from at least two hypotheses, all of them with a verdict.          *)
(***************************************************************************)
SynthesizesVerdicts ==
    [][wm'.phase # wm.phase =>
        \/ wm.phase = "explore" /\ wm'.phase = "test" /\ Cardinality(Known(wm')) >= MIN_HYPOTHESES
        \/ /\ wm.phase = "test" /\ wm'.phase = "synthesize"
           /\ Cardinality(Resolved(wm')) >= MIN_HYPOTHESES /\ Open(wm') = {}]_vars

(***************************************************************************)
(* "Synthesize is GATED on open contradictions": with one open, only a     *)
(* test phase of two turns without progress is left, and not in a turn     *)
(* that gave an open hypothesis its verdict, unless it also changed an     *)
(* earlier verdict (or may have: reopened one that was abandoned).         *)
(***************************************************************************)
GatedOnContradictions ==
    [][wm'.phase = "synthesize" /\ wm.phase = "test" /\ OpenContradictions(wm') # {} =>
        /\ wm'.turn >= wm.entered + STAGNATION_TURNS
        /\ wm'.turn >= wm.lastResolved + STAGNATION_TURNS
        /\ \/ \A h \in Open(wm) : wm'.hypothesis[h] = "abandoned"
           \/ \E h \in Resolved(wm) :
                 wm.hypothesis[h] = "abandoned" \/ wm'.hypothesis[h] # wm.hypothesis[h]]_vars

(***************************************************************************)
(* The loop is a loop of at most MaxTurns turns that stops for the reasons *)
(* it promises, and no earlier than an answer can be there.                *)
(***************************************************************************)
LOOP == INSTANCE TurnLoop WITH turn <- wm.turn
ImplementsTurnLoop == LOOP!LoopSpec

(***************************************************************************)
(* "the run actually produced an answer": a run that ends as synthesized   *)
(* has the answer of its synthesize turn.  Not kept: the turn may fail.    *)
(***************************************************************************)
SynthesizedHasAnswer == reason = "synthesized" => wm.answered

=============================================================================
