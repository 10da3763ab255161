------------------------------ MODULE TurnLoop ------------------------------
(***************************************************************************)
(* What the multi-turn brain loop of a research run promises to the        *)
(* workflow around it (temporal/workflows/is_loop_run.py): it takes brain  *)
(* turns one after the other, at most MaxTurns of them, and stops for one  *)
(* of four reasons.  BrainLoop implements it with the working memory and   *)
(* the phases; LoopRun puts the rest of the workflow around it.            *)
(***************************************************************************)
EXTENDS Naturals

CONSTANT MaxTurns       \* max_turns of the run, IS_LOOP_MAX_TURNS

ASSUME MaxTurnsAssumption == MaxTurns \in Nat \ {0}

VARIABLES
    turn,       \* turns whose outcome the workflow has
    reason,     \* terminate_reason, "none" while the loop goes on
    cancelled   \* the workflow's _cancelled, set by the signal cancel_run

loopVars == <<turn, reason, cancelled>>

Reasons == {"none", "cancelled_by_user", "synthesized", "max_turns_reached", "turn_error"}

\* An answer takes three turns: one each to explore, to test, to synthesize.
FewestTurns == 3

LoopTypeOK ==
    /\ turn \in 0 .. MaxTurns
    /\ reason \in Reasons
    /\ cancelled \in BOOLEAN

LoopInit == turn = 0 /\ reason = "none" /\ cancelled = FALSE

\* The reasons to stop, or not to, after t turns.
Outcomes(t) ==
    IF cancelled
      THEN {"cancelled_by_user"}
      ELSE {IF t = MaxTurns THEN "max_turns_reached" ELSE "none"}
             \cup {r \in {"synthesized"} : t >= FewestTurns}

Turn ==
    /\ reason = "none" /\ turn < MaxTurns
    /\ turn' = turn + 1
    /\ reason' \in Outcomes(turn + 1)
    /\ UNCHANGED cancelled

\* The activity run_brain_turn failed in all its attempts.
TurnFails ==
    /\ reason = "none"
    /\ reason' = "turn_error"
    /\ UNCHANGED <<turn, cancelled>>

Cancel ==
    /\ cancelled' = TRUE
    /\ UNCHANGED <<turn, reason>>

LoopNext == Turn \/ TurnFails \/ Cancel

LoopSpec == LoopInit /\ [][LoopNext]_loopVars

=============================================================================
