---------------------------- MODULE MCBrainLoop ----------------------------
(* BrainLoop for TLC: a brain that gives the verdicts it is allowed to,    *)
(* and that says of a contradiction one of a few things.                   *)
EXTENDS BrainLoop, TLC

CONSTANTS Says          \* the statuses in the brain's deltas, with "none"

MCPatches ==
    {[status |-> "none", won |-> "none"], [status |-> "open", won |-> "no"],
     [status |-> "none", won |-> "yes"], [status |-> "resolved", won |-> "none"]}

MCDeltas ==
    [hypothesis : [Hypotheses -> Says],
     contradiction : [Contradictions -> MCPatches], answered : BOOLEAN]

BrainSymmetry == Permutations(Hypotheses)
=============================================================================
