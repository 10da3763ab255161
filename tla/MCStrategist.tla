----------------------------- MODULE MCStrategist -----------------------------
(***************************************************************************)
(* A small instance of Strategist: two candidate names, a fan-out that the *)
(* semaphore bounds, and strategies that between them use every policy and *)
(* every on_fail.                                                          *)
(***************************************************************************)
EXTENDS Strategist

CONSTANTS ann, bob

Fixed(n) == [kind |-> "fixed", n |-> n]
Dial == [kind |-> "from_dial", n |-> 1]
Prior == [kind |-> "from_prior_phase", n |-> 1]

\* gather, disconfirm as in the registry: the survivors of gather are refuted.
Refute == [
    deps    |-> [gather |-> {}, disconfirm |-> {"gather"}],
    last    |-> [gather |-> Nothing, disconfirm |-> "gather"],
    policy  |-> [gather |-> Fixed(1), disconfirm |-> Prior],
    onFail  |-> [gather |-> "terminate", disconfirm |-> "ask_user"],
    checks  |-> [gather |-> {"per_hypothesis_live_source"},
                 disconfirm |-> {"disconfirm_logged_per_hypothesis"}],
    quiet   |-> {},
    tactics |-> [gather |-> <<>>, disconfirm |-> <<>>],
    depth   |-> "search", dial |-> 2]

\* Replans: gather asks the dial's number of names, extract needs no tools and
\* has no checks.
Correct == [
    deps    |-> [extract |-> {}, gather |-> {"extract"}],
    last    |-> [extract |-> Nothing, gather |-> "extract"],
    policy  |-> [extract |-> Fixed(1), gather |-> Dial],
    onFail  |-> [extract |-> "replan", gather |-> "replan"],
    checks  |-> [extract |-> {}, gather |-> {"distinct_identity_count"}],
    quiet   |-> {"extract"},
    tactics |-> [extract |-> <<>>, gather |-> <<>>],
    depth   |-> "search", dial |-> 2]

\* Two phases that synthesize depends on, and two tactics to swap.
Swap == [
    deps    |-> [extract |-> {}, gather |-> {}, synthesize |-> {"extract", "gather"}],
    last    |-> [extract |-> Nothing, gather |-> Nothing, synthesize |-> "gather"],
    policy  |-> [extract |-> Fixed(1), gather |-> Fixed(1), synthesize |-> Fixed(1)],
    onFail  |-> [extract |-> "terminate", gather |-> "terminate", synthesize |-> "swap_tactic"],
    checks  |-> [extract |-> {"min_primary_signals"}, gather |-> {"min_listings_returned"},
                 synthesize |-> {"min_listings_returned"}],
    quiet   |-> {"extract", "synthesize"},
    tactics |-> [extract |-> <<>>, gather |-> <<>>, synthesize |-> <<"ach_rank", "synthesize_default">>],
    depth   |-> "deep", dial |-> 1]

MCStrategies == {Refute, Correct, Swap}

Live(n) == [name |-> n, source |-> "live", refutes |-> FALSE]
Unmarked(n) == [name |-> n, source |-> "other", refutes |-> FALSE]
Refutes(n) == [name |-> n, source |-> "live", refutes |-> TRUE]
AlsoRefutes(n) == [name |-> n, source |-> "prior", refutes |-> TRUE]

MCOutputs == {{}, {Live(ann)}, {Live(ann), Unmarked(bob)}, {Refutes(ann)}, {Refutes(ann), AlsoRefutes(ann)}}
=============================================================================
