------------------------------ MODULE PhaseGate ------------------------------
(***************************************************************************)
(* What the strategist (pipeline/strategist.py) makes of the outputs of a  *)
(* phase's tacticians: the aggregate that crosses the phase boundary and   *)
(* the gate checks on it.  A finding keeps what the checks look at: the    *)
(* candidate it names, the class of its source, whether it refutes.        *)
(***************************************************************************)
EXTENDS Naturals, FiniteSets

CONSTANTS
    Names,      \* candidate names
    NoName      \* candidate_name of a finding that names nobody

\* Classes of source_class: "live" is live_search, primary_official and
\* live_official, "prior" is prior_research and training_knowledge, "other" is
\* any other value and none.
Sources == {"live", "prior", "other"}

Finding == [name : Names \cup {NoName}, source : Sources, refutes : BOOLEAN]

\* What a tactician returns, with its slot.
TacticianOutput == [slot : Nat \ {0}, found : SUBSET Finding]

\* Params of the checks are 1 and, for distinct_identity_count, the dial.  The
\* other checks of the domain strategies look for words in the findings.
CheckKinds ==
    {"min_primary_signals", "distinct_identity_count", "per_hypothesis_live_source",
     "disconfirm_logged_per_hypothesis", "top_candidate_confidence", "min_listings_returned"}

-----------------------------------------------------------------------------
(* The aggregate.  raw is the set of outputs, empty if a tactician raised. *)

AggregatedFindings(raw) ==
    UNION {{[slot |-> o.slot, finding |-> f] : f \in o.found} : o \in raw}

DistinctNames(raw) == {f.name : f \in UNION {o.found : o \in raw}} \ {NoName}

\* The tacticians count what is certainly live.
LiveCount(raw) == Cardinality({g \in AggregatedFindings(raw) : g.finding.source = "live"})

DisconfirmCount(raw) == Cardinality({g \in AggregatedFindings(raw) : g.finding.refutes})

\* Mutant of NoToolCallsRequired: true of no outputs too.
NoToolCallsVacuous(raw, quiet) == quiet

\* True iff every tactician ran a tactic that declares it, and one ran.
NoToolCallsRequired(raw, quiet) == quiet /\ raw # {}

-----------------------------------------------------------------------------
(* The gate.  role is the phase's id where it matters, quiet whether its   *)
(* tactic needs no tool calls, dial the number of hypotheses asked for.    *)

\* An extract tactician counts as one signal, any other by its live findings.
PrimarySignals(raw, role) == IF role = "extract" THEN Cardinality(raw) ELSE LiveCount(raw)

\* Each disconfirm tactician stands for one surviving hypothesis.
SurvivingCount(raw, role) == IF role = "disconfirm" THEN Cardinality(raw) ELSE 0

\* The gate takes for live what is not certainly prior.
HasLiveSource(raw, n) ==
    \E g \in AggregatedFindings(raw) : g.finding.name = n /\ g.finding.source # "prior"

\* The engine's tacticians return no ranked candidates, so that the check on
\* the first of them never passes; any kind that is not known fails as well.
CheckPasses(kind, raw, role, dial) ==
    \/ kind = "min_primary_signals" /\ PrimarySignals(raw, role) >= 1
    \/ kind = "distinct_identity_count" /\ Cardinality(DistinctNames(raw)) >= dial
    \/ /\ kind = "per_hypothesis_live_source"
       /\ DistinctNames(raw) # {}
       /\ \A n \in DistinctNames(raw) : HasLiveSource(raw, n)
    \/ /\ kind = "disconfirm_logged_per_hypothesis"
       /\ DisconfirmCount(raw) >= SurvivingCount(raw, role)
    \/ kind = "min_listings_returned" /\ AggregatedFindings(raw) # {}

\* The aggregate has no count of tool calls: no findings is no brain work,
\* unless the tactic needs no calls.
NoBrainWork(raw, quiet) ==
    AggregatedFindings(raw) = {} /\ ~NoToolCallsRequired(raw, quiet)

GatePasses(checks, raw, role, quiet, dial) ==
    /\ ~NoBrainWork(raw, quiet)
    /\ \A kind \in checks : CheckPasses(kind, raw, role, dial)
=============================================================================
