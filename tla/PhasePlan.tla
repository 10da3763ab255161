------------------------------ MODULE PhasePlan ------------------------------
(***************************************************************************)
(* What the strategist promises of a run: phases are finished one by one,  *)
(* each once and after all it depends on; the run is completed when all    *)
(* are, unless the candidates cannot be ranked, and anything else that     *)
(* ends it ends it at a phase whose turn it was.                           *)
(***************************************************************************)
CONSTANT Phases

VARIABLES
    deps,       \* the strategy: deps[p] is the set of phases p depends on
    done,       \* phases whose gate passed
    verdict     \* RunResult.status, "running" before, "error" if it raises

plan == <<deps, done, verdict>>

PlanInit ==
    /\ \E all \in SUBSET Phases : deps \in [all -> SUBSET all]
    /\ done = {} /\ verdict = "running"

MayRun(p) == p \in DOMAIN deps \ done /\ deps[p] \subseteq done

FinishPhase(p) ==
    /\ verdict = "running" /\ MayRun(p)
    /\ done' = done \cup {p}
    /\ UNCHANGED <<deps, verdict>>

Complete ==
    /\ verdict = "running" /\ done = DOMAIN deps
    /\ verdict' \in {"completed", "error"}
    /\ UNCHANGED <<deps, done>>

StopAt(p) ==
    /\ verdict = "running" /\ MayRun(p)
    /\ verdict' \in {"ask_user", "terminated", "error"}
    /\ UNCHANGED <<deps, done>>

PlanNext == Complete \/ \E p \in Phases : FinishPhase(p) \/ StopAt(p)

PlanSpec == PlanInit /\ [][PlanNext]_plan
=============================================================================
