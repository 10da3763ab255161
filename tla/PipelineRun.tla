----------------------------- MODULE PipelineRun -----------------------------
(***************************************************************************)
(* A run of a node pipeline: POST /v3/pipelines/{id}/run inserts its row   *)
(* and steps and starts PipelineWorkflow on Temporal, which executes the   *)
(* layers of the graph as activities (pipeline/workflow.py).  The workflow *)
(* writes the row from workflow code, so that a replay writes again.  The  *)
(* row has other writers: the cancel endpoint, the orphan watchdog, the    *)
(* sweep of stale runs and the reconciliation at startup                   *)
(* (pipeline/reconcile.py), none of which ends the workflow but a cancel.  *)
(***************************************************************************)
EXTENDS DagLayers

CONSTANTS
    Graphs,     \* pipelines that can be launched
    Faults      \* which of AllFaults happen

AllFaults ==
    {"dispatch",    \* the answer of start_workflow is lost
     "lost",        \* Temporal gives an activity up, its worker dead or too slow
     "replay",      \* the worker rebuilds the workflow from its history
     "rpc",         \* Temporal cannot be reached by the cancel endpoint
     "restart",     \* the API process restarts
     "slow"}        \* the run takes more than an hour

ASSUME GraphsAssumption == \A g \in Graphs : IsGraph(g) /\ Launchable(g)
ASSUME RunFaultsAssumption == Faults \subseteq AllFaults

VARIABLES
    graph,
    row,        \* pipeline_runs.status
    step,       \* pipeline_step_runs.status of the executable nodes
    wf,         \* what Temporal says of the workflow
    begun,      \* the workflow has run its first statement
    resolved,   \* nodes of the layers that are done
    act,        \* the activities of the layer under way
    zombies,    \* nodes whose activity runs though nobody waits for it
    dispatching,\* the handler that starts the run is under way
    cancel,     \* the cancel handler: "none", "checked" or "sent"
    canceling   \* Temporal has the cancel request

vars == <<graph, row, step, wf, begun, resolved, act, zombies, dispatching, cancel, canceling>>

Nodes == Executable(graph)
Active == {"queued", "running"}
Verdicts == {"succeeded", "failed", "paused"}
Layer == {n \in Nodes : act[n] # "none"}

TypeOK ==
    /\ graph \in Graphs
    /\ row \in Active \cup Verdicts
    /\ step \in [Nodes -> {"pending", "running", "succeeded", "failed"}]
    /\ wf \in {"none", "running", "completed", "failed", "canceled"}
    /\ begun \in BOOLEAN /\ canceling \in BOOLEAN
    /\ resolved \subseteq Nodes
    /\ act \in [Nodes -> {"none", "scheduled", "running", "ok", "error"}]
    /\ zombies \subseteq Nodes
    /\ dispatching \in BOOLEAN /\ cancel \in {"none", "checked", "sent"}

Init ==
    /\ graph \in Graphs
    /\ row = "queued" /\ step = [n \in Nodes |-> "pending"]
    /\ wf = "none" /\ begun = FALSE
    /\ resolved = {} /\ act = [n \in Nodes |-> "none"] /\ zombies = {}
    /\ dispatching = TRUE /\ cancel = "none" /\ canceling = FALSE

-----------------------------------------------------------------------------
(* start_pipeline_run                                                      *)

\* Temporal starts the workflow before the handler hears of it.
Starts ==
    /\ dispatching /\ wf = "none" /\ wf' = "running"
    /\ UNCHANGED <<graph, row, step, begun, resolved, act, zombies, dispatching, cancel, canceling>>

Dispatched ==
    /\ dispatching /\ wf # "none" /\ dispatching' = FALSE
    /\ UNCHANGED <<graph, row, step, wf, begun, resolved, act, zombies, cancel, canceling>>

\* The row fails whatever it says, and whether or not the workflow runs.
DispatchFails ==
    /\ dispatching /\ (wf # "none" => "dispatch" \in Faults)
    /\ dispatching' = FALSE
    /\ row' = "failed"
    /\ UNCHANGED <<graph, step, wf, begun, resolved, act, zombies, cancel, canceling>>

-----------------------------------------------------------------------------
(* PipelineWorkflow.run                                                    *)

Schedule(done) ==
    /\ resolved' = done
    /\ act' = [n \in Nodes |-> IF n \in NextLayer(graph, done) THEN "scheduled" ELSE "none"]

Succeed ==
    /\ row' = "succeeded" /\ wf' = "completed"
    /\ resolved' = Nodes /\ act' = [n \in Nodes |-> "none"]

Begin ==
    /\ wf = "running" /\ ~begun /\ ~canceling
    /\ begun' = TRUE
    /\ IF Nodes = {} THEN Succeed
       ELSE row' = "running" /\ Schedule({}) /\ wf' = wf
    /\ UNCHANGED <<graph, step, zombies, dispatching, cancel, canceling>>

LayerOver == wf = "running" /\ begun /\ ~canceling /\ \A n \in Layer : act[n] \in {"ok", "error"}

\* Mutant of LayerFailed: the results of gather are looked at together.
LayerFailedAll == \A n \in Layer : act[n] = "error"

\* Results are looked at one by one, the first exception is raised.
LayerFailed == \E n \in Layer : act[n] = "error"

LayerEnds ==
    /\ LayerOver /\ ~LayerFailed
    /\ IF resolved \cup Layer = Nodes THEN Succeed
       ELSE Schedule(resolved \cup Layer) /\ UNCHANGED <<row, wf>>
    /\ UNCHANGED <<graph, step, begun, zombies, dispatching, cancel, canceling>>

RunFails ==
    /\ LayerOver /\ LayerFailed
    /\ row' = "failed" /\ wf' = "failed"
    /\ act' = [n \in Nodes |-> "none"]
    /\ UNCHANGED <<graph, step, begun, resolved, zombies, dispatching, cancel, canceling>>

\* CancelledError is no Exception: the workflow writes nothing.  Activities
\* have no heartbeat, they run on.
Canceled ==
    /\ wf = "running" /\ canceling
    /\ wf' = "canceled"
    /\ zombies' = zombies \cup {n \in Nodes : act[n] = "running"}
    /\ act' = [n \in Nodes |-> "none"]
    /\ UNCHANGED <<graph, row, step, begun, resolved, dispatching, cancel, canceling>>

\* The workflow function runs again from the top, up to where its history ends.
Replay ==
    /\ "replay" \in Faults
    /\ wf = "running" /\ begun
    /\ row' = "running"
    /\ UNCHANGED <<graph, step, wf, begun, resolved, act, zombies, dispatching, cancel, canceling>>

-----------------------------------------------------------------------------
(* execute_node                                                            *)

NodeStarts(n) ==
    /\ act[n] = "scheduled"
    /\ act' = [act EXCEPT ![n] = "running"]
    /\ step' = [step EXCEPT ![n] = "running"]
    /\ UNCHANGED <<graph, row, wf, begun, resolved, zombies, dispatching, cancel, canceling>>

Report(n, result) == step' = [step EXCEPT ![n] = result]

\* The node returns, or raises, or takes longer than its timeout_seconds.
NodeEnds(n) ==
    /\ act[n] = "running"
    /\ \/ act' = [act EXCEPT ![n] = "ok"] /\ Report(n, "succeeded")
       \/ act' = [act EXCEPT ![n] = "error"] /\ Report(n, "failed")
    /\ UNCHANGED <<graph, row, wf, begun, resolved, zombies, dispatching, cancel, canceling>>

\* One attempt, fifteen minutes.
ActivityLost(n) ==
    /\ "lost" \in Faults
    /\ act[n] = "running"
    /\ act' = [act EXCEPT ![n] = "error"]
    /\ zombies' \in {zombies, zombies \cup {n}}
    /\ UNCHANGED <<graph, row, step, wf, begun, resolved, dispatching, cancel, canceling>>

ZombieEnds(n) ==
    /\ n \in zombies /\ zombies' = zombies \ {n}
    /\ Report(n, "succeeded") \/ Report(n, "failed")
    /\ UNCHANGED <<graph, row, wf, begun, resolved, act, dispatching, cancel, canceling>>

-----------------------------------------------------------------------------
(* Who else writes the row.                                                *)

\* cancel_pipeline_run: checks, calls Temporal, writes.
CancelChecks ==
    /\ cancel = "none" /\ row \in Active
    /\ cancel' = "checked"
    /\ UNCHANGED <<graph, row, step, wf, begun, resolved, act, zombies, dispatching, canceling>>

CancelSends ==
    /\ cancel = "checked" /\ cancel' = "sent"
    /\ \/ canceling' = (canceling \/ wf = "running")
       \/ "rpc" \in Faults /\ canceling' = canceling
    /\ UNCHANGED <<graph, row, step, wf, begun, resolved, act, zombies, dispatching>>

CancelWrites ==
    /\ cancel = "sent" /\ cancel' = "none"
    /\ row' = "paused"
    /\ UNCHANGED <<graph, step, wf, begun, resolved, act, zombies, dispatching, canceling>>

\* AND status IN ('queued', 'running')
Unsettled == row \in Active

\* The watchdog looks at rows older than fifteen minutes: no dispatch takes
\* that long.  The row names the workflow that was started.
Watchdog ==
    /\ Unsettled /\ ~dispatching
    /\ \/ wf \in {"none", "failed", "canceled"} /\ row' = "failed"
       \/ wf = "completed" /\ row' = "succeeded"
    /\ UNCHANGED <<graph, step, wf, begun, resolved, act, zombies, dispatching, cancel, canceling>>

\* sweep_stale_runs: an hour after it was started, a run is failed.
Sweep ==
    /\ "slow" \in Faults
    /\ row = "running" /\ row' = "failed"
    /\ UNCHANGED <<graph, step, wf, begun, resolved, act, zombies, dispatching, cancel, canceling>>

\* The API process restarts: requests are lost, and reconcile_orphaned_runs
\* fails what is active.
Restart ==
    /\ "restart" \in Faults
    /\ row \in Active /\ row' = "failed"
    /\ dispatching' = FALSE /\ cancel' = "none"
    /\ UNCHANGED <<graph, step, wf, begun, resolved, act, zombies, canceling>>

-----------------------------------------------------------------------------

Workflow == Begin \/ LayerEnds \/ RunFails \/ Canceled

Activity == \E n \in Nodes : NodeStarts(n) \/ NodeEnds(n) \/ ActivityLost(n) \/ ZombieEnds(n)

Handlers == Starts \/ Dispatched \/ DispatchFails \/ CancelSends \/ CancelWrites

Next ==
    \/ Workflow \/ Activity \/ Handlers
    \/ Replay \/ CancelChecks \/ Watchdog \/ Sweep \/ Restart

\* A worker polls the queue, nodes end by their timeouts, handlers by their
\* own, and the watchdog is a loop.
Fairness == WF_vars(Workflow) /\ WF_vars(Activity) /\ WF_vars(Handlers) /\ WF_vars(Watchdog)

Spec == Init /\ [][Next]_vars /\ Fairness

-----------------------------------------------------------------------------
(* Properties.                                                             *)

\* A node that a topological order can place is executed only after all the
\* nodes whose items it takes have succeeded.
InputsComplete ==
    \A n \in Grounded(graph) : step[n] # "pending" =>
        \A m \in Upstream(graph, n) : step[m] = "succeeded"

\* A run that shows success has executed all its nodes, whatever else wrote
\* the row meanwhile.
SuccessIsComplete ==
    row = "succeeded" => wf = "completed" /\ \A n \in Nodes : step[n] = "succeeded"

\* Nothing is executed twice: a step that has ended stays as it ended.
StepsEndOnce ==
    [][\A n \in Nodes : step[n] \in {"succeeded", "failed"} => step'[n] = step[n] ]_vars

\* Once the workflow is over, a verdict is changed by nobody but a request to
\* cancel, or to start, that is still under way.
VerdictStands ==
    [][row' # row /\ row \in Verdicts => wf = "running" \/ cancel = "sent" \/ dispatching]_vars

\* Every run gets a verdict that stays.
RunSettles == <>[](row \in Verdicts)

\* reconcile_orphaned_runs: "any run still in a non-terminal state will never
\* complete".
RestartedNeverCompletes == [][row = "failed" => row' # "succeeded"]_vars
=============================================================================
