------------------------- MODULE PipelineRunProofs -------------------------
(***************************************************************************)
(* Proofs about DagLayers and PipelineRun, for every set of pipelines and  *)
(* of faults: a layer has what its nodes take, no node is executed before  *)
(* its inputs or twice, and a run that shows success executed all of them. *)
(***************************************************************************)
EXTENDS PipelineRun, FiniteSetTheorems, TLAPS

-----------------------------------------------------------------------------
(* The layers.                                                             *)

\* A layer is made of nodes that were in no layer before.
LEMMA LayerIsNew ==
    ASSUME NEW g, NEW done PROVE NextLayer(g, done) \subseteq Executable(g) \ done
BY DEF NextLayer, Resolvable

(***************************************************************************)
(* The layers follow a topological order as far as there is one: a node    *)
(* that has a place in it is in a layer only after its sources, also when  *)
(* the layer is the one for the nodes that are left (_topo_sort).          *)
(***************************************************************************)
THEOREM LayerHasInputs ==
    ASSUME NEW g, NEW done \in SUBSET Executable(g),
           NEW n \in NextLayer(g, done), n \in Grounded(g)
    PROVE  Upstream(g, n) \subseteq done
<1>1. CASE Resolvable(g, done) # {}
  BY <1>1 DEF NextLayer, Resolvable
<1>2. CASE Resolvable(g, done) = {}
  <2>1. Closed(g, done)
    BY <1>2 DEF Closed, Resolvable
  <2>2. n \in done
    BY <2>1 DEF Grounded
  <2> QED
    BY <2>2, LayerIsNew
<1> QED
  BY <1>1, <1>2

-----------------------------------------------------------------------------
(* The run.                                                                *)

\* What the point of the workflow says about its layers.
Progress ==
    /\ ~begun => resolved = {} /\ zombies = {} /\ \A n \in Nodes : step[n] = "pending"
    /\ ~begun \/ wf # "running" => \A n \in Nodes : act[n] = "none"
    /\ wf = "none" => ~begun
    /\ wf = "completed" => resolved = Nodes
    /\ wf = "running" => \A n \in Nodes \ resolved : act[n] = "none" => step[n] = "pending"

\* How the activity of a node and its step go together.
StepOf(n) ==
    /\ act[n] = "scheduled" => step[n] = "pending"
    /\ act[n] = "running" => step[n] = "running"
    /\ act[n] = "ok" => step[n] = "succeeded"
    /\ n \in resolved => act[n] = "none" /\ step[n] = "succeeded" /\ n \notin zombies
    /\ n \in zombies => step[n] = "running" /\ (act[n] = "error" \/ wf \in {"failed", "canceled"})

\* A node that was scheduled has its sources behind it.
Ordered ==
    \A n \in Nodes \cap Grounded(graph) :
        act[n] # "none" \/ step[n] # "pending" => Upstream(graph, n) \subseteq resolved

RunInv ==
    /\ TypeOK /\ Progress /\ (\A n \in Nodes : StepOf(n)) /\ Ordered
    /\ row = "succeeded" => wf = "completed"

\* The invariant holds when the handler has inserted the row,
LEMMA RunInitInv == Init => RunInv
<1> SUFFICES ASSUME Init PROVE RunInv
  OBVIOUS
<1>1. TypeOK
  BY DEF Init, TypeOK, Active, Nodes
<1>2. Progress
  BY DEF Init, Progress, Nodes
<1>3. \A n \in Nodes : StepOf(n)
  BY DEF Init, StepOf, Nodes
<1>4. Ordered /\ (row = "succeeded" => wf = "completed")
  BY DEF Init, Ordered, Nodes
<1> QED
  BY <1>1, <1>2, <1>3, <1>4 DEF RunInv

\* the step to a new layer keeps it,
LEMMA ScheduleInv ==
    ASSUME RunInv, NEW done \in SUBSET Nodes, resolved \subseteq done,
           graph' = graph, step' = step, zombies' = zombies,
           wf = "running", wf' = wf, begun' = TRUE, row' \in {row, "running"},
           \A n \in done : step[n] = "succeeded" /\ n \notin zombies,
           \A n \in Nodes \ done : step[n] = "pending",
           canceling' \in BOOLEAN, dispatching' \in BOOLEAN, cancel' \in {"none", "checked", "sent"},
           Schedule(done)
    PROVE  RunInv'
<1> DEFINE next == NextLayer(graph, done)
<1>1. /\ resolved' = done
      /\ act' = [n \in Nodes |-> IF n \in next THEN "scheduled" ELSE "none"]
  BY DEF Schedule
<1>2. next \subseteq Nodes \ done /\ Nodes' = Nodes
  BY LayerIsNew DEF Nodes
<1>3. TypeOK'
  BY <1>1, <1>2 DEF RunInv, TypeOK, Active
<1>4. Progress'
  BY <1>1, <1>2 DEF RunInv, Progress
<1>5. \A n \in Nodes : StepOf(n)'
  BY <1>1, <1>2 DEF RunInv, StepOf
<1>6. Ordered'
  <2> SUFFICES ASSUME NEW n \in Nodes, n \in Grounded(graph), act'[n] # "none" \/ step[n] # "pending"
               PROVE  Upstream(graph, n) \subseteq done
    BY <1>1, <1>2 DEF Ordered
  <2>1. CASE n \in next
    BY <2>1, LayerHasInputs DEF Nodes
  <2>2. CASE n \notin next
    BY <2>2, <1>1 DEF RunInv, Ordered
  <2> QED
    BY <2>1, <2>2
<1>7. row' # "succeeded"
  BY DEF RunInv
<1> QED
  BY <1>2, <1>3, <1>4, <1>5, <1>6, <1>7 DEF RunInv

\* as does the end of the last one,
LEMMA SucceedInv ==
    ASSUME RunInv, graph' = graph, step' = step, zombies' = {}, begun' = TRUE,
           \A n \in Nodes : step[n] = "succeeded",
           \A n \in Nodes \cap Grounded(graph) : Upstream(graph, n) \subseteq Nodes,
           canceling' \in BOOLEAN, dispatching' \in BOOLEAN, cancel' \in {"none", "checked", "sent"},
           Succeed
    PROVE  RunInv'
<1>1. Nodes' = Nodes
  BY DEF Nodes
<1>2. TypeOK'
  BY <1>1 DEF Succeed, RunInv, TypeOK, Verdicts
<1> QED
  BY <1>1, <1>2 DEF Succeed, RunInv, Progress, StepOf, Ordered

\* and every step of the workflow, its activities and the row's other writers.
LEMMA RunNextInv == RunInv /\ [Next]_vars => RunInv'
<1> SUFFICES ASSUME RunInv, [Next]_vars PROVE RunInv'
  OBVIOUS
<1>0. TypeOK /\ Progress /\ (\A n \in Nodes : StepOf(n)) /\ Ordered /\ (row = "succeeded" => wf = "completed")
  BY DEF RunInv
<1>1. ASSUME UNCHANGED <<graph, step, begun, resolved, act, zombies>>,
             wf' = wf \/ (wf = "none" /\ wf' = "running"),
             row' = row \/ row' \in {"failed", "paused"} \/ (row' = "succeeded" /\ wf' = "completed")
                        \/ (row' = "running" /\ wf # "completed"),
             dispatching' \in BOOLEAN, cancel' \in {"none", "checked", "sent"}, canceling' \in BOOLEAN
      PROVE  RunInv'
  <2>1. Nodes' = Nodes
    BY <1>1 DEF Nodes
  <2>2. TypeOK'
    BY <1>0, <1>1, <2>1 DEF TypeOK, Active, Verdicts
  <2>3. Progress'
    BY <1>0, <1>1, <2>1 DEF Progress, TypeOK
  <2>4. \A n \in Nodes : StepOf(n)'
    BY <1>0, <1>1 DEF StepOf
  <2>5. Ordered'
    BY <1>0, <1>1, <2>1 DEF Ordered
  <2> QED
    BY <1>0, <1>1, <2>1, <2>2, <2>3, <2>4, <2>5 DEF RunInv
<1>2. CASE Begin
  <2>1. CASE Nodes = {}
    <3>1. zombies = {} /\ Succeed
      BY <1>0, <1>2, <2>1 DEF Begin, TypeOK
    <3> QED
      BY <1>0, <1>2, <2>1, <3>1, SucceedInv DEF Begin, TypeOK
  <2>2. CASE Nodes # {}
    BY <1>0, <1>2, <2>2, ScheduleInv DEF Begin, TypeOK, Progress
  <2> QED
    BY <2>1, <2>2
<1>3. CASE LayerEnds
  <2> DEFINE done == resolved \cup Layer
  <2>1. /\ done \in SUBSET Nodes
        /\ \A n \in Layer : act[n] = "ok"
        /\ wf = "running" /\ begun
        /\ UNCHANGED <<graph, step, begun, zombies, dispatching, cancel, canceling>>
    BY <1>0, <1>3 DEF LayerEnds, LayerOver, LayerFailed, Layer, TypeOK
  <2>2. \A n \in done : step[n] = "succeeded" /\ n \notin zombies
    BY <1>0, <2>1 DEF StepOf
  <2>3. \A n \in Nodes \ done : step[n] = "pending"
    BY <1>0, <2>1 DEF Progress, Layer
  <2>4. CASE done = Nodes
    <3>1. zombies = {} /\ Succeed
      BY <1>0, <1>3, <2>2, <2>4 DEF LayerEnds, TypeOK
    <3>2. \A n \in Nodes \cap Grounded(graph) : Upstream(graph, n) \subseteq Nodes
      BY <1>0, <2>2, <2>4 DEF Ordered, TypeOK
    <3> QED
      BY <1>0, <2>1, <2>2, <2>4, <3>1, <3>2, SucceedInv DEF TypeOK
  <2>5. CASE done # Nodes
    <3>1. Schedule(done) /\ UNCHANGED <<row, wf>>
      BY <1>3, <2>5 DEF LayerEnds
    <3> QED
      BY <1>0, <2>1, <2>2, <2>3, <3>1, ScheduleInv DEF TypeOK
  <2> QED
    BY <2>4, <2>5
<1>4. CASE RunFails
  <2>1. /\ wf = "running" /\ wf' = "failed" /\ row' = "failed"
        /\ act' = [n \in Nodes |-> "none"] /\ Nodes' = Nodes
        /\ UNCHANGED <<graph, step, begun, resolved, zombies, dispatching, cancel, canceling>>
    BY <1>4 DEF RunFails, LayerOver, Nodes
  <2>2. TypeOK'
    BY <1>0, <2>1 DEF TypeOK, Verdicts
  <2> QED
    BY <1>0, <2>1, <2>2 DEF RunInv, Progress, StepOf, Ordered
<1>5. CASE Canceled
  <2>1. /\ wf = "running" /\ wf' = "canceled" /\ row' = row
        /\ zombies' = zombies \cup {n \in Nodes : act[n] = "running"}
        /\ act' = [n \in Nodes |-> "none"] /\ Nodes' = Nodes
        /\ UNCHANGED <<graph, step, begun, resolved, dispatching, cancel, canceling>>
    BY <1>5 DEF Canceled, Nodes
  <2>2. TypeOK'
    BY <1>0, <2>1 DEF TypeOK, Verdicts
  <2>3. Progress'
    BY <1>0, <2>1 DEF Progress
  <2>4. \A n \in Nodes : StepOf(n)'
    BY <1>0, <2>1 DEF StepOf
  <2> QED
    BY <1>0, <2>1, <2>2, <2>3, <2>4 DEF RunInv, Ordered
<1>6. ASSUME NEW n \in Nodes, NodeStarts(n) \/ NodeEnds(n) PROVE RunInv'
  <2>1. /\ Nodes' = Nodes
        /\ UNCHANGED <<graph, row, wf, begun, resolved, zombies, dispatching, cancel, canceling>>
    BY <1>6 DEF NodeStarts, NodeEnds, Nodes
  <2>2. PICK a \in {"running", "ok", "error"}, s \in {"running", "succeeded", "failed"} :
          (a = "running" => s = "running") /\ (a = "ok" => s = "succeeded")
             /\ act' = [act EXCEPT ![n] = a] /\ step' = [step EXCEPT ![n] = s]
    BY <1>6 DEF NodeStarts, NodeEnds, Report
  <2>3. act[n] \in {"scheduled", "running"} /\ n \notin resolved /\ n \notin zombies /\ wf = "running" /\ begun
    BY <1>0, <1>6 DEF NodeStarts, NodeEnds, StepOf, Progress, TypeOK
  <2>4. TypeOK'
    <3>1. act \in [Nodes -> {"none", "scheduled", "running", "ok", "error"}]
          /\ step \in [Nodes -> {"pending", "running", "succeeded", "failed"}]
      BY <1>0 DEF TypeOK
    <3>2. act' \in [Nodes -> {"none", "scheduled", "running", "ok", "error"}]
      BY <2>2, <3>1
    <3>3. step' \in [Nodes -> {"pending", "running", "succeeded", "failed"}]
      BY <2>2, <3>1
    <3> QED
      BY <1>0, <2>1, <3>2, <3>3 DEF TypeOK
  <2>5. Progress'
    BY <1>0, <2>1, <2>2, <2>3 DEF Progress, TypeOK
  <2>6. ASSUME NEW m \in Nodes PROVE StepOf(m)'
    <3>1. CASE m = n
      BY <1>0, <2>1, <2>2, <2>3, <3>1 DEF StepOf, TypeOK
    <3>2. CASE m # n
      <4>1. act'[m] = act[m] /\ step'[m] = step[m] /\ (m \in zombies' => m \in zombies)
        BY <1>0, <2>1, <2>2, <3>2 DEF TypeOK
      <4> QED
        BY <1>0, <2>1, <4>1 DEF StepOf
    <3> QED
      BY <3>1, <3>2
  <2>7. Ordered'
    BY <1>0, <2>1, <2>2, <2>3 DEF Ordered, TypeOK
  <2> QED
    BY <1>0, <2>1, <2>4, <2>5, <2>6, <2>7 DEF RunInv
<1>7. ASSUME NEW n \in Nodes, ActivityLost(n) PROVE RunInv'
  <2>1. /\ Nodes' = Nodes /\ act[n] = "running" /\ act' = [act EXCEPT ![n] = "error"]
        /\ zombies' \in {zombies, zombies \cup {n}}
        /\ UNCHANGED <<graph, row, step, wf, begun, resolved, dispatching, cancel, canceling>>
    BY <1>7 DEF ActivityLost, Nodes
  <2>2. step[n] = "running" /\ n \notin resolved /\ wf = "running" /\ begun
    BY <1>0, <2>1 DEF StepOf, Progress, TypeOK
  <2>4. TypeOK'
    BY <1>0, <2>1 DEF TypeOK
  <2>5. Progress'
    BY <1>0, <2>1, <2>2 DEF Progress, TypeOK
  <2>6. \A m \in Nodes : StepOf(m)'
    BY <1>0, <2>1, <2>2 DEF StepOf, TypeOK
  <2>7. Ordered'
    BY <1>0, <2>1, <2>2 DEF Ordered, TypeOK
  <2> QED
    BY <1>0, <2>1, <2>4, <2>5, <2>6, <2>7 DEF RunInv
<1>8. ASSUME NEW n \in Nodes, ZombieEnds(n) PROVE RunInv'
  <2>1. /\ Nodes' = Nodes /\ n \in zombies /\ zombies' = zombies \ {n}
        /\ UNCHANGED <<graph, row, wf, begun, resolved, act, dispatching, cancel, canceling>>
    BY <1>8 DEF ZombieEnds, Nodes
  <2>2. PICK s \in {"succeeded", "failed"} : step' = [step EXCEPT ![n] = s]
    BY <1>8 DEF ZombieEnds, Report
  <2>3. n \notin resolved /\ step[n] = "running" /\ begun /\ act[n] \in {"none", "error"}
        /\ (act[n] = "error" \/ wf # "running")
    BY <1>0, <2>1 DEF StepOf, Progress
  <2>4. TypeOK'
    <3>1. step \in [Nodes -> {"pending", "running", "succeeded", "failed"}]
      BY <1>0 DEF TypeOK
    <3>2. step' \in [Nodes -> {"pending", "running", "succeeded", "failed"}]
      BY <2>2, <3>1
    <3> QED
      BY <1>0, <2>1, <3>2 DEF TypeOK
  <2>5. Progress'
    BY <1>0, <2>1, <2>2, <2>3 DEF Progress, TypeOK
  <2>6. ASSUME NEW m \in Nodes PROVE StepOf(m)'
    <3>1. CASE m = n
      <4>1. act'[n] = act[n] /\ n \notin zombies' /\ n \notin resolved'
        BY <2>1, <2>3
      <4> QED
        BY <2>3, <3>1, <4>1 DEF StepOf
    <3>2. CASE m # n
      <4>1. act' = act /\ step'[m] = step[m] /\ (m \in zombies' => m \in zombies)
        BY <1>0, <2>1, <2>2, <3>2 DEF TypeOK
      <4> QED
        BY <1>0, <2>1, <4>1 DEF StepOf
    <3> QED
      BY <3>1, <3>2
  <2>7. Ordered'
    BY <1>0, <2>1, <2>2, <2>3 DEF Ordered, TypeOK
  <2> QED
    BY <1>0, <2>1, <2>4, <2>5, <2>6, <2>7 DEF RunInv
<1>9. CASE Handlers
  <2>1. dispatching \in BOOLEAN /\ canceling \in BOOLEAN /\ dispatching' \in BOOLEAN /\ canceling' \in BOOLEAN
    BY <1>0, <1>9, Zenon DEF TypeOK, Handlers, Starts, Dispatched, DispatchFails, CancelSends, CancelWrites
  <2> QED
    BY <1>0, <1>1, <1>9, <2>1 DEF TypeOK, Handlers, Starts, Dispatched, DispatchFails, CancelSends, CancelWrites
<1>10. CASE Replay \/ CancelChecks \/ Watchdog \/ Sweep
  BY <1>0, <1>1, <1>10 DEF TypeOK, Replay, CancelChecks, Watchdog, Sweep
<1>11. CASE Restart
  <2>1. dispatching' \in BOOLEAN
    BY <1>11, Zenon DEF Restart
  <2> QED
    BY <1>0, <1>1, <1>11, <2>1 DEF TypeOK, Restart
<1>12. CASE UNCHANGED vars
  BY <1>0, <1>1, <1>12 DEF vars, TypeOK
<1> QED
  BY <1>2, <1>3, <1>4, <1>5, <1>6, <1>7, <1>8, <1>9, <1>10, <1>11, <1>12 DEF Next, Workflow, Activity

-----------------------------------------------------------------------------
(***************************************************************************)
(* The inductive invariant: how far the layers are, how each activity and  *)
(* its step go together, and that what was scheduled has its sources       *)
(* behind it.                                                              *)
(***************************************************************************)
THEOREM PipelineCorrect == Spec => []RunInv
<1> QED
  BY RunInitInv, RunNextInv, PTL DEF Spec

(***************************************************************************)
(* Type correctness.                                                       *)
(***************************************************************************)
THEOREM PipelineTypeCorrect == Spec => []TypeOK
<1>1. RunInv => TypeOK
  BY DEF RunInv
<1> QED
  BY PipelineCorrect, <1>1, PTL

(***************************************************************************)
(* In every pipeline, a node that a topological order can place starts     *)
(* only after all its sources have succeeded.                              *)
(***************************************************************************)
THEOREM PipelineInputsComplete == Spec => []InputsComplete
<1>1. RunInv => InputsComplete
  <2> SUFFICES ASSUME RunInv, NEW n \in Grounded(graph), step[n] # "pending",
                      NEW m \in Upstream(graph, n)
               PROVE  step[m] = "succeeded"
    BY DEF InputsComplete
  <2>1. m \in resolved
    BY DEF RunInv, Ordered, Grounded, Nodes
  <2> QED
    BY <2>1 DEF RunInv, StepOf, TypeOK
<1> QED
  BY PipelineCorrect, <1>1, PTL

(***************************************************************************)
(* A run that shows success has executed all its nodes, whoever wrote the  *)
(* row.                                                                    *)
(***************************************************************************)
THEOREM PipelineSuccessIsComplete == Spec => []SuccessIsComplete
<1>1. RunInv => SuccessIsComplete
  BY DEF RunInv, SuccessIsComplete, Progress, StepOf
<1> QED
  BY PipelineCorrect, <1>1, PTL

(***************************************************************************)
(* A step that has ended stays as it ended, also when Temporal gave up its *)
(* activity and the worker goes on with it.                                *)
(***************************************************************************)
THEOREM PipelineStepsEndOnce == Spec => StepsEndOnce
<1>1. RunInv /\ [Next]_vars => [\A n \in Nodes : step[n] \in {"succeeded", "failed"} => step'[n] = step[n]]_vars
  <2> SUFFICES ASSUME RunInv, Next, NEW n \in Nodes, step[n] \in {"succeeded", "failed"}
               PROVE  step'[n] = step[n]
    OBVIOUS
  <2>0. TypeOK /\ StepOf(n) /\ \A m \in Nodes : StepOf(m)
    BY DEF RunInv
  <2>1. ASSUME NEW m \in Nodes, NodeStarts(m) \/ NodeEnds(m) \/ ActivityLost(m) \/ ZombieEnds(m)
        PROVE  step'[n] = step[n]
    <3>1. step[m] \in {"pending", "running"}
          \/ step' = step
      BY <2>0, <2>1 DEF NodeStarts, NodeEnds, ActivityLost, ZombieEnds, StepOf
    <3>2. step' = step \/ \E s \in {"running", "succeeded", "failed"} : step' = [step EXCEPT ![m] = s]
      BY <2>1 DEF NodeStarts, NodeEnds, ActivityLost, ZombieEnds, Report
    <3> QED
      BY <2>0, <3>1, <3>2 DEF TypeOK
  <2>2. CASE ~Activity
    BY <2>2 DEF Next, Workflow, Handlers, Begin, LayerEnds, RunFails, Canceled, Starts, Dispatched,
                DispatchFails, CancelSends, CancelWrites, Replay, CancelChecks, Watchdog, Sweep, Restart
  <2> QED
    BY <2>1, <2>2 DEF Activity
<1> QED
  BY PipelineCorrect, <1>1, PTL DEF Spec, StepsEndOnce

(***************************************************************************)
(* Once the workflow is over nobody changes a verdict but a request that   *)
(* was already under way.                                                  *)
(***************************************************************************)
THEOREM PipelineVerdictStands == Spec => VerdictStands
<1>1. [Next]_vars => [row' # row /\ row \in Verdicts => wf = "running" \/ cancel = "sent" \/ dispatching]_vars
  BY DEF Next, Workflow, Activity, Handlers, Begin, LayerEnds, LayerOver, RunFails, Canceled, NodeStarts,
         NodeEnds, ActivityLost, ZombieEnds, Starts, Dispatched, DispatchFails, CancelSends,
         CancelWrites, Replay, CancelChecks, Watchdog, Unsettled, Sweep, Restart, Active, Verdicts
<1> QED
  BY <1>1, PTL DEF Spec, VerdictStands

-----------------------------------------------------------------------------
(***************************************************************************)
(* How long a run takes.  A node that is not resolved has to be scheduled, *)
(* started and ended; one whose activity was given up may end once more.   *)
(***************************************************************************)
Unresolved == Nodes \ resolved
Unended == {n \in Unresolved : act[n] \in {"none", "scheduled", "running"}}
Unstarted == {n \in Unresolved : act[n] \in {"none", "scheduled"}}
Unscheduled == {n \in Unresolved : act[n] = "none"}

NodesLeft ==
    Cardinality(Unresolved) + 2 * Cardinality(Unended)
        + Cardinality(Unstarted) + Cardinality(Unscheduled)

StepsLeft ==
    Cardinality(zombies) + (IF wf \in {"none", "running"} THEN 1 + NodesLeft ELSE 0)

\* A workflow that runs has a layer under way.
LayerBusy == wf = "running" /\ begun => Layer # {}

\* There is a next layer until all nodes are done: the layers end.
LEMMA LayersGoOn ==
    ASSUME NEW g, NEW done, NextLayer(g, done) = {} PROVE Executable(g) \subseteq done
BY DEF NextLayer

\* The nodes are finitely many.
LEMMA NodesFinite == TypeOK => IsFiniteSet(Nodes)
<1> SUFFICES ASSUME TypeOK PROVE IsFiniteSet(Nodes)
  OBVIOUS
<1>1. IsFiniteSet(graph.nodes)
  BY GraphsAssumption DEF TypeOK, IsGraph
<1>2. PICK all : all = graph.nodes
  OBVIOUS
<1>3. PICK some : some = Nodes
  OBVIOUS
<1>4. some \in SUBSET all /\ IsFiniteSet(all)
  BY <1>1, <1>2, <1>3 DEF Nodes, Executable
<1> QED
  BY <1>3, <1>4, FS_Subset

\* A smaller set has fewer elements.
LEMMA FewerElements ==
    ASSUME NEW S, IsFiniteSet(S), NEW T \in SUBSET S
    PROVE  /\ IsFiniteSet(T) /\ Cardinality(S) \in Nat /\ Cardinality(T) \in Nat
           /\ Cardinality(T) <= Cardinality(S)
           /\ T # S => Cardinality(T) < Cardinality(S)
<1>1. /\ IsFiniteSet(T) /\ Cardinality(T) <= Cardinality(S)
      /\ Cardinality(S) = Cardinality(T) => S = T
  BY FS_Subset
<1>2. Cardinality(S) \in Nat /\ Cardinality(T) \in Nat
  BY <1>1, FS_CardinalityType
<1> QED
  BY <1>1, <1>2

\* What is left is a number.
LEMMA StepsType ==
    ASSUME TypeOK
    PROVE  /\ StepsLeft \in Nat /\ NodesLeft \in Nat /\ Cardinality(zombies) \in Nat
           /\ IsFiniteSet(zombies) /\ IsFiniteSet(Unresolved) /\ IsFiniteSet(Unended)
           /\ IsFiniteSet(Unstarted) /\ IsFiniteSet(Unscheduled)
<1>1. PICK all : all = Nodes /\ IsFiniteSet(all)
  BY NodesFinite
<1>2. /\ zombies \in SUBSET all /\ Unresolved \in SUBSET all /\ Unended \in SUBSET all
      /\ Unstarted \in SUBSET all /\ Unscheduled \in SUBSET all
  BY <1>1 DEF TypeOK, Unresolved, Unended, Unstarted, Unscheduled
<1>3. \A T \in SUBSET all : IsFiniteSet(T) /\ Cardinality(T) \in Nat
  BY <1>1, FewerElements
<1> QED
  BY <1>2, <1>3 DEF StepsLeft, NodesLeft

\* No node goes back, and one goes on: less is left of the nodes.
LEMMA NodesGoOn ==
    ASSUME TypeOK, Unresolved' \subseteq Unresolved, Unended' \subseteq Unended,
           Unstarted' \subseteq Unstarted, Unscheduled' \subseteq Unscheduled
    PROVE  /\ NodesLeft \in Nat /\ NodesLeft' \in Nat /\ NodesLeft' <= NodesLeft
           /\ Unended' # Unended => NodesLeft' <= NodesLeft - 2
           /\ Unstarted' # Unstarted \/ Unscheduled' # Unscheduled => NodesLeft' < NodesLeft
<1>1. PICK a, b, c, d : a = Unresolved /\ b = Unended /\ c = Unstarted /\ d = Unscheduled
  OBVIOUS
<1>2. PICK a1, b1, c1, d1 :
        a1 = Unresolved' /\ b1 = Unended' /\ c1 = Unstarted' /\ d1 = Unscheduled'
  OBVIOUS
<1>3. /\ IsFiniteSet(a) /\ IsFiniteSet(b) /\ IsFiniteSet(c) /\ IsFiniteSet(d)
      /\ a1 \in SUBSET a /\ b1 \in SUBSET b /\ c1 \in SUBSET c /\ d1 \in SUBSET d
  BY <1>1, <1>2, StepsType
<1>4. /\ Cardinality(a) \in Nat /\ Cardinality(a1) \in Nat /\ Cardinality(a1) <= Cardinality(a)
      /\ Cardinality(b) \in Nat /\ Cardinality(b1) \in Nat /\ Cardinality(b1) <= Cardinality(b)
      /\ b1 # b => Cardinality(b1) < Cardinality(b)
  BY <1>3, FewerElements
<1>5. /\ Cardinality(c) \in Nat /\ Cardinality(c1) \in Nat /\ Cardinality(c1) <= Cardinality(c)
      /\ Cardinality(d) \in Nat /\ Cardinality(d1) \in Nat /\ Cardinality(d1) <= Cardinality(d)
      /\ c1 # c => Cardinality(c1) < Cardinality(c)
      /\ d1 # d => Cardinality(d1) < Cardinality(d)
  BY <1>3, FewerElements
<1>6. NodesLeft = Cardinality(a) + 2 * Cardinality(b) + Cardinality(c) + Cardinality(d)
  BY <1>1 DEF NodesLeft
<1>7. NodesLeft' = Cardinality(a1) + 2 * Cardinality(b1) + Cardinality(c1) + Cardinality(d1)
  BY <1>2 DEF NodesLeft
<1> QED
  BY <1>1, <1>2, <1>4, <1>5, <1>6, <1>7

\* A layer is scheduled: the nodes of the one before are resolved.
LEMMA ScheduleGoesOn ==
    ASSUME RunInv, NEW done \in SUBSET Nodes, done = resolved \cup Layer, done # Nodes,
           graph' = graph, zombies' = zombies, wf = "running", wf' = wf, Schedule(done)
    PROVE  StepsLeft' < StepsLeft /\ LayerBusy'
<1>1. PICK next : next = NextLayer(graph, done)
  OBVIOUS
<1>2. next \subseteq Nodes \ done /\ next # {} /\ Nodes' = Nodes
  BY <1>1, LayerIsNew, LayersGoOn DEF Nodes
<1>3. resolved' = done /\ act' = [n \in Nodes |-> IF n \in next THEN "scheduled" ELSE "none"]
  BY <1>1 DEF Schedule
<1>4. TypeOK /\ resolved \subseteq done
  BY DEF RunInv
<1>5. \A n \in Nodes \ done : act[n] = "none"
  BY DEF Layer
<1>6. /\ Unresolved' \subseteq Unresolved /\ Unended' \subseteq Unended
      /\ Unstarted' \subseteq Unstarted /\ Unscheduled' \subseteq Unscheduled
  BY <1>2, <1>3, <1>4, <1>5 DEF Unresolved, Unended, Unstarted, Unscheduled
<1>7. Unscheduled' # Unscheduled
  <2>1. PICK n \in next : TRUE
    BY <1>2
  <2>2. n \in Unscheduled /\ n \notin Unscheduled'
    BY <1>2, <1>3, <1>4, <1>5, <2>1 DEF Unresolved, Unscheduled
  <2> QED
    BY <2>2
<1>8. NodesLeft' < NodesLeft /\ NodesLeft \in Nat /\ NodesLeft' \in Nat
  BY <1>4, <1>6, <1>7, NodesGoOn
<1>9. Cardinality(zombies) \in Nat
  BY <1>4, StepsType
<1>10. LayerBusy'
  BY <1>2, <1>3 DEF LayerBusy, Layer
<1> QED
  BY <1>8, <1>9, <1>10 DEF StepsLeft

\* The workflow is over: nothing is left but activities that were given up.
LEMMA OverGoesOn ==
    ASSUME TypeOK, wf = "running", wf' \in {"completed", "failed", "canceled"}, zombies' = zombies
    PROVE  StepsLeft' < StepsLeft /\ LayerBusy'
BY StepsType DEF StepsLeft, LayerBusy

\* The steps of the workflow count down.
LEMMA WorkflowCountsDown ==
    ASSUME RunInv, LayerBusy, Workflow
    PROVE  StepsLeft' < StepsLeft /\ LayerBusy'
<1>0. TypeOK
  BY DEF RunInv
<1>1. CASE Begin
  <2>1. wf = "running" /\ ~begun /\ graph' = graph /\ zombies' = zombies
    BY <1>1 DEF Begin
  <2>2. CASE Nodes = {}
    BY <1>0, <1>1, <2>1, <2>2, OverGoesOn DEF Begin, Succeed
  <2>3. CASE Nodes # {}
    <3>1. wf' = wf /\ Schedule({}) /\ resolved = {} /\ Layer = {}
      BY <1>1, <2>1, <2>3 DEF Begin, RunInv, Progress, Layer
    <3> QED
      BY <2>1, <2>3, <3>1, ScheduleGoesOn
  <2> QED
    BY <2>2, <2>3
<1>2. CASE LayerEnds
  <2>1. wf = "running" /\ graph' = graph /\ zombies' = zombies
    BY <1>2 DEF LayerEnds, LayerOver
  <2>2. CASE resolved \cup Layer = Nodes
    BY <1>0, <1>2, <2>1, <2>2, OverGoesOn DEF LayerEnds, Succeed
  <2>3. CASE resolved \cup Layer # Nodes
    <3>1. wf' = wf /\ Schedule(resolved \cup Layer) /\ resolved \cup Layer \in SUBSET Nodes
      BY <1>0, <1>2, <2>3 DEF LayerEnds, Layer, TypeOK
    <3> QED
      BY <2>1, <2>3, <3>1, ScheduleGoesOn
  <2> QED
    BY <2>2, <2>3
<1>3. CASE RunFails
  BY <1>0, <1>3, OverGoesOn DEF RunFails, LayerOver
<1>4. CASE Canceled
  <2>1. PICK going : going = {n \in Nodes : act[n] = "running"}
    OBVIOUS
  <2>2. wf = "running" /\ wf' = "canceled" /\ zombies' = zombies \cup going
    BY <1>4, <2>1 DEF Canceled
  <2>3. going \in SUBSET Unended
    BY <2>1 DEF Unended, Unresolved, RunInv, StepOf
  <2>4. /\ IsFiniteSet(going) /\ Cardinality(going) \in Nat
        /\ Cardinality(going) <= Cardinality(Unended) /\ Cardinality(Unended) \in Nat
    <3>1. PICK S : S = Unended /\ IsFiniteSet(S)
      BY <1>0, StepsType
    <3> QED
      BY <2>3, <3>1, FewerElements
  <2>5. /\ Cardinality(zombies') <= Cardinality(zombies) + Cardinality(going)
        /\ Cardinality(zombies') \in Nat /\ Cardinality(zombies) \in Nat
    <3>1. IsFiniteSet(zombies) /\ Cardinality(zombies) \in Nat
      BY <1>0, StepsType
    <3>2. /\ IsFiniteSet(zombies \cup going)
          /\ Cardinality(zombies \cup going) =
               Cardinality(zombies) + Cardinality(going) - Cardinality(zombies \cap going)
      BY <2>4, <3>1, FS_Union
    <3>3. Cardinality(zombies \cap going) \in Nat
      BY <2>4, FS_Intersection, FS_CardinalityType
    <3> QED
      BY <2>2, <2>4, <3>1, <3>2, <3>3, FS_CardinalityType
  <2>6. 1 + NodesLeft > Cardinality(Unended)
    <3>1. /\ Cardinality(Unresolved) \in Nat /\ Cardinality(Unstarted) \in Nat
          /\ Cardinality(Unscheduled) \in Nat
      BY <1>0, StepsType, FS_CardinalityType
    <3> QED
      BY <2>4, <3>1 DEF NodesLeft
  <2>7. NodesLeft \in Nat
    BY <1>0, StepsType
  <2> QED
    BY <2>2, <2>4, <2>5, <2>6, <2>7 DEF StepsLeft, LayerBusy
<1> QED
  BY <1>1, <1>2, <1>3, <1>4 DEF Workflow

\* A node's activity starts, ends or is given up, while the workflow runs.
LEMMA ActivityGoesOn ==
    ASSUME RunInv, NEW n \in Nodes, NodeStarts(n) \/ NodeEnds(n) \/ ActivityLost(n)
    PROVE  StepsLeft' < StepsLeft
<1>0. TypeOK /\ wf = "running" /\ n \in Unresolved
  BY DEF RunInv, Progress, StepOf, Unresolved, NodeStarts, NodeEnds, ActivityLost
<1>1. UNCHANGED <<graph, resolved, wf>> /\ Nodes' = Nodes
  BY DEF NodeStarts, NodeEnds, ActivityLost, Nodes
<1>2. \E a \in {"running", "ok", "error"} : act' = [act EXCEPT ![n] = a]
  BY DEF NodeStarts, NodeEnds, ActivityLost
<1>3. /\ \A m \in Nodes : m # n => act'[m] = act[m]
      /\ act'[n] \in {"running", "ok", "error"} /\ act[n] \in {"scheduled", "running"}
  BY <1>0, <1>2 DEF TypeOK, NodeStarts, NodeEnds, ActivityLost
<1>4. /\ Unresolved' \subseteq Unresolved /\ Unended' \subseteq Unended
      /\ Unstarted' \subseteq Unstarted /\ Unscheduled' \subseteq Unscheduled
  BY <1>1, <1>3 DEF Unresolved, Unended, Unstarted, Unscheduled
<1>5. NodesLeft \in Nat /\ NodesLeft' \in Nat /\ Cardinality(zombies) \in Nat /\ IsFiniteSet(zombies)
  BY <1>0, <1>4, NodesGoOn, StepsType
<1>6. /\ StepsLeft = Cardinality(zombies) + (1 + NodesLeft)
      /\ StepsLeft' = Cardinality(zombies') + (1 + NodesLeft')
  BY <1>0, <1>1, <1>5 DEF StepsLeft
<1>7. CASE NodeStarts(n)
  <2>1. zombies' = zombies /\ act[n] = "scheduled" /\ act' = [act EXCEPT ![n] = "running"]
    BY <1>7 DEF NodeStarts
  <2>2. n \in Unstarted /\ n \notin Unstarted'
    BY <1>0, <1>1, <2>1 DEF TypeOK, Unresolved, Unstarted
  <2>3. NodesLeft' < NodesLeft
    BY <1>0, <1>4, <2>2, NodesGoOn
  <2> QED
    BY <1>5, <1>6, <2>1, <2>3
<1>8. CASE NodeEnds(n) \/ ActivityLost(n)
  <2>1. /\ zombies' = zombies \/ zombies' = zombies \cup {n}
        /\ act[n] = "running" /\ \E a \in {"ok", "error"} : act' = [act EXCEPT ![n] = a]
    BY <1>8 DEF NodeEnds, ActivityLost
  <2>2. n \in Unended /\ n \notin Unended'
    BY <1>0, <1>1, <2>1 DEF TypeOK, Unresolved, Unended
  <2>3. NodesLeft' <= NodesLeft - 2
    BY <1>0, <1>4, <2>2, NodesGoOn
  <2>4. Cardinality(zombies') <= Cardinality(zombies) + 1 /\ Cardinality(zombies') \in Nat
    <3>1. /\ IsFiniteSet(zombies \cup {n})
          /\ Cardinality(zombies \cup {n}) =
               IF n \in zombies THEN Cardinality(zombies) ELSE Cardinality(zombies) + 1
      BY <1>5, FS_AddElement
    <3> QED
      BY <1>5, <2>1, <3>1
  <2> QED
    BY <1>5, <1>6, <2>3, <2>4
<1> QED
  BY <1>7, <1>8

\* The steps of the activities count down.
LEMMA ActivityCountsDown ==
    ASSUME RunInv, LayerBusy, Activity
    PROVE  StepsLeft' < StepsLeft /\ LayerBusy'
<1>1. PICK n \in Nodes : NodeStarts(n) \/ NodeEnds(n) \/ ActivityLost(n) \/ ZombieEnds(n)
  BY DEF Activity
<1>2. UNCHANGED <<graph, wf, begun, resolved>> /\ Nodes' = Nodes /\ TypeOK
  BY <1>1 DEF NodeStarts, NodeEnds, ActivityLost, ZombieEnds, Nodes, RunInv
<1>3. LayerBusy'
  <2>1. \A m \in Nodes : act[m] # "none" => act'[m] # "none"
    BY <1>1, <1>2 DEF TypeOK, NodeStarts, NodeEnds, ActivityLost, ZombieEnds
  <2> QED
    BY <1>2, <2>1 DEF LayerBusy, Layer
<1>4. CASE ZombieEnds(n)
  <2>1. /\ n \in zombies /\ zombies' = zombies \ {n} /\ act' = act
    BY <1>4 DEF ZombieEnds
  <2>2. NodesLeft' = NodesLeft
    BY <1>2, <2>1 DEF NodesLeft, Unresolved, Unended, Unstarted, Unscheduled
  <2>3. NodesLeft \in Nat /\ Cardinality(zombies) \in Nat /\ IsFiniteSet(zombies)
    BY <1>2, StepsType
  <2>4. Cardinality(zombies') = Cardinality(zombies) - 1
    BY <2>1, <2>3, FS_RemoveElement
  <2> QED
    BY <1>2, <1>3, <2>2, <2>3, <2>4 DEF StepsLeft
<1> QED
  BY <1>1, <1>3, <1>4, ActivityGoesOn

\* What else happens changes nothing of it.
LEMMA OthersLeaveIt ==
    ASSUME RunInv, LayerBusy, ~Workflow, ~Activity, [Next]_vars
    PROVE  StepsLeft' = StepsLeft /\ LayerBusy'
<1>0. TypeOK
  BY DEF RunInv
<1>1. /\ UNCHANGED <<graph, begun, resolved, act, zombies>>
      /\ wf' = wf \/ (wf = "none" /\ wf' = "running")
  BY DEF Next, Handlers, Starts, Dispatched, DispatchFails, CancelSends, CancelWrites, Replay,
         CancelChecks, Watchdog, Sweep, Restart, vars
<1>2. wf = "none" => ~begun
  BY DEF RunInv, Progress
<1>3. NodesLeft' = NodesLeft
  BY <1>1 DEF NodesLeft, Unresolved, Unended, Unstarted, Unscheduled, Nodes
<1>4. StepsLeft \in Nat /\ NodesLeft \in Nat /\ Cardinality(zombies) \in Nat
  BY <1>0, StepsType
<1>5. StepsLeft' = StepsLeft
  BY <1>1, <1>3, <1>4 DEF StepsLeft
<1>6. LayerBusy'
  BY <1>1, <1>2 DEF LayerBusy, Layer, Nodes
<1> QED
  BY <1>5, <1>6

(***************************************************************************)
(* The workflow and its activities cannot go on for ever: each of their    *)
(* steps leaves less to do, also over a cycle, with lost activities and    *)
(* through a cancel, and no replay, restart, sweep or watchdog gives any   *)
(* of it back.  It is what RunSettles rests on besides fairness.           *)
(***************************************************************************)
THEOREM PipelineIsBounded ==
    Spec => /\ [](StepsLeft \in Nat)
            /\ [][IF Workflow \/ Activity THEN StepsLeft' < StepsLeft
                  ELSE StepsLeft' = StepsLeft]_vars
<1>1. Init => LayerBusy
  BY DEF Init, LayerBusy
<1>2. RunInv => StepsLeft \in Nat
  BY StepsType DEF RunInv
<1>3. RunInv /\ LayerBusy /\ [Next]_vars => LayerBusy'
  BY WorkflowCountsDown, ActivityCountsDown, OthersLeaveIt
<1>4. RunInv /\ LayerBusy /\ [Next]_vars =>
        [IF Workflow \/ Activity THEN StepsLeft' < StepsLeft ELSE StepsLeft' = StepsLeft]_vars
  BY WorkflowCountsDown, ActivityCountsDown, OthersLeaveIt
<1> QED
  BY PipelineCorrect, <1>1, <1>2, <1>3, <1>4, PTL DEF Spec

=============================================================================
