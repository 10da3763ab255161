------------------------------ MODULE DagLayers ------------------------------
(***************************************************************************)
(* The layers in which PipelineWorkflow (pipeline/workflow.py) executes    *)
(* the nodes of a pipeline, and the nodes for which they are what a        *)
(* topological order asks for.                                             *)
(*                                                                         *)
(* A graph g has nodes, g.results (edges that carry items), g.tools (edges *)
(* to nodes that are only configuration) and the category of each node.    *)
(***************************************************************************)
EXTENDS Naturals, FiniteSets

Categories == {"source", "aggregator", "other"}

IsGraph(g) ==
    /\ IsFiniteSet(g.nodes)
    /\ g.results \subseteq g.nodes \X g.nodes
    /\ g.tools \subseteq g.nodes \X g.nodes
    /\ g.category \in [g.nodes -> Categories]

\* POST /v3/pipelines/{id}/run refuses any other pipeline.
Launchable(g) ==
    LET of(c) == Cardinality({n \in g.nodes : g.category[n] = c})
    IN  of("source") > 0 /\ (of("source") > 1 => of("aggregator") = 1)

ToolTargets(g) == {e[2] : e \in g.tools}

\* executable_nodes
Executable(g) == g.nodes \ ToolTargets(g)

\* The sources of n's edges, also those that are not executed.
Upstream(g, n) == {m \in g.nodes : <<m, n>> \in g.results}

\* Mutant of Resolvable: a node waits for one of its sources.
ResolvableEarly(g, resolved) ==
    {n \in Executable(g) \ resolved :
        Upstream(g, n) = {} \/ Upstream(g, n) \cap resolved # {}}

\* Mutant of Resolvable: nodes that are done are not left out.
ResolvableAgain(g, resolved) == {n \in Executable(g) : Upstream(g, n) \subseteq resolved}

Resolvable(g, resolved) ==
    {n \in Executable(g) \ resolved : Upstream(g, n) \subseteq resolved}

\* Mutant of NextLayer: without the final layer.
NextLayerNoRest(g, resolved) == Resolvable(g, resolved)

\* The layer that follows the resolved nodes in _topo_sort.  When nothing is
\* resolvable, everything that is left is one layer, the last.
NextLayer(g, resolved) ==
    IF Resolvable(g, resolved) # {} THEN Resolvable(g, resolved)
    ELSE Executable(g) \ resolved

-----------------------------------------------------------------------------
(* Reference.                                                              *)

\* A set of nodes that has every node all of whose sources it has.
Closed(g, S) == \A n \in Executable(g) : Upstream(g, n) \subseteq S => n \in S

\* The nodes a topological order can place: those in every closed set.  The
\* others are on a cycle, behind one, or behind a node that is not executed.
Grounded(g) == {n \in Executable(g) : \A S \in SUBSET Executable(g) : Closed(g, S) => n \in S}
=============================================================================
