---------------------------- MODULE MCPipelineRun ----------------------------
(***************************************************************************)
(* Small pipelines for PipelineRun: a diamond with a shortcut, a node      *)
(* behind a datastore that a tool edge takes out of the execution, a cycle,*)
(* and a pipeline of which nothing is executed.                            *)
(***************************************************************************)
EXTENDS PipelineRun

CONSTANTS s, t, u, v

Category(nodes) == [n \in nodes |-> IF n = s THEN "source" ELSE "other"]

Diamond == [
    nodes    |-> {s, t, u, v},
    results  |-> {<<s, t>>, <<s, u>>, <<s, v>>, <<t, v>>, <<u, v>>},
    tools    |-> {},
    category |-> Category({s, t, u, v})]

\* u is a datastore of s, and t takes items from it; v waits for t.
Behind == [
    nodes    |-> {s, t, u, v},
    results  |-> {<<s, t>>, <<u, t>>, <<t, v>>},
    tools    |-> {<<s, u>>},
    category |-> Category({s, t, u, v})]

Cycle == [
    nodes    |-> {s, t, u},
    results  |-> {<<s, t>>, <<t, u>>, <<u, t>>},
    tools    |-> {},
    category |-> Category({s, t, u})]

\* The only node is a tool of itself.
Empty == [nodes |-> {s}, results |-> {}, tools |-> {<<s, s>>}, category |-> Category({s})]

MCGraphs == {Diamond, Behind, Cycle, Empty}
=============================================================================
