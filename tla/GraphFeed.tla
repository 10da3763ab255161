------------------------------ MODULE GraphFeed ------------------------------
(***************************************************************************)
(* The knowledge graph: observations of entities and relationships are     *)
(* rows of an event store, each inserted by a transaction of its own, from *)
(* the API process and the workers (pipeline/fusion/writer.py,             *)
(* knowledge/writer.py); the materializer of the API process reads what is *)
(* newer than its checkpoint every five seconds and merges it into Neo4j   *)
(* (knowledge/materializer.py, neo4j_client.py); a sweep moves             *)
(* observations between tiers (memory/lifecycle.py).  Neo4j refuses the    *)
(* statement of an entity that has a node, for it sets a property to a     *)
(* map; whether the driver raises that out of session.run, or out of the   *)
(* end of the session, or nowhere, the source does not settle.             *)
(***************************************************************************)
EXTENDS Naturals, FiniteSets, FiniteSetsExt

CONSTANTS
    Entities,   \* by their refs
    Obs,        \* observations of entities
    Rels,       \* observations of relationships
    Of,         \* entity an observation is about
    Slugs, Slug,   \* names, and the name in the ref of an entity
    Ends,       \* what a relationship is between: slugs, which knowledge/writer.py
                \* writes, or the refs pipeline/fusion/writer.py makes up
    Writes,     \* observations its writer inserts before a relationship
    Aging,      \* observations that live long enough to change their tier
    MaxFaults   \* bounds the failed statements and the restarts

ASSUME ItemsAssumption ==
    /\ IsFiniteSet(Obs) /\ IsFiniteSet(Rels) /\ Obs \cap Rels = {}
    /\ Of \in [Obs -> Entities]
    /\ Slug \in [Entities -> Slugs] /\ Slugs \cap Entities = {}
    /\ Ends \in [Rels -> SUBSET (Entities \cup Slugs)] /\ Writes \in [Rels -> SUBSET Obs]
    /\ Aging \subseteq Obs
ASSUME MaxFaultsAssumption == MaxFaults \in Nat

Items == Obs \cup Rels

VARIABLES
    phase,      \* insertion of an item: "new", "open", "in" or "failed"
    at,         \* created_at: the time its transaction began
    clock,
    cold,       \* observations in the tiers cold and archive
    entAt,      \* graph_materializer_state.last_entity_obs_at, 0 for NULL
    relAt,      \* last_rel_obs_at
    pass,       \* where the materializer is; "off": it found no Neo4j
    batch,      \* rows the pass has read
    done,       \* those of them it has sent to Neo4j
    lookup,     \* slug_to_ref, as the refs it leads to
    merged,     \* observations the node of their entity was created with
    edge,       \* how often its edge counts a relationship
    faults,
    late,       \* items that committed behind the checkpoint or the pass
    cooled,     \* observations that got cold before they were merged
    lost,       \* items whose statement failed while the pass went on
    refused,    \* 1 after a pass was ended by an entity that has a node
    anchored    \* relationships whose entities had a node when they committed

rows == <<phase, at, clock, cold>>
graph == <<merged, edge>>
progress == <<entAt, relAt, pass, batch, done, lookup>>
history == <<late, cooled, lost, refused, anchored>>
vars == <<rows, graph, progress, faults, history>>

Steps == {"off", "idle", "entities", "between", "relationships"}
Node(e) == \E o \in merged : Of[o] = e

\* Mutant of Resolved: a slug is taken for a ref.
Unresolved(raw) == {raw} \cap Entities

\* The ref an end leads to: what is not a slug is left as it is.
Resolved(raw) == IF raw \in Entities THEN {raw} ELSE {e \in lookup : Slug[e] = raw}

\* Both MATCHes of upsert_relationship find a node.
Matches(r) == \A raw \in Ends[r] : \E e \in Resolved(raw) : Node(e)

\* Whatever the lookup will be, the relationship will match.
Anchored(r) ==
    \A raw \in Ends[r] : LET named == {e \in Entities : e = raw \/ Slug[e] = raw} IN
        named # {} /\ \A e \in named : Node(e)

TypeOK ==
    /\ phase \in [Items -> {"new", "open", "in", "failed"}]
    /\ clock \in Nat /\ at \in [Items -> 0..clock]
    /\ entAt \in 0..clock /\ relAt \in 0..clock
    /\ pass \in Steps /\ done \subseteq batch /\ lookup \subseteq Entities
    /\ batch \subseteq (IF pass = "entities" THEN Obs ELSE IF pass = "relationships" THEN Rels ELSE {})
    /\ merged \subseteq Obs /\ edge \in [Rels -> Nat]
    /\ faults \in 0..MaxFaults
    /\ lost \subseteq Items /\ refused \in 0..1
    /\ late \subseteq Items /\ cold \subseteq Aging /\ cooled \subseteq Aging /\ anchored \subseteq Rels

Init ==
    /\ phase = [i \in Items |-> "new"] /\ at = [i \in Items |-> 0] /\ clock = 0
    /\ cold = {} /\ entAt = 0 /\ relAt = 0
    /\ pass = "idle" /\ batch = {} /\ done = {} /\ lookup = {}
    /\ merged = {} /\ edge = [r \in Rels |-> 0]
    /\ faults = 0 /\ late = {} /\ cooled = {} /\ lost = {} /\ refused = 0 /\ anchored = {}

Fault == faults < MaxFaults /\ faults' = faults + 1

-----------------------------------------------------------------------------
(* The writers                                                             *)

\* The transaction starts and takes its time; two may take the same.
Insert(i) ==
    /\ phase[i] = "new"
    /\ i \in Rels => \A o \in Writes[i] :
           phase[o] = "in" \/ (phase[o] = "failed" /\ Ends[i] \subseteq Entities)
    /\ \E t \in {clock, clock + 1} \ {0} : at' = [at EXCEPT ![i] = t] /\ clock' = t
    /\ phase' = [phase EXCEPT ![i] = "open"]
    /\ UNCHANGED <<cold, graph, progress, faults, history>>

\* Everything up to here is, or is about to be, behind a checkpoint.
Passed(i) ==
    \/ i \in Obs /\ at[i] <= entAt
    \/ i \in Rels /\ at[i] <= relAt
    \/ i \in Obs /\ pass = "entities" /\ \E j \in batch : at[i] <= at[j]
    \/ i \in Rels /\ pass = "relationships" /\ \E j \in batch : at[i] <= at[j]

Commit(i) ==
    /\ phase[i] = "open" /\ phase' = [phase EXCEPT ![i] = "in"]
    /\ late' = IF Passed(i) THEN late \cup {i} ELSE late
    /\ anchored' = IF i \in Rels /\ Anchored(i) THEN anchored \cup {i} ELSE anchored
    /\ UNCHANGED <<at, clock, cold, graph, progress, faults, cooled, lost, refused>>

\* The fusion writer logs the error and goes on, the other one gives up.
InsertFails(i) ==
    /\ phase[i] = "open" /\ Fault /\ phase' = [phase EXCEPT ![i] = "failed"]
    /\ UNCHANGED <<at, clock, cold, graph, progress, history>>

Demote(o) ==
    /\ o \in Aging \ cold /\ phase[o] = "in" /\ cold' = cold \cup {o}
    /\ cooled' = cooled \cup ({o} \ merged)
    /\ UNCHANGED <<phase, at, clock, graph, progress, faults, late, lost, refused, anchored>>

\* Found by a search of the last week; not once it is archived.
Promote(o) ==
    /\ o \in cold /\ cold' = cold \ {o}
    /\ UNCHANGED <<phase, at, clock, graph, progress, faults, history>>

-----------------------------------------------------------------------------
(* The materializer                                                        *)

\* Mutant of Newer: rows of the very time of the checkpoint are read again.
NewerOrSame(i, t) == at[i] >= t

Newer(i, t) == at[i] > t

ReadEntities ==
    /\ pass = "idle"
    /\ batch' = {o \in Obs \ cold : phase[o] = "in" /\ Newer(o, entAt)} /\ done' = {}
    /\ pass' = IF batch' = {} THEN "between" ELSE "entities"
    /\ UNCHANGED <<rows, graph, entAt, relAt, lookup, faults, history>>

Group(e) == {o \in batch : Of[o] = e}

\* All observations of an entity in one MERGE, which creates its node.
CreateEntity(e) == ~Node(e) /\ merged' = merged \cup Group(e) /\ UNCHANGED edge

\* The entity with the oldest of the rows that are left.
NextEntity(e) ==
    /\ pass = "entities"
    /\ \E o \in Group(e) \ done : \A i \in batch \ done : at[o] <= at[i]

UpsertEntity(e) ==
    /\ NextEntity(e) /\ done' = done \cup Group(e) /\ CreateEntity(e)
    /\ UNCHANGED <<rows, entAt, relAt, pass, batch, lookup, faults, history>>

\* Mutant of Reached: the checkpoint is the time at which it is written.
ReachedNow == clock

\* The latest created_at of the batch.
Reached == Max({at[i] : i \in batch})

\* Mutant of Abandon: the checkpoint moves on although the pass failed.
AbandonAhead ==
    /\ pass' = "idle"
    /\ entAt' = IF pass = "entities" THEN Reached ELSE entAt
    /\ relAt' = IF pass = "relationships" THEN Reached ELSE relAt

\* An exception: the loop starts over after its pause, the checkpoints stay.
Abandon == pass' = "idle" /\ UNCHANGED <<entAt, relAt>>

StartOver == Abandon /\ batch' = {} /\ done' = {} /\ lookup' = {}

\* The node is there: the statement is refused, and that ends the pass.
EntityRefused(e) ==
    /\ NextEntity(e) /\ Node(e) /\ StartOver /\ refused' = 1
    /\ UNCHANGED <<rows, graph, faults, late, cooled, lost, anchored>>

\* The pass goes on without them.
Dropped(items) == done' = done \cup items /\ lost' = lost \cup (items \ merged)

\* Or the pass goes on as if the statement had been done.
EntityLost(e) ==
    /\ NextEntity(e) /\ Node(e) /\ Dropped(Group(e))
    /\ UNCHANGED <<rows, graph, entAt, relAt, pass, batch, lookup, faults, late, cooled, refused,
                   anchored>>

EntitiesDone ==
    /\ pass = "entities" /\ done = batch
    /\ entAt' = Reached /\ pass' = "between" /\ batch' = {} /\ done' = {}
    /\ UNCHANGED <<rows, graph, relAt, lookup, faults, history>>

Observed == {Of[o] : o \in {i \in Obs : phase[i] = "in"}}

\* One ref for every slug; of several, the one the database returns last.
Lookups ==
    {c \in SUBSET Observed : \A e \in Observed : Cardinality({x \in c : Slug[x] = Slug[e]}) = 1}

ReadRelationships ==
    /\ pass = "between"
    /\ batch' = {r \in Rels : phase[r] = "in" /\ Newer(r, relAt)} /\ done' = {}
    /\ \/ batch' = {} /\ pass' = "idle" /\ UNCHANGED lookup
       \/ batch' # {} /\ pass' = "relationships" /\ lookup' \in Lookups
    /\ UNCHANGED <<rows, graph, entAt, relAt, faults, history>>

\* Without both nodes nothing matches.
MergeEdge(r) ==
    /\ edge' = IF Matches(r) THEN [edge EXCEPT ![r] = @ + 1] ELSE edge
    /\ UNCHANGED merged

\* The oldest of the rows that are left.
NextRelationship(r) ==
    pass = "relationships" /\ r \in batch \ done /\ \A i \in batch \ done : at[r] <= at[i]

UpsertRelationship(r) ==
    /\ NextRelationship(r) /\ done' = done \cup {r} /\ MergeEdge(r)
    /\ UNCHANGED <<rows, entAt, relAt, pass, batch, lookup, faults, history>>

RelationshipsDone ==
    /\ pass = "relationships" /\ done = batch
    /\ relAt' = Reached /\ pass' = "idle" /\ batch' = {} /\ done' = {} /\ lookup' = {}
    /\ UNCHANGED <<rows, graph, entAt, faults, history>>

\* A statement fails, and what Neo4j was sent last may have been merged.
PassFails ==
    /\ pass \in {"entities", "between", "relationships"} /\ Fault
    /\ \/ UNCHANGED graph
       \/ \E e \in Entities : NextEntity(e) /\ CreateEntity(e)
       \/ \E r \in Rels : NextRelationship(r) /\ MergeEdge(r)
    /\ StartOver /\ UNCHANGED <<rows, history>>

\* Neo4j fails and the pass goes on.
MergeLost ==
    /\ Fault
    /\ \/ \E e \in Entities : NextEntity(e) /\ Dropped(Group(e))
       \/ \E r \in Rels : NextRelationship(r) /\ Dropped({r})
    /\ UNCHANGED <<rows, graph, entAt, relAt, pass, batch, lookup, late, cooled, refused, anchored>>

\* The process restarts; without Neo4j the materializer ends at once.
Restart ==
    /\ Fault /\ pass' \in {"idle", "off"} /\ batch' = {} /\ done' = {} /\ lookup' = {}
    /\ UNCHANGED <<rows, graph, entAt, relAt, history>>

-----------------------------------------------------------------------------
Materialize ==
    \/ ReadEntities \/ EntitiesDone \/ ReadRelationships \/ RelationshipsDone
    \/ \E e \in Entities : UpsertEntity(e) \/ EntityRefused(e) \/ EntityLost(e)
    \/ \E r \in Rels : UpsertRelationship(r)

Next ==
    \/ \E i \in Items : Insert(i) \/ Commit(i) \/ InsertFails(i)
    \/ \E o \in Aging : Demote(o) \/ Promote(o)
    \/ Materialize \/ PassFails \/ MergeLost \/ Restart

\* The loop of the materializer never ends while its process lives.
Fairness == WF_vars(Materialize)

Spec == Init /\ [][Next]_vars /\ Fairness

-----------------------------------------------------------------------------
\* What the checkpoint leaves behind is in the graph: a committed observation
\* that is not newer than the checkpoint has been merged, unless it committed
\* behind a pass that had read past its time, has left the hot tiers, or its
\* statement failed and the pass went on.
NothingSkipped ==
    \A o \in Obs \ (late \cup cooled \cup lost) : phase[o] = "in" /\ at[o] <= entAt => o \in merged

\* A failure repeats a relationship at most once, whatever shares its time, and
\* nothing else does, least of all a pass an entity ended.
CountedOnce == \A r \in Rels : edge[r] <= 1 + faults

\* As long as no entity was observed again after its node was merged, and that
\* ended a pass, an observation reaches the graph however often passes fail,
\* unless the materializer is off.
Materialized ==
    \A o \in Obs :
        phase[o] = "in" ~> (o \in merged \cup late \cup cooled \cup lost \/ pass = "off" \/ refused = 1)

\* A relationship whose slugs, or refs, all led to nodes when it committed gets
\* its edge, with the same exceptions; one that is faster than its entities is
\* given no second chance.
RelationshipLinked ==
    \A r \in Rels :
        (r \in anchored) ~> (edge[r] > 0 \/ r \in late \cup lost \/ pass = "off" \/ refused = 1)
=============================================================================
