--------------------------- MODULE GraphFeedProofs ---------------------------
(***************************************************************************)
(* Proofs about GraphFeed, for any entities, observations, relationships,  *)
(* tiers, slugs and number of failures: types, what a checkpoint leaves    *)
(* behind, and that every failure repeats a relationship at most once.     *)
(***************************************************************************)
EXTENDS GraphFeed, WellFoundedInduction, TLAPS

USE ItemsAssumption, MaxFaultsAssumption

\* What the pass has read is committed and newer than the checkpoint, and only
\* what is committed was ever merged.
ReadNew ==
    /\ \A i \in batch : phase[i] = "in"
    /\ pass \in {"entities", "relationships"} => batch # {}
    /\ pass = "entities" => \A o \in batch : at[o] > entAt
    /\ pass = "relationships" => \A r \in batch : at[r] > relAt
    /\ \A r \in Rels : edge[r] > 0 => phase[r] = "in"
    /\ cold \subseteq cooled \cup merged

\* What the checkpoint will leave behind is merged, or will be before it moves.
NothingWillBeSkipped ==
    pass = "entities" =>
        \A o \in Obs \ (late \cup cooled \cup lost) :
            phase[o] = "in" /\ at[o] <= Reached => o \in merged \/ o \in batch \ done

\* What every failure may have repeated is behind the checkpoint or done in
\* this pass.
CountedBehind ==
    \A r \in Rels : edge[r] > faults =>
        at[r] <= relAt \/ (pass = "relationships" /\ r \in done)

FeedInv ==
    /\ TypeOK /\ ReadNew /\ NothingSkipped /\ NothingWillBeSkipped
    /\ CountedOnce /\ CountedBehind

-----------------------------------------------------------------------------
\* A bounded set of naturals has a greatest element, and Max is it.
LEMMA MaxOfBounded ==
    ASSUME NEW n \in Nat, NEW S, S \subseteq 0..n, S # {}
    PROVE  Max(S) \in S /\ \A x \in S : Max(S) >= x
<1> DEFINE T == {n - x : x \in S}
<1>1. T \subseteq Nat /\ T # {}
  <2>1. \A x \in S : x \in 0..n /\ n - x \in Nat
    OBVIOUS
  <2>2. T \subseteq Nat
    BY <2>1, Zenon
  <2>3. PICK x \in S : TRUE
    OBVIOUS
  <2>4. n - x \in T
    BY <2>3
  <2> QED
    BY <2>2, <2>4
<1>2. PICK t \in T : \A y \in T : ~ (<<y, t>> \in OpToRel(<, Nat))
  <2> HIDE DEF T
  <2> QED
    BY <1>1, NatLessThanWellFounded, WFMin
<1>3. t \in Nat /\ \A y \in T : ~ (y < t)
  <2>1. \A y \in Nat : y < t => <<y, t>> \in OpToRel(<, Nat)
    BY <1>1, <1>2 DEF OpToRel
  <2> QED
    BY <1>1, <1>2, <2>1
<1>4. PICK m \in S : t = n - m
  BY <1>2
<1>5. \A x \in S : m >= x
  <2> TAKE x \in S
  <2>1. n - x \in T /\ n \in Nat /\ x \in Int /\ m \in Int
    BY <1>4
  <2>2. ~ (n - x < n - m)
    BY <1>3, <1>4, <2>1
  <2> QED
    BY <2>1, <2>2
<1> QED
  BY <1>4, <1>5, Zenon DEF Max

\* What is reached is a time, and no row of the batch is ahead of it.
LEMMA ReachedBounds ==
    ASSUME TypeOK, batch # {}
    PROVE  /\ Reached \in 0..clock /\ \E i \in batch : Reached = at[i]
           /\ \A i \in batch : at[i] <= Reached
<1> DEFINE S == {at[i] : i \in batch}
<1>1. clock \in Nat /\ \A i \in batch : at[i] \in 0..clock
  BY DEF TypeOK, Items, Steps
<1>2. S \subseteq 0..clock /\ \A i \in batch : at[i] \in S
  BY <1>1
<1>3. S # {}
  BY <1>2
<1>4. Max(S) \in S /\ \A x \in S : Max(S) >= x
  <2> HIDE DEF S
  <2> QED
    BY <1>1, <1>2, <1>3, MaxOfBounded
<1>5. Reached = Max(S)
  BY DEF Reached
<1>8. \E i \in batch : Reached = at[i]
  BY <1>4, <1>5
<1> HIDE DEF S
<1>6. Max(S) \in 0..clock
  BY <1>2, <1>4
<1>7. \A i \in batch : at[i] <= Max(S)
  BY <1>1, <1>2, <1>4, <1>6
<1> QED
  BY <1>5, <1>6, <1>7, <1>8

-----------------------------------------------------------------------------
(* Types                                                                   *)

LEMMA TypeInit == Init => TypeOK
BY DEF Init, TypeOK, Items, Steps

LEMMA CreateTypes ==
    ASSUME TypeOK, pass = "entities", NEW e \in Entities, CreateEntity(e)
    PROVE  merged' \subseteq Obs /\ edge' \in [Rels -> Nat]
BY DEF CreateEntity, Group, TypeOK

LEMMA MergeEdgeTypes ==
    ASSUME TypeOK, NEW r \in Rels, MergeEdge(r)
    PROVE  merged' \subseteq Obs /\ edge' \in [Rels -> Nat]
BY DEF MergeEdge, TypeOK

\* What a pass drops is of its batch.
LEMMA DroppedTypes ==
    ASSUME TypeOK, NEW S \in SUBSET batch, Dropped(S), batch' = batch
    PROVE  done' \subseteq batch' /\ lost' \subseteq Items
BY DEF Dropped, TypeOK, Items

LEMMA TypeStep ==
    ASSUME TypeOK, ReadNew, [Next]_vars
    PROVE  TypeOK'
<1> USE DEF rows, graph, progress, history, Steps, Fault
<1>1. ASSUME NEW i \in Items, Insert(i)
      PROVE  TypeOK'
  <2>1. PICK t \in {clock, clock + 1} \ {0} : at' = [at EXCEPT ![i] = t] /\ clock' = t
    BY <1>1 DEF Insert
  <2>2. clock' \in Nat /\ at' \in [Items -> 0..clock'] /\ clock' >= clock
    BY <2>1 DEF TypeOK
  <2>3. phase' \in [Items -> {"new", "open", "in", "failed"}]
    BY <1>1 DEF Insert, TypeOK
  <2>4. entAt' \in 0..clock' /\ relAt' \in 0..clock'
    BY <1>1, <2>2 DEF Insert, TypeOK
  <2> QED
    BY <1>1, <2>2, <2>3, <2>4 DEF Insert, TypeOK
<1>2. ASSUME NEW i \in Items, Commit(i)
      PROVE  TypeOK'
  <2>1. late' \subseteq Items /\ anchored' \subseteq Rels
    BY <1>2 DEF Commit, TypeOK
  <2> QED
    BY <1>2, <2>1 DEF Commit, TypeOK
<1>3. ASSUME NEW i \in Items, InsertFails(i)
      PROVE  TypeOK'
  BY <1>3 DEF InsertFails, TypeOK
<1>4. ASSUME NEW o \in Aging, Demote(o)
      PROVE  TypeOK'
  BY <1>4 DEF Demote, TypeOK
<1>5. ASSUME NEW o \in Aging, Promote(o)
      PROVE  TypeOK'
  BY <1>5 DEF Promote, TypeOK
<1>6. CASE ReadEntities
  BY <1>6 DEF ReadEntities, TypeOK
<1>7. CASE EntitiesDone
  <2>1. Reached \in 0..clock
    BY <1>7, ReachedBounds DEF EntitiesDone, ReadNew
  <2> QED
    BY <1>7, <2>1 DEF EntitiesDone, TypeOK
<1>8. CASE ReadRelationships
  <2>1. lookup' \subseteq Entities
    BY <1>8 DEF ReadRelationships, Lookups, Observed, TypeOK
  <2> QED
    BY <1>8, <2>1 DEF ReadRelationships, TypeOK
<1>9. CASE RelationshipsDone
  <2>1. Reached \in 0..clock
    BY <1>9, ReachedBounds DEF RelationshipsDone, ReadNew
  <2> QED
    BY <1>9, <2>1 DEF RelationshipsDone, TypeOK
<1>10. ASSUME NEW e \in Entities, UpsertEntity(e)
       PROVE  TypeOK'
  <2>1. merged' \subseteq Obs /\ edge' \in [Rels -> Nat]
    BY <1>10, CreateTypes DEF UpsertEntity, NextEntity
  <2>2. done' \subseteq batch
    BY <1>10 DEF UpsertEntity, Group, TypeOK
  <2> QED
    BY <1>10, <2>1, <2>2 DEF UpsertEntity, TypeOK
<1>15. ASSUME NEW e \in Entities, EntityRefused(e)
       PROVE  TypeOK'
  BY <1>15 DEF EntityRefused, StartOver, Abandon, TypeOK
<1>16. ASSUME NEW e \in Entities, EntityLost(e)
       PROVE  TypeOK'
  <2>1. done' \subseteq batch' /\ lost' \subseteq Items
    BY <1>16, DroppedTypes DEF EntityLost, Group
  <2> QED
    BY <1>16, <2>1 DEF EntityLost, TypeOK
<1>11. ASSUME NEW r \in Rels, UpsertRelationship(r)
       PROVE  TypeOK'
  <2>1. merged' \subseteq Obs /\ edge' \in [Rels -> Nat]
    BY <1>11, MergeEdgeTypes DEF UpsertRelationship
  <2> QED
    BY <1>11, <2>1 DEF UpsertRelationship, NextRelationship, TypeOK
<1>12. CASE PassFails
  <2>1. merged' \subseteq Obs /\ edge' \in [Rels -> Nat]
    BY <1>12, CreateTypes, MergeEdgeTypes DEF PassFails, NextEntity, TypeOK
  <2> QED
    BY <1>12, <2>1 DEF PassFails, StartOver, Abandon, TypeOK
<1>17. CASE MergeLost
  <2>1. PICK S \in SUBSET batch : Dropped(S)
    BY <1>17 DEF MergeLost, Group, NextRelationship
  <2>2. done' \subseteq batch' /\ lost' \subseteq Items
    BY <1>17, <2>1, DroppedTypes DEF MergeLost
  <2> QED
    BY <1>17, <2>2 DEF MergeLost, TypeOK
<1>13. CASE Restart
  BY <1>13 DEF Restart, TypeOK
<1>14. CASE UNCHANGED vars
  BY <1>14 DEF vars, TypeOK
<1> QED
  BY <1>1, <1>2, <1>3, <1>4, <1>5, <1>6, <1>7, <1>8, <1>9, <1>10, <1>11, <1>12, <1>13, <1>14,
     <1>15, <1>16, <1>17
  DEF Next, Materialize

-----------------------------------------------------------------------------
(* What was read and merged                                                *)

\* A relationship that finds its nodes is counted.
LEMMA EdgeCounts ==
    ASSUME TypeOK, NEW r \in Rels, MergeEdge(r)
    PROVE  /\ edge'[r] \in {edge[r], edge[r] + 1}
           /\ \A x \in Rels \ {r} : edge'[x] = edge[x]
           /\ merged' = merged /\ \A x \in Rels : edge[x] \in Nat
BY DEF MergeEdge, TypeOK

LEMMA ReadNewStep ==
    ASSUME TypeOK, ReadNew, [Next]_vars
    PROVE  ReadNew'
<1> USE DEF rows, graph, progress, history, Steps, Fault
<1>1. ASSUME NEW i \in Items, Insert(i)
      PROVE  ReadNew'
  <2>1. phase[i] = "new" /\ phase' = [phase EXCEPT ![i] = "open"]
    BY <1>1 DEF Insert
  <2>2. PICK t : at' = [at EXCEPT ![i] = t]
    BY <1>1 DEF Insert
  <2>3. \A x \in Items : phase[x] = "in" => phase'[x] = "in" /\ at'[x] = at[x]
    BY <2>1, <2>2 DEF TypeOK
  <2> QED
    BY <1>1, <2>3 DEF Insert, ReadNew, TypeOK, Items
<1>2. ASSUME NEW i \in Items, Commit(i) \/ InsertFails(i)
      PROVE  ReadNew'
  <2>1. \A x \in Items : phase[x] = "in" => phase'[x] = "in"
    BY <1>2 DEF Commit, InsertFails, TypeOK
  <2> QED
    BY <1>2, <2>1 DEF Commit, InsertFails, ReadNew, TypeOK, Items
<1>3. ASSUME NEW o \in Aging, Demote(o) \/ Promote(o)
      PROVE  ReadNew'
  BY <1>3 DEF Demote, Promote, ReadNew
<1>4. CASE ReadEntities
  BY <1>4 DEF ReadEntities, ReadNew, Newer
<1>5. CASE EntitiesDone
  BY <1>5 DEF EntitiesDone, ReadNew
<1>6. CASE ReadRelationships
  BY <1>6 DEF ReadRelationships, ReadNew, Newer
<1>7. CASE RelationshipsDone
  BY <1>7 DEF RelationshipsDone, ReadNew
<1>8. ASSUME NEW e \in Entities, UpsertEntity(e)
      PROVE  ReadNew'
  BY <1>8 DEF UpsertEntity, CreateEntity, ReadNew
<1>13. ASSUME NEW e \in Entities, EntityRefused(e) \/ EntityLost(e)
       PROVE  ReadNew'
  BY <1>13 DEF EntityRefused, EntityLost, StartOver, Abandon, ReadNew
<1>9. ASSUME NEW r \in Rels, UpsertRelationship(r)
      PROVE  ReadNew'
  BY <1>9, EdgeCounts DEF UpsertRelationship, NextRelationship, ReadNew
<1>10. CASE PassFails
  <2>1. /\ merged \subseteq merged'
        /\ \A r \in Rels : edge'[r] > 0 => phase[r] = "in"
    BY <1>10, EdgeCounts DEF PassFails, CreateEntity, NextRelationship, ReadNew
  <2> QED
    BY <1>10, <2>1 DEF PassFails, StartOver, Abandon, ReadNew
<1>14. CASE MergeLost
  BY <1>14 DEF MergeLost, ReadNew
<1>11. CASE Restart
  BY <1>11 DEF Restart, ReadNew
<1>12. CASE UNCHANGED vars
  BY <1>12 DEF vars, ReadNew
<1> QED
  BY <1>1, <1>2, <1>3, <1>4, <1>5, <1>6, <1>7, <1>8, <1>9, <1>10, <1>11, <1>12,
     <1>13, <1>14 DEF Next, Materialize

-----------------------------------------------------------------------------
(* Behind the checkpoint                                                   *)

\* What commits in time is newer than the checkpoint, and during a pass newer
\* than everything the pass will move the checkpoint to.
LEMMA CommitIsAhead ==
    ASSUME TypeOK, ReadNew, NEW i \in Obs, ~ Passed(i)
    PROVE  at[i] > entAt /\ (pass = "entities" => at[i] > Reached)
<1>1. at[i] \in Nat /\ entAt \in Nat /\ clock \in Nat
  BY DEF TypeOK, Items
<1>2. at[i] > entAt
  BY <1>1 DEF Passed
<1>3. ASSUME pass = "entities"
      PROVE  at[i] > Reached
  <2>1. PICK j \in batch : Reached = at[j] /\ Reached \in 0..clock
    BY <1>3, ReachedBounds DEF ReadNew
  <2>2. ~ (at[i] <= at[j])
    BY <1>3 DEF Passed
  <2> QED
    BY <1>1, <2>1, <2>2
<1> QED
  BY <1>2, <1>3

\* What is reached changes with times and batch only.
LEMMA ReachedStays ==
    ASSUME at' = at, batch' = batch
    PROVE  Reached' = Reached
BY DEF Reached

LEMMA SkippedStep ==
    ASSUME TypeOK, ReadNew, NothingSkipped, NothingWillBeSkipped, [Next]_vars, TypeOK'
    PROVE  NothingSkipped' /\ NothingWillBeSkipped'
<1> USE DEF rows, graph, progress, history, Steps, Fault
<1>1. ASSUME NEW i \in Items, Insert(i)
      PROVE  NothingSkipped' /\ NothingWillBeSkipped'
  <2>1. phase[i] = "new" /\ phase' = [phase EXCEPT ![i] = "open"]
    BY <1>1 DEF Insert
  <2>2. PICK t : at' = [at EXCEPT ![i] = t]
    BY <1>1 DEF Insert
  <2>3. \A x \in Items : /\ phase[x] = "in" => at'[x] = at[x]
                         /\ phase'[x] = "in" <=> phase[x] = "in"
    BY <2>1, <2>2 DEF TypeOK
  <2>4. \A x \in batch : x \in Items /\ at'[x] = at[x]
    BY <2>3 DEF TypeOK, ReadNew, Items
  <2>5. {at'[x] : x \in batch} = {at[x] : x \in batch}
    BY <2>4
  <2>6. Reached' = Reached
    BY <1>1, <2>5 DEF Insert, Reached
  <2> QED
    BY <1>1, <2>3, <2>6 DEF Insert, NothingSkipped, NothingWillBeSkipped, Items
<1>2. ASSUME NEW i \in Items, Commit(i)
      PROVE  NothingSkipped' /\ NothingWillBeSkipped'
  <2>1. \A x \in Items : phase'[x] = "in" => phase[x] = "in" \/ x = i
    BY <1>2 DEF Commit, TypeOK
  <2>2. Reached' = Reached
    BY <1>2 DEF Commit, Reached
  <2>3. i \in Obs \ late' => at[i] > entAt /\ (pass = "entities" => at[i] > Reached)
    BY <1>2, CommitIsAhead DEF Commit
  <2>4. /\ clock \in Nat /\ entAt \in Nat /\ \A o \in Obs : at[o] \in Nat
        /\ pass = "entities" => Reached \in Nat
    <3>1. clock \in Nat /\ entAt \in 0..clock /\ \A o \in Obs : at[o] \in 0..clock
      BY DEF TypeOK, Items
    <3>2. pass = "entities" => Reached \in 0..clock
      BY <3>1, ReachedBounds DEF ReadNew
    <3> QED
      BY <3>1, <3>2
  <2>5. late \subseteq late'
    BY <1>2 DEF Commit
  <2> QED
    BY <1>2, <2>1, <2>2, <2>3, <2>4, <2>5 DEF Commit, NothingSkipped, NothingWillBeSkipped, Items
<1>3. ASSUME NEW i \in Items, InsertFails(i)
      PROVE  NothingSkipped' /\ NothingWillBeSkipped'
  <2>1. \A x \in Items : phase'[x] = "in" => phase[x] = "in"
    BY <1>3 DEF InsertFails, TypeOK
  <2>2. Reached' = Reached
    BY <1>3 DEF InsertFails, Reached
  <2> QED
    BY <1>3, <2>1, <2>2 DEF InsertFails, NothingSkipped, NothingWillBeSkipped, Items
<1>4. ASSUME NEW o \in Aging, Demote(o) \/ Promote(o)
      PROVE  NothingSkipped' /\ NothingWillBeSkipped'
  <2>1. Reached' = Reached
    BY <1>4, ReachedStays DEF Demote, Promote
  <2>2. cooled \subseteq cooled'
    BY <1>4 DEF Demote, Promote
  <2> QED
    BY <1>4, <2>1, <2>2 DEF Demote, Promote, NothingSkipped, NothingWillBeSkipped
<1>5. CASE ReadEntities
  <2>1. NothingSkipped'
    BY <1>5 DEF ReadEntities, NothingSkipped
  <2>2. ASSUME NEW o \in Obs \ (late \cup cooled \cup lost), phase[o] = "in"
        PROVE  o \in merged \/ o \in batch' \ done'
    <3>1. (o \in cold => o \in merged) /\ at[o] \in Nat /\ entAt \in Nat
      BY <2>2 DEF TypeOK, Items, ReadNew
    <3>2. CASE at[o] <= entAt
      BY <2>2, <3>2 DEF NothingSkipped
    <3>3. CASE at[o] > entAt
      BY <1>5, <2>2, <3>1, <3>3 DEF ReadEntities, Newer
    <3> QED
      BY <3>1, <3>2, <3>3
  <2>3. NothingWillBeSkipped'
    BY <1>5, <2>2 DEF ReadEntities, NothingWillBeSkipped
  <2> QED
    BY <2>1, <2>3
<1>6. CASE EntitiesDone
  BY <1>6 DEF EntitiesDone, NothingSkipped, NothingWillBeSkipped
<1>7. CASE ReadRelationships \/ RelationshipsDone \/ Restart
  BY <1>7 DEF ReadRelationships, RelationshipsDone, Restart, NothingSkipped, NothingWillBeSkipped
<1>8. ASSUME NEW e \in Entities, UpsertEntity(e)
      PROVE  NothingSkipped' /\ NothingWillBeSkipped'
  <2>1. Reached' = Reached /\ done' = done \cup Group(e) /\ merged' = merged \cup Group(e)
    BY <1>8, ReachedStays DEF UpsertEntity, CreateEntity
  <2> QED
    BY <1>8, <2>1 DEF UpsertEntity, NothingSkipped, NothingWillBeSkipped
<1>12. ASSUME NEW e \in Entities, EntityRefused(e)
       PROVE  NothingSkipped' /\ NothingWillBeSkipped'
  BY <1>12 DEF EntityRefused, StartOver, Abandon, NothingSkipped, NothingWillBeSkipped
<1>13. CASE MergeLost \/ \E e \in Entities : EntityLost(e)
  <2>1. PICK S : Dropped(S)
    BY <1>13 DEF MergeLost, EntityLost
  <2>2. UNCHANGED <<rows, graph, entAt, pass, batch, late, cooled>>
    BY <1>13 DEF MergeLost, EntityLost
  <2>3. Reached' = Reached
    BY <2>2, ReachedStays
  <2> QED
    BY <2>1, <2>2, <2>3 DEF Dropped, NothingSkipped, NothingWillBeSkipped
<1>9. ASSUME NEW r \in Rels, UpsertRelationship(r)
      PROVE  NothingSkipped' /\ NothingWillBeSkipped'
  BY <1>9 DEF UpsertRelationship, NextRelationship, MergeEdge, NothingSkipped, NothingWillBeSkipped
<1>10. CASE PassFails
  <2>1. merged \subseteq merged'
    BY <1>10 DEF PassFails, CreateEntity, MergeEdge
  <2> QED
    BY <1>10, <2>1 DEF PassFails, StartOver, Abandon, NothingSkipped, NothingWillBeSkipped
<1>11. CASE UNCHANGED vars
  BY <1>11, ReachedStays DEF vars, NothingSkipped, NothingWillBeSkipped
<1> QED
  BY <1>1, <1>2, <1>3, <1>4, <1>5, <1>6, <1>7, <1>8, <1>9, <1>10, <1>11, <1>12,
     <1>13 DEF Next, Materialize

-----------------------------------------------------------------------------
(* Counted once                                                            *)

CountInv == CountedOnce /\ CountedBehind

\* Nothing but times, checkpoints and failures that only grow.
LEMMA CountKeeps ==
    ASSUME TypeOK, CountInv, edge' = edge, relAt' = relAt, faults' \in Nat, faults' >= faults,
           \A r \in Rels : edge[r] > 0 => at'[r] = at[r],
           pass = "relationships" => pass' = pass /\ done \subseteq done'
    PROVE  CountInv'
<1>1. faults \in Nat /\ \A r \in Rels : edge[r] \in Nat
  BY DEF TypeOK
<1> QED
  BY <1>1 DEF CountInv, CountedOnce, CountedBehind

\* A pass that starts over has failed once more.
LEMMA CountFails ==
    ASSUME TypeOK, CountInv, faults' = faults + 1, relAt' = relAt, at' = at,
           edge' = edge \/ \E r \in Rels : r \in batch \ done /\ MergeEdge(r),
           pass = "relationships" \/ edge' = edge,
           \A r \in batch \ done : pass = "relationships" => at[r] > relAt
    PROVE  CountInv'
<1>1. faults \in Nat /\ relAt \in Nat /\ \A r \in Rels : edge[r] \in Nat /\ at[r] \in Nat
  BY DEF TypeOK, Items
<1>2. ASSUME NEW r \in Rels
      PROVE  edge'[r] <= 1 + faults
  <2>1. edge'[r] = edge[r] \/ (pass = "relationships" /\ r \in batch \ done /\ edge'[r] = edge[r] + 1)
    BY EdgeCounts
  <2>2. pass = "relationships" /\ r \in batch \ done => edge[r] <= faults
    BY <1>1 DEF CountInv, CountedBehind
  <2> QED
    BY <1>1, <2>1, <2>2 DEF CountInv, CountedOnce
<1>3. \A r \in Rels : edge'[r] \in Nat
  BY MergeEdgeTypes, <1>1
<1> QED
  BY <1>1, <1>2, <1>3 DEF CountInv, CountedOnce, CountedBehind

LEMMA CountStep ==
    ASSUME TypeOK, ReadNew, CountInv, [Next]_vars, TypeOK'
    PROVE  CountInv'
<1> USE DEF rows, graph, progress, history, Steps, Fault
<1>1. faults \in Nat /\ faults' \in Nat /\ relAt \in 0..clock /\ clock \in Nat /\ done \subseteq batch
  BY DEF TypeOK
<1>2. \A r \in Rels : at[r] \in Nat /\ edge[r] \in Nat
  BY DEF TypeOK, Items
<1>3. ASSUME NEW i \in Items, Insert(i)
      PROVE  CountInv'
  <2>1. phase[i] = "new"
    BY <1>3 DEF Insert
  <2>2. PICK t : at' = [at EXCEPT ![i] = t]
    BY <1>3 DEF Insert
  <2>3. \A r \in Rels : edge[r] > 0 => at'[r] = at[r]
    BY <2>1, <2>2 DEF TypeOK, ReadNew, Items
  <2> QED
    BY <1>1, <1>3, <2>3, CountKeeps DEF Insert
<1>4. ASSUME NEW i \in Items, Commit(i) \/ InsertFails(i)
      PROVE  CountInv'
  BY <1>1, <1>4, CountKeeps DEF Commit, InsertFails
<1>5. ASSUME NEW o \in Aging, Demote(o) \/ Promote(o)
      PROVE  CountInv'
  BY <1>1, <1>5, CountKeeps DEF Demote, Promote
<1>6. CASE ReadEntities \/ EntitiesDone \/ ReadRelationships
  BY <1>1, <1>6, CountKeeps DEF ReadEntities, EntitiesDone, ReadRelationships
<1>7. ASSUME NEW e \in Entities, UpsertEntity(e) \/ EntityRefused(e) \/ EntityLost(e)
      PROVE  CountInv'
  BY <1>1, <1>7, CountKeeps
  DEF UpsertEntity, EntityRefused, EntityLost, CreateEntity, StartOver, Abandon, NextEntity
<1>8. CASE MergeLost
  BY <1>1, <1>8, CountKeeps DEF MergeLost, Dropped
<1>9. CASE RelationshipsDone
  <2>1. Reached \in 0..clock /\ \A r \in batch : at[r] <= Reached
    BY <1>9, ReachedBounds DEF RelationshipsDone, ReadNew
  <2>2. \A r \in batch : r \in Rels /\ at[r] > relAt
    BY <1>9 DEF RelationshipsDone, ReadNew, TypeOK
  <2>3. PICK x \in batch : TRUE
    BY <1>9 DEF RelationshipsDone, ReadNew
  <2>4. relAt <= Reached
    BY <1>1, <1>2, <2>1, <2>2, <2>3
  <2>5. \A r \in Rels : edge[r] > faults => at[r] <= Reached
    BY <1>1, <1>2, <1>9, <2>1, <2>4 DEF RelationshipsDone, CountInv, CountedBehind
  <2> QED
    BY <1>9, <2>5 DEF RelationshipsDone, CountInv, CountedOnce, CountedBehind
<1>10. ASSUME NEW r \in Rels, UpsertRelationship(r)
       PROVE  CountInv'
  <2>1. /\ edge'[r] \in {edge[r], edge[r] + 1}
        /\ \A x \in Rels \ {r} : edge'[x] = edge[x]
    BY <1>10, EdgeCounts DEF UpsertRelationship
  <2>2. /\ pass = "relationships" /\ pass' = pass /\ done' = done \cup {r} /\ batch' = batch
        /\ r \in batch /\ r \notin done /\ at' = at /\ relAt' = relAt /\ faults' = faults
    BY <1>10 DEF UpsertRelationship, NextRelationship
  <2>3. edge[r] <= faults
    BY <1>1, <1>2, <2>2 DEF CountInv, CountedBehind, ReadNew
  <2>4. CountedOnce'
    BY <1>1, <1>2, <2>1, <2>2, <2>3 DEF CountInv, CountedOnce
  <2>5. CountedBehind'
    BY <2>1, <2>2 DEF CountInv, CountedBehind
  <2> QED
    BY <2>4, <2>5 DEF CountInv
<1>11. CASE PassFails
  <2>1. faults' = faults + 1 /\ relAt' = relAt /\ at' = at
    BY <1>11 DEF PassFails, StartOver, Abandon
  <2>2. edge' = edge \/ \E r \in Rels : NextRelationship(r) /\ MergeEdge(r)
    BY <1>11 DEF PassFails, CreateEntity
  <2>3. edge' = edge \/ \E r \in Rels : r \in batch \ done /\ MergeEdge(r)
    BY <2>2 DEF NextRelationship
  <2>4. pass = "relationships" \/ edge' = edge
    BY <2>2 DEF NextRelationship
  <2>5. \A r \in batch \ done : pass = "relationships" => at[r] > relAt
    BY DEF ReadNew
  <2> QED
    BY <2>1, <2>3, <2>4, <2>5, CountFails
<1>12. CASE Restart
  <2>1. faults' = faults + 1 /\ relAt' = relAt /\ at' = at /\ edge' = edge
    BY <1>12 DEF Restart
  <2>2. \A r \in batch \ done : pass = "relationships" => at[r] > relAt
    BY DEF ReadNew
  <2> QED
    BY <2>1, <2>2, CountFails
<1>13. CASE UNCHANGED vars
  BY <1>1, <1>13, CountKeeps DEF vars
<1> QED
  BY <1>3, <1>4, <1>5, <1>6, <1>7, <1>8, <1>9, <1>10, <1>11, <1>12, <1>13 DEF Next, Materialize

-----------------------------------------------------------------------------
\* The invariant of the feed: types, what was read, what the checkpoints have
\* behind them and counts.
THEOREM GraphCorrect == Spec => []FeedInv
<1>1. Init => FeedInv
  <2> SUFFICES ASSUME Init
               PROVE  FeedInv
    OBVIOUS
  <2>1. TypeOK
    BY TypeInit
  <2>2. ReadNew /\ NothingSkipped /\ NothingWillBeSkipped
    BY DEF Init, ReadNew, NothingSkipped, NothingWillBeSkipped, Items
  <2>3. CountedOnce /\ CountedBehind
    BY DEF Init, CountedOnce, CountedBehind
  <2> QED
    BY <2>1, <2>2, <2>3 DEF FeedInv
<1>2. FeedInv /\ [Next]_vars => FeedInv'
  <2> SUFFICES ASSUME FeedInv, [Next]_vars
               PROVE  FeedInv'
    OBVIOUS
  <2>1. TypeOK'
    BY TypeStep DEF FeedInv
  <2>2. ReadNew' /\ NothingSkipped' /\ NothingWillBeSkipped'
    BY <2>1, ReadNewStep, SkippedStep DEF FeedInv
  <2>3. CountedOnce' /\ CountedBehind'
    BY <2>1, CountStep DEF FeedInv, CountInv
  <2> QED
    BY <2>1, <2>2, <2>3 DEF FeedInv
<1> QED
  BY <1>1, <1>2, PTL DEF Spec

\* Type correctness: no checkpoint and no row is ahead of the clock, and a pass
\* works on rows of its own kind.
THEOREM GraphTypeCorrect == Spec => []TypeOK
<1>1. FeedInv => TypeOK
  BY DEF FeedInv
<1> QED
  BY <1>1, GraphCorrect, PTL

\* GraphMaterializer never leaves a committed hot observation unmerged behind its
\* checkpoint, but those that committed behind a pass or whose statement failed
\* while the pass went on.
THEOREM GraphNothingSkipped == Spec => []NothingSkipped
<1>1. FeedInv => NothingSkipped
  BY DEF FeedInv
<1> QED
  BY <1>1, GraphCorrect, PTL

\* An edge counts a relationship once, and once more for every failure.
THEOREM GraphCountedOnce == Spec => []CountedOnce
<1>1. FeedInv => CountedOnce
  BY DEF FeedInv
<1> QED
  BY <1>1, GraphCorrect, PTL
=============================================================================
