----------------------------- MODULE MCGraphFeed -----------------------------
(***************************************************************************)
(* Two entities, one of them observed twice, and a relationship by slugs   *)
(* whose writer has inserted an observation of both before.                *)
(***************************************************************************)
EXTENDS GraphFeed

CONSTANTS person, firm, ann, acme, name, role, seat, works

MCOf == [o \in Obs |-> IF o = seat THEN firm ELSE person]
MCSlug == [e \in Entities |-> IF e = firm THEN acme ELSE ann]
MCEnds == [r \in Rels |-> {ann, acme}]
MCWrites == [r \in Rels |-> {name, seat}]
=============================================================================
