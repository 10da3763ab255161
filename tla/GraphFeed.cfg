SPECIFICATION Spec
CONSTANTS
    person = person
    firm = firm
    ann = ann
    acme = acme
    name = name
    role = role
    seat = seat
    works = works
    Entities = {person, firm}
    Obs = {name, role, seat}
    Rels = {works}
    Of <- MCOf
    Slugs = {ann, acme}
    Slug <- MCSlug
    Ends <- MCEnds
    Writes <- MCWrites
    Aging = {role}
    MaxFaults = 1
CHECK_DEADLOCK FALSE
INVARIANTS NothingSkipped CountedOnce
PROPERTIES Materialized RelationshipLinked
