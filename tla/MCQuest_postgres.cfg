\* Three requests against Postgres: what the foreign key and DELETE secure, and what
\* fair handlers announce. No symmetry: a liveness property is checked.
CONSTANTS
    Users = {u1, u2}
    Quests = {q1, q2}
    Reqs = {r1, r2, r3}
    Backend = "postgres"
    None = None
SPECIFICATION FairSpec
INVARIANTS SameOwner LiveParents
PROPERTIES PurgeIsFinal OutcomeAnnounced
