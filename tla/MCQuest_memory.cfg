\* Two users, two quests, four requests in the memory backend.
CONSTANTS
    Users = {u1, u2}
    Quests = {q1, q2}
    Reqs = {r1, r2, r3, r4}
    Backend = "memory"
    None = None
SYMMETRY Symmetry
SPECIFICATION Spec
INVARIANTS TypeOK SingleOutcome EventsHonest
PROPERTIES NoBranchOnSealed ContractHolds
