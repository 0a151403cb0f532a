CONSTANTS
    Users = {u1}
    Quests = {q1, q2}
    Reqs = {r1, r2, r3, r4}
    Backend = "postgres"
    None = None
SYMMETRY Symmetry
SPECIFICATION Spec
INVARIANT EventsHonest
