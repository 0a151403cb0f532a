CONSTANTS
    Users = {u1}
    Quests = {q1, q2}
    Reqs = {r1, r2, r3}
    Backend = "memory"
    None = None
SYMMETRY Symmetry
SPECIFICATION Spec
INVARIANT ParentResolved
