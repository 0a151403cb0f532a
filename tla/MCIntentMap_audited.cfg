\* A query fails after the graph is stored.
CONSTANTS
    Sessions = {s1}
    Reqs = {r1, r2, r3}
    Configurations <- Refusals
    None = None
SYMMETRY Symmetry
SPECIFICATION Spec
INVARIANTS MutationsAudited
