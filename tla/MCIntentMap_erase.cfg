\* One client; the snapshot task outlives the purge.
CONSTANTS
    Sessions = {s1}
    Reqs = {r1, r2, r3}
    Configurations <- Patient
    None = None
SYMMETRY Symmetry
SPECIFICATION Spec
INVARIANTS Erased
