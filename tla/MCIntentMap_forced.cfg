\* MEMORY_BACKEND=mongo and no server.
CONSTANTS
    Sessions = {s1}
    Reqs = {r1, r2, r3}
    Configurations <- Outage
    None = None
SYMMETRY Symmetry
SPECIFICATION Spec
PROPERTIES ReadsTrue
