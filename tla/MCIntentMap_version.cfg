\* Concurrent appends: the version goes back.
CONSTANTS
    Sessions = {s1}
    Reqs = {r1, r2, r3}
    Configurations <- Quick
    None = None
SYMMETRY Symmetry
SPECIFICATION Spec
PROPERTIES VersionMonotone
