\* One client and an outage.
CONSTANTS
    Sessions = {s1}
    Reqs = {r1, r2, r3}
    Configurations <- Outage
    None = None
SYMMETRY Symmetry
SPECIFICATION Spec
PROPERTIES NothingLost
