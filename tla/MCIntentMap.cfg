\* Every configuration, two sessions, three requests.
CONSTANTS
    Sessions = {s1, s2}
    Reqs = {r1, r2, r3}
    Configurations <- Everything
    None = None
SYMMETRY Symmetry
SPECIFICATION Spec
INVARIANTS AuditTrue AckedAudited PurgeErases OneHome
PROPERTIES KeepsNodes VersionNamesGraph
