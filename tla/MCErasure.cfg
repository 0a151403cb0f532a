\* Two users, three requests of any kind.
CONSTANTS
    Users = {u1, u2}
    Calls = {c1, c2, c3}
    Texts = {"a", "b", "c"}
    Near <- NearPairs
    Documents <- Chunks
    Settings = {{"outages"}, {"pgvector", "provider", "noPostgres"}, {"pgvector", "crash"}}
    None = None
SYMMETRY Symmetry
SPECIFICATION Spec
INVARIANTS NoTwins ReportedOnce ErasedWhenAnswered ExportComplete
PROPERTIES ProfileLast
CHECK_DEADLOCK FALSE
