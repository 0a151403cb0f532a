\* The flag of the connection changes between the goal and the erasure.
CONSTANTS
    Users = {u1}
    Calls = {c1, c2}
    Texts = {"a", "b"}
    Near <- NearPairs
    Documents = {}
    Settings = {{"outages"}}
    None = None
SPECIFICATION Spec
INVARIANTS AllErased
CHECK_DEADLOCK FALSE
