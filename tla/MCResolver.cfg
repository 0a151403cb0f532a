\* Three requests and an outcome, with and without outages of Mongo.
CONSTANTS
    u1 = u1
    Users = {u1, u2}
    Goals = {g1, g2}
    Reqs = {r1, r2, r3}
    Tasks = {t1, t2}
    Quests = {q1}
    Owner <- OwnerOf
    Circumstances = {{"blip", "provider", "crash"}, {"provider", "crash"}}
    None = None
SYMMETRY Symmetry
SPECIFICATION Spec
INVARIANTS CorrelationOwn VectorStored
PROPERTIES NoResurrection
