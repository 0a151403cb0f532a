\* Two quests of one user, one goal, two requests to the resolver.
CONSTANTS
    u1 = u1
    Users = {u1}
    Goals = {g1}
    Reqs = {r1, r2}
    Tasks = {t1, t2}
    Quests = {q1, q2}
    Callers = {c1}
    Owner <- OwnerOf
    Circumstances = {{"provider"}}
    None = None
SPECIFICATION FairLoopSpec
INVARIANTS PolarityTrue
PROPERTIES BridgeAnswers
