\* The repository changes between the goal and its vector.
CONSTANTS
    u1 = u1
    Users = {u1}
    Goals = {g1}
    Reqs = {r1}
    Tasks = {t1}
    Quests = {q1}
    Owner <- OwnerOf
    Circumstances = {{"blip"}}
    None = None
SYMMETRY Symmetry
SPECIFICATION Spec
INVARIANTS VectorKept
