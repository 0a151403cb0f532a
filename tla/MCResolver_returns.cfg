\* One outage while a Connection is cached.
CONSTANTS
    u1 = u1
    Users = {u1}
    Goals = {g1}
    Reqs = {r1}
    Tasks = {t1}
    Quests = {q1}
    Owner <- OwnerOf
    Circumstances = {{"blip"}}
    None = None
SPECIFICATION FairSpec
PROPERTIES MongoReturns
