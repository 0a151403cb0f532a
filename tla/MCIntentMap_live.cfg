\* No faults: snapshots are taken.
CONSTANTS
    Sessions = {s1}
    Reqs = {r1, r2, r3}
    Configurations <- Quiet
    None = None
SPECIFICATION FairSpec
PROPERTIES MilestoneReached
