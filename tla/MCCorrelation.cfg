\* Every tree of three goals, cosines of 0.4, 0.8 and 1.0, thresholds of 0, 0.32 and 0.64.
CONSTANTS
    g1 = g1
    g2 = g2
    g3 = g3
    Listed <- ThreeGoals
    Absent = Absent
    Top = 125
    Discount <- FourFifths
    Scores = {50, 100, 125}
    Weights = {1, 2}
    MinScores = {0, 40, 80}
    TopK = 2
    None = None
SPECIFICATION Spec
INVARIANTS WorthTrue RankingTrue WalkEnds
CHECK_DEADLOCK FALSE
