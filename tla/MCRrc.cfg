SPECIFICATION Spec
CONSTANTS
    None = None
    u1 = u1
    u2 = u2
    g1 = g1
    g2 = g2
    Ue <- TwoUes
    Gnb <- TwoGnbs
    MaxRnti = 5
    MaxSession = 4
    RachAttemptsLimit = 1
    ConnEstFailCount = 1
    Bounds <- OneOfEach
    MaxTrouble = 1
SYMMETRY
    Symmetry
INVARIANTS
    TypeOK
    TimersMatchState
    ExcludedAbort
    HandoverJoinsOneUe
    OneContextServes
    DownlinkReachesUe
CHECK_DEADLOCK FALSE
