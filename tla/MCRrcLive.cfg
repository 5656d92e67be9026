SPECIFICATION FairSpec
CONSTANTS
    None = None
    u1 = u1
    u2 = u2
    g1 = g1
    g2 = g2
    Ue <- OneUe
    Gnb <- TwoGnbs
    MaxRnti = 7
    MaxSession = 4
    RachAttemptsLimit = 2
    ConnEstFailCount = 1
    Bounds <- ThereAndBack
    MaxTrouble = 1
PROPERTIES
    UesConnect
    ContextsEnd
CHECK_DEADLOCK FALSE
