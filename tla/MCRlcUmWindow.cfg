SPECIFICATION FairSpec
CONSTANTS
    SNMod = 6
    U16 = 12
    WindowSize = 3
    MaxTxBufferSize = 3
    MaxDataField = 2
    SduLen <- SplitSduLen
    MaxPerInstant = 1
    MaxLag = 3
    MaxTrouble = 1
    MaxRestart = 1
INVARIANTS
    WholeSdusAreKept
    GapKeepsReorderingTimer
PROPERTIES
    BufferedPdusLeave
CHECK_DEADLOCK FALSE
