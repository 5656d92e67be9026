SPECIFICATION Spec
CONSTANTS
    SNMod = 4
    U16 = 16
    WindowSize = 2
    MaxTxBufferSize = 3
    MaxDataField = 2
    SduLen <- ShortSduLen
    MaxPerInstant = 2
    MaxLag = 4
    MaxTrouble = 1
    MaxRestart = 0
INVARIANTS
    StrandedSduIsLost
CHECK_DEADLOCK FALSE
