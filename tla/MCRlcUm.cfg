SPECIFICATION Spec
CONSTANTS
    SNMod = 4
    U16 = 16
    WindowSize = 2
    MaxTxBufferSize = 3
    MaxDataField = 2
    SduLen <- MixedSduLen
    MaxPerInstant = 2
    MaxLag = 4
    MaxTrouble = 1
    MaxRestart = 1
INVARIANTS
    TypeOK
    SdusDelivered
    ExactlyNewPdusArePlaced
PROPERTIES
    ReportGoesOn
CHECK_DEADLOCK FALSE
