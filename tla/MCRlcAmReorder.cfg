SPECIFICATION Spec
CONSTANTS
    SNMod = 8
    U16 = 16
    WindowSize = 4
    MaxRetxThreshold = 1
    MaxTxBufferSize = 0
    MaxDataField = 1
    SduLen <- OneSduLen
    MaxLag = 4
    MaxLoss = 0
    MaxDup = 1
CONSTRAINT
    OnlyFirstTransmissions
INVARIANTS
    NoGapIsForgotten
PROPERTIES
    VrMsNeverMovesBack
CHECK_DEADLOCK FALSE
