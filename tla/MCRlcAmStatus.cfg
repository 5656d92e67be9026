SPECIFICATION Spec
CONSTANTS
    SNMod = 4
    U16 = 16
    WindowSize = 2
    MaxRetxThreshold = 2
    MaxTxBufferSize = 2
    MaxDataField = 2
    SduLen <- ShortSduLen
    MaxLag = 2
    MaxLoss = 0
    MaxDup = 0
INVARIANTS
    PendingStatusIsAdvertised
CHECK_DEADLOCK FALSE
