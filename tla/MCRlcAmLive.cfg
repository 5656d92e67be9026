SPECIFICATION FairSpec
CONSTANTS
    SNMod = 4
    U16 = 16
    WindowSize = 2
    MaxRetxThreshold = 1
    MaxTxBufferSize = 0
    MaxDataField = 1
    SduLen <- ShortSduLen
    MaxLag = 2
    MaxLoss = 1
    MaxDup = 0
PROPERTIES
    ImplementsService
    SenderDrains
CHECK_DEADLOCK FALSE
