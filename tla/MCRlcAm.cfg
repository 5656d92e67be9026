SPECIFICATION Spec
CONSTANTS
    SNMod = 4
    U16 = 16
    WindowSize = 2
    MaxRetxThreshold = 1
    MaxTxBufferSize = 2
    MaxDataField = 2
    SduLen <- WrapSduLen
    MaxLag = 2
    MaxLoss = 1
    MaxDup = 1
INVARIANTS
    TypeOK
    InOrderDelivery
    NothingLost
    HeldDataKeepsBsrTimer
    NoFalseAck
    WindowsAgree
    AssertionsHold
PROPERTIES
    RetxCountKept
CHECK_DEADLOCK FALSE
