SPECIFICATION FairSpec
CONSTANTS
    NumHarqProcess = 2
    MaxRv = 1
    MaxData = 1
    SrTransMax = 2
    MaxDelay = 1
    MaxTrouble = 1
INVARIANTS
    TypeOK
    AssertionsHold
    NoMixedCombining
    DataStaysUnderHarq
    NothingTwice
PROPERTIES
    BacklogServed
    HarqProcessesEnd
    WastedGrantsEnd
CHECK_DEADLOCK FALSE
