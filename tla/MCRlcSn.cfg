SPECIFICATION Spec
CONSTANTS
    SNMod = 1024
    U16 = 65536
    Edge <- Edges
INVARIANTS
    OrderedFromTheBase
    MinusUndoesPlus
CHECK_DEADLOCK FALSE
