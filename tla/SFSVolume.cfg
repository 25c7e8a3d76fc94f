SPECIFICATION Spec
CONSTANTS
    Total = 24
    Region = 8
    PerAdmin = 1
    PerContainer = 2
    PerLog = 5
    MaxExtent = 1
    AlwaysFree = 1
    Headroom = 3
    Roving = 17
    MaxNode = 5
    Names = {a, b}
    HashOf <- OneChain
    Lengths = {0, 2}
    Kinds = {"write", "drawer", "remove", "rename", "protect", "comment"}
    MaxOps = 4
    MaxCrashes = 1
    MaxLost = 1
SYMMETRY Symmetry
INVARIANTS MediumIsSound
PROPERTIES ImplementsTree
CHECK_DEADLOCK FALSE
