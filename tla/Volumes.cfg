SPECIFICATION SpecVolumes
CONSTANTS
    Size = 7
    Names = {a, b}
    MaxLength = 2
    PerCache = 1
    Kinds = {"drawer", "new file", "replace", "protect", "remove", "rename", "defragment"}
    MaxOps = 4
    Reserved = 16
    DataBlocks = 3
    Threshold = 1
    AlwaysFree = 0
    PerDir = 2
    PerAnode = 4
    KeptAnodes = 1
    MaxSeq = 1
    CheckpointBlocks = 3
    Changes = {"write", "drawer", "remove", "rename", "protect", "comment"}
    MaxCrashes = 1
    MaxLost = 1
SYMMETRY Symmetry
INVARIANTS  NothingIsHarmed MediumIsSound
PROPERTIES  PFS3ImplementsTree
CHECK_DEADLOCK FALSE
