SPECIFICATION SpecMedia
CONSTANTS
    PerCylinder = 4
    MaxCylinders = 7
    RoomFor = 3
    Segments = 2
    WipeBlocks = 12
    Names = {"DH0", "DH1", "DH2"}
    Largest <- MCLargest
    Sizes = {0, 5}
    Kinds = {"create", "volume", "add", "remove", "format", "rename", "extend", "embed"}
    MaxOps = 2
    Offered <- OfferedFiles
    MaxVersion = 1
    Tracks = 2
    MaxJobs = 2
    MaxRevisions = 1
    Paths = {1, 2, 3, 4}
    Edited = 1
    NewDrawer = 4
    Layers <- MCLayers
    Packs <- MCPacks
    Disks <- MCDisks
    Piles <- MCPiles
    Program = {2, 3}
    Faults <- MCFaults
    MaxRoom = 3
    BatchFiles = 2
    BankSize = 2
    Base = 4
    Signature <- MCSignature
    Roms <- MCRoms
    Data <- MCData
    Chips = {2}
    Clients = {1, 2}
INVARIANTS RepairedIsSound
CHECK_DEADLOCK FALSE
