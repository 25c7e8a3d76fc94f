SPECIFICATION SpecFiles
CONSTANTS
    Kinds = {"image", "attached"}
    Folders <- MCFolders
    Names = {"d", "e", "f"}
    Trees <- MCTrees
    Disc <- MCDisc
    Room = 6
    MaxRequests = 2
    MaxFaults = 1
    DiscPaths = {"a", "b"}
    DiscContents = {1, 2}
    MaxDiscs = 3
    MaxStaged = 4
    MaxFailures = 1
INVARIANTS SetIsKept
PROPERTIES OnlyNamedFilesGo KeepsItsPromise NotesFollow
CHECK_DEADLOCK FALSE
