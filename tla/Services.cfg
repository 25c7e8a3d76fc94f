SPECIFICATION SpecServices
CONSTANTS
    o1 = o1
    o2 = o2
    Operations = {o1, o2}
    Units = 2
    MaxCrashes = 2
    Releases = {1, 2, 3}
    Installable = {1, 2}
    PackageBlocks = 1
    MaxUpdates = 4
    Drives = {d1, d2}
    MaxRuns = 2
    MaxEdits = 1
INVARIANTS ReportsAgree StateIsTheThread  
PROPERTIES CancelEnds UpdateEnds DriveComesBack
CHECK_DEADLOCK FALSE
