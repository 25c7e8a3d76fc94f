CONSTANTS
    Containers = {"plain", "pair", "hfe", "scp"}
    MaxVersions = 4
    MaxTime = 9
    MaxCrashes = 1
    Drives = {d1, d2}
    Images = {i1}
    None = None
    Blocks = {1, 2}
    MaxSessions = 2
    MaxJobs = 2
    MaxEdits = 1
    MaxFaults = 1
SPECIFICATION SpecCopies
INVARIANTS CleanExportIsCurrent CopiesAreTrue
PROPERTIES PlainServedMatches
SYMMETRY Symmetry
CHECK_DEADLOCK FALSE
