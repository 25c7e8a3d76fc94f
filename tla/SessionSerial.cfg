CONSTANTS
    r1 = r1
    r2 = r2
    r3 = r3
    r4 = r4
    Requests = {r1, r2, r3, r4}
    EmulatorRun = EmulatorRun
    Kinds = {"edit", "prepare", "restore", "undo", "name", "drop", "boot", "install"}
    AutoLimit = 2
    Serial = TRUE
    MaxCrashes = 1
SPECIFICATION SpecSerial
INVARIANTS CleanMeansSaved HandoffCanBeUndone
PROPERTIES EmulatorOwnsImage AcknowledgedChangeSurvives ImplementsHistory
SYMMETRY AnyRequest
CHECK_DEADLOCK FALSE
