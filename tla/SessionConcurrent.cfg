CONSTANTS
    r1 = r1
    r2 = r2
    r3 = r3
    Requests = {r1, r2, r3}
    EmulatorRun = EmulatorRun
    Kinds = {"edit", "prepare", "undo", "name", "drop", "restore", "boot", "install"}
    AutoLimit = 1
    Serial = FALSE
    MaxCrashes = 1
SPECIFICATION Spec
INVARIANTS FinishedWithinLimit 
SYMMETRY AnyRequest
CHECK_DEADLOCK FALSE
