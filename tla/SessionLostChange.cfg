CONSTANTS
    r1 = r1
    r2 = r2
    Requests = {r1, r2}
    EmulatorRun = EmulatorRun
    Kinds = {"edit"}
    AutoLimit = 2
    Serial = FALSE
    MaxCrashes = 0
SPECIFICATION Spec
PROPERTY AcknowledgedChangeSurvives
CHECK_DEADLOCK FALSE
