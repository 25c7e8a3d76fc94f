SPECIFICATION SpecWorkspace
CONSTANTS
    Places = {"root", "drawer"}
    Names = {"f", "g"}
    MaxLoads = 2
    MaxCuts = 1
    MaxPastes = 2
    Files = {"f", "g"}
    MaxTexts = 2
    MaxAsked = 3
    Offsets = {0, 1}
    Values = {0, 1}
    MaxWrites = 2
    MaxEdits = 2
    MaxReads = 2
   
PROPERTIES StagedOverItsVersion
CHECK_DEADLOCK FALSE
