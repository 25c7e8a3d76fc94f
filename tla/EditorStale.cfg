SPECIFICATION EditorSpec
CONSTANTS
    Files = {"f"}
    MaxTexts = 2
    MaxAsked = 3
PROPERTIES StaleCheckHolds
CHECK_DEADLOCK FALSE
