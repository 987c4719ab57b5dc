SPECIFICATION CordonSpec
CONSTANTS
    Words <- MCRenamed
    Groups = {"1", "7", "9"}
    Default = "1"
    Isolated = "9"
    Unknown = "0"
    LabelPrefix <- MCPrefix
    MaxCommands = 2
    None = None
INVARIANTS
    UncordonReverses
CHECK_DEADLOCK FALSE
