SPECIFICATION QuerySpec
CONSTANTS
    Inputs <- MCInputs
    Patches <- MCPatches
    Workspaces <- MCWorkspaces
    Legacy <- MCLegacy
    DefaultHost = "github.com"
    MaxChanges = 5
    None = None
INVARIANT StatedIsInForce
CHECK_DEADLOCK FALSE
