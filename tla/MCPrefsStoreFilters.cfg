SPECIFICATION PrefsSafety
CONSTANTS
    Identities = {t1, t2}
    MaxCalls = 3
    MaxRestarts = 0
    None = None
    Torn = Torn
PROPERTIES
    OthersKeepTheirFilters
CHECK_DEADLOCK FALSE
