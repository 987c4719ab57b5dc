SPECIFICATION StoreSafety
CONSTANTS
    None = None
    Entry = Entry
    Full = full
    Colls = {c1, c2, c3, c4}
    Readers = {}
    Sources = {s1}
    Windows = {full}
    Owners <- MCOwners
    Datasets <- MCDatasets
    Filtered <- MCFiltered
    UntilSupported = TRUE
    MaxTokens = 0
    MaxListeners = 2
    MaxRunning = 2
SYMMETRY Symmetry
INVARIANTS
    ArmedTimerIsLive
PROPERTIES
    RetryKeepsWindow
CHECK_DEADLOCK FALSE
