SPECIFICATION StoreSafety
CONSTANTS
    None = None
    Entry = Entry
    Full = full
    Colls = {c1, c2, c3}
    Readers = {r1}
    Sources = {s1}
    Windows = {full, narrow}
    Owners <- MCOwners
    Datasets <- MCDatasets
    Filtered <- MCFiltered
    UntilSupported = TRUE
    MaxTokens = 0
    MaxListeners = 0
    MaxRunning = 2
SYMMETRY Symmetry
INVARIANTS
    ReadersGetTheirWindow
CHECK_DEADLOCK FALSE
