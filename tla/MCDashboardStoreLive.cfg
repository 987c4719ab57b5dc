SPECIFICATION StoreSpec
CONSTANTS
    None = None
    Entry = Entry
    Full = full
    Colls = {c1, c2}
    Readers = {r1}
    Sources = {s1}
    Windows = {full, narrow}
    Owners <- MCOwners
    Datasets <- MCDatasets
    Filtered <- MCFiltered
    UntilSupported = FALSE
    MaxTokens = 0
    MaxListeners = 0
    MaxRunning = 2
PROPERTIES
    LoadingEnds
    ReadersAreAnswered
    DisposeCleansUp
CHECK_DEADLOCK FALSE
