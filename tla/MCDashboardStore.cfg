SPECIFICATION StoreSafety
CONSTANTS
    None = None
    Entry = Entry
    Full = full
    Colls = {c1, c2}
    Readers = {r1}
    Sources = {s1, s2}
    Windows = {full, narrow}
    Owners <- MCOwners
    Datasets <- MCDatasets
    Filtered <- MCFiltered
    UntilSupported = TRUE
    MaxTokens = 1
    MaxListeners = 0
    MaxRunning = 2
SYMMETRY Symmetry
INVARIANTS
    CommittedDataIsCurrent
    ReadersGetTheirSource
    OwnersAreActive
    HeldIsReadable
PROPERTIES
    DatasetSafety
CHECK_DEADLOCK FALSE
