SPECIFICATION BackendSpec
CONSTANTS
    None = None
    Panels = {p1, p2}
    Signatures = {s1, s2}
    MaxEntries = 1
    MaxObjects = 2
    MaxColls = 3
    MaxRowTokens = 1
    Identities = {i1, i2}
    MaxCalls = 3
    MaxRestarts = 1
    Torn = Torn
    SearchCap = 2
    Second = 2
    DayLength = 4
    Days = 3
    Cutoff = 8
    TTL = 4
    Windows <- MCWindows
    Limits = {0, 1, 3}
    MaxRuns = 3
    Failures = {2}
    Unfailing = 20
    Unwritable <- MCUnwritable
    MaxListings = 2
    Words <- MCWords
    Groups = {"1", "7", "9"}
    Default = "1"
    Isolated = "9"
    Unknown = "0"
    LabelPrefix <- MCPrefix
    MaxCommands = 6
    Calls = {k1, k2}
    Probes = {q1, q2}
    Secondary = 2
    MaxTime = 5
    MaxTokens = 2
    ListedRuns <- MCRuns
    Collections <- MCCollections
    LateJobs <- MCLate
    MaxCollections = 2
    CollectedFrom = 0
    CollectedTo = 4
    StepAsks <- MCStepAsks
    RowAsks <- MCRowAsks
    DefaultBudget = 1
    MaxBudget = 2
    MinRows = 1
    MaxRowsHeld = 3
    ProjectionAsks <- MCProjectionAsks
    RunnerNames <- MCNames
    MinProjected = 1
    MaxProjected = 3
    Rankings <- MCRankings
    Needles = {{2}, {1, 3}}
    SortColumns = {"runner", "time"}
    PageSize = 1
    MaxProjections = 2
    MaxRequests = 3
    Outputs <- MCOutputs
    Logs <- MCLogs
    RowCap = 2
    Collectors = {c1, c2}
    Kits <- MCKits
    Requests <- MCRequests
INVARIANTS
    IdentityNamesItsRows
    RowsAreOfTheToken
    OnlyTheNeededIsKept
    DiskFollowsCache
    ListingIsExact
    NoRunnerIsLost
    PauseIsKept
    NewTokenIsNotBlocked
    ReadingsAreExact
    TableIsOfItsRequest
    StreamsAreExact
    CollectionsAreAccountedFor
PROPERTIES
    RowsArrive
    CallsAreAnswered
CHECK_DEADLOCK FALSE
