SPECIFICATION PartsSpec
CONSTANTS
    None = None
    Panels = {p1, p2}
    Askers = {p1}
    Queries <- MCQueries
    FirstQuery <- MCFirstQuery
    MaxAsks = 2
    MaxRefreshes = 2
    MaxEvents = 3
    Targets = {t1, t2}
    FirstTarget = t1
    MaxTabEvents = 3
    MaxCommits = 2
    MaxNarrowings = 1
    Inputs <- MCInputs
    Patches <- MCPatches
    Workspaces <- MCWorkspaces
    Legacy <- MCLegacy
    DefaultHost = "github.com"
    MaxChanges = 5
    Addresses = {a1, a2}
    Values = {0, 1, 2}
    Presets <- MCPresets
    Coverages <- MCCoverages
    MaxEdits = 2
    MaxChanged = 2
    Raws <- MCRaws
    MaxRaws = 3
    Narrowings <- MCNarrowings
    Dims = {"runner", "label", "conclusion"}
    WindowFrom = 1
    WindowTo = 8
    CollectedAt = 8
    Width = 2
    TopRunners = 1
    FacetCap = 2
    HourLength = 3
    Clocks <- MCClocks
    JobRows <- MCJobRows
    MaxJobRows = 3
    Asks <- MCAsks
    LowerCase <- MCLowerCase
    SavedPicks <- MCSavedPicks
    Patterns <- MCPatterns
    MaxPicks = 1
    ListCap = 2
    Characters = {"a", "b", "/", "?"}
    Symbols = {"a", "/", "*", "?", "[ab]", "["}
    MaxName = 3
    MaxPattern = 3
INVARIANTS
    ChartsAreExact
    SelectionKeepsItsBucket
    FacetCountsAreGains
    FramesAreConsistent
    ShownIsOfTheToken
    IdlePanelsAreSettled
    SettledTabShowsTheRows
    TargetIsAsNamed
    SettingsAreOfTheTarget
    OverwritesAreAnnounced
    ListedRunsOpenOnAJob
    StatisticsAreOfTheirJobs
    OptionsDoWhatTheySay
    MatchedAsTheCLIMatches
PROPERTIES
    PanelImplementsBoard
    RowsNeverGoBack
CHECK_DEADLOCK FALSE
