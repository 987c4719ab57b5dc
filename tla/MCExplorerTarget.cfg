SPECIFICATION TabSpec
CONSTANTS
    Targets = {t1, t2}
    FirstTarget = t1
    MaxTabEvents = 4
    MaxCommits = 2
    MaxNarrowings = 1
    None = None
INVARIANT RowsAreOfTheTarget
CHECK_DEADLOCK FALSE
