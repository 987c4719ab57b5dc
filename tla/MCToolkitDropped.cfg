SPECIFICATION KitSpec
CONSTANTS
    None = None
    Outputs <- MCOutputs
    Logs <- MCLogs
    RowCap = 2
    Collectors = {c1, c2}
    Kits <- MCKits
    Requests <- MCRequests
INVARIANT DroppedFiltersAreReported
CHECK_DEADLOCK FALSE
