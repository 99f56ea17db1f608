\* The user changes a filter and pages while answers are on their way.
CONSTANTS
    None = None
    Identifiers <- NamesOfFile
    Tables <- SalesTables
    Numbers <- NumberTexts
    Rank <- Ranks
    Like <- Matching
    Now = 9
    MaxExport = 3
    Files <- CleanFiles
    Urls <- PlainUrl
    Clicks <- FewClicks
    RowLimits = {1}
    Table = "table"
    PageSize = 1
    MaxRequests = 3
    MaxCached = 0
    MaxFaults = 0
    Impatient = TRUE

SPECIFICATION Spec

INVARIANT ViewFollowsFilters

CHECK_DEADLOCK FALSE
