\* A user who waits for answers; links with and without a pinned filter.
CONSTANTS
    None = None
    Identifiers <- NamesOfFile
    Tables <- SalesTables
    Numbers <- NumberTexts
    Rank <- Ranks
    Like <- Matching
    Now = 9
    MaxExport = 2
    Files <- SalesFiles
    Urls <- Links
    Clicks <- UserClicks
    RowLimits = {1, 2}
    Table = "table"
    PageSize = 1
    MaxRequests = 4
    MaxCached = 1
    MaxFaults = 1
    Impatient = FALSE

SPECIFICATION Spec

INVARIANTS
    TypeOK
    FiltersApply
    WidgetMapBacked
    ViewFollowsFilters
    PagingComplete
    
    OneButtonPerGroup

CHECK_DEADLOCK FALSE
