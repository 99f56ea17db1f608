\* A link that pins a filter; the user waits for answers.
CONSTANTS
    None = None
    Identifiers <- NamesOfFile
    Tables <- SalesTables
    Numbers <- NumberTexts
    Rank <- Ranks
    Like <- Matching
    Now = 9
    MaxExport = 3
    Files <- CleanFiles
    Urls <- Links
    Clicks <- FewClicks
    RowLimits = {1}
    Table = "table"
    PageSize = 1
    MaxRequests = 3
    MaxCached = 0
    MaxFaults = 0
    Impatient = FALSE

SPECIFICATION Spec

INVARIANT PinsHold

CHECK_DEADLOCK FALSE
