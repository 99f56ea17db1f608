\* Requests beside refreshes, restarts, flushes and failures; widgets show the source.
CONSTANTS
    Dashboards = {"d1"}
    Filters = {"f1"}
    Sources = {"s1"}
    Tables <- ShownTables
    Ttls = {0, 2}
    MaxTtl = 2
    Buffer = 1
    MaxGen = 3
    Versions = {1, 2}
    Raises = TRUE
    SavesFail = TRUE
    Crashes = TRUE

SPECIFICATION Spec

INVARIANTS
    TypeOK
    FreshAfterRefresh
    FreshDefinition
    CoveredByIndex

CHECK_DEADLOCK FALSE
