\* Dashboards that only query their base view.
CONSTANTS
    Dashboards = {"d1"}
    Filters = {"f1"}
    Sources = {"s1"}
    Tables <- ViewTables
    Ttls = {2}
    MaxTtl = 2
    Buffer = 1
    MaxGen = 3
    Versions = {1}
    Raises = FALSE
    SavesFail = FALSE
    Crashes = FALSE

SPECIFICATION Spec

INVARIANT ReloadInvalidates

CHECK_DEADLOCK FALSE
