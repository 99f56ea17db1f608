\* Sources are registered, removed and refreshed and a dashboard is edited; loads and files
\* fail and the process crashes.
CONSTANTS
    Sources = {"s1", "s2"}
    Kinds = {"file"}
    Dashboards = {"d1"}
    Defs <- EditedDefs
    MaxRuns = 3
    Removals = TRUE
    LoadsMayFail = TRUE
    FilesMayFail = TRUE
    MarkerMayFail = FALSE
    MaxCrashes = 1

SPECIFICATION FairSpec

INVARIANTS
    TypeOK
    OneGeneration
    ViewsServed

PROPERTIES
    EveryoneAnswered
    RefreshIsInvisible

CHECK_DEADLOCK FALSE
