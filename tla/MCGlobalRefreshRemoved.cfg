\* Data sources are removed between refreshes.
CONSTANTS
    Sources = {"s1", "s2"}
    Kinds = {"file"}
    Dashboards = {"d1"}
    Defs <- EditedDefs
    MaxRuns = 4
    Removals = TRUE
    LoadsMayFail = FALSE
    FilesMayFail = FALSE
    MarkerMayFail = FALSE
    MaxCrashes = 0

SPECIFICATION Spec

INVARIANT RemovedStaysRemoved

CHECK_DEADLOCK FALSE
