SPECIFICATION FairSpec
CONSTANTS
    SetIds = {"default", "x"}
    Autos = {"disabled", "odd"}
    Wanted <- MCWanted
    Refused = {"@daily"}
    Servers = {"env", "new"}
    EnvServer = "env"
    Targets = {"s1"}
    Bodies <- MCBodies
    Cuts = {0, 3}
    MaxRequests = 3
    MaxStops = 1
INVARIANTS TypeOK SavedAsServed NoStaleSyslog RedisFollows ActiveRegistered RegistryAsTold ActivationSurvives
CHECK_DEADLOCK FALSE
PROPERTIES SchedulerFollows
