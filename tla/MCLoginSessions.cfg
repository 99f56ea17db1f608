SPECIFICATION Spec
CONSTANTS
    Users = {"ann", "bob"}
    Browsers = {"b1", "b2"}
    Claims <- MCClaims
    Mappings <- MCMappings
    FlowTtl = 1
    SessionTtl = 2
    MaxLogins = 2
    MaxSessions = 2
    MaxChanges = 3
INVARIANTS TypeOK OneSessionPerLogin RoleRecentlyGiven
