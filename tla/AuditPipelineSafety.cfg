\* Full queues, failed inserts, crashes and a second process.
CONSTANTS
    QueueSize = 2
    BatchSize = 2
    MaxRecords = 4
    MaxStarts = 2
    DbMayFail = TRUE
    Crashes = TRUE

SPECIFICATION FairSpec

INVARIANTS
    TypeOK
    InOrder
    Accounted
    DrainedAtEnd

PROPERTY Flushed

CHECK_DEADLOCK FALSE
