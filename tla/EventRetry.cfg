CONSTANTS
    Events = {e1}
    Users = {u1}
    Audiences = {{u1}}
    Threads = {t1}
    Core = 1
    QueueCapacity = 1
    MaxCrashes = 0
SPECIFICATION FairSpec
PROPERTY FailedIsRetried
CHECK_DEADLOCK FALSE
