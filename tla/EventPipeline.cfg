CONSTANTS
    Events = {e1, e2, e3, e4}
    Users = {u1, u2}
    Audiences = {{u1, u2}}
    Threads = {t1, t2}
    Core = 1
    QueueCapacity = 1
    MaxCrashes = 1
SPECIFICATION FairSpec
INVARIANTS TypeOK AllOrNothing PushedOnlyStored
PROPERTIES KeepsPromise StoredIsPushed
CHECK_DEADLOCK FALSE
