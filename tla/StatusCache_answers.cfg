\* Two summaries that queue for both mutexes, loads that may take longer
\* than the metrics live; no symmetry, for liveness.
SPECIFICATION FairSpec
CONSTANTS
    Callers = {c1, c2}
    TTL <- Lives
    Timeout = 1
    MaxTime = 3
INVARIANTS
    TypeOK
    StampIsHonest
    LiveIsRecent
PROPERTIES
    GaugesSpec
    CallersAreServed
CHECK_DEADLOCK FALSE
