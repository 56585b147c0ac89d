\* One player who is renamed while registering, two callers that queue for
\* the mutex, a clock that reaches a slow refresh, a cooldown and the
\* refresh after it; no symmetry, for liveness.
SPECIFICATION FairSpec
CONSTANTS
    Users = {u1}
    Names = {n1, n2}
    Callers = {c1, c2}
    TTL = 1
    Timeout = 1
    MaxTime = 3
INVARIANTS
    TypeOK
    KnownIsOneSnapshot
    KnownIsRecent
    NameFollowsRoster
PROPERTIES
    CallersAreServed
    RefreshesAreSpaced
    PresenceSpec
CHECK_DEADLOCK FALSE
