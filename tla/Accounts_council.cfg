\* An empty database: two founders and one player who registers and may be
\* promoted, acting on each other.
SPECIFICATION Spec
CONSTANTS
    AdminNames = {ann, bob}
    Players = {new}
    Legacy = {}
    Tokens = {t1, t2}
    Requests = {r1, r2}
    NoAccount = NoAccount
    NoToken = NoToken
    MaxHash = 1
SYMMETRY Symmetry
INVARIANTS
    TypeOK
    AdmittedMeansApproved
    NeverAdmittedHasNoSession
    SetupHasAdmin
PROPERTIES
    ActiveAdminPersists
    SetupComesFirst
CHECK_DEADLOCK FALSE
