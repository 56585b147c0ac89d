\* A login to an account without a password.
SPECIFICATION Spec
CONSTANTS
    AdminNames = {root}
    Players = {old}
    Legacy = {old}
    Tokens = {t1, t2}
    Requests = {r1, r2}
    NoAccount = NoAccount
    NoToken = NoToken
    MaxHash = 2
SYMMETRY Symmetry
INVARIANTS
    LoginNeedsPassword
CHECK_DEADLOCK FALSE
