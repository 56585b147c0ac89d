\* A login that is overtaken by the revocation of its account's sessions.
SPECIFICATION Spec
CONSTANTS
    AdminNames = {root}
    Players = {new}
    Legacy = {}
    Tokens = {t1, t2}
    Requests = {r1, r2}
    NoAccount = NoAccount
    NoToken = NoToken
    MaxHash = 2
SYMMETRY Symmetry
INVARIANTS
    RevocationIsFinal
CHECK_DEADLOCK FALSE
