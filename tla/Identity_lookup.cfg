\* Two players, one of whom schema 3 knew, and administrators, one of whose
\* user names is the other's SteamID.
SPECIFICATION Spec
CONSTANTS
    ann = ann
    ANN = ANN
    s1 = s1
    s2 = s2
    i1 = i1
    i2 = i2
    Texts <- TheTexts
    Typed <- TheTexts
    Blank = Blank
    SteamIDs = {s1, s2}
    Usernames = {ann, ANN, s1}
    Names = {ann, s2}
    Fold <- InLowerCase
    PlayerIDs = {i1, i2}
    None = None
    IdsOf <- Shared
    Legacy = {a1}
    Accounts = {a1, a2}
    Requests = {r1, r2}
SYMMETRY Symmetry
INVARIANTS
    TypeOK
    LoginsReachTheirAccount
    SnapshotsApply
PROPERTIES
    OneAccountPerPlayer
    LoginsAreNotDiverted
CHECK_DEADLOCK FALSE
