\* A list of two tasks, its two queries apart, and another request that
\* writes.
SPECIFICATION Spec
CONSTANTS
    Users = {u1}
    NoUser = NoUser
    Texts = {x}
    Unnamed = Unnamed
    Requests = {r1, r2}
    Operations = {"create", "list", "update", "delete"}
    Limits = {1, 2}
    MaxTasks = 2
SYMMETRY Symmetry
INVARIANTS
    TotalFitsPage
CHECK_DEADLOCK FALSE
