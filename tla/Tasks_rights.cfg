\* Two ids, so that one could be given twice; requests of two users whose
\* roles change under way.
SPECIFICATION Spec
CONSTANTS
    Users = {u1, u2}
    NoUser = NoUser
    Texts = {x}
    Unnamed = Unnamed
    Requests = {r1, r2}
    Operations = {"create", "get", "update", "delete"}
    Limits = {1}
    MaxTasks = 2
SYMMETRY Symmetry
INVARIANTS
    TypeOK
    AnswersAreForTheActor
PROPERTIES
    BoardSpec
    WritersManage
    UpdatesAreConfined
CHECK_DEADLOCK FALSE
