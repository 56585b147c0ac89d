-------------------------------- MODULE Tasks --------------------------------
(***************************************************************************)
(* The shared and personal tasks: internal/tasks behind the handlers of    *)
(* internal/httpapi/api.go.                                                *)
(*                                                                         *)
(* A request is several steps on the database: requireUser reads who asks  *)
(* and with which role, GetVisible or the counting query reads the table,  *)
(* and a later statement writes by id alone or reads the page. Every       *)
(* statement is one step (one connection, no transaction spans two).       *)
(*                                                                         *)
(* Title, notes and sort order are one value, "text". Of the completion    *)
(* stamp only its presence is kept. Owners' names and the order within a   *)
(* status are presentation and left out.                                   *)
(***************************************************************************)
EXTENDS Integers, FiniteSets

CONSTANTS
    Users,       \* accounts; an inactive one does not pass requireUser
    NoUser,      \* NULL in owner_id and created_by
    Texts,       \* what title, notes and sort order say
    Unnamed,     \* a nil field of an UpdateInput
    Requests,    \* HTTP requests in flight
    Operations,  \* which of the handlers the requests use
    Limits,      \* page sizes asked for, 1..100 in the code
    MaxTasks     \* bound: ids that AUTOINCREMENT hands out

Handlers == {"create", "get", "list", "update", "delete"}

ASSUME TasksAssumption ==
    /\ NoUser \notin Users
    /\ Unnamed \notin Texts \cup {"pending", "completed"}
    /\ Operations \subseteq Handlers
    /\ Limits \subseteq Nat \ {0}
    /\ MaxTasks \in Nat

VARIABLES
    role,    \* users.role, changed by administrators at any time
    task,    \* the table tasks, a row or NoTask per id
    lastId,  \* sqlite_sequence: the largest id ever given to a task
    req      \* per request: its stage and what it has read

vars == <<role, task, lastId, req>>

-----------------------------------------------------------------------------
(* Rows and requests *)

Ids == 1..MaxTasks
Statuses == {"pending", "completed"}
Filters == Statuses \cup {"all"}
Scopes == {"visible", "mine", "shared", "admin"}
Visibilities == {"personal", "shared"}

NoTask == [exists |-> FALSE]
TaskRow == [exists : {TRUE}, owner : Users \cup {NoUser},
            creator : Users \cup {NoUser}, visibility : Visibilities,
            text : Texts, status : Statuses, completedAt : BOOLEAN]
TaskRows == TaskRow \cup {NoTask}

(* What remains of a row in an answer: whose task it is.                   *)
Whose(row) == [owner |-> row.owner, visibility |-> row.visibility]
Shown == [owner : Users \cup {NoUser}, visibility : Visibilities]
Pages == UNION {[ids -> Shown] : ids \in SUBSET Ids}

(* "admin" is the role requireUser read; "touched" is history: what others *)
(* have written of what the request last read, the id or the whole table.  *)
Idle == [pc |-> "idle", op |-> "get", actor |-> NoUser, admin |-> FALSE,
         id |-> 0, row |-> NoTask, scope |-> "visible", filter |-> "all",
         limit |-> 0, total |-> 0, page |-> [i \in {} |-> i],
         touched |-> {}]
Stages == {"idle", "authenticated", "read", "counted", "answering"}
Request == [pc : Stages, op : Handlers, actor : Users \cup {NoUser},
            admin : BOOLEAN, id : 0..MaxTasks, row : TaskRows,
            scope : Scopes, filter : Filters, limit : Limits \cup {0},
            total : 0..MaxTasks, page : Pages, touched : SUBSET Ids]

(* A table of schema 3 or later: tasks of schema 1 belong to nobody and    *)
(* were made shared by migration 3.                                        *)
LegacyRow(text, status) ==
    [exists |-> TRUE, owner |-> NoUser, creator |-> NoUser,
     visibility |-> "shared", text |-> text, status |-> status,
     completedAt |-> status = "completed"]

Init ==
    /\ role \in [Users -> {"player", "admin"}]
    /\ \/ /\ lastId = 0
          /\ task = [i \in Ids |-> NoTask]
       \/ /\ MaxTasks > 0 /\ lastId = 1
          /\ \E text \in Texts, status \in Statuses :
               task = [i \in Ids |-> IF i = 1 THEN LegacyRow(text, status)
                                              ELSE NoTask]
    /\ req = [r \in Requests |-> Idle]

-----------------------------------------------------------------------------
(* Who may see and manage what *)

(* The condition of GetVisible.                                            *)
(* Mutant: the unscoped Get of the same service.                           *)
VisibleByIdAlone(row, actor, admin) == row.exists
Visible(row, actor, admin) ==
    row.exists /\ (row.visibility = "shared" \/ row.owner = actor \/ admin)

(* CanManage, set by enrich.                                               *)
(* Mutant: a visible shared task may be managed.                           *)
CanManageShared(row, actor, admin) ==
    \/ admin
    \/ row.visibility = "personal" /\ row.owner = actor
    \/ row.visibility = "shared"
CanManage(row, actor, admin) ==
    \/ admin
    \/ row.visibility = "personal" /\ row.owner = actor
    \/ row.visibility = "shared" /\ row.creator = actor

(* The condition of scopeWhere, for a request with its scope and filter.   *)
InScope(row, request) ==
    /\ row.exists
    /\ CASE request.scope = "mine" -> row.owner = request.actor
         [] request.scope = "shared" -> row.visibility = "shared"
         [] request.scope = "visible" ->
              row.visibility = "shared" \/ row.owner = request.actor
         [] OTHER -> request.admin
    /\ request.filter \in {"all", row.status}
Matching(request) == {i \in Ids : InScope(task[i], request)}

-----------------------------------------------------------------------------
(* The stages of a request *)

Leaves(r) == req' = [req EXCEPT ![r] = Idle]

(* A write of task i, seen by the requests that have read it or counted.   *)
Concerns(request, i) ==
    request.pc = "counted" \/ (request.pc = "read" /\ request.id = i)
WritesAndMoves(r, i, next) ==
    req' = [s \in Requests |->
              IF s = r THEN next
              ELSE IF Concerns(req[s], i)
              THEN [req[s] EXCEPT !.touched = @ \cup {i}]
              ELSE req[s]]

(* requireUser: the session, the account and its role are read once.       *)
Authenticate(r, user, op) ==
    /\ req[r].pc = "idle"
    /\ req' = [req EXCEPT ![r] = [Idle EXCEPT
                 !.pc = "authenticated", !.op = op, !.actor = user,
                 !.admin = role[user] = "admin"]]
    /\ UNCHANGED <<role, task, lastId>>

(* The next id of an AUTOINCREMENT column.                                 *)
(* Mutant: a plain INTEGER PRIMARY KEY, one more than the largest in use.  *)
NextIdOfRows ==
    CHOOSE i \in 1..(MaxTasks + 1) :
        /\ \A j \in Ids : j >= i => ~task[j].exists
        /\ i = 1 \/ task[i - 1].exists
NextId == lastId + 1

NewRow(user, visibility, text) ==
    [exists |-> TRUE, owner |-> user, creator |-> user,
     visibility |-> visibility, text |-> text, status |-> "pending",
     completedAt |-> FALSE]

(* CreateOwned. Mutant: the sequence is not advanced.                      *)
CreateLosesSequence(r, visibility, text) ==
    /\ req[r].pc = "authenticated" /\ req[r].op = "create"
    /\ NextId \in Ids
    /\ task' = [task EXCEPT ![NextId] = NewRow(req[r].actor, visibility, text)]
    /\ WritesAndMoves(r, NextId, Idle)
    /\ UNCHANGED <<role, lastId>>
Create(r, visibility, text) ==
    /\ req[r].pc = "authenticated" /\ req[r].op = "create"
    /\ NextId \in Ids
    /\ task' = [task EXCEPT ![NextId] = NewRow(req[r].actor, visibility, text)]
    /\ lastId' = NextId
    /\ WritesAndMoves(r, NextId, Idle)
    /\ UNCHANGED role

(* GetVisible, for a request that only shows the task ...                  *)
Get(r, i) ==
    /\ req[r].pc = "authenticated" /\ req[r].op = "get"
    /\ Visible(task[i], req[r].actor, req[r].admin)
    /\ req' = [req EXCEPT ![r].pc = "answering",
                          ![r].page = [j \in {i} |-> Whose(task[i])]]
    /\ UNCHANGED <<role, task, lastId>>

(* ... and for one that goes on to write it.                               *)
ReadToWrite(r, i) ==
    /\ req[r].pc = "authenticated" /\ req[r].op \in {"update", "delete"}
    /\ Visible(task[i], req[r].actor, req[r].admin)
    /\ CanManage(task[i], req[r].actor, req[r].admin)
    /\ req' = [req EXCEPT ![r].pc = "read", ![r].id = i, ![r].row = task[i]]
    /\ UNCHANGED <<role, task, lastId>>

(* UpdateInput: at least one field is named.                               *)
Inputs == {input \in [text : Texts \cup {Unnamed},
                      status : Statuses \cup {Unnamed}] :
             input.text # Unnamed \/ input.status # Unnamed}

TextAfter(row, input) == IF input.text = Unnamed THEN row.text ELSE input.text
(* Mutant: a status that is not named is set to its default.               *)
StatusOrDefault(row, input) ==
    IF input.status = Unnamed THEN "pending" ELSE input.status
StatusAfter(row, input) ==
    IF input.status = Unnamed THEN row.status ELSE input.status
(* The stamp is set or cleared when the status differs from the one read.  *)
(* Mutant: reopening a task leaves its stamp.                              *)
StampKept(row, input) ==
    row.completedAt \/ StatusAfter(row, input) = "completed"
StampAfter(row, input) ==
    IF StatusAfter(row, input) = row.status THEN row.completedAt
    ELSE StatusAfter(row, input) = "completed"

(* Repository.Update: every editable column is written from the row that   *)
(* was read, changed by the input; owner, creator and visibility are not.  *)
Update(r, input) ==
    /\ req[r].pc = "read" /\ req[r].op = "update"
    /\ task[req[r].id].exists
    /\ task' = [task EXCEPT
         ![req[r].id].text = TextAfter(req[r].row, input),
         ![req[r].id].status = StatusAfter(req[r].row, input),
         ![req[r].id].completedAt = StampAfter(req[r].row, input)]
    /\ WritesAndMoves(r, req[r].id,
         [Idle EXCEPT !.pc = "answering", !.op = "update",
            !.actor = req[r].actor, !.admin = req[r].admin,
            !.page = [j \in {req[r].id} |-> Whose(req[r].row)]])
    /\ UNCHANGED <<role, lastId>>

Delete(r) ==
    /\ req[r].pc = "read" /\ req[r].op = "delete"
    /\ task[req[r].id].exists
    /\ task' = [task EXCEPT ![req[r].id] = NoTask]
    /\ WritesAndMoves(r, req[r].id, Idle)
    /\ UNCHANGED <<role, lastId>>

(* ListVisible: the total by one query ...                                 *)
ListCount(r, scope, filter, limit) ==
    /\ req[r].pc = "authenticated" /\ req[r].op = "list"
    /\ scope = "admin" => req[r].admin
    /\ LET asked == [req[r] EXCEPT !.pc = "counted", !.scope = scope,
                                   !.filter = filter, !.limit = limit]
       IN req' = [req EXCEPT
                    ![r] = [asked EXCEPT !.total = Cardinality(Matching(asked))]]
    /\ UNCHANGED <<role, task, lastId>>

(* ... and the page by another: pending tasks come first.                  *)
(* Mutant: the page ignores the filter.                                    *)
PageCandidatesUnfiltered(r) == Matching([req[r] EXCEPT !.filter = "all"])
PageCandidates(r) == Matching(req[r])

Smaller(m, n) == IF m < n THEN m ELSE n

ListPage(r, ids) ==
    /\ req[r].pc = "counted"
    /\ ids \subseteq PageCandidates(r)
    /\ Cardinality(ids)
         = Smaller(req[r].limit, Cardinality(PageCandidates(r)))
    /\ (\E i \in ids : task[i].status = "completed")
         => \A i \in PageCandidates(r) \ ids : task[i].status = "completed"
    /\ req' = [req EXCEPT ![r].pc = "answering",
                          ![r].page = [i \in ids |-> Whose(task[i])],
                          ![r].scope = Idle.scope, ![r].filter = Idle.filter]
    /\ UNCHANGED <<role, task, lastId>>

(* An answer is sent; or the request ends early: no such task, no right to *)
(* it, input that is refused, a task deleted meanwhile, a client gone.     *)
Ends(r) ==
    /\ req[r].pc # "idle"
    /\ Leaves(r)
    /\ UNCHANGED <<role, task, lastId>>

-----------------------------------------------------------------------------
(* The world around *)

(* An administrator changes a role (SetRole, in Accounts).                 *)
SetRole(user) ==
    /\ \E new \in {"player", "admin"} \ {role[user]} :
         role' = [role EXCEPT ![user] = new]
    /\ UNCHANGED <<task, lastId, req>>

Restart ==
    /\ req' = [r \in Requests |-> Idle]
    /\ UNCHANGED <<role, task, lastId>>

-----------------------------------------------------------------------------

Step(r) ==
    \/ \E user \in Users, op \in Operations : Authenticate(r, user, op)
    \/ \E visibility \in Visibilities, text \in Texts :
         Create(r, visibility, text)
    \/ \E i \in Ids : Get(r, i) \/ ReadToWrite(r, i)
    \/ \E input \in Inputs : Update(r, input)
    \/ Delete(r)
    \/ \E scope \in Scopes, filter \in Filters, limit \in Limits :
         ListCount(r, scope, filter, limit)
    \/ \E ids \in SUBSET Ids : ListPage(r, ids)
    \/ Ends(r)

Next ==
    \/ \E r \in Requests : Step(r)
    \/ \E user \in Users : SetRole(user)
    \/ Restart

Spec == Init /\ [][Next]_vars

-----------------------------------------------------------------------------
(* Properties *)

(* Table and requests keep their shapes, and no id above the sequence is   *)
(* in use.                                                                 *)
TypeOK ==
    /\ role \in [Users -> {"player", "admin"}]
    /\ task \in [Ids -> TaskRows]
    /\ lastId \in 0..MaxTasks
    /\ req \in [Requests -> Request]
    /\ \A i \in Ids : i > lastId => ~task[i].exists

(* A task is completed exactly when it carries a completion stamp, however *)
(* updates that read it in different states overwrite each other.          *)
CompletionAgrees ==
    \A i \in Ids :
        task[i].exists
          => (task[i].status = "completed" <=> task[i].completedAt)

(* An id stands for one task for good: while it exists it keeps its owner, *)
(* creator and visibility, and once it is gone neither a late update nor a *)
(* later create brings it back. Requests check the rights on one read and  *)
(* write by id alone, so everything rests on this.                         *)
IdsAreForGood ==
    [][\A i \in Ids :
         /\ task[i].exists /\ task'[i].exists
              => /\ task'[i].owner = task[i].owner
                 /\ task'[i].creator = task[i].creator
                 /\ task'[i].visibility = task[i].visibility
         /\ i <= lastId /\ ~task[i].exists => ~task'[i].exists]_vars

Responsible(row) ==
    IF row.visibility = "personal" THEN row.owner ELSE row.creator

(* A task is rewritten or deleted only by a request whose actor is the     *)
(* owner of the personal task or the creator of the shared task that is    *)
(* there now - not merely of the one it had read - or was an administrator *)
(* when authenticated.                                                     *)
WritersManage ==
    [][\A i \in Ids :
         task[i].exists /\ task'[i] # task[i]
           => \E r \in Requests :
                /\ req[r].pc = "read" /\ req[r].id = i
                /\ req[r].admin \/ Responsible(task[i]) = req[r].actor]_vars

(* An answer shows a personal task to its owner and to whoever was an      *)
(* administrator when authenticated, and the task an id in it names is     *)
(* still the same or gone when the answer is sent.                         *)
AnswersAreForTheActor ==
    \A r \in Requests :
        req[r].pc = "answering" =>
          \A i \in DOMAIN req[r].page :
            /\ \/ req[r].page[i].visibility = "shared"
               \/ req[r].page[i].owner = req[r].actor
               \/ req[r].admin
            /\ task[i].exists => req[r].page[i] = Whose(task[i])

(* How far the total and the page of a list may part: by the tasks others  *)
(* have written between the two queries, and without such a write not at   *)
(* all (up to the limit).                                                  *)
TotalFitsPage ==
    \A r \in Requests :
        req[r].pc = "answering" /\ req[r].op = "list" =>
          LET shown == Cardinality(DOMAIN req[r].page)
              counted == Smaller(req[r].limit, req[r].total)
              parted == Cardinality(req[r].touched)
          IN shown <= counted + parted /\ counted <= shown + parted

KeepsUnnamed(i, input) ==
    /\ input.text = Unnamed => task'[i].text = task[i].text
    /\ input.status = Unnamed => /\ task'[i].status = task[i].status
                                 /\ task'[i].completedAt = task[i].completedAt

(* How far a lost update goes: an update leaves what it does not name as   *)
(* it is, unless another request has written the same task since this one  *)
(* read it.                                                                *)
UpdatesAreConfined ==
    [][\A r \in Requests, input \in Inputs :
         Update(r, input) /\ req[r].id \notin req[r].touched
           => KeepsUnnamed(req[r].id, input)]_vars

(* Tasks implements TaskBoard. Reading and counting are acting: a request  *)
(* that checks rights on one read and writes by id later has the effect of *)
(* one that checks and writes at once, on the task that is there.          *)
ActorStage(pc) ==
    CASE pc = "idle" -> "idle"
      [] pc = "answering" -> "answered"
      [] OTHER -> "acting"
ActorFor(q) == [stage |-> ActorStage(q.pc), user |-> q.actor,
                admin |-> q.admin, told |-> q.page]
Actors == [r \in Requests |-> ActorFor(req[r])]
Board == INSTANCE TaskBoard WITH board <- task, given <- lastId, actor <- Actors
BoardSpec == Board!Spec

=============================================================================
