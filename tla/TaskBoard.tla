------------------------------ MODULE TaskBoard ------------------------------
(***************************************************************************)
(* What the tasks promise, as if a request were one step on the table.     *)
(*                                                                         *)
(* An actor acts by the role it had when it arrived. Whether it may write  *)
(* a task is decided on the task that is there at the very instant of the  *)
(* write, and what it is told is visible to it at an instant before its    *)
(* answer. Ids are given out in order and never again. Whose a task is     *)
(* does not change; what it says does, and status and stamp together.      *)
(* In an action, what it leaves alone comes first: TLC decides by that.    *)
(***************************************************************************)
EXTENDS Naturals

CONSTANTS Users, NoUser, Texts, Requests, MaxTasks

VARIABLES
    role,   \* per user
    board,  \* per id: the task, or NoTask
    given,  \* the largest id given out
    actor   \* per request: who acts, how far it is, and what it is told

bvars == <<role, board, given, actor>>

Ids == 1..MaxTasks
NoTask == [exists |-> FALSE]

Saying(owner, visibility, text, status) ==
    [exists |-> TRUE, owner |-> owner, creator |-> owner,
     visibility |-> visibility, text |-> text, status |-> status,
     completedAt |-> status = "completed"]
Ownerless == {Saying(NoUser, "shared", text, status) :
                text \in Texts, status \in {"pending", "completed"}}

Actor(stage, user, admin, told) ==
    [stage |-> stage, user |-> user, admin |-> admin, told |-> told]
Nothing == [i \in {} |-> i]
Gone == Actor("idle", NoUser, FALSE, Nothing)

Whose(row) == [owner |-> row.owner, visibility |-> row.visibility]
Sees(a, row) ==
    row.exists /\ (row.visibility = "shared" \/ row.owner = a.user \/ a.admin)
Manages(a, row) ==
    /\ row.exists
    /\ \/ a.admin
       \/ a.user = IF row.visibility = "shared" THEN row.creator ELSE row.owner

Init ==
    /\ role \in [Users -> {"player", "admin"}]
    /\ given \in 0..MaxTasks
    /\ board \in [Ids -> Ownerless \cup {NoTask}]
    /\ \A i \in Ids : i > given => board[i] = NoTask
    /\ actor = [r \in Requests |-> Gone]

Becomes(r, a) == actor' = [actor EXCEPT ![r] = a]
Telling(a, page) == Actor("answered", a.user, a.admin, page)

Arrive(r, user) ==
    /\ UNCHANGED <<role, board, given>>
    /\ actor[r].stage = "idle"
    /\ Becomes(r, Actor("acting", user, role[user] = "admin", Nothing))

Leave(r) ==
    /\ UNCHANGED <<role, board, given>>
    /\ actor[r].stage # "idle"
    /\ Becomes(r, Gone)

Tell(r, ids) ==
    /\ UNCHANGED <<role, board, given>>
    /\ actor[r].stage = "acting"
    /\ \A i \in ids : Sees(actor[r], board[i])
    /\ Becomes(r, Telling(actor[r], [i \in ids |-> Whose(board[i])]))

Post(r, visibility, text) ==
    /\ UNCHANGED role
    /\ actor[r].stage = "acting" /\ given + 1 \in Ids
    /\ given' = given + 1
    /\ board' = [board EXCEPT ![given + 1] =
                   Saying(actor[r].user, visibility, text, "pending")]
    /\ Becomes(r, Gone)

Edit(r, i, text, status) ==
    /\ UNCHANGED <<role, given>>
    /\ actor[r].stage = "acting" /\ Manages(actor[r], board[i])
    /\ board' = [board EXCEPT ![i].text = text, ![i].status = status,
                              ![i].completedAt = status = "completed"]
    /\ Becomes(r, Telling(actor[r], [j \in {i} |-> Whose(board[i])]))

Remove(r, i) ==
    /\ UNCHANGED <<role, given>>
    /\ actor[r].stage = "acting" /\ Manages(actor[r], board[i])
    /\ board' = [board EXCEPT ![i] = NoTask]
    /\ Becomes(r, Gone)

SetRole(user) ==
    /\ UNCHANGED <<board, given, actor>>
    /\ \E new \in {"player", "admin"} : role' = [role EXCEPT ![user] = new]

Restart ==
    /\ UNCHANGED <<role, board, given>>
    /\ actor' = [r \in Requests |-> Gone]

Writes(r) ==
    \/ \E visibility \in {"personal", "shared"}, text \in Texts :
         Post(r, visibility, text)
    \/ \E i \in Ids : \/ Remove(r, i)
                      \/ \E text \in Texts, status \in {"pending", "completed"} :
                           Edit(r, i, text, status)

Next ==
    \/ Restart
    \/ \E user \in Users : SetRole(user)
    \/ \E r \in Requests :
         \/ Leave(r)
         \/ \E user \in Users : Arrive(r, user)
         \/ \E ids \in SUBSET Ids : Tell(r, ids)
         \/ Writes(r)

Spec == Init /\ [][Next]_bvars

=============================================================================
