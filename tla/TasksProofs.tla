----------------------------- MODULE TasksProofs -----------------------------
(***************************************************************************)
(* Proofs about Tasks, for all users, texts, requests and page sizes and   *)
(* every number of ids.                                                    *)
(***************************************************************************)
EXTENDS Tasks, FiniteSetTheorems, TLAPS

(* Tables and requests are compared before and after a step, so what is    *)
(* said of a request q takes the table t and the sequence l as parameters. *)

SameTask(row, other) ==
    /\ row.owner = other.owner /\ row.creator = other.creator
    /\ row.visibility = other.visibility

Stamped(row) == row.status = "completed" <=> row.completedAt = TRUE

(* Between its read and its write a request knows whose task it is about   *)
(* to write, and all of the task unless another has written it.            *)
ReadOK(q, t, l) ==
    q.pc = "read" =>
        /\ q.id \in Ids /\ q.id <= l
        /\ q.row \in TaskRow /\ Stamped(q.row)
        /\ CanManage(q.row, q.actor, q.admin)
        /\ t[q.id].exists => SameTask(t[q.id], q.row)
        /\ t[q.id].exists /\ q.id \notin q.touched => t[q.id] = q.row

(* The total was the number of a set that still agrees with the scope on   *)
(* every id nobody has written.                                            *)
CountedOK(q, t) ==
    q.pc = "counted" =>
        /\ q.op = "list" /\ q.limit \in Limits
        /\ \E counted \in SUBSET Ids :
             /\ Cardinality(counted) = q.total
             /\ \A i \in Ids \ q.touched :
                  i \in counted <=> InScope(t[i], q)

AnswerOK(q, t, l) ==
    q.pc = "answering" =>
        \A i \in DOMAIN q.page :
            /\ i <= l
            /\ \/ q.page[i].visibility = "shared"
               \/ q.page[i].owner = q.actor
               \/ q.admin
            /\ t[i].exists => q.page[i] = Whose(t[i])

Fits(q) ==
    LET shown == Cardinality(DOMAIN q.page)
        counted == Smaller(q.limit, q.total)
        parted == Cardinality(q.touched)
    IN shown <= counted + parted /\ counted <= shown + parted

RequestOK(q, t, l) ==
    /\ ReadOK(q, t, l) /\ CountedOK(q, t) /\ AnswerOK(q, t, l)
    /\ q.pc = "answering" /\ q.op = "list" => Fits(q)

TasksInv ==
    /\ TypeOK
    /\ CompletionAgrees
    /\ \A r \in Requests : RequestOK(req[r], task, lastId)

-----------------------------------------------------------------------------
(* Values *)

LEMMA NoPage ==
    /\ [i \in {} |-> i] \in Pages
    /\ DOMAIN [i \in {} |-> i] = {}
  <1>1. [i \in {} |-> i] \in [{} -> Shown]
    OBVIOUS
  <1> QED BY <1>1 DEF Pages

LEMMA IdleIsRequest ==
    ASSUME NEW t, NEW l
    PROVE  Idle \in Request /\ Idle.pc = "idle" /\ RequestOK(Idle, t, l)
  <1>1. 0 \in 0..MaxTasks
    BY TasksAssumption
  <1>2. Idle \in Request
    BY <1>1, NoPage
       DEF Idle, Request, Stages, Handlers, TaskRows, Scopes, Filters
  <1>3. Idle.pc = "idle"
    BY DEF Idle
  <1> QED BY <1>2, <1>3 DEF RequestOK, ReadOK, CountedOK, AnswerOK

(* A row that exists has every column, and no row is not one.              *)
LEMMA RowValue ==
    ASSUME NEW row \in TaskRows
    PROVE  /\ row.exists => row \in TaskRow
           /\ ~row.exists => row = NoTask
           /\ row \in TaskRow => row.exists = TRUE /\ Whose(row) \in Shown
  <1>1. CASE row = NoTask
    <2>1. row.exists = FALSE
      BY <1>1 DEF NoTask
    <2> QED BY <2>1, <1>1 DEF TaskRow
  <1>2. CASE row \in TaskRow
    BY <1>2 DEF TaskRow, Whose, Shown
  <1> QED BY <1>1, <1>2 DEF TaskRows

LEMMA FiniteIds ==
    /\ IsFiniteSet(Ids) /\ Cardinality(Ids) = MaxTasks
    /\ \A S \in SUBSET Ids : /\ IsFiniteSet(S)
                             /\ Cardinality(S) \in 0..MaxTasks
  <1>1. IsFiniteSet(Ids) /\ Cardinality(Ids) = MaxTasks
    BY FS_Interval, TasksAssumption DEF Ids
  <1>2. ASSUME NEW S \in SUBSET Ids
        PROVE  IsFiniteSet(S) /\ Cardinality(S) \in 0..MaxTasks
    <2>1. IsFiniteSet(S) /\ Cardinality(S) <= MaxTasks
      BY <1>1, FS_Subset
    <2> QED BY <2>1, FS_CardinalityType, TasksAssumption
  <1> QED BY <1>1, <1>2

(* Sets that agree outside a third differ in size by at most its size.     *)
LEMMA AgreeOutside ==
    ASSUME NEW A \in SUBSET Ids, NEW B \in SUBSET Ids, NEW D \in SUBSET Ids,
           \A i \in Ids \ D : i \in A <=> i \in B
    PROVE  Cardinality(A) <= Cardinality(B) + Cardinality(D)
  <1>1. A \subseteq B \cup D /\ B \cup D \subseteq Ids
    OBVIOUS
  <1>2. Cardinality(A) <= Cardinality(B \cup D)
    BY <1>1, FS_Subset, FiniteIds
  <1>3. /\ Cardinality(B \cup D)
             = Cardinality(B) + Cardinality(D) - Cardinality(B \cap D)
        /\ Cardinality(A) \in Nat /\ Cardinality(B) \in Nat
        /\ Cardinality(D) \in Nat /\ Cardinality(B \cap D) \in Nat
    <2>1. /\ IsFiniteSet(A) /\ IsFiniteSet(B) /\ IsFiniteSet(D)
          /\ IsFiniteSet(B \cap D)
      BY FiniteIds
    <2> QED BY <2>1, FS_Union, FS_CardinalityType
  <1> QED BY <1>2, <1>3

-----------------------------------------------------------------------------
(* Steps that write no task *)

Quiet(r, q) ==
    /\ req' = [req EXCEPT ![r] = q]
    /\ q \in Request /\ RequestOK(q, task, lastId)
    /\ UNCHANGED <<role, task, lastId>>

LEMMA AuthenticateIsQuiet ==
    ASSUME TasksInv, NEW r \in Requests, NEW user \in Users,
           NEW op \in Operations, Authenticate(r, user, op)
    PROVE  \E q : Quiet(r, q) /\ q.pc = "authenticated"
  <1> DEFINE q == [Idle EXCEPT !.pc = "authenticated", !.op = op,
                               !.actor = user, !.admin = role[user] = "admin"]
  <1>1. Idle \in Request /\ op \in Handlers
    BY IdleIsRequest, TasksAssumption
  <1>2. q \in Request /\ q.pc = "authenticated"
    BY <1>1 DEF Request, Stages
  <1>3. RequestOK(q, task, lastId)
    BY <1>2 DEF RequestOK, ReadOK, CountedOK, AnswerOK
  <1>4. req' = [req EXCEPT ![r] = q] /\ UNCHANGED <<role, task, lastId>>
    BY DEF Authenticate
  <1> HIDE DEF q
  <1> QED BY <1>2, <1>3, <1>4 DEF Quiet

LEMMA RowsOfTable ==
    ASSUME TasksInv, NEW i \in Ids, task[i].exists
    PROVE  /\ task[i] \in TaskRow /\ Whose(task[i]) \in Shown
           /\ Stamped(task[i]) /\ i <= lastId
  <1>1. task[i] \in TaskRows
    BY DEF TasksInv, TypeOK
  <1>2. task[i] \in TaskRow /\ Whose(task[i]) \in Shown
    BY <1>1, RowValue
  <1>3. Stamped(task[i])
    BY <1>2 DEF TasksInv, CompletionAgrees, Stamped, TaskRow
  <1>4. i <= lastId
    BY DEF TasksInv, TypeOK, Ids
  <1> QED BY <1>2, <1>3, <1>4

LEMMA GetIsQuiet ==
    ASSUME TasksInv, NEW r \in Requests, NEW i \in Ids, Get(r, i)
    PROVE  \E q : Quiet(r, q) /\ q.pc = "answering"
  <1> DEFINE page == [j \in {i} |-> Whose(task[i])]
             q == [req[r] EXCEPT !.pc = "answering", !.page = page]
  <1>1. req[r] \in Request /\ req[r].op = "get" /\ task[i].exists
    BY DEF TasksInv, TypeOK, Get, Visible
  <1>2. Whose(task[i]) \in Shown /\ i <= lastId
    BY <1>1, RowsOfTable
  <1>3. page \in [{i} -> Shown] /\ {i} \in SUBSET Ids
    BY <1>2
  <1>4. page \in Pages
    BY <1>3 DEF Pages
  <1>5. /\ q \in Request /\ q.pc = "answering" /\ q.op = "get"
        /\ q.page = page /\ q.actor = req[r].actor /\ q.admin = req[r].admin
    BY <1>1, <1>4 DEF Request, Stages
  <1>6. AnswerOK(q, task, lastId)
    <2>1. DOMAIN page = {i} /\ page[i] = Whose(task[i])
      OBVIOUS
    <2>2. Whose(task[i]).visibility = task[i].visibility
          /\ Whose(task[i]).owner = task[i].owner
      BY DEF Whose
    <2>3. \/ task[i].visibility = "shared" \/ task[i].owner = req[r].actor
          \/ req[r].admin
      BY DEF Get, Visible
    <2> HIDE DEF page, q
    <2> QED BY <1>2, <1>5, <2>1, <2>2, <2>3 DEF AnswerOK
  <1>7. req' = [req EXCEPT ![r] = q] /\ UNCHANGED <<role, task, lastId>>
    BY DEF Get
  <1> HIDE DEF q
  <1>8. RequestOK(q, task, lastId)
    BY <1>5, <1>6 DEF RequestOK, ReadOK, CountedOK
  <1> QED BY <1>5, <1>7, <1>8 DEF Quiet

LEMMA ReadToWriteIsQuiet ==
    ASSUME TasksInv, NEW r \in Requests, NEW i \in Ids, ReadToWrite(r, i)
    PROVE  \E q : Quiet(r, q)
  <1> DEFINE q == [req[r] EXCEPT !.pc = "read", !.id = i, !.row = task[i]]
  <1>1. req[r] \in Request /\ task[i].exists
    BY DEF TasksInv, TypeOK, ReadToWrite, Visible
  <1>2. task[i] \in TaskRow /\ Stamped(task[i]) /\ i <= lastId
    BY <1>1, RowsOfTable
  <1>3. /\ q \in Request /\ q.pc = "read" /\ q.id = i /\ q.row = task[i]
        /\ q.actor = req[r].actor /\ q.admin = req[r].admin
    <2>1. i \in 0..MaxTasks /\ task[i] \in TaskRows
      BY <1>2, TasksAssumption DEF Ids, TaskRows
    <2> QED BY <1>1, <2>1 DEF Request, Stages
  <1>4. CanManage(task[i], req[r].actor, req[r].admin)
    BY DEF ReadToWrite
  <1>5. req' = [req EXCEPT ![r] = q] /\ UNCHANGED <<role, task, lastId>>
    BY DEF ReadToWrite
  <1> HIDE DEF q
  <1>6. ReadOK(q, task, lastId)
    BY <1>2, <1>3, <1>4 DEF ReadOK, SameTask
  <1>7. RequestOK(q, task, lastId)
    BY <1>3, <1>6 DEF RequestOK, CountedOK, AnswerOK
  <1> QED BY <1>3, <1>5, <1>7 DEF Quiet

LEMMA ListCountIsQuiet ==
    ASSUME TasksInv, NEW r \in Requests, NEW scope \in Scopes,
           NEW filter \in Filters, NEW limit \in Limits,
           ListCount(r, scope, filter, limit)
    PROVE  \E q : Quiet(r, q)
  <1> DEFINE asked == [req[r] EXCEPT !.pc = "counted", !.scope = scope,
                                     !.filter = filter, !.limit = limit]
             counted == Matching(asked)
             q == [asked EXCEPT !.total = Cardinality(counted)]
  <1>1. req[r] \in Request /\ req[r].op = "list"
    BY DEF TasksInv, TypeOK, ListCount
  <1>2. /\ asked \in Request /\ asked.pc = "counted" /\ asked.op = "list"
        /\ asked.limit = limit
    BY <1>1 DEF Request, Stages
  <1>3. req' = [req EXCEPT ![r] = q] /\ UNCHANGED <<role, task, lastId>>
    BY DEF ListCount
  <1>4. counted \in SUBSET Ids /\ Cardinality(counted) \in 0..MaxTasks
    <2>1. counted \in SUBSET Ids
      BY DEF Matching
    <2> QED BY <2>1, FiniteIds
  <1>5. \A i \in Ids : i \in counted <=> InScope(task[i], asked)
    BY DEF Matching
  <1> HIDE DEF counted, asked
  <1>6. /\ q \in Request /\ q.pc = "counted" /\ q.op = "list"
        /\ q.limit = limit /\ q.total = Cardinality(counted)
        /\ q.scope = asked.scope /\ q.filter = asked.filter
        /\ q.actor = asked.actor /\ q.admin = asked.admin
    BY <1>2, <1>4 DEF Request
  <1> HIDE DEF q
  <1>7. \A i \in Ids : InScope(task[i], q) <=> InScope(task[i], asked)
    BY <1>6 DEF InScope
  <1>8. CountedOK(q, task)
    BY <1>4, <1>5, <1>6, <1>7 DEF CountedOK
  <1>9. RequestOK(q, task, lastId)
    BY <1>6, <1>8 DEF RequestOK, ReadOK, AnswerOK
  <1> QED BY <1>3, <1>6, <1>9 DEF Quiet

LEMMA SmallerSize ==
    ASSUME NEW n \in Nat, NEW a \in Nat, NEW b \in Nat, NEW d \in Nat,
           a <= b + d, b <= a + d
    PROVE  /\ Smaller(n, a) <= Smaller(n, b) + d
           /\ Smaller(n, b) <= Smaller(n, a) + d
  BY DEF Smaller

LEMMA ListPageIsQuiet ==
    ASSUME TasksInv, NEW r \in Requests, NEW ids \in SUBSET Ids,
           ListPage(r, ids)
    PROVE  \E q : Quiet(r, q)
  <1> DEFINE page == [i \in ids |-> Whose(task[i])]
             q == [req[r] EXCEPT !.pc = "answering", !.page = page,
                     !.scope = Idle.scope, !.filter = Idle.filter]
  <1>1. req[r] \in Request /\ req[r].pc = "counted"
    BY DEF TasksInv, TypeOK, ListPage
  <1>2. req[r].op = "list" /\ req[r].limit \in Limits
        /\ req[r].limit \in Nat
    BY <1>1, TasksAssumption DEF TasksInv, RequestOK, CountedOK
  <1>3. ids \subseteq Matching(req[r])
        /\ Cardinality(ids)
             = Smaller(req[r].limit, Cardinality(Matching(req[r])))
    BY DEF ListPage, PageCandidates
  <1>4. \A i \in ids : InScope(task[i], req[r]) /\ task[i].exists
    BY <1>3 DEF Matching, InScope
  <1>5. page \in Pages
    <2>1. \A i \in ids : Whose(task[i]) \in Shown
      BY <1>4, RowsOfTable
    <2>2. page \in [ids -> Shown]
      BY <2>1
    <2> QED BY <2>2 DEF Pages
  <1>6. /\ q \in Request /\ q.pc = "answering" /\ q.page = page
        /\ q.limit = req[r].limit /\ q.total = req[r].total
        /\ q.touched = req[r].touched
        /\ q.actor = req[r].actor /\ q.admin = req[r].admin
    <2>1. Idle.scope \in Scopes /\ Idle.filter \in Filters
      BY DEF Idle, Scopes, Filters
    <2> QED BY <1>1, <1>5, <2>1 DEF Request, Stages
  <1>7. AnswerOK(q, task, lastId)
    <2> SUFFICES ASSUME NEW i \in ids
                 PROVE  /\ i <= lastId
                        /\ \/ page[i].visibility = "shared"
                           \/ page[i].owner = req[r].actor
                           \/ req[r].admin
                        /\ page[i] = Whose(task[i])
      <3>1. DOMAIN page = ids
        OBVIOUS
      <3> HIDE DEF page, q
      <3> QED BY <1>6, <3>1 DEF AnswerOK
    <2>1. i <= lastId
      BY <1>4, RowsOfTable
    <2>2. page[i] = Whose(task[i]) /\ page[i].visibility = task[i].visibility
          /\ page[i].owner = task[i].owner
      BY DEF Whose
    <2>3. \/ task[i].visibility = "shared" \/ task[i].owner = req[r].actor
          \/ req[r].admin
      BY <1>4 DEF InScope
    <2> HIDE DEF page, q
    <2> QED BY <2>1, <2>2, <2>3
  <1>8. Fits(q)
    <2>1. PICK counted \in SUBSET Ids :
            /\ Cardinality(counted) = req[r].total
            /\ \A i \in Ids \ req[r].touched :
                 i \in counted <=> InScope(task[i], req[r])
      BY <1>1 DEF TasksInv, RequestOK, CountedOK
    <2>2. Matching(req[r]) \in SUBSET Ids /\ req[r].touched \in SUBSET Ids
          /\ \A i \in Ids \ req[r].touched :
               i \in counted <=> i \in Matching(req[r])
      BY <1>1, <2>1 DEF Matching, Request
    <2> DEFINE m == Cardinality(Matching(req[r]))
               d == Cardinality(req[r].touched)
    <2>3. m <= req[r].total + d /\ req[r].total <= m + d
      BY <2>1, <2>2, AgreeOutside
    <2>4. m \in Nat /\ d \in Nat /\ req[r].total \in Nat
      BY <1>1, <2>2, FiniteIds, TasksAssumption DEF Request
    <2>5. DOMAIN page = ids
      OBVIOUS
    <2>6. Cardinality(ids) = Smaller(req[r].limit, m)
      BY <1>3
    <2> HIDE DEF page, q, m
    <2>7. /\ Smaller(req[r].limit, m) <= Smaller(req[r].limit, req[r].total) + d
          /\ Smaller(req[r].limit, req[r].total) <= Smaller(req[r].limit, m) + d
      BY <1>2, <2>3, <2>4, SmallerSize
    <2> QED BY <1>6, <2>5, <2>6, <2>7 DEF Fits
  <1>9. req' = [req EXCEPT ![r] = q] /\ UNCHANGED <<role, task, lastId>>
    BY DEF ListPage
  <1> HIDE DEF page, q
  <1>10. RequestOK(q, task, lastId)
    BY <1>6, <1>7, <1>8 DEF RequestOK, ReadOK, CountedOK
  <1> QED BY <1>6, <1>9, <1>10 DEF Quiet

LEMMA EndsIsQuiet ==
    ASSUME TasksInv, NEW r \in Requests, Ends(r)
    PROVE  Quiet(r, Idle)
  BY IdleIsRequest DEF Ends, Leaves, Quiet

LEMMA QuietKeeps ==
    ASSUME TasksInv, NEW r \in Requests, NEW q, Quiet(r, q)
    PROVE  TasksInv'
  <1>1. role' = role /\ task' = task /\ lastId' = lastId
    BY DEF Quiet
  <1>2. req' \in [Requests -> Request]
    BY DEF Quiet, TasksInv, TypeOK
  <1>3. TypeOK' /\ CompletionAgrees'
    BY <1>1, <1>2 DEF TasksInv, TypeOK, CompletionAgrees
  <1>4. ASSUME NEW s \in Requests
        PROVE  RequestOK(req'[s], task', lastId')
    <2>1. req'[s] = IF s = r THEN q ELSE req[s]
      BY DEF Quiet, TasksInv, TypeOK
    <2> QED BY <1>1, <2>1 DEF Quiet, TasksInv
  <1> QED BY <1>3, <1>4 DEF TasksInv

-----------------------------------------------------------------------------
(* Steps that write a task *)

(* What a write of task i does to the table.                               *)
TableStep(t, t2, l, l2, i) ==
    /\ i \in Ids /\ l <= l2 /\ i <= l2
    /\ \A j \in Ids \ {i} : t2[j] = t[j]
    /\ t2[i].exists => /\ t2[i] \in TaskRow /\ Stamped(t2[i])
    /\ t[i].exists /\ t2[i].exists => SameTask(t2[i], t[i])
    /\ i <= l /\ ~t[i].exists => ~t2[i].exists

(* Whatever another request knows survives such a write.                   *)
LEMMA OthersKeep ==
    ASSUME NEW t, NEW t2, NEW l \in Int, NEW l2 \in Int, NEW i,
           NEW q \in Request, RequestOK(q, t, l),
           TableStep(t, t2, l, l2, i)
    PROVE  LET after == IF Concerns(q, i)
                        THEN [q EXCEPT !.touched = @ \cup {i}] ELSE q
           IN after \in Request /\ RequestOK(after, t2, l2)
  <1> DEFINE after == IF Concerns(q, i)
                      THEN [q EXCEPT !.touched = @ \cup {i}] ELSE q
  <1>1. CASE q.pc = "read"
    <2>1. after = q \/ after = [q EXCEPT !.touched = @ \cup {i}]
      OBVIOUS
    <2>2. /\ after \in Request /\ after.pc = "read" /\ after.id = q.id
          /\ after.row = q.row /\ after.actor = q.actor
          /\ after.admin = q.admin /\ q.touched \subseteq after.touched
          /\ q.id = i => i \in after.touched
      BY <1>1, <2>1 DEF Request, TableStep, Concerns
    <2>3. /\ q.id \in Ids /\ q.id <= l
          /\ q.row \in TaskRow /\ Stamped(q.row)
          /\ CanManage(q.row, q.actor, q.admin)
          /\ t[q.id].exists => SameTask(t[q.id], q.row)
          /\ t[q.id].exists /\ q.id \notin q.touched => t[q.id] = q.row
      BY <1>1 DEF RequestOK, ReadOK
    <2> HIDE DEF after
    <2>4. q.id <= l2
      BY <2>3 DEF TableStep, Ids
    <2>5. t2[q.id].exists => t[q.id].exists /\ SameTask(t2[q.id], t[q.id])
      BY <2>3 DEF TableStep, SameTask
    <2>6. q.id \notin after.touched => t2[q.id] = t[q.id]
      BY <2>2, <2>3 DEF TableStep
    <2>7. t2[q.id].exists => SameTask(t2[q.id], q.row)
      BY <2>3, <2>5 DEF SameTask
    <2>8. ReadOK(after, t2, l2)
      BY <2>2, <2>3, <2>4, <2>5, <2>6, <2>7 DEF ReadOK
    <2>9. after \in Request /\ RequestOK(after, t2, l2)
      BY <2>2, <2>8 DEF RequestOK, CountedOK, AnswerOK
    <2> QED BY <2>9 DEF after
  <1>2. CASE q.pc = "counted"
    <2>1. after = [q EXCEPT !.touched = @ \cup {i}]
      BY <1>2 DEF Concerns
    <2>2. /\ after \in Request /\ after.pc = "counted" /\ after.op = q.op
          /\ after.limit = q.limit /\ after.total = q.total
          /\ after.scope = q.scope /\ after.filter = q.filter
          /\ after.actor = q.actor /\ after.admin = q.admin
          /\ after.touched = q.touched \cup {i}
      BY <1>2, <2>1 DEF Request, TableStep
    <2>3. PICK counted \in SUBSET Ids :
            /\ Cardinality(counted) = q.total
            /\ \A j \in Ids \ q.touched : j \in counted <=> InScope(t[j], q)
      BY <1>2 DEF RequestOK, CountedOK
    <2> HIDE DEF after
    <2>4. \A j \in Ids \ after.touched :
            j \in counted <=> InScope(t2[j], after)
      <3> SUFFICES ASSUME NEW j \in Ids \ after.touched
                   PROVE  j \in counted <=> InScope(t2[j], after)
        OBVIOUS
      <3>1. j \in Ids \ q.touched /\ t2[j] = t[j]
        BY <2>2 DEF TableStep
      <3>2. InScope(t[j], after) <=> InScope(t[j], q)
        BY <2>2 DEF InScope
      <3> QED BY <2>3, <3>1, <3>2
    <2>5. CountedOK(after, t2)
      BY <1>2, <2>2, <2>3, <2>4 DEF CountedOK, RequestOK
    <2>6. after \in Request /\ RequestOK(after, t2, l2)
      BY <2>2, <2>5 DEF RequestOK, ReadOK, AnswerOK
    <2> QED BY <2>6 DEF after
  <1>3. CASE q.pc = "answering"
    <2>1. after = q
      BY <1>3 DEF Concerns
    <2>2. AnswerOK(q, t2, l2)
      <3> SUFFICES ASSUME NEW j \in DOMAIN q.page
                   PROVE  /\ j <= l2
                          /\ \/ q.page[j].visibility = "shared"
                             \/ q.page[j].owner = q.actor
                             \/ q.admin
                          /\ t2[j].exists => q.page[j] = Whose(t2[j])
        BY DEF AnswerOK
      <3>1. j \in Ids
        BY DEF Request, Pages
      <3>2. /\ j <= l
            /\ \/ q.page[j].visibility = "shared"
               \/ q.page[j].owner = q.actor
               \/ q.admin
            /\ t[j].exists => q.page[j] = Whose(t[j])
        BY <1>3 DEF RequestOK, AnswerOK
      <3>3. t2[j].exists => t[j].exists /\ Whose(t2[j]) = Whose(t[j])
        BY <3>1, <3>2 DEF TableStep, SameTask, Whose
      <3>4. j <= l2
        BY <3>1, <3>2 DEF TableStep, Ids
      <3> QED BY <3>2, <3>3, <3>4
    <2>3. RequestOK(q, t2, l2)
      BY <1>3, <2>2 DEF RequestOK, ReadOK, CountedOK
    <2> QED BY <2>1, <2>3
  <1>4. CASE q.pc \notin {"read", "counted", "answering"}
    <2>1. after = q
      BY <1>4 DEF Concerns
    <2>2. RequestOK(q, t2, l2)
      BY <1>4 DEF RequestOK, ReadOK, CountedOK, AnswerOK
    <2> QED BY <2>1, <2>2
  <1> QED BY <1>1, <1>2, <1>3, <1>4

(* A write step: the table changes at i, the writer becomes q.             *)
Writing(r, i, q) ==
    /\ WritesAndMoves(r, i, q)
    /\ q \in Request /\ RequestOK(q, task', lastId')
    /\ TableStep(task, task', lastId, lastId', i)
    /\ task' \in [Ids -> TaskRows] /\ lastId' \in 0..MaxTasks
    /\ role' = role

LEMMA WritingKeeps ==
    ASSUME TasksInv, NEW r \in Requests, NEW i, NEW q, Writing(r, i, q)
    PROVE  TasksInv'
  <1>1. lastId \in Int /\ lastId' \in Int
    BY TasksAssumption DEF TasksInv, TypeOK, Writing
  <1>2. ASSUME NEW s \in Requests
        PROVE  req'[s] \in Request /\ RequestOK(req'[s], task', lastId')
    <2>1. req[s] \in Request /\ RequestOK(req[s], task, lastId)
      BY DEF TasksInv, TypeOK
    <2>2. req'[s] = IF s = r THEN q
                    ELSE IF Concerns(req[s], i)
                    THEN [req[s] EXCEPT !.touched = @ \cup {i}] ELSE req[s]
      BY DEF Writing, WritesAndMoves
    <2>3. CASE s = r
      BY <2>2, <2>3 DEF Writing
    <2>4. CASE s # r
      BY <1>1, <2>1, <2>2, <2>4, OthersKeep DEF Writing
    <2> QED BY <2>3, <2>4
  <1>3. req' \in [Requests -> Request]
    <2>1. req' = [s \in Requests |-> req'[s]]
      BY DEF Writing, WritesAndMoves
    <2> QED BY <1>2, <2>1
  <1>4. \A j \in Ids : j > lastId' => ~task'[j].exists
    <2> SUFFICES ASSUME NEW j \in Ids, j > lastId' PROVE ~task'[j].exists
      OBVIOUS
    <2>1. j # i /\ j > lastId
      BY <1>1 DEF Writing, TableStep, Ids
    <2> QED BY <2>1 DEF Writing, TableStep, TasksInv, TypeOK
  <1>5. CompletionAgrees'
    <2> SUFFICES ASSUME NEW j \in Ids, task'[j].exists
                 PROVE  task'[j].status = "completed" <=> task'[j].completedAt
      BY DEF CompletionAgrees
    <2>1. CASE j = i
      BY <2>1 DEF Writing, TableStep, Stamped, TaskRow
    <2>2. CASE j # i
      BY <2>2 DEF Writing, TableStep, TasksInv, CompletionAgrees
    <2> QED BY <2>1, <2>2
  <1>6. TypeOK'
    BY <1>3, <1>4 DEF TypeOK, TasksInv, Writing
  <1> QED BY <1>2, <1>5, <1>6 DEF TasksInv

LEMMA CreateWrites ==
    ASSUME TasksInv, NEW r \in Requests, NEW visibility \in Visibilities,
           NEW text \in Texts, Create(r, visibility, text)
    PROVE  Writing(r, NextId, Idle)
  <1> DEFINE row == NewRow(req[r].actor, visibility, text)
  <1>1. /\ NextId \in Ids /\ NextId = lastId + 1 /\ lastId' = NextId
        /\ task' = [task EXCEPT ![NextId] = row] /\ role' = role
        /\ WritesAndMoves(r, NextId, Idle)
    BY DEF Create, NextId
  <1>2. lastId \in Nat /\ lastId' \in 0..MaxTasks
    BY <1>1, TasksAssumption DEF TasksInv, TypeOK, Ids
  <1>3. row \in TaskRow /\ Stamped(row)
    <2>1. req[r].actor \in Users \cup {NoUser}
      BY DEF TasksInv, TypeOK, Request
    <2> QED BY <2>1 DEF NewRow, TaskRow, Stamped, Statuses
  <1>4. ~task[NextId].exists
    BY <1>1, <1>2 DEF TasksInv, TypeOK
  <1>5. task \in [Ids -> TaskRows]
    BY DEF TasksInv, TypeOK
  <1> HIDE DEF row
  <1>6. task' \in [Ids -> TaskRows] /\ task'[NextId] = row
        /\ \A j \in Ids \ {NextId} : task'[j] = task[j]
    BY <1>1, <1>3, <1>5 DEF TaskRows
  <1>7. TableStep(task, task', lastId, lastId', NextId)
    BY <1>1, <1>2, <1>3, <1>4, <1>6 DEF TableStep
  <1> QED BY <1>1, <1>2, <1>6, <1>7, IdleIsRequest DEF Writing

LEMMA DeleteWrites ==
    ASSUME TasksInv, NEW r \in Requests, Delete(r)
    PROVE  Writing(r, req[r].id, Idle)
  <1> DEFINE i == req[r].id
  <1>1. i \in Ids /\ i <= lastId
    BY DEF Delete, TasksInv, RequestOK, ReadOK
  <1>2. /\ task \in [Ids -> TaskRows] /\ lastId \in 0..MaxTasks
        /\ lastId' = lastId /\ role' = role
        /\ task' = [task EXCEPT ![i] = NoTask] /\ task[i].exists
        /\ WritesAndMoves(r, i, Idle)
    BY DEF Delete, TasksInv, TypeOK
  <1> HIDE DEF i
  <1>3. /\ task' \in [Ids -> TaskRows] /\ task'[i] = NoTask
        /\ \A j \in Ids \ {i} : task'[j] = task[j]
    BY <1>1, <1>2 DEF TaskRows
  <1>4. ~task'[i].exists /\ lastId <= lastId' /\ i <= lastId'
    BY <1>1, <1>2, <1>3, TasksAssumption DEF NoTask
  <1>5. TableStep(task, task', lastId, lastId', i)
    BY <1>1, <1>2, <1>3, <1>4 DEF TableStep
  <1>6. Writing(r, i, Idle)
    BY <1>2, <1>3, <1>5, IdleIsRequest DEF Writing
  <1> QED BY <1>6 DEF i

(* The row an update leaves behind.                                        *)
LEMMA UpdatedRow ==
    ASSUME TasksInv, NEW r \in Requests, NEW input \in Inputs,
           Update(r, input)
    PROVE  LET i == req[r].id IN
           /\ i \in Ids /\ i <= lastId /\ task[i].exists
           /\ task'[i] \in TaskRow /\ Stamped(task'[i])
           /\ SameTask(task'[i], task[i])
           /\ task'[i].text = TextAfter(req[r].row, input)
           /\ task'[i].status = StatusAfter(req[r].row, input)
           /\ task'[i].completedAt = StampAfter(req[r].row, input)
           /\ \A j \in Ids \ {i} : task'[j] = task[j]
  <1> DEFINE i == req[r].id
             row == req[r].row
             text == TextAfter(row, input)
             status == StatusAfter(row, input)
             stamp == StampAfter(row, input)
             after == [task[i] EXCEPT !.text = text, !.status = status,
                                      !.completedAt = stamp]
  <1>1. i \in Ids /\ i <= lastId /\ row \in TaskRow /\ Stamped(row)
        /\ task[i].exists
    BY DEF Update, TasksInv, RequestOK, ReadOK
  <1>2. task[i] \in TaskRow
    BY <1>1, RowsOfTable
  <1>3. /\ text \in Texts /\ status \in Statuses /\ stamp \in BOOLEAN
        /\ status = "completed" <=> stamp = TRUE
    <2>1. text \in Texts
      BY <1>1 DEF TextAfter, Inputs, TaskRow
    <2>2. status \in Statuses
      BY <1>1 DEF StatusAfter, Inputs, TaskRow
    <2>3. stamp \in BOOLEAN /\ (status = "completed" <=> stamp = TRUE)
      BY <1>1, <2>2 DEF StampAfter, Stamped, TaskRow
    <2> QED BY <2>1, <2>2, <2>3
  <1>4. task \in [Ids -> TaskRows]
    BY DEF TasksInv, TypeOK
  <1>5. task' = [task EXCEPT ![i] = after]
    BY <1>1, <1>4 DEF Update
  <1> HIDE DEF text, status, stamp
  <1>6. /\ after \in TaskRow /\ after.text = text /\ after.status = status
        /\ after.completedAt = stamp /\ after.owner = task[i].owner
        /\ after.creator = task[i].creator
        /\ after.visibility = task[i].visibility
    BY <1>2, <1>3 DEF TaskRow
  <1> HIDE DEF after, i, row
  <1>7. task'[i] = after /\ \A j \in Ids \ {i} : task'[j] = task[j]
    BY <1>1, <1>4, <1>5
  <1>8. /\ i \in Ids /\ i <= lastId /\ task[i].exists
        /\ task'[i] \in TaskRow /\ Stamped(task'[i])
        /\ SameTask(task'[i], task[i])
        /\ task'[i].text = text /\ task'[i].status = status
        /\ task'[i].completedAt = stamp
        /\ \A j \in Ids \ {i} : task'[j] = task[j]
    BY <1>1, <1>3, <1>6, <1>7 DEF Stamped, SameTask
  <1> QED BY <1>8 DEF i, row, text, status, stamp

LEMMA UpdateWrites ==
    ASSUME TasksInv, NEW r \in Requests, NEW input \in Inputs,
           Update(r, input)
    PROVE  \E q : Writing(r, req[r].id, q)
  <1> DEFINE i == req[r].id
             page == [j \in {i} |-> Whose(req[r].row)]
             q == [Idle EXCEPT !.pc = "answering", !.op = "update",
                     !.actor = req[r].actor, !.admin = req[r].admin,
                     !.page = page]
  <1>1. /\ i \in Ids /\ i <= lastId /\ task[i].exists
        /\ task'[i] \in TaskRow /\ Stamped(task'[i])
        /\ SameTask(task'[i], task[i])
        /\ \A j \in Ids \ {i} : task'[j] = task[j]
    BY UpdatedRow
  <1>2. req[r].row \in TaskRow /\ SameTask(task[i], req[r].row)
        /\ CanManage(req[r].row, req[r].actor, req[r].admin)
        /\ req[r] \in Request
    BY <1>1 DEF Update, TasksInv, TypeOK, RequestOK, ReadOK
  <1>3. /\ WritesAndMoves(r, i, q) /\ role' = role /\ lastId' = lastId
        /\ lastId \in 0..MaxTasks /\ task \in [Ids -> TaskRows]
        /\ task' = [j \in Ids |-> task'[j]]
    BY DEF Update, TasksInv, TypeOK
  <1>4. task' \in [Ids -> TaskRows]
    <2>1. \A j \in Ids : task'[j] \in TaskRows
      BY <1>1, <1>3 DEF TaskRows
    <2> QED BY <1>3, <2>1
  <1>5. TableStep(task, task', lastId, lastId', i)
    <2>1. lastId <= lastId'
      BY <1>3, TasksAssumption
    <2> QED BY <1>1, <1>3, <2>1 DEF TableStep
  <1>6. page \in Pages
    <2>1. Whose(req[r].row) \in Shown
      BY <1>2 DEF TaskRow, Whose, Shown
    <2>2. page \in [{i} -> Shown] /\ {i} \in SUBSET Ids
      BY <1>1, <2>1
    <2> QED BY <2>2 DEF Pages
  <1>7. /\ q \in Request /\ q.pc = "answering" /\ q.op = "update"
        /\ q.actor = req[r].actor /\ q.admin = req[r].admin
        /\ q.page = page
    BY <1>2, <1>6, IdleIsRequest DEF Request, Stages, Handlers
  <1>8. AnswerOK(q, task', lastId')
    <2>1. DOMAIN page = {i} /\ page[i] = Whose(req[r].row)
      OBVIOUS
    <2>2. /\ page[i] = Whose(task'[i])
          /\ page[i].visibility = req[r].row.visibility
          /\ page[i].owner = req[r].row.owner
      BY <1>1, <1>2, <2>1 DEF Whose, SameTask
    <2>3. \/ req[r].row.visibility = "shared"
          \/ req[r].row.owner = req[r].actor
          \/ req[r].admin
      BY <1>2 DEF CanManage
    <2>4. i <= lastId'
      BY <1>1, <1>3
    <2> HIDE DEF page, q, i
    <2> QED BY <1>7, <2>1, <2>2, <2>3, <2>4 DEF AnswerOK
  <1> HIDE DEF q, i
  <1>9. RequestOK(q, task', lastId')
    BY <1>7, <1>8 DEF RequestOK, ReadOK, CountedOK
  <1>10. Writing(r, i, q)
    BY <1>3, <1>4, <1>5, <1>7, <1>9 DEF Writing
  <1> QED BY <1>10 DEF i

-----------------------------------------------------------------------------
(* The invariant *)

LEMMA TasksInvInit == Init => TasksInv
  <1> SUFFICES ASSUME Init PROVE TasksInv
    OBVIOUS
  <1>1. req \in [Requests -> Request]
        /\ \A r \in Requests : RequestOK(req[r], task, lastId)
    BY IdleIsRequest DEF Init
  <1>2. /\ task \in [Ids -> TaskRows] /\ lastId \in 0..MaxTasks
        /\ \A i \in Ids : task[i].exists => i <= lastId /\ Stamped(task[i])
    <2>1. CASE lastId = 0 /\ task = [i \in Ids |-> NoTask]
      BY <2>1, TasksAssumption DEF TaskRows, NoTask
    <2>2. ASSUME MaxTasks > 0, lastId = 1, NEW text \in Texts,
                 NEW status \in Statuses,
                 task = [i \in Ids |-> IF i = 1 THEN LegacyRow(text, status)
                                                ELSE NoTask]
          PROVE  /\ task \in [Ids -> TaskRows] /\ lastId \in 0..MaxTasks
                 /\ \A i \in Ids : task[i].exists
                                   => i <= lastId /\ Stamped(task[i])
      <3>1. LegacyRow(text, status) \in TaskRow
            /\ Stamped(LegacyRow(text, status))
        BY DEF LegacyRow, TaskRow, Stamped, Visibilities
      <3>2. NoTask.exists = FALSE
        BY DEF NoTask
      <3> QED BY <2>2, <3>1, <3>2, TasksAssumption DEF TaskRows
    <2> QED BY <2>1, <2>2 DEF Init
  <1>3. TypeOK
    <2>1. \A i \in Ids : i > lastId => ~task[i].exists
      BY <1>2, TasksAssumption DEF Ids
    <2> QED BY <1>1, <1>2, <2>1 DEF TypeOK, Init
  <1>4. CompletionAgrees
    <2> SUFFICES ASSUME NEW i \in Ids, task[i].exists
                 PROVE  task[i].status = "completed" <=> task[i].completedAt
      BY DEF CompletionAgrees
    <2>1. task[i] \in TaskRow
      BY <1>2, RowValue
    <2> QED BY <1>2, <2>1 DEF Stamped, TaskRow
  <1> QED BY <1>1, <1>3, <1>4 DEF TasksInv

(* Every step of a request is quiet or a write.                            *)
LEMMA StepsOfRequests ==
    ASSUME TasksInv, NEW r \in Requests, Step(r)
    PROVE  \/ \E q : Quiet(r, q)
           \/ \E i, q : Writing(r, i, q)
  <1>1. CASE \E user \in Users, op \in Operations : Authenticate(r, user, op)
    BY <1>1, AuthenticateIsQuiet
  <1>2. CASE \E visibility \in Visibilities, text \in Texts :
               Create(r, visibility, text)
    BY <1>2, CreateWrites
  <1>3. CASE \E i \in Ids : Get(r, i) \/ ReadToWrite(r, i)
    BY <1>3, GetIsQuiet, ReadToWriteIsQuiet
  <1>4. CASE \E input \in Inputs : Update(r, input)
    BY <1>4, UpdateWrites
  <1>5. CASE Delete(r)
    BY <1>5, DeleteWrites
  <1>6. CASE \E scope \in Scopes, filter \in Filters, limit \in Limits :
               ListCount(r, scope, filter, limit)
    BY <1>6, ListCountIsQuiet
  <1>7. CASE \E ids \in SUBSET Ids : ListPage(r, ids)
    BY <1>7, ListPageIsQuiet
  <1>8. CASE Ends(r)
    BY <1>8, EndsIsQuiet
  <1> QED BY <1>1, <1>2, <1>3, <1>4, <1>5, <1>6, <1>7, <1>8 DEF Step

LEMMA SetRoleKeeps ==
    ASSUME TasksInv, NEW user \in Users, SetRole(user)
    PROVE  TasksInv'
  <1>1. role' \in [Users -> {"player", "admin"}]
    BY DEF SetRole, TasksInv, TypeOK
  <1>2. UNCHANGED <<task, lastId, req>>
    BY DEF SetRole
  <1> QED BY <1>1, <1>2 DEF TasksInv, TypeOK, CompletionAgrees

LEMMA RestartKeeps ==
    ASSUME TasksInv, Restart
    PROVE  TasksInv'
  <1>1. req' \in [Requests -> Request]
        /\ \A r \in Requests : RequestOK(req'[r], task, lastId)
    BY IdleIsRequest DEF Restart
  <1>2. UNCHANGED <<role, task, lastId>>
    BY DEF Restart
  <1> QED BY <1>1, <1>2 DEF TasksInv, TypeOK, CompletionAgrees

LEMMA TasksInvStep == TasksInv /\ [Next]_vars => TasksInv'
  <1> SUFFICES ASSUME TasksInv, [Next]_vars PROVE TasksInv'
    OBVIOUS
  <1>1. ASSUME NEW r \in Requests, Step(r) PROVE TasksInv'
    BY <1>1, StepsOfRequests, QuietKeeps, WritingKeeps
  <1>2. ASSUME NEW user \in Users, SetRole(user) PROVE TasksInv'
    BY <1>2, SetRoleKeeps
  <1>3. ASSUME Restart PROVE TasksInv'
    BY <1>3, RestartKeeps
  <1>4. CASE UNCHANGED vars
    BY <1>4 DEF vars, TasksInv, TypeOK, CompletionAgrees
  <1> QED BY <1>1, <1>2, <1>3, <1>4 DEF Next

LEMMA TasksInvAlways == Spec => []TasksInv
  BY TasksInvInit, TasksInvStep, PTL DEF Spec

(* The table and the requests keep their shapes, and no id is in use above *)
(* the largest one given.                                                  *)
THEOREM TypeCorrect == Spec => []TypeOK
  <1>1. TasksInv => TypeOK
    BY DEF TasksInv
  <1> QED BY <1>1, TasksInvAlways, PTL

(* Status and completion stamp of a task agree, for any number of racing   *)
(* updates.                                                                *)
THEOREM CompletionAlwaysAgrees == Spec => []CompletionAgrees
  <1>1. TasksInv => CompletionAgrees
    BY DEF TasksInv
  <1> QED BY <1>1, TasksInvAlways, PTL

(* No answer shows a personal task to anybody else, or a task that has     *)
(* become another one.                                                     *)
THEOREM AnswersStayForTheActor == Spec => []AnswersAreForTheActor
  <1>1. TasksInv => AnswersAreForTheActor
    BY DEF TasksInv, RequestOK, AnswerOK, AnswersAreForTheActor
  <1> QED BY <1>1, TasksInvAlways, PTL

(* Total and page part by no more than the tasks written in between.       *)
THEOREM TotalsFitPages == Spec => []TotalFitsPage
  <1>1. TasksInv => TotalFitsPage
    BY DEF TasksInv, RequestOK, Fits, TotalFitsPage
  <1> QED BY <1>1, TasksInvAlways, PTL

-----------------------------------------------------------------------------
(* Steps on one task *)

(* A step that changes a task is a request's write of that task.           *)
LEMMA WhoWrites ==
    ASSUME TasksInv, [Next]_vars, NEW i \in Ids, task'[i] # task[i]
    PROVE  \E r \in Requests :
             \/ \E visibility \in Visibilities, text \in Texts :
                  Create(r, visibility, text) /\ i = NextId
             \/ \E input \in Inputs : Update(r, input) /\ i = req[r].id
             \/ Delete(r) /\ i = req[r].id
  <1>1. task' # task
    OBVIOUS
  <1>2. PICK r \in Requests : Step(r)
    BY <1>1 DEF Next, vars, SetRole, Restart
  <1>3. \A q : ~Quiet(r, q)
    BY <1>1 DEF Quiet
  <1>4. CASE \E visibility \in Visibilities, text \in Texts :
               Create(r, visibility, text)
    <2>1. PICK visibility \in Visibilities, text \in Texts :
            Create(r, visibility, text)
      BY <1>4
    <2>2. i = NextId
      BY <2>1, CreateWrites DEF Writing, TableStep
    <2> QED BY <2>1, <2>2
  <1>5. CASE \E input \in Inputs : Update(r, input)
    <2>1. PICK input \in Inputs : Update(r, input)
      BY <1>5
    <2>2. i = req[r].id
      BY <2>1, UpdatedRow
    <2> QED BY <2>1, <2>2
  <1>6. CASE Delete(r)
    <2>1. i = req[r].id
      BY <1>6, DeleteWrites DEF Writing, TableStep
    <2> QED BY <1>6, <2>1
  <1>7. CASE ~Delete(r)
             /\ ~(\E visibility \in Visibilities, text \in Texts :
                     Create(r, visibility, text))
             /\ ~(\E input \in Inputs : Update(r, input))
    BY <1>2, <1>3, <1>7, AuthenticateIsQuiet, GetIsQuiet, ReadToWriteIsQuiet,
       ListCountIsQuiet, ListPageIsQuiet, EndsIsQuiet DEF Step
  <1> QED BY <1>4, <1>5, <1>6, <1>7

LEMMA WritesAreTableSteps ==
    ASSUME TasksInv, [Next]_vars, NEW i \in Ids, task'[i] # task[i]
    PROVE  TableStep(task, task', lastId, lastId', i)
  <1>1. PICK r \in Requests :
          \/ \E visibility \in Visibilities, text \in Texts :
               Create(r, visibility, text) /\ i = NextId
          \/ \E input \in Inputs : Update(r, input) /\ i = req[r].id
          \/ Delete(r) /\ i = req[r].id
    BY WhoWrites
  <1> QED BY <1>1, CreateWrites, UpdateWrites, DeleteWrites DEF Writing

(* An id stands for one task for good.                                     *)
THEOREM IdsStandForGood == Spec => IdsAreForGood
  <1> DEFINE Kept == \A i \in Ids :
               /\ task[i].exists /\ task'[i].exists
                    => /\ task'[i].owner = task[i].owner
                       /\ task'[i].creator = task[i].creator
                       /\ task'[i].visibility = task[i].visibility
               /\ i <= lastId /\ ~task[i].exists => ~task'[i].exists
  <1>1. TasksInv /\ [Next]_vars => [Kept]_vars
    <2> SUFFICES ASSUME TasksInv, [Next]_vars, NEW i \in Ids
                 PROVE  /\ task[i].exists /\ task'[i].exists
                             => SameTask(task'[i], task[i])
                        /\ i <= lastId /\ ~task[i].exists
                             => ~task'[i].exists
      BY DEF SameTask
    <2>1. CASE task'[i] = task[i]
      BY <2>1 DEF SameTask
    <2>2. CASE task'[i] # task[i]
      BY <2>2, WritesAreTableSteps DEF TableStep
    <2> QED BY <2>1, <2>2
  <1>2. [][Kept]_vars <=> IdsAreForGood
    BY DEF IdsAreForGood
  <1> HIDE DEF Kept
  <1> QED BY <1>1, <1>2, TasksInvAlways, PTL DEF Spec

(* Whoever rewrites or deletes a task may manage it as it is now.          *)
THEOREM WritersAlwaysManage == Spec => WritersManage
  <1> DEFINE Managed == \A i \in Ids :
               task[i].exists /\ task'[i] # task[i]
                 => \E r \in Requests :
                      /\ req[r].pc = "read" /\ req[r].id = i
                      /\ req[r].admin \/ Responsible(task[i]) = req[r].actor
  <1>1. TasksInv /\ [Next]_vars => [Managed]_vars
    <2> SUFFICES ASSUME TasksInv, [Next]_vars, NEW i \in Ids,
                        task[i].exists, task'[i] # task[i]
                 PROVE  \E r \in Requests :
                          /\ req[r].pc = "read" /\ req[r].id = i
                          /\ \/ req[r].admin
                             \/ Responsible(task[i]) = req[r].actor
      OBVIOUS
    <2>1. i <= lastId
      BY RowsOfTable
    <2>2. i # NextId
      BY <2>1, TasksAssumption DEF NextId, TasksInv, TypeOK
    <2>3. PICK r \in Requests : req[r].pc = "read" /\ req[r].id = i
      BY <2>2, WhoWrites DEF Update, Delete
    <2>4. CanManage(req[r].row, req[r].actor, req[r].admin)
          /\ SameTask(task[i], req[r].row)
      BY <2>3 DEF TasksInv, RequestOK, ReadOK
    <2>5. req[r].admin \/ Responsible(task[i]) = req[r].actor
      BY <2>4 DEF CanManage, SameTask, Responsible
    <2> QED BY <2>3, <2>5
  <1>2. [][Managed]_vars <=> WritersManage
    BY DEF WritersManage
  <1> HIDE DEF Managed
  <1> QED BY <1>1, <1>2, TasksInvAlways, PTL DEF Spec

(* An update nobody has overtaken leaves what it does not name.            *)
THEOREM UpdatesStayConfined == Spec => UpdatesAreConfined
  <1>1. ASSUME TasksInv, NEW r \in Requests, NEW input \in Inputs,
               Update(r, input), req[r].id \notin req[r].touched
        PROVE  KeepsUnnamed(req[r].id, input)
    <2> DEFINE i == req[r].id
    <2>1. task[i] = req[r].row
      BY <1>1, UpdatedRow DEF TasksInv, RequestOK, ReadOK, Update
    <2>2. /\ task'[i].text = TextAfter(req[r].row, input)
          /\ task'[i].status = StatusAfter(req[r].row, input)
          /\ task'[i].completedAt = StampAfter(req[r].row, input)
      BY <1>1, UpdatedRow
    <2> QED BY <2>1, <2>2
            DEF KeepsUnnamed, TextAfter, StatusAfter, StampAfter
  <1>2. TasksInv => [\A r \in Requests, input \in Inputs :
                       Update(r, input) /\ req[r].id \notin req[r].touched
                         => KeepsUnnamed(req[r].id, input)]_vars
    BY <1>1
  <1> QED BY <1>2, TasksInvAlways, PTL DEF Spec, UpdatesAreConfined

-----------------------------------------------------------------------------
(* Tasks implements TaskBoard: a request that has read the task it will    *)
(* write decides as it would on the task that is there.                    *)

LEMMA ActorMoves ==
    ASSUME TasksInv, NEW r \in Requests, NEW q,
           \A s \in Requests : ActorFor(req'[s]) = IF s = r THEN ActorFor(q)
                                                   ELSE ActorFor(req[s])
    PROVE  Actors' = [Actors EXCEPT ![r] = ActorFor(q)]
  <1>1. Actors' = [s \in Requests |-> ActorFor(req'[s])]
    BY DEF Actors, ActorFor
  <1>2. [Actors EXCEPT ![r] = ActorFor(q)]
          = [s \in Requests |-> IF s = r THEN ActorFor(q)
                                         ELSE ActorFor(req[s])]
    BY DEF Actors
  <1> QED BY <1>1, <1>2

LEMMA QuietMoves ==
    ASSUME TasksInv, NEW r \in Requests, NEW q, req' = [req EXCEPT ![r] = q]
    PROVE  Actors' = [Actors EXCEPT ![r] = ActorFor(q)]
  <1>1. \A s \in Requests : req'[s] = IF s = r THEN q ELSE req[s]
    BY DEF TasksInv, TypeOK
  <1>2. \A s \in Requests : ActorFor(req'[s]) = IF s = r THEN ActorFor(q)
                                                ELSE ActorFor(req[s])
    BY <1>1
  <1> QED BY <1>2, ActorMoves

(* What others note of a write is not seen.                                *)
LEMMA WriteMoves ==
    ASSUME TasksInv, NEW r \in Requests, NEW i, NEW q, WritesAndMoves(r, i, q)
    PROVE  Actors' = [Actors EXCEPT ![r] = ActorFor(q)]
  <1>1. ASSUME NEW s \in Requests
        PROVE  ActorFor(req'[s]) = IF s = r THEN ActorFor(q)
                                   ELSE ActorFor(req[s])
    <2>1. req[s] \in Request
      BY DEF TasksInv, TypeOK
    <2>2. req'[s] = IF s = r THEN q
                    ELSE IF Concerns(req[s], i)
                    THEN [req[s] EXCEPT !.touched = @ \cup {i}] ELSE req[s]
      BY DEF WritesAndMoves
    <2>3. ActorFor([req[s] EXCEPT !.touched = @ \cup {i}]) = ActorFor(req[s])
      BY <2>1 DEF ActorFor, Request
    <2> QED BY <2>2, <2>3
  <1> QED BY <1>1, ActorMoves

LEMMA ActorValue ==
    ASSUME NEW r \in Requests
    PROVE  /\ Actors[r] = ActorFor(req[r])
           /\ Actors[r].stage = ActorStage(req[r].pc)
           /\ Actors[r].user = req[r].actor
           /\ Actors[r].admin = req[r].admin
           /\ Actors[r].told = req[r].page
  BY DEF Actors, ActorFor

LEMMA IdleIsGone == ActorFor(Idle) = Board!Gone
  BY DEF ActorFor, ActorStage, Idle, Board!Gone, Board!Actor, Board!Nothing

LEMMA AuthenticateIsArrive ==
    ASSUME TasksInv, NEW r \in Requests, NEW user \in Users,
           NEW op \in Operations, Authenticate(r, user, op)
    PROVE  Board!Arrive(r, user)
  <1> DEFINE admin == role[user] = "admin"
             q == [Idle EXCEPT !.pc = "authenticated", !.op = op,
                               !.actor = user, !.admin = admin]
  <1>1. req[r].pc = "idle" /\ req' = [req EXCEPT ![r] = q]
        /\ UNCHANGED <<role, task, lastId>>
    BY DEF Authenticate
  <1>2. ActorFor(q) = Board!Actor("acting", user, admin, Board!Nothing)
    <2> HIDE DEF admin
    <2>1. /\ q.pc = "authenticated" /\ q.actor = user /\ q.admin = admin
          /\ q.page = [i \in {} |-> i]
      BY DEF Idle
    <2> HIDE DEF q
    <2> QED BY <2>1 DEF ActorFor, ActorStage, Board!Actor, Board!Nothing
  <1>3. Actors' = [Actors EXCEPT ![r] = ActorFor(q)]
    BY <1>1, QuietMoves
  <1>4. Actors[r].stage = "idle"
    BY <1>1, ActorValue DEF ActorStage
  <1> QED BY <1>1, <1>2, <1>3, <1>4 DEF Board!Arrive, Board!Becomes

LEMMA CreateIsPost ==
    ASSUME TasksInv, NEW r \in Requests, NEW visibility \in Visibilities,
           NEW text \in Texts, Create(r, visibility, text)
    PROVE  Board!Post(r, visibility, text)
  <1>1. /\ req[r].pc = "authenticated" /\ lastId + 1 \in Ids
        /\ lastId' = lastId + 1 /\ role' = role
        /\ task' = [task EXCEPT ![lastId + 1] =
                      NewRow(req[r].actor, visibility, text)]
        /\ WritesAndMoves(r, lastId + 1, Idle)
    BY DEF Create, NextId
  <1>2. Actors' = [Actors EXCEPT ![r] = Board!Gone]
    BY <1>1, WriteMoves, IdleIsGone
  <1>3. Actors[r].stage = "acting" /\ Actors[r].user = req[r].actor
    BY <1>1, ActorValue DEF ActorStage
  <1>4. NewRow(req[r].actor, visibility, text)
          = Board!Saying(Actors[r].user, visibility, text, "pending")
    BY <1>3 DEF NewRow, Board!Saying
  <1> QED BY <1>1, <1>2, <1>3, <1>4
          DEF Board!Post, Board!Becomes, Board!Ids, Ids

(* The two reads that are shown.                                           *)
LEMMA ShowIsTell ==
    ASSUME TasksInv, NEW r \in Requests, NEW ids \in SUBSET Ids, NEW q,
           req' = [req EXCEPT ![r] = q], UNCHANGED <<role, task, lastId>>,
           req[r].pc \in {"authenticated", "counted"}, q.pc = "answering",
           q.actor = req[r].actor, q.admin = req[r].admin,
           q.page = [i \in ids |-> Whose(task[i])],
           \A i \in ids : Visible(task[i], req[r].actor, req[r].admin)
    PROVE  Board!Tell(r, ids)
  <1>1. Actors' = [Actors EXCEPT ![r] = ActorFor(q)]
    BY QuietMoves
  <1>2. /\ Actors[r].stage = "acting" /\ Actors[r].user = req[r].actor
        /\ Actors[r].admin = req[r].admin
    BY ActorValue DEF ActorStage
  <1>3. \A i \in ids : Board!Sees(Actors[r], task[i])
    BY <1>2 DEF Board!Sees, Visible
  <1>4. [i \in ids |-> Board!Whose(task[i])] = q.page
    BY DEF Board!Whose, Whose
  <1>5. ActorFor(q) = Board!Telling(Actors[r],
                                    [i \in ids |-> Board!Whose(task[i])])
    BY <1>2, <1>4 DEF ActorFor, ActorStage, Board!Telling, Board!Actor
  <1> QED BY <1>1, <1>2, <1>3, <1>5 DEF Board!Tell, Board!Becomes

LEMMA GetIsTell ==
    ASSUME TasksInv, NEW r \in Requests, NEW i \in Ids, Get(r, i)
    PROVE  Board!Tell(r, {i})
  <1> DEFINE q == [req[r] EXCEPT !.pc = "answering",
                                 !.page = [j \in {i} |-> Whose(task[i])]]
  <1>1. req[r] \in Request /\ req \in [Requests -> Request]
    BY DEF TasksInv, TypeOK
  <1>2. /\ req' = [req EXCEPT ![r] = q] /\ UNCHANGED <<role, task, lastId>>
        /\ req[r].pc = "authenticated"
        /\ Visible(task[i], req[r].actor, req[r].admin)
    BY <1>1 DEF Get
  <1>3. /\ q.pc = "answering" /\ q.actor = req[r].actor
        /\ q.admin = req[r].admin
        /\ q.page = [j \in {i} |-> Whose(task[j])]
    BY <1>1 DEF Request
  <1> HIDE DEF q
  <1> QED BY <1>2, <1>3, ShowIsTell

LEMMA ListPageIsTell ==
    ASSUME TasksInv, NEW r \in Requests, NEW ids \in SUBSET Ids,
           ListPage(r, ids)
    PROVE  Board!Tell(r, ids)
  <1> DEFINE q == [req[r] EXCEPT !.pc = "answering",
                     !.page = [i \in ids |-> Whose(task[i])],
                     !.scope = Idle.scope, !.filter = Idle.filter]
  <1>1. req[r] \in Request /\ req \in [Requests -> Request]
    BY DEF TasksInv, TypeOK
  <1>2. /\ req' = [req EXCEPT ![r] = q] /\ UNCHANGED <<role, task, lastId>>
        /\ req[r].pc = "counted" /\ ids \subseteq PageCandidates(r)
    BY <1>1 DEF ListPage
  <1>3. /\ q.pc = "answering" /\ q.actor = req[r].actor
        /\ q.admin = req[r].admin
        /\ q.page = [i \in ids |-> Whose(task[i])]
    BY <1>1 DEF Request
  <1>4. \A i \in ids : Visible(task[i], req[r].actor, req[r].admin)
    <2>1. \A i \in ids : InScope(task[i], req[r])
      BY <1>2 DEF PageCandidates, Matching
    <2>2. req[r].scope \in Scopes
      BY <1>1 DEF Request
    <2> QED BY <2>1, <2>2 DEF InScope, Visible, Scopes
  <1> HIDE DEF q
  <1> QED BY <1>2, <1>3, <1>4, ShowIsTell

(* Between read and write: whoever could manage the task that was read can *)
(* manage the one that is there, and it is the same person's.              *)
LEMMA ReaderManages ==
    ASSUME TasksInv, NEW r \in Requests, req[r].pc = "read",
           task[req[r].id].exists
    PROVE  /\ req[r].id \in Ids
           /\ Actors[r].stage = "acting"
           /\ Board!Manages(Actors[r], task[req[r].id])
           /\ Whose(req[r].row) = Board!Whose(task[req[r].id])
  <1>1. /\ req[r].id \in Ids
        /\ CanManage(req[r].row, req[r].actor, req[r].admin)
        /\ SameTask(task[req[r].id], req[r].row)
    BY DEF TasksInv, RequestOK, ReadOK
  <1>2. /\ Actors[r].stage = "acting" /\ Actors[r].user = req[r].actor
        /\ Actors[r].admin = req[r].admin
    BY ActorValue DEF ActorStage
  <1>3. Board!Manages(Actors[r], task[req[r].id])
    BY <1>1, <1>2 DEF Board!Manages, CanManage, SameTask
  <1>4. Whose(req[r].row) = Board!Whose(task[req[r].id])
    BY <1>1 DEF Whose, Board!Whose, SameTask
  <1> QED BY <1>1, <1>2, <1>3, <1>4

LEMMA UpdateIsEdit ==
    ASSUME TasksInv, NEW r \in Requests, NEW input \in Inputs,
           Update(r, input)
    PROVE  \E i \in Ids, text \in Texts, status \in {"pending", "completed"} :
             Board!Edit(r, i, text, status)
  <1> DEFINE i == req[r].id
             row == req[r].row
             text == TextAfter(row, input)
             status == StatusAfter(row, input)
             stamp == status = "completed"
             page == [j \in {i} |-> Whose(row)]
             q == [Idle EXCEPT !.pc = "answering", !.op = "update",
                     !.actor = req[r].actor, !.admin = req[r].admin,
                     !.page = page]
  <1>1. /\ req[r].pc = "read" /\ task[i].exists
        /\ task' = [task EXCEPT ![i].text = text, ![i].status = status,
                                ![i].completedAt = StampAfter(row, input)]
        /\ WritesAndMoves(r, i, q) /\ UNCHANGED <<role, lastId>>
    BY DEF Update
  <1>2. /\ i \in Ids /\ Actors[r].stage = "acting"
        /\ Board!Manages(Actors[r], task[i])
        /\ Whose(row) = Board!Whose(task[i])
    BY <1>1, ReaderManages
  <1>3. row \in TaskRow /\ Stamped(row)
    BY <1>1 DEF TasksInv, RequestOK, ReadOK
  <1>4. text \in Texts /\ status \in {"pending", "completed"}
    BY <1>3 DEF TextAfter, StatusAfter, Inputs, TaskRow, Statuses
  <1>5. StampAfter(row, input) = stamp
    <2>1. row.completedAt \in BOOLEAN
      BY <1>3 DEF TaskRow
    <2>2. CASE status = row.status
      BY <1>3, <2>1, <2>2 DEF StampAfter, Stamped
    <2>3. CASE status # row.status
      BY <2>3 DEF StampAfter
    <2> QED BY <2>2, <2>3
  <1>6. Actors' = [Actors EXCEPT ![r] = ActorFor(q)]
    BY <1>1, WriteMoves
  <1>7. ActorFor(q) = Board!Telling(Actors[r],
                                    [j \in {i} |-> Board!Whose(task[i])])
    <2>1. /\ q.pc = "answering" /\ q.actor = req[r].actor
          /\ q.admin = req[r].admin /\ q.page = page
      BY DEF Idle
    <2>2. page = [j \in {i} |-> Board!Whose(task[i])]
      BY <1>2
    <2> HIDE DEF q, page
    <2> QED BY <2>1, <2>2, ActorValue
            DEF ActorFor, ActorStage, Board!Telling, Board!Actor
  <1> HIDE DEF q, stamp
  <1>8. task' = [task EXCEPT ![i].text = text, ![i].status = status,
                             ![i].completedAt = stamp]
    BY <1>1, <1>5
  <1>9. Board!Edit(r, i, text, status)
    BY <1>1, <1>2, <1>6, <1>7, <1>8 DEF Board!Edit, Board!Becomes, stamp
  <1> HIDE DEF i, text, status
  <1> QED BY <1>2, <1>4, <1>9 DEF i

LEMMA DeleteIsRemove ==
    ASSUME TasksInv, NEW r \in Requests, Delete(r)
    PROVE  \E i \in Ids : Board!Remove(r, i)
  <1> DEFINE i == req[r].id
  <1>1. /\ req[r].pc = "read" /\ task[i].exists
        /\ task' = [task EXCEPT ![i] = NoTask]
        /\ WritesAndMoves(r, i, Idle) /\ UNCHANGED <<role, lastId>>
    BY DEF Delete
  <1>2. /\ i \in Ids /\ Actors[r].stage = "acting"
        /\ Board!Manages(Actors[r], task[i])
    BY <1>1, ReaderManages
  <1>3. Actors' = [Actors EXCEPT ![r] = Board!Gone]
    BY <1>1, WriteMoves, IdleIsGone
  <1>4. Board!Remove(r, i)
    BY <1>1, <1>2, <1>3 DEF Board!Remove, Board!Becomes, Board!NoTask, NoTask
  <1> QED BY <1>2, <1>4

LEMMA EndsIsLeave ==
    ASSUME TasksInv, NEW r \in Requests, Ends(r)
    PROVE  Board!Leave(r)
  <1>1. /\ req[r].pc # "idle" /\ req' = [req EXCEPT ![r] = Idle]
        /\ UNCHANGED <<role, task, lastId>>
    BY DEF Ends, Leaves
  <1>2. Actors' = [Actors EXCEPT ![r] = Board!Gone]
    BY <1>1, QuietMoves, IdleIsGone
  <1>3. Actors[r].stage # "idle"
    <2>1. Actors[r].stage = ActorStage(req[r].pc)
      BY ActorValue
    <2> QED BY <1>1, <2>1 DEF ActorStage
  <1> QED BY <1>1, <1>2, <1>3 DEF Board!Leave, Board!Becomes

(* A read that is not shown, and a count, are not seen.                    *)
LEMMA ReadsAreNotSeen ==
    ASSUME TasksInv, NEW r \in Requests, NEW q,
           req' = [req EXCEPT ![r] = q], ActorFor(q) = ActorFor(req[r])
    PROVE  Actors' = Actors
  <1>1. Actors' = [Actors EXCEPT ![r] = ActorFor(q)]
    BY QuietMoves
  <1>2. Actors[r] = ActorFor(q)
    BY ActorValue
  <1> QED BY <1>1, <1>2 DEF Actors

LEMMA ReadToWriteIsNotSeen ==
    ASSUME TasksInv, NEW r \in Requests, NEW i \in Ids, ReadToWrite(r, i)
    PROVE  UNCHANGED Board!bvars
  <1> DEFINE q == [req[r] EXCEPT !.pc = "read", !.id = i, !.row = task[i]]
  <1>1. req[r] \in Request /\ req \in [Requests -> Request]
    BY DEF TasksInv, TypeOK
  <1>2. /\ req[r].pc = "authenticated" /\ req' = [req EXCEPT ![r] = q]
        /\ UNCHANGED <<role, task, lastId>>
    BY <1>1 DEF ReadToWrite
  <1>3. ActorFor(q) = ActorFor(req[r])
    BY <1>1, <1>2 DEF ActorFor, ActorStage, Request
  <1> HIDE DEF q
  <1>4. Actors' = Actors
    BY <1>2, <1>3, ReadsAreNotSeen
  <1> QED BY <1>2, <1>4 DEF Board!bvars

LEMMA ListCountIsNotSeen ==
    ASSUME TasksInv, NEW r \in Requests, NEW scope \in Scopes,
           NEW filter \in Filters, NEW limit \in Limits,
           ListCount(r, scope, filter, limit)
    PROVE  UNCHANGED Board!bvars
  <1> DEFINE asked == [req[r] EXCEPT !.pc = "counted", !.scope = scope,
                                     !.filter = filter, !.limit = limit]
             total == Cardinality(Matching(asked))
             q == [asked EXCEPT !.total = total]
  <1>1. req[r] \in Request
    BY DEF TasksInv, TypeOK
  <1>2. /\ req[r].pc = "authenticated" /\ req' = [req EXCEPT ![r] = q]
        /\ UNCHANGED <<role, task, lastId>>
    BY DEF ListCount
  <1>3. /\ q.pc = "counted" /\ q.actor = req[r].actor
        /\ q.admin = req[r].admin /\ q.page = req[r].page
    <2> HIDE DEF total
    <2> QED BY <1>1 DEF Request
  <1> HIDE DEF q
  <1>4. ActorFor(q) = ActorFor(req[r])
    BY <1>2, <1>3 DEF ActorFor, ActorStage
  <1>5. Actors' = Actors
    BY <1>2, <1>4, ReadsAreNotSeen
  <1> QED BY <1>2, <1>5 DEF Board!bvars

LEMMA BoardInit == Init => Board!Init
  <1> SUFFICES ASSUME Init PROVE Board!Init
    OBVIOUS
  <1>1. Actors = [r \in Requests |-> Board!Gone]
    BY IdleIsGone DEF Init, Actors
  <1>2. /\ lastId \in 0..MaxTasks
        /\ task \in [Ids -> Board!Ownerless \cup {NoTask}]
        /\ \A i \in Ids : i > lastId => task[i] = NoTask
    <2>1. CASE lastId = 0 /\ task = [i \in Ids |-> NoTask]
      BY <2>1, TasksAssumption
    <2>2. ASSUME MaxTasks > 0, lastId = 1, NEW text \in Texts,
                 NEW status \in Statuses,
                 task = [i \in Ids |-> IF i = 1 THEN LegacyRow(text, status)
                                                ELSE NoTask]
          PROVE  /\ lastId \in 0..MaxTasks
                 /\ task \in [Ids -> Board!Ownerless \cup {NoTask}]
                 /\ \A i \in Ids : i > lastId => task[i] = NoTask
      <3>1. LegacyRow(text, status) \in Board!Ownerless
        <4>1. LegacyRow(text, status)
                = Board!Saying(NoUser, "shared", text, status)
          BY DEF LegacyRow, Board!Saying
        <4> QED BY <4>1 DEF Board!Ownerless, Statuses
      <3> HIDE DEF Board!Ownerless
      <3> QED BY <2>2, <3>1, TasksAssumption DEF Ids
    <2> QED BY <2>1, <2>2 DEF Init
  <1>3. role \in [Users -> {"player", "admin"}]
    BY DEF Init
  <1> QED BY <1>1, <1>2, <1>3
          DEF Board!Init, Board!Ids, Ids, Board!NoTask, NoTask

LEMMA BoardStep == TasksInv /\ [Next]_vars => [Board!Next]_(Board!bvars)
  <1> SUFFICES ASSUME TasksInv, [Next]_vars
               PROVE  Board!Next \/ UNCHANGED Board!bvars
    OBVIOUS
  <1>1. ASSUME NEW r \in Requests, Step(r)
        PROVE  Board!Next \/ UNCHANGED Board!bvars
    <2>1. ASSUME NEW user \in Users, NEW op \in Operations,
                 Authenticate(r, user, op)
          PROVE  Board!Next
      BY <2>1, AuthenticateIsArrive DEF Board!Next
    <2>2. ASSUME NEW visibility \in Visibilities, NEW text \in Texts,
                 Create(r, visibility, text)
          PROVE  Board!Next
      BY <2>2, CreateIsPost DEF Board!Next, Board!Writes, Visibilities
    <2>3. ASSUME NEW i \in Ids, Get(r, i) PROVE Board!Next
      <3>1. {i} \in SUBSET Board!Ids
        BY DEF Board!Ids, Ids
      <3> QED BY <2>3, <3>1, GetIsTell DEF Board!Next
    <2>4. ASSUME NEW i \in Ids, ReadToWrite(r, i)
          PROVE  UNCHANGED Board!bvars
      BY <2>4, ReadToWriteIsNotSeen
    <2>5. ASSUME NEW input \in Inputs, Update(r, input) PROVE Board!Next
      BY <2>5, UpdateIsEdit DEF Board!Next, Board!Writes, Board!Ids, Ids
    <2>6. ASSUME Delete(r) PROVE Board!Next
      BY <2>6, DeleteIsRemove DEF Board!Next, Board!Writes, Board!Ids, Ids
    <2>7. ASSUME NEW scope \in Scopes, NEW filter \in Filters,
                 NEW limit \in Limits, ListCount(r, scope, filter, limit)
          PROVE  UNCHANGED Board!bvars
      BY <2>7, ListCountIsNotSeen
    <2>8. ASSUME NEW ids \in SUBSET Ids, ListPage(r, ids) PROVE Board!Next
      <3>1. ids \in SUBSET Board!Ids
        BY DEF Board!Ids, Ids
      <3> QED BY <2>8, <3>1, ListPageIsTell DEF Board!Next
    <2>9. ASSUME Ends(r) PROVE Board!Next
      BY <2>9, EndsIsLeave DEF Board!Next
    <2> QED BY <1>1, <2>1, <2>2, <2>3, <2>4, <2>5, <2>6, <2>7, <2>8, <2>9
            DEF Step
  <1>2. ASSUME NEW user \in Users, SetRole(user) PROVE Board!Next
    <2>1. UNCHANGED <<task, lastId, Actors>>
      BY <1>2 DEF SetRole, Actors, ActorFor
    <2>2. Board!SetRole(user)
      BY <1>2, <2>1 DEF SetRole, Board!SetRole
    <2> QED BY <2>2 DEF Board!Next
  <1>3. ASSUME Restart PROVE Board!Next
    <2>1. Actors' = [r \in Requests |-> Board!Gone]
      BY <1>3, IdleIsGone DEF Restart, Actors
    <2>2. Board!Restart
      BY <1>3, <2>1 DEF Restart, Board!Restart
    <2> QED BY <2>2 DEF Board!Next
  <1>4. CASE UNCHANGED vars
    BY <1>4 DEF vars, Board!bvars, Actors, ActorFor
  <1> QED BY <1>1, <1>2, <1>3, <1>4 DEF Next

(* Tasks implements TaskBoard: rights checked on one read and used in a    *)
(* later write by id amount to rights checked with the write, and what a   *)
(* request is told was visible to its actor (BoardSpec).                   *)
THEOREM TasksImplementBoard == Spec => BoardSpec
  <1>1. Init => Board!Init
    BY BoardInit
  <1>2. TasksInv /\ [Next]_vars => [Board!Next]_(Board!bvars)
    BY BoardStep
  <1> QED BY <1>1, <1>2, TasksInvAlways, PTL DEF Spec, BoardSpec, Board!Spec

=============================================================================
