---------------------------- MODULE RosterProofs ----------------------------
(***************************************************************************)
(* Proofs about Roster, for every set of users, names and callers and all  *)
(* waiting times. The clock is bounded by MaxTime in the specification;    *)
(* the proofs use no value of the bound.                                   *)
(***************************************************************************)
EXTENDS Roster, TLAPS

-----------------------------------------------------------------------------
(* Values *)

(* A snapshot is a function from some users to names.                      *)
LEMMA SnapshotValue ==
    ASSUME NEW s \in Snapshots
    PROVE  /\ DOMAIN s \subseteq Users
           /\ \A u \in DOMAIN s : s[u] \in Names
           /\ s = [u \in DOMAIN s |-> s[u]]
  <1>1. PICK online \in SUBSET Users : s \in [online -> Names]
    BY DEF Snapshots
  <1> QED BY <1>1

LEMMA NobodyIsSnapshot == Nobody \in Snapshots /\ DOMAIN Nobody = {}
  <1>1. Nobody \in [{} -> Names]
    BY DEF Nobody
  <1> QED BY <1>1 DEF Snapshots, Nobody

LEMMA IdleIsCaller == Idle \in Caller
  BY NobodyIsSnapshot, RosterAssumption DEF Idle, Caller, Stages, Time

(* The shapes of the variables, one at a time.                             *)
Shapes ==
    /\ now \in Time /\ now # 0
    /\ roster \in [Users -> RosterRow]
    /\ user \in [Users -> UserRow]
    /\ lastSuccess \in Time
    /\ cache \in Entry
    /\ failureAt \in Time
    /\ settledAt \in Time
    /\ caller \in [Callers -> Caller]

Exclusion == \A c, d \in Callers : Holds(c) /\ Holds(d) => c = d

LEMMA ShapesInit == Init => Shapes
  <1> SUFFICES ASSUME Init PROVE Shapes
    OBVIOUS
  <1>1. now \in Time /\ now # 0 /\ lastSuccess \in Time
        /\ failureAt \in Time /\ settledAt \in Time
    BY RosterAssumption DEF Init, Time
  <1>2. roster \in [Users -> RosterRow] /\ user \in [Users -> UserRow]
    <2>1. PICK name \in Snapshots :
            /\ roster = [u \in Users |->
                           IF u \in DOMAIN name
                           THEN [known |-> TRUE, name |-> name[u],
                                 online |-> TRUE, lastOnline |-> 0]
                           ELSE NoRow]
            /\ user = [u \in Users |->
                         IF u \in DOMAIN name
                         THEN [bound |-> TRUE, name |-> name[u],
                               createdAt |-> 0]
                         ELSE NoUser]
      BY DEF Init
    <2>2. 0 \in Time /\ \A u \in DOMAIN name : name[u] \in Names
      BY RosterAssumption, SnapshotValue DEF Time
    <2> QED BY <2>1, <2>2 DEF RosterRow, UserRow
  <1>3. cache \in Entry
    BY DEF Init, Entry
  <1>4. caller \in [Callers -> Caller]
    BY IdleIsCaller DEF Init
  <1> QED BY <1>1, <1>2, <1>3, <1>4 DEF Shapes

-----------------------------------------------------------------------------
(* What each step does to the caller that takes it *)

(* The others stand still.                                                 *)
Others(c) == \A d \in Callers \ {c} : caller'[d] = caller[d]

LEMMA Moved ==
    ASSUME caller \in [Callers -> Caller], NEW c \in Callers, NEW r \in Caller,
           caller' = [caller EXCEPT ![c] = r]
    PROVE  caller' \in [Callers -> Caller] /\ Others(c) /\ caller'[c] = r
  BY DEF Others

(* A filled cache holds a snapshot, an empty one no field but "filled".    *)
LEMMA FilledCache ==
    ASSUME cache \in Entry, cache.filled
    PROVE  cache.snapshot \in Snapshots /\ cache.sentAt \in Time
           /\ cache.completedAt \in Time
  <1>1. cache # NoEntry
    BY DEF NoEntry
  <1> QED BY <1>1 DEF Entry

LEMMA CallMoves ==
    ASSUME Shapes, NEW c \in Callers, NEW kind \in {"players", "fresh"},
           Call(c, kind)
    PROVE  /\ caller' \in [Callers -> Caller] /\ Others(c)
           /\ caller'[c].pc = "waiting" /\ caller'[c].kind = kind
           /\ caller'[c].calledAt \in {0, now}
           /\ ~caller'[c].known
  <1> DEFINE r == [Idle EXCEPT !.pc = "waiting", !.kind = kind,
                               !.calledAt = ArrivedAt(kind)]
  <1>0. ArrivedAt(kind) \in {0, now} /\ 0 \in Time
    BY RosterAssumption DEF ArrivedAt, Time
  <1>1. /\ r \in Caller /\ r.pc = "waiting" /\ r.kind = kind
        /\ r.calledAt \in {0, now} /\ ~r.known
    BY <1>0, IdleIsCaller DEF Caller, Stages, Shapes, Idle
  <1>2. caller' = [caller EXCEPT ![c] = r]
    BY DEF Call
  <1> HIDE DEF r
  <1> QED BY <1>1, <1>2, Moved DEF Shapes

LEMMA EnterCachedMoves ==
    ASSUME Shapes, NEW c \in Callers, EnterCached(c)
    PROVE  /\ caller' \in [Callers -> Caller] /\ Others(c)
           /\ caller'[c].pc = "answering" /\ caller'[c].kind = "players"
           /\ caller'[c].known = TRUE /\ caller'[c].snapshot = cache.snapshot
           /\ caller'[c].sentAt = cache.sentAt /\ caller'[c].at = now
           /\ caller'[c].calledAt = caller[c].calledAt
  <1> DEFINE r == [caller[c] EXCEPT
                     !.pc = "answering", !.known = TRUE,
                     !.snapshot = cache.snapshot, !.sentAt = cache.sentAt,
                     !.at = now]
  <1>1. caller[c] \in Caller
    BY DEF Shapes
  <1>2. cache.snapshot \in Snapshots /\ cache.sentAt \in Time
    BY FilledCache DEF EnterCached, CacheFresh, Shapes
  <1>3. /\ r \in Caller /\ r.pc = "answering" /\ r.kind = caller[c].kind
        /\ r.known /\ r.snapshot = cache.snapshot /\ r.sentAt = cache.sentAt
        /\ r.at = now /\ r.calledAt = caller[c].calledAt
    BY <1>1, <1>2 DEF Caller, Stages, Shapes
  <1>4. caller' = [caller EXCEPT ![c] = r] /\ caller[c].kind = "players"
    BY DEF EnterCached
  <1> HIDE DEF r
  <1> QED BY <1>3, <1>4, Moved DEF Shapes

(* The ways to an answer without a snapshot.                               *)
LEMMA UnknownMoves ==
    ASSUME Shapes, NEW c \in Callers,
           caller' = [caller EXCEPT ![c] = [Idle EXCEPT !.pc = "answering"]]
    PROVE  /\ caller' \in [Callers -> Caller] /\ Others(c)
           /\ caller'[c].pc = "answering" /\ caller'[c].kind = "players"
           /\ caller'[c].known = FALSE /\ caller'[c].calledAt = 0
  <1> DEFINE r == [Idle EXCEPT !.pc = "answering"]
  <1>1. /\ r \in Caller /\ r.pc = "answering" /\ r.kind = "players"
        /\ r.known = FALSE /\ r.calledAt = 0
    BY IdleIsCaller DEF Caller, Stages, Idle
  <1>2. caller' = [caller EXCEPT ![c] = r]
    OBVIOUS
  <1> HIDE DEF r
  <1> QED BY <1>1, <1>2, Moved DEF Shapes

LEMMA LeavesMoves ==
    ASSUME Shapes, NEW c \in Callers, Leaves(c)
    PROVE  /\ caller' \in [Callers -> Caller] /\ Others(c)
           /\ caller'[c] = Idle
  BY IdleIsCaller, Moved DEF Leaves, Shapes

LEMMA EnterFetchMoves ==
    ASSUME Shapes, NEW c \in Callers, EnterFetch(c)
    PROVE  /\ caller' \in [Callers -> Caller] /\ Others(c)
           /\ caller'[c].pc = "fetching" /\ caller'[c].sentAt = now
           /\ caller'[c].calledAt = caller[c].calledAt
           /\ caller'[c].kind = caller[c].kind
  <1> DEFINE r == [caller[c] EXCEPT !.pc = "fetching", !.sentAt = now]
  <1>1. caller[c] \in Caller
    BY DEF Shapes
  <1>2. /\ r \in Caller /\ r.pc = "fetching" /\ r.sentAt = now
        /\ r.calledAt = caller[c].calledAt /\ r.kind = caller[c].kind
    BY <1>1 DEF Caller, Stages, Shapes
  <1>3. caller' = [caller EXCEPT ![c] = r]
    BY DEF EnterFetch
  <1> HIDE DEF r
  <1> QED BY <1>2, <1>3, Moved DEF Shapes

LEMMA FetchSucceedsMoves ==
    ASSUME Shapes, NEW c \in Callers, NEW s \in Snapshots, FetchSucceeds(c, s)
    PROVE  /\ caller' \in [Callers -> Caller] /\ Others(c)
           /\ caller'[c].pc = "applying" /\ caller'[c].snapshot = s
           /\ caller'[c].at = now /\ caller'[c].sentAt = caller[c].sentAt
           /\ caller'[c].calledAt = caller[c].calledAt
           /\ caller'[c].kind = caller[c].kind
  <1> DEFINE r == [caller[c] EXCEPT !.pc = "applying", !.snapshot = s,
                                    !.at = now]
  <1>1. caller[c] \in Caller
    BY DEF Shapes
  <1>2. /\ r \in Caller /\ r.pc = "applying" /\ r.snapshot = s /\ r.at = now
        /\ r.sentAt = caller[c].sentAt /\ r.calledAt = caller[c].calledAt
        /\ r.kind = caller[c].kind
    BY <1>1 DEF Caller, Stages, Shapes
  <1>3. caller' = [caller EXCEPT ![c] = r]
    BY DEF FetchSucceeds
  <1> HIDE DEF r
  <1> QED BY <1>2, <1>3, Moved DEF Shapes

LEMMA ApplyCommitsMoves ==
    ASSUME Shapes, NEW c \in Callers, ApplyCommits(c)
    PROVE  /\ caller' \in [Callers -> Caller] /\ Others(c)
           /\ caller'[c].pc = "caching"
           /\ caller'[c].snapshot = caller[c].snapshot
           /\ caller'[c].at = caller[c].at
           /\ caller'[c].sentAt = caller[c].sentAt
           /\ caller'[c].calledAt = caller[c].calledAt
           /\ caller'[c].kind = caller[c].kind
  <1> DEFINE r == [caller[c] EXCEPT !.pc = "caching"]
  <1>1. caller[c] \in Caller
    BY DEF Shapes
  <1>2. /\ r \in Caller /\ r.pc = "caching"
        /\ r.snapshot = caller[c].snapshot /\ r.at = caller[c].at
        /\ r.sentAt = caller[c].sentAt /\ r.calledAt = caller[c].calledAt
        /\ r.kind = caller[c].kind
    BY <1>1 DEF Caller, Stages
  <1>3. caller' = [caller EXCEPT ![c] = r]
    BY DEF ApplyCommits, Goes
  <1> HIDE DEF r
  <1> QED BY <1>2, <1>3, Moved DEF Shapes

LEMMA SucceedsMoves ==
    ASSUME Shapes, NEW c \in Callers, Succeeds(c)
    PROVE  /\ caller' \in [Callers -> Caller] /\ Others(c)
           /\ caller'[c].pc = IF caller[c].kind = "players" THEN "answering"
                                                           ELSE "registering"
           /\ caller'[c].snapshot = caller[c].snapshot
           /\ caller'[c].known = TRUE
           /\ caller'[c].at = caller[c].at
           /\ caller'[c].sentAt = caller[c].sentAt
           /\ caller'[c].calledAt = caller[c].calledAt
           /\ caller'[c].kind = caller[c].kind
  <1> DEFINE p == IF caller[c].kind = "players" THEN "answering"
                                                ELSE "registering"
             r == [caller[c] EXCEPT !.pc = p, !.known = TRUE]
  <1>1. caller[c] \in Caller /\ p \in Stages
    BY DEF Shapes, Stages
  <1>2. caller' = [caller EXCEPT ![c] = r]
    BY DEF Succeeds
  <1> HIDE DEF p
  <1>3. /\ r \in Caller /\ r.pc = p /\ r.known = TRUE
        /\ r.snapshot = caller[c].snapshot /\ r.at = caller[c].at
        /\ r.sentAt = caller[c].sentAt /\ r.calledAt = caller[c].calledAt
        /\ r.kind = caller[c].kind
    BY <1>1 DEF Caller
  <1> HIDE DEF r
  <1>4. caller' \in [Callers -> Caller] /\ Others(c) /\ caller'[c] = r
    BY <1>2, <1>3, Moved DEF Shapes
  <1> QED BY <1>3, <1>4 DEF p

-----------------------------------------------------------------------------
(* The tables after a transaction *)

LEMMA RosterAfterShape ==
    ASSUME roster \in [Users -> RosterRow], NEW s \in Snapshots, NEW t \in Time
    PROVE  RosterAfter(s, t) \in [Users -> RosterRow]
  <1> SUFFICES ASSUME NEW u \in Users PROVE RosterAfter(s, t)[u] \in RosterRow
    BY DEF RosterAfter
  <1>1. CASE u \in DOMAIN s
    BY <1>1, SnapshotValue DEF RosterAfter, RosterRow
  <1>2. CASE u \notin DOMAIN s /\ roster[u].known
    <2>1. roster[u] # NoRow /\ roster[u] \in RosterRow
      BY <1>2 DEF NoRow
    <2>2. roster[u] \in [known : {TRUE}, name : Names, online : BOOLEAN,
                         lastOnline : Time]
      BY <2>1 DEF RosterRow
    <2> QED BY <1>2, <2>2 DEF RosterAfter, RosterRow
  <1>3. CASE u \notin DOMAIN s /\ ~roster[u].known
    BY <1>3 DEF RosterAfter, RosterRow
  <1> QED BY <1>1, <1>2, <1>3

LEMMA UserAfterShape ==
    ASSUME user \in [Users -> UserRow], NEW s \in Snapshots
    PROVE  UserAfter(s) \in [Users -> UserRow]
  <1> SUFFICES ASSUME NEW u \in Users PROVE UserAfter(s)[u] \in UserRow
    BY DEF UserAfter
  <1>1. CASE u \in DOMAIN s /\ user[u].bound
    <2>1. user[u] # NoUser /\ user[u] \in UserRow /\ s[u] \in Names
      BY <1>1, SnapshotValue DEF NoUser
    <2>2. user[u] \in [bound : {TRUE}, name : Names, createdAt : Time]
      BY <2>1 DEF UserRow
    <2> QED BY <1>1, <2>1, <2>2 DEF UserAfter, UserRow
  <1>2. CASE ~(u \in DOMAIN s /\ user[u].bound)
    BY <1>2 DEF UserAfter
  <1> QED BY <1>1, <1>2

-----------------------------------------------------------------------------
(* Shapes *)

LEMMA FailsShapes ==
    ASSUME Shapes, NEW c \in Callers, Fails(c)
    PROVE  /\ failureAt' = now /\ settledAt' = now
           /\ caller' \in [Callers -> Caller] /\ Others(c)
           /\ caller'[c].pc \in {"idle", "answering"}
           /\ caller'[c].kind = "players"
           /\ ~caller'[c].known /\ caller'[c].calledAt = 0
  <1>1. failureAt' = now /\ settledAt' = now
    BY DEF Fails, CooldownFromEnd
  <1>2. CASE caller[c].kind = "players"
    BY <1>1, <1>2, UnknownMoves DEF Fails
  <1>3. CASE caller[c].kind # "players"
    BY <1>1, <1>3, LeavesMoves DEF Fails, Idle
  <1> QED BY <1>2, <1>3

LEMMA ShapesStep == Shapes /\ [Next]_vars => Shapes'
  <1> SUFFICES ASSUME Shapes, [Next]_vars PROVE Shapes'
    OBVIOUS
  <1>0. \A c \in Callers : caller[c] \in Caller
    BY DEF Shapes
  <1>1. ASSUME NEW c \in Callers, NEW kind \in {"players", "fresh"},
               Call(c, kind)
        PROVE  Shapes'
    BY <1>1, CallMoves DEF Call, Shapes
  <1>2. ASSUME NEW c \in Callers, EnterCached(c) PROVE Shapes'
    BY <1>2, EnterCachedMoves DEF EnterCached, Shapes
  <1>3. ASSUME NEW c \in Callers, EnterCooling(c) \/ StateFails(c)
        PROVE  Shapes'
    BY <1>3, UnknownMoves DEF EnterCooling, StateFails, Shapes
  <1>4. ASSUME NEW c \in Callers, EnterFetch(c) PROVE Shapes'
    BY <1>4, EnterFetchMoves DEF EnterFetch, Shapes
  <1>5. ASSUME NEW c \in Callers, FetchFails(c) PROVE Shapes'
    BY <1>5, FailsShapes DEF FetchFails, Shapes
  <1>6. ASSUME NEW c \in Callers, NEW s \in Snapshots, FetchSucceeds(c, s)
        PROVE  Shapes'
    BY <1>6, FetchSucceedsMoves DEF FetchSucceeds, Shapes
  <1>7. ASSUME NEW c \in Callers, ApplyFails(c) PROVE Shapes'
    BY <1>7, FailsShapes DEF ApplyFails, Shapes
  <1>8. ASSUME NEW c \in Callers, ApplyCommits(c) PROVE Shapes'
    <2>1. caller[c].snapshot \in Snapshots /\ caller[c].at \in Time
      BY <1>0 DEF Caller
    <2>2. roster' \in [Users -> RosterRow] /\ user' \in [Users -> UserRow]
      BY <1>8, <2>1, RosterAfterShape, UserAfterShape DEF ApplyCommits, Shapes
    <2> QED BY <1>8, <2>1, <2>2, ApplyCommitsMoves DEF ApplyCommits, Shapes
  <1>9. ASSUME NEW c \in Callers, Succeeds(c) PROVE Shapes'
    <2>1. /\ caller[c].snapshot \in Snapshots
          /\ caller[c].at \in Time /\ caller[c].sentAt \in Time /\ 0 \in Time
      BY <1>0, RosterAssumption DEF Caller, Time
    <2>2. cache' \in Entry /\ failureAt' \in Time /\ settledAt' \in Time
      BY <1>9, <2>1 DEF Succeeds, Entry
    <2> QED BY <1>9, <2>2, SucceedsMoves DEF Succeeds, Shapes
  <1>10. ASSUME NEW c \in Callers, Answer(c) PROVE Shapes'
    BY <1>10, LeavesMoves DEF Answer, Shapes
  <1>11. ASSUME NEW c \in Callers, NEW u \in Users, Register(c, u)
         PROVE  Shapes'
    <2>1. caller[c].snapshot \in Snapshots
      BY <1>0 DEF Caller
    <2>2. caller[c].snapshot[u] \in Names
      BY <1>11, <2>1, SnapshotValue DEF Register
    <2>3. user' \in [Users -> UserRow]
      BY <1>11, <2>2 DEF Register, UserRow, Shapes
    <2> QED BY <1>11, <2>3, LeavesMoves DEF Register, Shapes
  <1>12. ASSUME NEW c \in Callers, RegisterRefused(c) PROVE Shapes'
    BY <1>12, LeavesMoves DEF RegisterRefused, Shapes
  <1>13. CASE Tick
    BY <1>13, RosterAssumption DEF Tick, Time, Shapes
  <1>14. CASE Restart
    BY <1>14, IdleIsCaller, RosterAssumption DEF Restart, Entry, Time, Shapes
  <1>15. CASE UNCHANGED vars
    BY <1>15 DEF vars, Shapes
  <1> QED
    BY <1>1, <1>2, <1>3, <1>4, <1>5, <1>6, <1>7, <1>8, <1>9, <1>10, <1>11,
       <1>12, <1>13, <1>14, <1>15 DEF Next, Enter, Step

-----------------------------------------------------------------------------
(* The mutex *)

LEMMA ExclusionInit == Init => Exclusion
  BY DEF Init, Exclusion, Holds, Idle

LEMMA ExclusionStep == Shapes /\ Exclusion /\ [Next]_vars => Exclusion'
  <1> SUFFICES ASSUME Shapes, Exclusion, [Next]_vars PROVE Exclusion'
    OBVIOUS
  (* Whoever enters finds the mutex free ...                               *)
  <1>1. ASSUME NEW c \in Callers, MutexFree, Others(c) PROVE Exclusion'
    BY <1>1 DEF MutexFree, Others, Holds, Exclusion
  (* ... and whoever goes on from behind it had it.                        *)
  <1>2. ASSUME NEW c \in Callers, Holds(c), Others(c) PROVE Exclusion'
    BY <1>2 DEF Others, Holds, Exclusion
  <1>3. ASSUME NEW c \in Callers, Others(c),
               caller'[c].pc \in {"idle", "waiting"}
        PROVE  Exclusion'
    BY <1>3 DEF Others, Holds, Exclusion
  <1>4. ASSUME NEW c \in Callers, NEW kind \in {"players", "fresh"},
               Call(c, kind)
        PROVE  Exclusion'
    BY <1>3, <1>4, CallMoves
  <1>5. ASSUME NEW c \in Callers, Enter(c) PROVE Exclusion'
    <2>1. Others(c)
      BY <1>5, EnterCachedMoves, UnknownMoves, EnterFetchMoves
         DEF Enter, EnterCooling
    <2>2. MutexFree
      BY <1>5 DEF Enter, EnterCached, EnterCooling, EnterFetch
    <2> QED BY <1>1, <2>1, <2>2
  <1>6. ASSUME NEW c \in Callers, FetchFails(c) \/ ApplyFails(c)
        PROVE  Exclusion'
    BY <1>2, <1>6, FailsShapes DEF FetchFails, ApplyFails, Holds
  <1>7. ASSUME NEW c \in Callers, NEW s \in Snapshots, FetchSucceeds(c, s)
        PROVE  Exclusion'
    BY <1>2, <1>7, FetchSucceedsMoves DEF FetchSucceeds, Holds
  <1>8. ASSUME NEW c \in Callers, ApplyCommits(c) PROVE Exclusion'
    BY <1>2, <1>8, ApplyCommitsMoves DEF ApplyCommits, Holds
  <1>9. ASSUME NEW c \in Callers, Succeeds(c) PROVE Exclusion'
    BY <1>2, <1>9, SucceedsMoves DEF Succeeds, Holds
  <1>13. ASSUME NEW c \in Callers, StateFails(c) PROVE Exclusion'
    BY <1>2, <1>13, UnknownMoves DEF StateFails, Holds
  <1>10. ASSUME NEW c \in Callers,
                Answer(c) \/ (\E u \in Users : Register(c, u))
                  \/ RegisterRefused(c)
         PROVE  Exclusion'
    BY <1>3, <1>10, LeavesMoves DEF Answer, Register, RegisterRefused, Idle
  <1>11. CASE Tick \/ UNCHANGED vars
    BY <1>11 DEF Tick, vars, Exclusion, Holds
  <1>12. CASE Restart
    BY <1>12 DEF Restart, Exclusion, Holds, Idle
  <1> QED
    BY <1>4, <1>5, <1>6, <1>7, <1>8, <1>9, <1>10, <1>11, <1>12, <1>13
       DEF Next, Step

(* Every reachable state has the shapes of the tables and fields, and at   *)
(* most one caller holds Service.mu (TypeOK).                              *)
THEOREM TypeCorrect == Spec => []TypeOK
  <1>1. Shapes /\ Exclusion /\ [Next]_vars => (Shapes /\ Exclusion)'
    BY ShapesStep, ExclusionStep
  <1>2. Shapes /\ Exclusion => TypeOK
    BY DEF Shapes, Exclusion, TypeOK
  <1> QED BY <1>1, <1>2, ShapesInit, ExclusionInit, PTL DEF Spec

-----------------------------------------------------------------------------
(* One snapshot *)

(* Between a commit and the assignment to Service.cache the tables follow  *)
(* the snapshot of the caller in between; otherwise they follow the cache. *)
SnapshotInv ==
    /\ (\A c \in Callers : caller[c].pc # "caching") /\ cache.filled
         => TablesAgree(cache.snapshot, cache.completedAt)
    /\ \A c \in Callers :
         caller[c].pc = "caching" => TablesAgree(caller[c].snapshot, caller[c].at)
    /\ \A c \in Callers :
         caller[c].pc = "answering" /\ caller[c].known
           => cache.filled /\ caller[c].snapshot = cache.snapshot

LEMMA SnapshotInit == Init => SnapshotInv
  BY DEF Init, SnapshotInv, NoEntry, Idle

LEMMA RosterAfterAgrees ==
    ASSUME NEW s \in Snapshots, NEW t \in Time, roster' = RosterAfter(s, t),
           lastSuccess' = t
    PROVE  TablesAgree(s, t)'
  <1>1. \A u \in DOMAIN s : /\ u \in Users
                             /\ roster'[u].known = TRUE
                             /\ roster'[u].online = TRUE
                             /\ roster'[u].name = s[u]
                             /\ roster'[u].lastOnline = t
    BY SnapshotValue DEF RosterAfter
  <1>2. \A u \in Users \ DOMAIN s : ~(roster'[u].known /\ roster'[u].online)
    <2> SUFFICES ASSUME NEW u \in Users \ DOMAIN s
                 PROVE  ~(roster'[u].known /\ roster'[u].online)
      OBVIOUS
    <2>1. CASE roster[u].known
      <3>1. roster'[u] = [roster[u] EXCEPT !.online = FALSE]
        BY <2>1 DEF RosterAfter
      <3> QED BY <3>1
    <2>2. CASE ~roster[u].known
      BY <2>2 DEF RosterAfter, NoRow
    <2> QED BY <2>1, <2>2
  <1>3. Online' = {u \in Users : roster'[u].known /\ roster'[u].online}
    BY DEF Online
  <1>4. \A u \in Online' : u \in DOMAIN s
    BY <1>2, <1>3
  <1>5. \A u \in DOMAIN s : u \in Online'
    BY <1>1, <1>3
  <1>6. Online' = DOMAIN s
    BY <1>4, <1>5
  <1> QED BY <1>1, <1>6 DEF TablesAgree

LEMMA SnapshotStep == Shapes /\ Exclusion /\ SnapshotInv /\ [Next]_vars
                         => SnapshotInv'
  <1> SUFFICES ASSUME Shapes, Exclusion, SnapshotInv, [Next]_vars
               PROVE  SnapshotInv'
    OBVIOUS
  (* A step that leaves tables and cache alone, of a caller that neither   *)
  (* caches before or after it nor ends in an answer with a snapshot.      *)
  <1>1. ASSUME NEW c \in Callers, Others(c),
               UNCHANGED <<roster, lastSuccess, cache>>,
               caller[c].pc # "caching", caller'[c].pc # "caching",
               caller'[c].pc = "answering" /\ caller'[c].known
                 => cache.filled /\ caller'[c].snapshot = cache.snapshot
        PROVE  SnapshotInv'
    BY <1>1 DEF Others, SnapshotInv, TablesAgree, Online
  <1>2. ASSUME NEW c \in Callers, NEW kind \in {"players", "fresh"},
               Call(c, kind)
        PROVE  SnapshotInv'
    BY <1>1, <1>2, CallMoves DEF Call
  <1>3. ASSUME NEW c \in Callers, EnterCached(c) PROVE SnapshotInv'
    BY <1>1, <1>3, EnterCachedMoves DEF EnterCached, CacheFresh
  <1>4. ASSUME NEW c \in Callers, EnterCooling(c) \/ StateFails(c)
        PROVE  SnapshotInv'
    BY <1>1, <1>4, UnknownMoves DEF EnterCooling, StateFails
  <1>5. ASSUME NEW c \in Callers, EnterFetch(c) PROVE SnapshotInv'
    BY <1>1, <1>5, EnterFetchMoves DEF EnterFetch
  <1>6. ASSUME NEW c \in Callers, FetchFails(c) \/ ApplyFails(c)
        PROVE  SnapshotInv'
    BY <1>1, <1>6, FailsShapes DEF FetchFails, ApplyFails
  <1>7. ASSUME NEW c \in Callers, NEW s \in Snapshots, FetchSucceeds(c, s)
        PROVE  SnapshotInv'
    BY <1>1, <1>7, FetchSucceedsMoves DEF FetchSucceeds
  <1>8. ASSUME NEW c \in Callers, ApplyCommits(c) PROVE SnapshotInv'
    <2> DEFINE s == caller[c].snapshot
               t == caller[c].at
    <2>1. s \in Snapshots /\ t \in Time
      BY DEF Shapes, Caller
    <2>2. roster' = RosterAfter(s, t) /\ lastSuccess' = t
      BY <1>8 DEF ApplyCommits
    <2>3. \A d \in Callers \ {c} : caller'[d] = caller[d] /\ ~Holds(d)
      BY <1>8, ApplyCommitsMoves DEF ApplyCommits, Others, Exclusion, Holds
    <2>4. caller'[c].pc = "caching" /\ caller'[c].snapshot = s
          /\ caller'[c].at = t
      BY <1>8, ApplyCommitsMoves
    <2>5. \A d \in Callers : /\ caller'[d].pc # "answering"
                             /\ caller'[d].pc = "caching" => d = c
      BY <2>3, <2>4 DEF Holds
    <2> HIDE DEF s, t
    <2>6. \A x \in Snapshots, y \in Time :
            x = s /\ y = t => TablesAgree(x, y)'
      BY <2>2, RosterAfterAgrees
    <2>7. TablesAgree(caller[c].snapshot, caller[c].at)'
      BY <2>1, <2>4, <2>6 DEF TablesAgree
    <2> QED BY <2>4, <2>5, <2>7 DEF SnapshotInv
  <1>9. ASSUME NEW c \in Callers, Succeeds(c) PROVE SnapshotInv'
    <2>1. \A d \in Callers \ {c} : caller'[d] = caller[d] /\ ~Holds(d)
      BY <1>9, SucceedsMoves DEF Succeeds, Others, Exclusion, Holds
    <2>2. TablesAgree(caller[c].snapshot, caller[c].at)
      BY <1>9 DEF Succeeds, SnapshotInv
    <2>3. /\ cache'.filled /\ cache'.snapshot = caller[c].snapshot
          /\ cache'.completedAt = caller[c].at
          /\ UNCHANGED <<roster, lastSuccess>>
      BY <1>9 DEF Succeeds
    <2>4. TablesAgree(cache.snapshot, cache.completedAt)'
      BY <2>2, <2>3 DEF TablesAgree, Online
    <2>5. caller'[c].pc # "caching" /\ caller'[c].snapshot = caller[c].snapshot
      BY <1>9, SucceedsMoves
    <2> QED BY <2>1, <2>3, <2>4, <2>5 DEF SnapshotInv, Holds
  <1>10. ASSUME NEW c \in Callers,
                Answer(c) \/ (\E u \in Users : Register(c, u))
                  \/ RegisterRefused(c)
         PROVE  SnapshotInv'
    BY <1>1, <1>10, LeavesMoves DEF Answer, Register, RegisterRefused, Idle
  <1>11. CASE Tick \/ UNCHANGED vars
    BY <1>11 DEF Tick, vars, SnapshotInv, TablesAgree, Online
  <1>12. CASE Restart
    BY <1>12 DEF Restart, SnapshotInv, NoEntry, Idle
  <1> QED
    BY <1>2, <1>3, <1>4, <1>5, <1>6, <1>7, <1>8, <1>9, <1>10, <1>11, <1>12
       DEF Next, Enter, Step

(* Whatever fails and whoever refreshes in between, the rows an answer is  *)
(* joined from are those its snapshot wrote (KnownIsOneSnapshot).          *)
THEOREM AnswersAreOneSnapshot == Spec => []KnownIsOneSnapshot
  <1> DEFINE IInv == Shapes /\ Exclusion /\ SnapshotInv
  <1>1. Init => IInv
    BY ShapesInit, ExclusionInit, SnapshotInit
  <1>2. IInv /\ [Next]_vars => IInv'
    BY ShapesStep, ExclusionStep, SnapshotStep
  <1>3. IInv => KnownIsOneSnapshot
    <2> SUFFICES ASSUME Exclusion, SnapshotInv PROVE KnownIsOneSnapshot
      OBVIOUS
    <2>1. MutexFree => \A c \in Callers : caller[c].pc # "caching"
      BY DEF MutexFree, Holds
    <2>2. ASSUME NEW c \in Callers, caller[c].pc = "answering"
          PROVE  \A d \in Callers : caller[d].pc # "caching"
      BY <2>2 DEF Exclusion, Holds
    <2> QED BY <2>1, <2>2 DEF KnownIsOneSnapshot, SnapshotInv
  <1> QED BY <1>1, <1>2, <1>3, PTL DEF Spec

-----------------------------------------------------------------------------
(* Recent snapshots *)

(* A request is at most Timeout on its way, what it brought carries the    *)
(* instant it arrived, and the transaction does not change that.           *)
RecentInv ==
    /\ cache.filled => /\ cache.completedAt <= now
                       /\ cache.completedAt <= cache.sentAt + Timeout
    /\ \A c \in Callers :
         /\ caller[c].pc = "fetching" => now <= caller[c].sentAt + Timeout
         /\ caller[c].pc \in {"applying", "caching"}
              => /\ caller[c].at <= now
                 /\ caller[c].at <= caller[c].sentAt + Timeout
         /\ caller[c].pc = "answering" /\ caller[c].known
              => caller[c].at < caller[c].sentAt + TTL + Timeout

LEMMA NumbersOfShapes ==
    ASSUME Shapes
    PROVE  /\ TTL \in Nat /\ TTL > 0 /\ Timeout \in Nat
           /\ now \in Nat /\ now > 0 /\ settledAt \in Nat /\ failureAt \in Nat
           /\ \A c \in Callers : /\ caller[c].at \in Nat
                                 /\ caller[c].sentAt \in Nat
                                 /\ caller[c].calledAt \in Nat
           /\ cache.filled => cache.sentAt \in Nat /\ cache.completedAt \in Nat
  <1>1. \A t \in Time : t \in Nat
    BY RosterAssumption DEF Time
  <1>2. \A c \in Callers : caller[c] \in Caller
    BY DEF Shapes
  <1> QED BY <1>1, <1>2, FilledCache, RosterAssumption DEF Shapes, Caller

LEMMA RecentInit == Init => RecentInv
  BY DEF Init, RecentInv, NoEntry, Idle

LEMMA RecentStep == Shapes /\ RecentInv /\ [Next]_vars => RecentInv'
  <1> SUFFICES ASSUME Shapes, RecentInv, [Next]_vars PROVE RecentInv'
    OBVIOUS
  (* A step that leaves clock and cache alone is judged by its caller.     *)
  <1>1. ASSUME NEW c \in Callers, Others(c), UNCHANGED <<now, cache>>,
               caller'[c].pc = "fetching"
                 => now <= caller'[c].sentAt + Timeout,
               caller'[c].pc \in {"applying", "caching"}
                 => /\ caller'[c].at <= now
                    /\ caller'[c].at <= caller'[c].sentAt + Timeout,
               caller'[c].pc = "answering" /\ caller'[c].known
                 => caller'[c].at < caller'[c].sentAt + TTL + Timeout
        PROVE  RecentInv'
    BY <1>1 DEF Others, RecentInv
  <1>2. ASSUME NEW c \in Callers, NEW kind \in {"players", "fresh"},
               Call(c, kind)
        PROVE  RecentInv'
    BY <1>1, <1>2, CallMoves DEF Call
  <1>3. ASSUME NEW c \in Callers, EnterCached(c) PROVE RecentInv'
    <2>1. now - cache.completedAt < TTL /\ cache.filled
      BY <1>3 DEF EnterCached, CacheFresh
    <2>2. now < cache.sentAt + TTL + Timeout
      BY <2>1, NumbersOfShapes DEF RecentInv
    <2>3. UNCHANGED <<now, cache>>
      BY <1>3 DEF EnterCached
    <2>4. /\ Others(c) /\ caller'[c].pc = "answering"
          /\ caller'[c].at = now /\ caller'[c].sentAt = cache.sentAt
      BY <1>3, EnterCachedMoves
    <2> QED BY <1>1, <2>2, <2>3, <2>4
  <1>4. ASSUME NEW c \in Callers, EnterCooling(c) \/ StateFails(c)
        PROVE  RecentInv'
    BY <1>1, <1>4, UnknownMoves DEF EnterCooling, StateFails
  <1>5. ASSUME NEW c \in Callers, EnterFetch(c) PROVE RecentInv'
    <2>1. now <= now + Timeout
      BY NumbersOfShapes
    <2> QED BY <1>1, <1>5, <2>1, EnterFetchMoves DEF EnterFetch
  <1>6. ASSUME NEW c \in Callers, FetchFails(c) \/ ApplyFails(c)
        PROVE  RecentInv'
    BY <1>1, <1>6, FailsShapes DEF FetchFails, ApplyFails
  <1>7. ASSUME NEW c \in Callers, NEW s \in Snapshots, FetchSucceeds(c, s)
        PROVE  RecentInv'
    <2>1. now <= now /\ now <= caller[c].sentAt + Timeout
      BY <1>7, NumbersOfShapes DEF FetchSucceeds, RecentInv
    <2>2. UNCHANGED <<now, cache>>
      BY <1>7 DEF FetchSucceeds
    <2>3. /\ Others(c) /\ caller'[c].pc = "applying"
          /\ caller'[c].at = now /\ caller'[c].sentAt = caller[c].sentAt
      BY <1>7, FetchSucceedsMoves
    <2> QED BY <1>1, <2>1, <2>2, <2>3
  <1>8. ASSUME NEW c \in Callers, ApplyCommits(c) PROVE RecentInv'
    <2>1. /\ caller[c].at <= now
          /\ caller[c].at <= caller[c].sentAt + Timeout
      BY <1>8 DEF ApplyCommits, RecentInv
    <2> QED BY <1>1, <1>8, <2>1, ApplyCommitsMoves DEF ApplyCommits
  <1>9. ASSUME NEW c \in Callers, Succeeds(c) PROVE RecentInv'
    <2>1. /\ caller[c].at <= now
          /\ caller[c].at <= caller[c].sentAt + Timeout
      BY <1>9 DEF Succeeds, RecentInv
    <2>2. caller[c].at < caller[c].sentAt + TTL + Timeout
      BY <2>1, NumbersOfShapes
    <2>3. /\ cache'.completedAt = caller[c].at
          /\ cache'.sentAt = caller[c].sentAt /\ now' = now
      BY <1>9 DEF Succeeds
    <2>4. caller'[c].pc \in {"answering", "registering"}
          /\ caller'[c].at = caller[c].at
          /\ caller'[c].sentAt = caller[c].sentAt /\ Others(c)
      BY <1>9, SucceedsMoves
    <2> QED BY <2>1, <2>2, <2>3, <2>4 DEF RecentInv, Others
  <1>10. ASSUME NEW c \in Callers,
                Answer(c) \/ (\E u \in Users : Register(c, u))
                  \/ RegisterRefused(c)
         PROVE  RecentInv'
    BY <1>1, <1>10, LeavesMoves DEF Answer, Register, RegisterRefused, Idle
  <1>11. CASE Tick
    BY <1>11, NumbersOfShapes DEF Tick, RecentInv
  <1>12. CASE Restart
    BY <1>12 DEF Restart, RecentInv, NoEntry, Idle
  <1>13. CASE UNCHANGED vars
    BY <1>13 DEF vars, RecentInv
  <1> QED
    BY <1>2, <1>3, <1>4, <1>5, <1>6, <1>7, <1>8, <1>9, <1>10, <1>11, <1>12,
       <1>13 DEF Next, Enter, Step

(* However long a caller waited for the mutex, the request behind the      *)
(* snapshot it answers from was sent less than TTL + Timeout before that   *)
(* was decided (KnownIsRecent).                                            *)
THEOREM AnswersAreRecent == Spec => []KnownIsRecent
  <1> DEFINE IInv == Shapes /\ RecentInv
  <1>1. Init => IInv
    BY ShapesInit, RecentInit
  <1>2. IInv /\ [Next]_vars => IInv'
    BY ShapesStep, RecentStep
  <1>3. IInv => KnownIsRecent
    BY NumbersOfShapes DEF KnownIsRecent, RecentInv
  <1> QED BY <1>1, <1>2, <1>3, PTL DEF Spec

-----------------------------------------------------------------------------
(* Live registrations *)

(* Only FreshPlayers leads to a registration, and it always asks.          *)
LiveInv ==
    \A c \in Callers :
        /\ caller[c].calledAt <= now
        /\ caller[c].kind = "fresh"
             => caller[c].pc # "answering"
        /\ caller[c].kind = "fresh"
             /\ caller[c].pc \in {"fetching", "applying", "caching",
                                  "registering"}
             => caller[c].sentAt >= caller[c].calledAt
        /\ caller[c].pc = "registering" => caller[c].kind = "fresh"

LEMMA LiveInit == Init => LiveInv
  BY DEF Init, LiveInv, Idle

LEMMA LiveStep == Shapes /\ LiveInv /\ [Next]_vars => LiveInv'
  <1> SUFFICES ASSUME Shapes, LiveInv, [Next]_vars PROVE LiveInv'
    OBVIOUS
  <1>1. ASSUME NEW c \in Callers, Others(c), now' = now,
               caller'[c].calledAt <= now,
               caller'[c].pc = "answering" => caller'[c].kind # "fresh",
               (caller'[c].kind = "fresh"
                /\ caller'[c].pc \in {"fetching", "applying", "caching",
                                     "registering"})
                 => caller'[c].sentAt >= caller'[c].calledAt,
               caller'[c].pc = "registering" => caller'[c].kind = "fresh"
        PROVE  LiveInv'
    BY <1>1 DEF Others, LiveInv
  <1>2. ASSUME NEW c \in Callers, NEW kind \in {"players", "fresh"},
               Call(c, kind)
        PROVE  LiveInv'
    <2>1. now <= now /\ 0 <= now
      BY NumbersOfShapes
    <2> QED BY <1>1, <1>2, <2>1, CallMoves DEF Call
  <1>3. ASSUME NEW c \in Callers, EnterCached(c) PROVE LiveInv'
    BY <1>1, <1>3, EnterCachedMoves DEF EnterCached, LiveInv
  <1>4. ASSUME NEW c \in Callers, EnterCooling(c) \/ StateFails(c)
        PROVE  LiveInv'
    <2>1. now' = now /\ 0 <= now
      BY <1>4, NumbersOfShapes DEF EnterCooling, StateFails
    <2>2. /\ Others(c) /\ caller'[c].pc = "answering"
          /\ caller'[c].kind = "players" /\ caller'[c].calledAt = 0
      BY <1>4, UnknownMoves DEF EnterCooling, StateFails
    <2> QED BY <1>1, <2>1, <2>2
  <1>5. ASSUME NEW c \in Callers, EnterFetch(c) PROVE LiveInv'
    <2>1. caller[c].calledAt <= now /\ now >= caller[c].calledAt
      BY NumbersOfShapes DEF LiveInv
    <2> QED BY <1>1, <1>5, <2>1, EnterFetchMoves DEF EnterFetch
  <1>6. ASSUME NEW c \in Callers, FetchFails(c) \/ ApplyFails(c)
        PROVE  LiveInv'
    BY <1>1, <1>6, FailsShapes, NumbersOfShapes DEF FetchFails, ApplyFails
  <1>7. ASSUME NEW c \in Callers, NEW s \in Snapshots, FetchSucceeds(c, s)
        PROVE  LiveInv'
    <2>1. caller[c].pc = "fetching" /\ now' = now
      BY <1>7 DEF FetchSucceeds
    <2>2. /\ caller[c].calledAt <= now
          /\ caller[c].kind = "fresh" => caller[c].sentAt >= caller[c].calledAt
      BY <2>1 DEF LiveInv
    <2>3. /\ Others(c) /\ caller'[c].pc = "applying"
          /\ caller'[c].calledAt = caller[c].calledAt
          /\ caller'[c].sentAt = caller[c].sentAt
          /\ caller'[c].kind = caller[c].kind
      BY <1>7, FetchSucceedsMoves
    <2> QED BY <1>1, <2>1, <2>2, <2>3
  <1>8. ASSUME NEW c \in Callers, ApplyCommits(c) PROVE LiveInv'
    <2>1. caller[c].pc = "applying" /\ now' = now
      BY <1>8 DEF ApplyCommits
    <2>2. /\ caller[c].calledAt <= now
          /\ caller[c].kind = "fresh" => caller[c].sentAt >= caller[c].calledAt
      BY <2>1 DEF LiveInv
    <2>3. /\ Others(c) /\ caller'[c].pc = "caching"
          /\ caller'[c].calledAt = caller[c].calledAt
          /\ caller'[c].sentAt = caller[c].sentAt
          /\ caller'[c].kind = caller[c].kind
      BY <1>8, ApplyCommitsMoves
    <2> QED BY <1>1, <2>1, <2>2, <2>3
  <1>9. ASSUME NEW c \in Callers, Succeeds(c) PROVE LiveInv'
    <2>1. caller[c].kind \in {"players", "fresh"}
      BY DEF Shapes, Caller
    <2>2. caller[c].pc = "caching" /\ now' = now
      BY <1>9 DEF Succeeds
    <2>3. /\ caller[c].calledAt <= now
          /\ caller[c].kind = "fresh" => caller[c].sentAt >= caller[c].calledAt
      BY <2>2 DEF LiveInv
    <2>4. /\ Others(c)
          /\ caller'[c].pc = IF caller[c].kind = "players" THEN "answering"
                                                          ELSE "registering"
          /\ caller'[c].calledAt = caller[c].calledAt
          /\ caller'[c].sentAt = caller[c].sentAt
          /\ caller'[c].kind = caller[c].kind
      BY <1>9, SucceedsMoves
    <2> QED BY <1>1, <2>1, <2>2, <2>3, <2>4
  <1>10. ASSUME NEW c \in Callers,
                Answer(c) \/ (\E u \in Users : Register(c, u))
                  \/ RegisterRefused(c)
         PROVE  LiveInv'
    <2>1. Leaves(c) /\ now' = now
      BY <1>10 DEF Answer, Register, RegisterRefused
    <2>2. /\ Others(c) /\ caller'[c].pc = "idle" /\ caller'[c].calledAt = 0
      BY <2>1, LeavesMoves DEF Idle
    <2> QED BY <1>1, <2>1, <2>2, NumbersOfShapes
  <1>11. CASE Tick
    BY <1>11, NumbersOfShapes DEF Tick, LiveInv
  <1>12. CASE Restart
    BY <1>12, NumbersOfShapes DEF Restart, LiveInv, Idle
  <1>13. CASE UNCHANGED vars
    BY <1>13 DEF vars, LiveInv
  <1> QED
    BY <1>2, <1>3, <1>4, <1>5, <1>6, <1>7, <1>8, <1>9, <1>10, <1>11, <1>12,
       <1>13 DEF Next, Enter, Step

(* A registration works on a snapshot that was asked for after it arrived  *)
(* (RegistrationIsLive).                                                   *)
THEOREM RegistrationsAreLive == Spec => []RegistrationIsLive
  <1> DEFINE IInv == Shapes /\ LiveInv
  <1>1. Init => IInv
    BY ShapesInit, LiveInit, RosterAssumption DEF Init
  <1>2. IInv /\ [Next]_vars => IInv'
    BY ShapesStep, LiveStep
  <1>3. IInv => RegistrationIsLive
    BY DEF RegistrationIsLive, LiveInv
  <1> QED BY <1>1, <1>2, <1>3, PTL DEF Spec

-----------------------------------------------------------------------------
(* Names *)

(* Who is about to register is in the roster already, and no row was seen  *)
(* in the future. A name that has been replaced meanwhile was last seen    *)
(* before the account is inserted.                                         *)
NamesInv ==
    /\ \A c \in Callers :
         caller[c].pc = "registering"
           => \A u \in DOMAIN caller[c].snapshot : roster[u].known
    /\ \A u \in Users : roster[u].known => roster[u].lastOnline <= now
    /\ NameFollowsRoster

LEMMA NamesInit == Init => NamesInv
  <1> SUFFICES ASSUME Init PROVE NamesInv
    OBVIOUS
  <1>1. PICK name \in Snapshots :
          /\ roster = [u \in Users |->
                         IF u \in DOMAIN name
                         THEN [known |-> TRUE, name |-> name[u],
                               online |-> TRUE, lastOnline |-> 0]
                         ELSE NoRow]
          /\ user = [u \in Users |->
                       IF u \in DOMAIN name
                       THEN [bound |-> TRUE, name |-> name[u],
                             createdAt |-> 0]
                       ELSE NoUser]
    BY DEF Init
  <1>2. \A u \in Users : u \in DOMAIN name =>
          /\ roster[u].known /\ roster[u].name = name[u]
          /\ roster[u].lastOnline = 0 /\ user[u].name = name[u]
    BY <1>1
  <1>3. \A u \in Users : u \notin DOMAIN name =>
          ~roster[u].known /\ ~user[u].bound
    BY <1>1 DEF NoRow, NoUser
  <1>4. NameFollowsRoster
    BY <1>2, <1>3 DEF NameFollowsRoster
  <1>5. \A u \in Users : roster[u].known => roster[u].lastOnline <= now
    BY <1>2, <1>3 DEF Init
  <1>6. \A c \in Callers : caller[c].pc = "idle"
    BY DEF Init, Idle
  <1> QED BY <1>4, <1>5, <1>6 DEF NamesInv

(* Rows go over from one snapshot to the next.                             *)
LEMMA RosterAfterRows ==
    ASSUME Shapes, NEW s \in Snapshots, NEW t \in Time, NEW u \in Users
    PROVE  /\ u \in DOMAIN s => /\ RosterAfter(s, t)[u].known
                               /\ RosterAfter(s, t)[u].name = s[u]
                               /\ RosterAfter(s, t)[u].lastOnline = t
           /\ u \notin DOMAIN s /\ roster[u].known
                => /\ RosterAfter(s, t)[u].known
                   /\ RosterAfter(s, t)[u].name = roster[u].name
                   /\ RosterAfter(s, t)[u].lastOnline = roster[u].lastOnline
           /\ u \notin DOMAIN s /\ ~roster[u].known
                => ~RosterAfter(s, t)[u].known
  <1>1. CASE u \in DOMAIN s
    BY <1>1 DEF RosterAfter
  <1>2. CASE u \notin DOMAIN s /\ roster[u].known
    <2>1. roster[u] # NoRow /\ roster[u] \in RosterRow
      BY <1>2 DEF NoRow, Shapes
    <2>2. roster[u] \in [known : {TRUE}, name : Names, online : BOOLEAN,
                         lastOnline : Time]
      BY <2>1 DEF RosterRow
    <2> QED BY <1>2, <2>2 DEF RosterAfter
  <1>3. CASE u \notin DOMAIN s /\ ~roster[u].known
    BY <1>3 DEF RosterAfter, NoRow
  <1> QED BY <1>1, <1>2, <1>3

LEMMA UserAfterRows ==
    ASSUME Shapes, NEW s \in Snapshots, NEW u \in Users
    PROVE  /\ UserAfter(s)[u].bound = user[u].bound
           /\ u \in DOMAIN s /\ user[u].bound => UserAfter(s)[u].name = s[u]
           /\ u \notin DOMAIN s => UserAfter(s)[u] = user[u]
  <1>1. CASE u \in DOMAIN s /\ user[u].bound
    <2>1. user[u] # NoUser /\ user[u] \in UserRow
      BY <1>1 DEF NoUser, Shapes
    <2>2. user[u] \in [bound : {TRUE}, name : Names, createdAt : Time]
      BY <2>1 DEF UserRow
    <2> QED BY <1>1, <2>2 DEF UserAfter
  <1>2. CASE ~(u \in DOMAIN s /\ user[u].bound)
    BY <1>2 DEF UserAfter
  <1> QED BY <1>1, <1>2

LEMMA NamesStep ==
    Shapes /\ SnapshotInv /\ RecentInv /\ NamesInv /\ [Next]_vars => NamesInv'
  <1> SUFFICES ASSUME Shapes, SnapshotInv, RecentInv, NamesInv, [Next]_vars
               PROVE  NamesInv'
    OBVIOUS
  <1>1. ASSUME NEW c \in Callers, Others(c), UNCHANGED <<now, roster, user>>,
               caller'[c].pc # "registering"
        PROVE  NamesInv'
    BY <1>1 DEF Others, NamesInv, NameFollowsRoster
  <1>2. ASSUME NEW c \in Callers, NEW kind \in {"players", "fresh"},
               Call(c, kind)
        PROVE  NamesInv'
    BY <1>1, <1>2, CallMoves DEF Call
  <1>3. ASSUME NEW c \in Callers, EnterCached(c) PROVE NamesInv'
    BY <1>1, <1>3, EnterCachedMoves DEF EnterCached
  <1>4. ASSUME NEW c \in Callers, EnterCooling(c) \/ StateFails(c)
        PROVE  NamesInv'
    BY <1>1, <1>4, UnknownMoves DEF EnterCooling, StateFails
  <1>5. ASSUME NEW c \in Callers, EnterFetch(c) PROVE NamesInv'
    BY <1>1, <1>5, EnterFetchMoves DEF EnterFetch
  <1>6. ASSUME NEW c \in Callers, FetchFails(c) \/ ApplyFails(c)
        PROVE  NamesInv'
    BY <1>1, <1>6, FailsShapes DEF FetchFails, ApplyFails
  <1>7. ASSUME NEW c \in Callers, NEW s \in Snapshots, FetchSucceeds(c, s)
        PROVE  NamesInv'
    BY <1>1, <1>7, FetchSucceedsMoves DEF FetchSucceeds
  <1>8. ASSUME NEW c \in Callers, ApplyCommits(c) PROVE NamesInv'
    <2> DEFINE s == caller[c].snapshot
               t == caller[c].at
    <2>1. /\ s \in Snapshots /\ t \in Time
          /\ \A d \in Callers : DOMAIN caller[d].snapshot \subseteq Users
      BY SnapshotValue DEF Shapes, Caller
    <2>2. roster' = RosterAfter(s, t) /\ user' = UserAfter(s) /\ now' = now
      BY <1>8 DEF ApplyCommits
    <2>3. t <= now
      BY <1>8 DEF ApplyCommits, RecentInv
    <2>4. Others(c) /\ caller'[c].pc = "caching"
      BY <1>8, ApplyCommitsMoves
    <2> HIDE DEF s, t
    <2>5. \A u \in Users : roster[u].known => roster'[u].known
      BY <2>1, <2>2, RosterAfterRows
    <2>6. \A u \in Users : roster'[u].known => roster'[u].lastOnline <= now
      BY <2>1, <2>2, <2>3, RosterAfterRows DEF NamesInv
    <2>7. NameFollowsRoster'
      <3> SUFFICES ASSUME NEW u \in Users, user'[u].bound
                   PROVE  /\ roster'[u].known
                          /\ \/ user'[u].name = roster'[u].name
                             \/ roster'[u].lastOnline <= user'[u].createdAt
        BY DEF NameFollowsRoster
      <3>1. user[u].bound /\ roster[u].known
        BY <2>1, <2>2, UserAfterRows DEF NamesInv, NameFollowsRoster
      <3>2. CASE u \in DOMAIN s
        BY <2>1, <2>2, <3>1, <3>2, RosterAfterRows, UserAfterRows
      <3>3. CASE u \notin DOMAIN s
        BY <2>1, <2>2, <3>1, <3>3, RosterAfterRows, UserAfterRows
           DEF NamesInv, NameFollowsRoster
      <3> QED BY <3>2, <3>3
    <2>8. \A d \in Callers : caller'[d].pc = "registering"
            => \A u \in DOMAIN caller'[d].snapshot : roster'[u].known
      BY <2>1, <2>4, <2>5 DEF Others, NamesInv
    <2> QED BY <2>2, <2>6, <2>7, <2>8 DEF NamesInv
  <1>9. ASSUME NEW c \in Callers, Succeeds(c) PROVE NamesInv'
    <2>1. \A u \in DOMAIN caller[c].snapshot : roster[u].known
      BY <1>9 DEF Succeeds, SnapshotInv, TablesAgree, Online
    <2>2. /\ Others(c) /\ caller'[c].snapshot = caller[c].snapshot
          /\ UNCHANGED <<now, roster, user>>
      BY <1>9, SucceedsMoves DEF Succeeds
    <2> QED BY <2>1, <2>2 DEF Others, NamesInv, NameFollowsRoster
  <1>10. ASSUME NEW c \in Callers, Answer(c) \/ RegisterRefused(c)
         PROVE  NamesInv'
    BY <1>1, <1>10, LeavesMoves DEF Answer, RegisterRefused, Idle
  <1>11. ASSUME NEW c \in Callers, NEW u \in Users, Register(c, u)
         PROVE  NamesInv'
    <2>1. roster[u].known /\ roster[u].lastOnline <= now
      BY <1>11 DEF Register, NamesInv
    <2>2. /\ user'[u].createdAt = now
          /\ \A v \in Users \ {u} : user'[v] = user[v]
          /\ UNCHANGED <<now, roster>>
      BY <1>11 DEF Register, Shapes
    <2>3. NameFollowsRoster'
      BY <2>1, <2>2 DEF NamesInv, NameFollowsRoster
    <2>4. Others(c) /\ caller'[c].pc = "idle"
      BY <1>11, LeavesMoves DEF Register, Idle
    <2> QED BY <2>2, <2>3, <2>4 DEF Others, NamesInv
  <1>12. CASE Tick
    <2>1. \A u \in Users : roster[u].known => roster[u].lastOnline \in Nat
      <3> SUFFICES ASSUME NEW u \in Users, roster[u].known
                   PROVE  roster[u].lastOnline \in Nat
        OBVIOUS
      <3>1. roster[u] # NoRow /\ roster[u] \in RosterRow
        BY DEF NoRow, Shapes
      <3>2. roster[u].lastOnline \in Time
        BY <3>1 DEF RosterRow
      <3> QED BY <3>2, RosterAssumption DEF Time
    <2>2. \A u \in Users : roster[u].known => roster[u].lastOnline <= now + 1
      BY <2>1, NumbersOfShapes DEF NamesInv
    <2> QED BY <1>12, <2>2 DEF Tick, NamesInv, NameFollowsRoster
  <1>13. CASE Restart
    BY <1>13 DEF Restart, NamesInv, NameFollowsRoster, Idle
  <1>14. CASE UNCHANGED vars
    BY <1>14 DEF vars, NamesInv, NameFollowsRoster
  <1> QED
    BY <1>2, <1>3, <1>4, <1>5, <1>6, <1>7, <1>8, <1>9, <1>10, <1>11, <1>12,
       <1>13, <1>14 DEF Next, Enter, Step

(* The name an account logs in by is the roster's, unless the player has   *)
(* not been seen since the account was inserted (NameFollowsRoster).       *)
THEOREM NamesFollowRoster == Spec => []NameFollowsRoster
  <1> DEFINE IInv == Shapes /\ Exclusion /\ SnapshotInv /\ RecentInv /\ NamesInv
  <1>1. Init => IInv
    BY ShapesInit, ExclusionInit, SnapshotInit, RecentInit, NamesInit
  <1>2. IInv /\ [Next]_vars => IInv'
    BY ShapesStep, ExclusionStep, SnapshotStep, RecentStep, NamesStep
  <1>3. IInv => NameFollowsRoster
    BY DEF NamesInv
  <1> QED BY <1>1, <1>2, <1>3, PTL DEF Spec

-----------------------------------------------------------------------------
(* Spacing *)

(* The end of the latest attempt is remembered by the cache or by the      *)
(* failure, whichever way it went.                                         *)
SettledInv ==
    settledAt # 0 => \/ cache.filled /\ cache.completedAt = settledAt
                     \/ failureAt = settledAt

LEMMA SettledStep == SettledInv /\ [Next]_vars => SettledInv'
  <1> SUFFICES ASSUME SettledInv, [Next]_vars PROVE SettledInv'
    OBVIOUS
  <1>1. CASE UNCHANGED <<cache, failureAt, settledAt>>
    BY <1>1 DEF SettledInv
  <1>2. ASSUME NEW c \in Callers, Fails(c) PROVE SettledInv'
    BY <1>2 DEF Fails, CooldownFromEnd, SettledInv
  <1>3. ASSUME NEW c \in Callers, Succeeds(c) PROVE SettledInv'
    BY <1>3 DEF Succeeds, SettledInv
  <1>4. CASE Restart
    BY <1>4 DEF Restart, SettledInv
  <1> QED
    BY <1>1, <1>2, <1>3, <1>4
       DEF Next, Call, Enter, EnterCached, EnterCooling, EnterFetch, Step,
           FetchFails, FetchSucceeds, ApplyFails, ApplyCommits, StateFails,
           Answer, Register, RegisterRefused, Tick, vars

(* A request for the player list asks the game server no sooner than a TTL *)
(* after the end of anybody's latest attempt (RefreshesAreSpaced).         *)
THEOREM RefreshesKeepApart == Spec => RefreshesAreSpaced
  <1> DEFINE IInv == Shapes /\ SettledInv
             Spaced == \A c \in Callers :
                         /\ caller[c].pc = "waiting"
                         /\ caller[c].kind = "players"
                         /\ caller'[c].pc = "fetching"
                         => settledAt = 0 \/ now >= settledAt + TTL
  <1>1. Init => IInv
    BY ShapesInit DEF Init, SettledInv
  <1>2. IInv /\ [Next]_vars => IInv'
    BY ShapesStep, SettledStep
  <1>3. IInv /\ [Next]_vars => [Spaced]_vars
    <2> SUFFICES ASSUME Shapes, SettledInv, Next, NEW c \in Callers,
                        caller[c].pc = "waiting", caller[c].kind = "players",
                        caller'[c].pc = "fetching", settledAt # 0
                 PROVE  now >= settledAt + TTL
      OBVIOUS
    (* Any other step of c leads elsewhere, and nobody else moves c.       *)
    <2>1. ASSUME NEW d \in Callers, Others(d), caller'[d].pc # "fetching"
          PROVE  FALSE
      BY <2>1 DEF Others
    <2>2. ASSUME NEW d \in Callers, NEW kind \in {"players", "fresh"},
                 Call(d, kind)
          PROVE  FALSE
      BY <2>1, <2>2, CallMoves
    <2>3. ASSUME NEW d \in Callers,
                 EnterCached(d) \/ EnterCooling(d) \/ StateFails(d)
          PROVE  FALSE
      BY <2>1, <2>3, EnterCachedMoves, UnknownMoves
         DEF EnterCooling, StateFails
    <2>4. ASSUME NEW d \in Callers, FetchFails(d) \/ ApplyFails(d)
          PROVE  FALSE
      BY <2>1, <2>4, FailsShapes DEF FetchFails, ApplyFails
    <2>5. ASSUME NEW d \in Callers, NEW s \in Snapshots, FetchSucceeds(d, s)
          PROVE  FALSE
      BY <2>1, <2>5, FetchSucceedsMoves
    <2>6. ASSUME NEW d \in Callers, ApplyCommits(d) PROVE FALSE
      BY <2>1, <2>6, ApplyCommitsMoves
    <2>7. ASSUME NEW d \in Callers, Succeeds(d) PROVE FALSE
      BY <2>1, <2>7, SucceedsMoves
    <2>8. ASSUME NEW d \in Callers,
                 Answer(d) \/ (\E u \in Users : Register(d, u))
                   \/ RegisterRefused(d)
          PROVE  FALSE
      BY <2>1, <2>8, LeavesMoves DEF Answer, Register, RegisterRefused, Idle
    <2>9. ~Tick /\ ~Restart
      BY DEF Tick, Restart, Idle
    <2>10. PICK d \in Callers : EnterFetch(d)
      BY <2>2, <2>3, <2>4, <2>5, <2>6, <2>7, <2>8, <2>9 DEF Next, Enter, Step
    <2>11. d = c
      BY <2>10, EnterFetchMoves DEF Others
    <2>12. ~CacheFresh /\ ~CoolingDown
      BY <2>10, <2>11 DEF EnterFetch, NeedsFetch
    <2> QED BY <2>12, NumbersOfShapes DEF SettledInv, CacheFresh, CoolingDown
  <1> HIDE DEF IInv
  <1>4. [Spaced]_vars <=>
          [\A c \in Callers :
             /\ caller[c].pc = "waiting" /\ caller[c].kind = "players"
             /\ caller'[c].pc = "fetching"
             => settledAt = 0 \/ now >= settledAt + TTL]_vars
    OBVIOUS
  <1> QED BY <1>1, <1>2, <1>3, <1>4, PTL DEF Spec, RefreshesAreSpaced

-----------------------------------------------------------------------------
(* Roster implements Presence *)

AskerOf(r) == Presence!Asker(AskerStage(r.pc), r.kind, AskerView(r))

(* One caller moves: so does, at most, its entry in the abstract state.    *)
LEMMA AskingMoves ==
    ASSUME NEW c \in Callers, Others(c)
    PROVE  /\ Asking' = [Asking EXCEPT ![c] = AskerOf(caller'[c])]
           /\ AskerOf(caller'[c]) = AskerOf(caller[c]) => Asking' = Asking
  <1>1. Asking = [d \in Callers |-> AskerOf(caller[d])]
        /\ Asking' = [d \in Callers |-> AskerOf(caller'[d])]
    BY DEF Asking, AskerOf, Presence!Asker
  <1>2. \A d \in Callers \ {c} : AskerOf(caller'[d]) = AskerOf(caller[d])
    BY DEF Others
  <1> HIDE DEF Others
  <1> QED BY <1>1, <1>2

LEMMA AskingFields ==
    ASSUME NEW c \in Callers
    PROVE  /\ Asking[c].stage = AskerStage(caller[c].pc)
           /\ Asking[c].wants = caller[c].kind
           /\ Asking[c].view = AskerView(caller[c])
  BY DEF Asking

(* Who has the mutex to itself disturbs nobody who is learning or told.    *)
LEMMA NobodyDisturbed ==
    ASSUME Shapes, Exclusion, NEW c \in Callers,
           MutexFree \/ caller[c].pc \in {"fetching", "applying"}
    PROVE  Presence!Undisturbed
  <1>1. \A d \in Callers : caller[d].pc \notin {"caching", "answering"}
    BY DEF MutexFree, Exclusion, Holds
  <1>2. \A d \in Callers :
          AskerStage(caller[d].pc) \notin {"learned", "told"}
    BY <1>1 DEF AskerStage, Shapes, Caller, Stages
  <1> QED BY <1>2, AskingFields DEF Presence!Undisturbed

(* The players of the tables and the snapshot that wrote them.             *)
LEMMA ShownIsSnapshot ==
    ASSUME NEW s \in Snapshots, NEW t, TablesAgree(s, t)
    PROVE  Shown = s
  <1>1. Shown = [u \in DOMAIN s |-> s[u]]
    BY DEF Shown, TablesAgree
  <1> QED BY <1>1, SnapshotValue

(* A commit makes its snapshot the one that is shown.                      *)
LEMMA CommitShows ==
    ASSUME NEW s \in Snapshots, NEW t \in Time, roster' = RosterAfter(s, t),
           lastSuccess' = t
    PROVE  Shown' = s
  <1>1. TablesAgree(s, t)'
    BY RosterAfterAgrees
  <1>2. Shown' = [u \in DOMAIN s |-> s[u]]
    BY <1>1 DEF Shown, TablesAgree
  <1> QED BY <1>2, SnapshotValue

LEMMA ShownKept == UNCHANGED roster => UNCHANGED Shown
  BY DEF Shown, Online

LEMMA NamedKept == UNCHANGED user => UNCHANGED Named
  BY DEF Named

LEMMA PresenceInit == Init => Presence!Init
  <1> SUFFICES ASSUME Init PROVE Presence!Init
    OBVIOUS
  <1>1. PICK name \in Snapshots :
          /\ roster = [u \in Users |->
                         IF u \in DOMAIN name
                         THEN [known |-> TRUE, name |-> name[u],
                               online |-> TRUE, lastOnline |-> 0]
                         ELSE NoRow]
          /\ user = [u \in Users |->
                       IF u \in DOMAIN name
                       THEN [bound |-> TRUE, name |-> name[u],
                             createdAt |-> 0]
                       ELSE NoUser]
    BY DEF Init
  <1>2. \A u \in Users : u \in DOMAIN name =>
          /\ roster[u].known = TRUE /\ roster[u].online = TRUE
          /\ roster[u].name = name[u]
          /\ user[u].bound = TRUE /\ user[u].name = name[u]
    BY <1>1
  <1>3. \A u \in Users : u \notin DOMAIN name =>
          roster[u].known = FALSE /\ user[u].bound = FALSE
    BY <1>1 DEF NoRow, NoUser
  <1>4. DOMAIN name \subseteq Users /\ name = [u \in DOMAIN name |-> name[u]]
    BY SnapshotValue
  <1>5. Online = DOMAIN name
    BY <1>2, <1>3, <1>4 DEF Online
  <1>6. Shown = name
    BY <1>2, <1>4, <1>5 DEF Shown
  <1>7. Named = [u \in Users |-> IF u \in DOMAIN name THEN {name[u]} ELSE {}]
    BY <1>2, <1>3 DEF Named
  <1>8. Asking = [c \in Callers |-> Presence!Quiet]
    BY DEF Init, Asking, Idle, AskerStage, AskerView, Presence!Quiet,
           Presence!Asker
  <1>9. name \in Presence!Snapshots /\ cache.filled = FALSE
    BY DEF Init, NoEntry, Snapshots, Presence!Snapshots
  <1> QED BY <1>6, <1>7, <1>8, <1>9 DEF Presence!Init

(* The answer "unknown", given instead of a snapshot.                      *)
LEMMA UnknownIsTold ==
    ASSUME Shapes, NEW c \in Callers, AskerStage(caller[c].pc) = "asking",
           caller[c].kind = "players", Presence!Undisturbed,
           caller' = [caller EXCEPT ![c] = [Idle EXCEPT !.pc = "answering"]],
           UNCHANGED <<roster, user, cache>>
    PROVE  Presence!TellUnknown(c)
  <1>1. /\ Others(c) /\ caller'[c].pc = "answering"
        /\ caller'[c].kind = "players" /\ caller'[c].known = FALSE
    BY UnknownMoves
  <1>2. AskerOf(caller'[c]) = Presence!Asker("told", caller[c].kind, {})
    BY <1>1 DEF AskerOf, AskerStage, AskerView
  <1> QED
    BY <1>1, <1>2, AskingMoves, AskingFields, ShownKept, NamedKept
       DEF Presence!TellUnknown, Presence!Becomes

(* The tables could not be read for the answer.                            *)
LEMMA LostAnswerIsRetracted ==
    ASSUME Shapes, NEW c \in Callers, StateFails(c)
    PROVE  Presence!Retract(c)
  <1>1. caller[c].pc = "answering" /\ UNCHANGED <<roster, user, cache>>
    BY DEF StateFails
  <1>2. /\ Others(c) /\ caller'[c].pc = "answering"
        /\ caller'[c].kind = "players" /\ caller'[c].known = FALSE
    BY UnknownMoves DEF StateFails
  <1>3. AskerOf(caller'[c]) = Presence!Asker("told", "players", {})
    BY <1>2 DEF AskerOf, AskerStage, AskerView
  <1>4. AskerStage(caller[c].pc) = "told"
    BY <1>1 DEF AskerStage
  <1> QED BY <1>1, <1>2, <1>3, <1>4, AskingMoves, AskingFields, ShownKept,
             NamedKept
          DEF Presence!Retract

(* A caller that goes.                                                     *)
LEMMA LeavingIsQuiet ==
    ASSUME Shapes, NEW c \in Callers, Leaves(c)
    PROVE  Presence!Leaves(c)
  <1>1. Others(c) /\ caller'[c] = Idle
    BY LeavesMoves
  <1>2. AskerOf(Idle) = Presence!Quiet
    BY DEF AskerOf, AskerStage, AskerView, Idle, Presence!Quiet
  <1> QED BY <1>1, <1>2, AskingMoves DEF Presence!Leaves

(* A refresh that fails, before or in its transaction.                     *)
LEMMA FailureIsTold ==
    ASSUME Shapes, Exclusion, NEW c \in Callers,
           caller[c].pc \in {"fetching", "applying"}, Fails(c),
           UNCHANGED <<roster, user, cache>>
    PROVE  Presence!TellUnknown(c) \/ Presence!SendAway(c)
  <1>1. AskerStage(caller[c].pc) = "asking" /\ Presence!Undisturbed
    BY NobodyDisturbed DEF AskerStage
  <1>2. CASE caller[c].kind = "players"
    BY <1>1, <1>2, UnknownIsTold DEF Fails
  <1>3. CASE caller[c].kind # "players"
    <2>1. caller[c].kind = "fresh"
      BY <1>3 DEF Shapes, Caller
    <2>2. Presence!Leaves(c)
      BY <1>3, LeavingIsQuiet DEF Fails
    <2> QED BY <1>1, <2>1, <2>2, AskingFields, ShownKept, NamedKept
            DEF Presence!SendAway
  <1> QED BY <1>2, <1>3

(* The commit of a snapshot is the step that learns it.                    *)
LEMMA CommitIsLearned ==
    ASSUME Shapes, Exclusion, NEW c \in Callers, ApplyCommits(c)
    PROVE  Presence!Learn(c)
  <1> DEFINE s == caller[c].snapshot
  <1>1. s \in Snapshots /\ s \in Presence!Snapshots /\ caller[c].at \in Time
    BY DEF Shapes, Caller, Snapshots, Presence!Snapshots
  <1>2. /\ caller[c].pc = "applying"
        /\ roster' = RosterAfter(s, caller[c].at) /\ user' = UserAfter(s)
        /\ lastSuccess' = caller[c].at /\ UNCHANGED cache
    BY DEF ApplyCommits
  <1>3. Others(c) /\ caller'[c].pc = "caching" /\ caller'[c].snapshot = s
        /\ caller'[c].kind = caller[c].kind
    BY ApplyCommitsMoves
  <1> HIDE DEF s
  <1>4. Shown' = s
    BY <1>1, <1>2, CommitShows
  <1>5. Named' = [u \in Users |-> IF u \in DOMAIN s /\ Named[u] # {}
                                  THEN {s[u]} ELSE Named[u]]
    <2>1. ASSUME NEW u \in Users
          PROVE  Named'[u] = IF u \in DOMAIN s /\ Named[u] # {}
                             THEN {s[u]} ELSE Named[u]
      <3>1. UserAfter(s)[u].bound <=> user[u].bound
        BY <1>1, UserAfterRows
      <3> QED BY <1>1, <1>2, <3>1, UserAfterRows DEF Named
    <2> QED BY <2>1 DEF Named
  <1>6. AskerOf(caller'[c]) = Presence!Asker("learned", caller[c].kind, {s})
    BY <1>3 DEF AskerOf, AskerStage, AskerView
  <1>7. AskerStage(caller[c].pc) = "asking" /\ Presence!Undisturbed
    BY <1>2, NobodyDisturbed DEF AskerStage
  <1> QED BY <1>1, <1>2, <1>3, <1>4, <1>5, <1>6, <1>7, AskingMoves, AskingFields
          DEF Presence!Learn, Presence!Becomes

(* An answer from the cache is the latest snapshot.                        *)
LEMMA CachedIsLatest ==
    ASSUME Shapes, Exclusion, SnapshotInv, NEW c \in Callers, EnterCached(c)
    PROVE  Presence!TellLatest(c)
  <1>1. /\ caller[c].pc = "waiting" /\ caller[c].kind = "players"
        /\ MutexFree /\ cache.filled /\ UNCHANGED <<roster, user, cache>>
    BY DEF EnterCached, CacheFresh
  <1>2. Shown = cache.snapshot
    <2>1. TablesAgree(cache.snapshot, cache.completedAt)
      BY <1>1 DEF SnapshotInv, MutexFree, Holds
    <2>2. cache.snapshot \in Snapshots
      BY <1>1, FilledCache DEF Shapes
    <2> QED BY <2>1, <2>2, ShownIsSnapshot
  <1>3. /\ Others(c) /\ caller'[c].pc = "answering"
        /\ caller'[c].kind = "players" /\ caller'[c].known = TRUE
        /\ caller'[c].snapshot = cache.snapshot
    BY EnterCachedMoves
  <1>4. AskerOf(caller'[c]) = Presence!Asker("told", caller[c].kind, {Shown})
    BY <1>1, <1>2, <1>3 DEF AskerOf, AskerStage, AskerView
  <1>5. AskerStage(caller[c].pc) = "asking" /\ Presence!Undisturbed
    BY <1>1, NobodyDisturbed DEF AskerStage
  <1> QED BY <1>1, <1>3, <1>4, <1>5, AskingMoves, AskingFields, ShownKept,
             NamedKept
          DEF Presence!TellLatest, Presence!Becomes

(* The assignment to the cache lets the snapshot go on to its caller.      *)
LEMMA SuccessIsPassedOn ==
    ASSUME Shapes, NEW c \in Callers, Succeeds(c)
    PROVE  Presence!PassOn(c)
  <1>1. /\ caller[c].pc = "caching" /\ cache'.filled = TRUE
        /\ UNCHANGED <<roster, user>>
    BY DEF Succeeds
  <1>2. /\ Others(c) /\ caller'[c].kind = caller[c].kind
        /\ caller'[c].pc = IF caller[c].kind = "players" THEN "answering"
                                                         ELSE "registering"
        /\ caller'[c].known = TRUE /\ caller'[c].snapshot = caller[c].snapshot
    BY SucceedsMoves
  <1> DEFINE stage == IF caller[c].kind = "players" THEN "told" ELSE "joining"
  <1>3. AskerStage(caller'[c].pc) = stage
        /\ AskerView(caller'[c]) = {caller[c].snapshot}
    BY <1>2 DEF AskerStage, AskerView
  <1>4. AskerStage(caller[c].pc) = "learned"
        /\ AskerView(caller[c]) = {caller[c].snapshot}
    BY <1>1 DEF AskerStage, AskerView
  <1>5. /\ Asking[c].stage = "learned"
        /\ stage = IF Asking[c].wants = "players" THEN "told" ELSE "joining"
        /\ Asking[c].wants = caller[c].kind
        /\ Asking[c].view = {caller[c].snapshot}
    BY <1>4, AskingFields
  <1> HIDE DEF stage
  <1>6. Presence!Becomes(c, stage, Asking[c].view)
    BY <1>2, <1>3, <1>5, AskingMoves DEF Presence!Becomes, AskerOf
  <1> QED BY <1>1, <1>5, <1>6, ShownKept, NamedKept DEF Presence!PassOn

(* The INSERT of a registration joins a player of its own snapshot.        *)
LEMMA RegisterIsJoin ==
    ASSUME Shapes, NEW c \in Callers, NEW u \in Users, Register(c, u)
    PROVE  Presence!Join(c, u)
  <1> DEFINE s == caller[c].snapshot
  <1>1. /\ caller[c].pc = "registering" /\ u \in DOMAIN s
        /\ ~user[u].bound /\ UNCHANGED <<roster, cache>>
        /\ user' = [user EXCEPT ![u] = [bound |-> TRUE, name |-> s[u],
                                        createdAt |-> now]]
    BY DEF Register
  <1>2. AskerStage(caller[c].pc) = "joining" /\ AskerView(caller[c]) = {s}
    BY <1>1 DEF AskerStage, AskerView
  <1> HIDE DEF s
  <1>3. /\ user'[u].bound = TRUE /\ user'[u].name = s[u]
        /\ \A v \in Users \ {u} : user'[v] = user[v]
    BY <1>1 DEF Shapes
  <1>4. Named' = [Named EXCEPT ![u] = {s[u]}] /\ Named[u] = {}
    BY <1>1, <1>3 DEF Named
  <1>5. Presence!Leaves(c)
    BY LeavingIsQuiet DEF Register
  <1> QED BY <1>1, <1>2, <1>4, <1>5, AskingFields, ShownKept
          DEF Presence!Join

LEMMA PresenceStep ==
    ASSUME Shapes, Exclusion, SnapshotInv, [Next]_vars
    PROVE  [Presence!Next]_(Presence!pvars)
  <1> USE DEF Presence!Next
  (* A step within a stage of Presence.                                    *)
  <1>1. ASSUME NEW c \in Callers, Others(c),
               AskerOf(caller'[c]) = AskerOf(caller[c]),
               UNCHANGED <<roster, user, cache>>
        PROVE  UNCHANGED Presence!pvars
    BY <1>1, AskingMoves, ShownKept, NamedKept DEF Presence!pvars
  <1>2. ASSUME NEW c \in Callers, NEW kind \in {"players", "fresh"},
               Call(c, kind)
        PROVE  Presence!Ask(c, kind)
    <2>1. caller[c].pc = "idle" /\ UNCHANGED <<roster, user, cache>>
      BY <1>2 DEF Call
    <2>2. /\ Others(c) /\ caller'[c].pc = "waiting"
          /\ caller'[c].kind = kind
      BY <1>2, CallMoves
    <2>3. AskerOf(caller'[c]) = Presence!Asker("asking", kind, {})
      BY <2>2 DEF AskerOf, AskerStage, AskerView
    <2>4. AskerStage(caller[c].pc) = "idle"
      BY <2>1 DEF AskerStage
    <2> QED BY <2>1, <2>2, <2>3, <2>4, AskingMoves, AskingFields, ShownKept,
               NamedKept DEF Presence!Ask
  <1>3. ASSUME NEW c \in Callers, EnterCached(c) PROVE Presence!Next
    BY <1>3, CachedIsLatest
  <1>4. ASSUME NEW c \in Callers, EnterCooling(c) PROVE Presence!Next
    <2>1. AskerStage(caller[c].pc) = "asking" /\ Presence!Undisturbed
      BY <1>4, NobodyDisturbed DEF EnterCooling, AskerStage
    <2> QED BY <1>4, <2>1, UnknownIsTold DEF EnterCooling
  <1>5. ASSUME NEW c \in Callers, EnterFetch(c)
        PROVE  UNCHANGED Presence!pvars
    <2>1. caller[c].pc = "waiting" /\ UNCHANGED <<roster, user, cache>>
      BY <1>5 DEF EnterFetch
    <2>2. /\ Others(c) /\ caller'[c].pc = "fetching"
          /\ caller'[c].kind = caller[c].kind
      BY <1>5, EnterFetchMoves
    <2>3. AskerOf(caller'[c]) = AskerOf(caller[c])
      BY <2>1, <2>2 DEF AskerOf, AskerStage, AskerView
    <2> QED BY <1>1, <2>1, <2>2, <2>3
  <1>6. ASSUME NEW c \in Callers, FetchFails(c) \/ ApplyFails(c)
        PROVE  Presence!Next
    BY <1>6, FailureIsTold DEF FetchFails, ApplyFails
  <1>7. ASSUME NEW c \in Callers, NEW s \in Snapshots, FetchSucceeds(c, s)
        PROVE  UNCHANGED Presence!pvars
    <2>1. caller[c].pc = "fetching" /\ UNCHANGED <<roster, user, cache>>
      BY <1>7 DEF FetchSucceeds
    <2>2. /\ Others(c) /\ caller'[c].pc = "applying"
          /\ caller'[c].kind = caller[c].kind
      BY <1>7, FetchSucceedsMoves
    <2>3. AskerOf(caller'[c]) = AskerOf(caller[c])
      BY <2>1, <2>2 DEF AskerOf, AskerStage, AskerView
    <2> QED BY <1>1, <2>1, <2>2, <2>3
  <1>8. ASSUME NEW c \in Callers, ApplyCommits(c) PROVE Presence!Next
    BY <1>8, CommitIsLearned
  <1>9. ASSUME NEW c \in Callers, Succeeds(c) PROVE Presence!Next
    BY <1>9, SuccessIsPassedOn
  <1>10. ASSUME NEW c \in Callers, Answer(c) \/ RegisterRefused(c)
         PROVE  Presence!Leave(c)
    <2>1. /\ caller[c].pc \in {"answering", "registering"} /\ Leaves(c)
          /\ UNCHANGED <<roster, user, cache>>
      BY <1>10 DEF Answer, RegisterRefused
    <2>2. AskerStage(caller[c].pc) \in {"told", "joining"}
      BY <2>1 DEF AskerStage
    <2> QED BY <2>1, <2>2, LeavingIsQuiet, AskingFields, ShownKept, NamedKept
            DEF Presence!Leave
  <1>11. ASSUME NEW c \in Callers, NEW u \in Users, Register(c, u)
         PROVE  Presence!Next
    BY <1>11, RegisterIsJoin
  <1>12. CASE Tick \/ UNCHANGED vars
    BY <1>12, ShownKept, NamedKept DEF Tick, vars, Asking, Presence!pvars
  <1>14. ASSUME NEW c \in Callers, StateFails(c) PROVE Presence!Next
    BY <1>14, LostAnswerIsRetracted
  <1>13. CASE Restart
    <2>1. /\ UNCHANGED <<roster, user>> /\ cache'.filled = FALSE
          /\ caller' = [c \in Callers |-> Idle]
      BY <1>13 DEF Restart, NoEntry
    <2>2. Asking' = [c \in Callers |-> Presence!Quiet]
      BY <2>1 DEF Asking, Idle, AskerStage, AskerView, Presence!Quiet,
                  Presence!Asker
    <2> QED BY <2>1, <2>2, ShownKept, NamedKept DEF Presence!Restart
  <1> QED
    BY <1>2, <1>3, <1>4, <1>5, <1>6, <1>7, <1>8, <1>9, <1>10, <1>11, <1>12,
       <1>13, <1>14 DEF Next, Enter, Step

(* Behind the mutex, the cache, the cooldown and the transactions, the     *)
(* roster takes the steps of Presence (PresenceSpec).                      *)
THEOREM RosterImplementsPresence == Spec => PresenceSpec
  <1> DEFINE IInv == Shapes /\ Exclusion /\ SnapshotInv
  <1>1. Init => IInv
    BY ShapesInit, ExclusionInit, SnapshotInit
  <1>2. IInv /\ [Next]_vars => IInv'
    BY ShapesStep, ExclusionStep, SnapshotStep
  <1>3. IInv /\ [Next]_vars => [Presence!Next]_(Presence!pvars)
    BY PresenceStep
  <1> QED BY <1>1, <1>2, <1>3, PresenceInit, PTL
          DEF Spec, PresenceSpec, Presence!Spec

=============================================================================
