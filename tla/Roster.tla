------------------------------- MODULE Roster -------------------------------
(***************************************************************************)
(* The player roster: internal/roster, with the registrations that use it  *)
(* (internal/auth/service.go) and the tables it keeps in step,             *)
(* player_roster and the bound rows of users.                              *)
(*                                                                         *)
(* One mutex covers a whole call of Players or FreshPlayers: the look at   *)
(* the cache, the request to the game server, the transaction and the      *)
(* answer. A registration goes on without the mutex, hashes its password   *)
(* and inserts its row with the name of the snapshot it was given.         *)
(*                                                                         *)
(* A snapshot is the set of players online, each with a character name.    *)
(* Levels, pings, positions and player ids follow the name and are left    *)
(* out; a transaction refused for a player id is one of those that fail.   *)
(***************************************************************************)
EXTENDS Naturals

CONSTANTS
    Users,     \* the game server's userIds
    Names,     \* character names
    Callers,   \* HTTP requests that need the roster
    TTL,       \* cache.players_ttl
    Timeout,   \* palworld.timeout, the limit of one request to the game server
    MaxTime    \* bound: the last instant of the clock

ASSUME RosterAssumption ==
    /\ TTL \in Nat \ {0}
    /\ Timeout \in Nat
    /\ MaxTime \in Nat \ {0}

VARIABLES
    now,          \* the clock
    roster,       \* player_roster, a row or NoRow per userId
    user,         \* users with a palworld_user_id, a row or NoUser
    lastSuccess,  \* player_roster_last_success_at, 0 without a row
    cache,        \* Service.cache
    failureAt,    \* Service.failureAt, 0 for the zero time
    settledAt,    \* history: when the latest attempt to refresh ended, or 0
    caller        \* per caller: its stage, and the snapshot it works on

vars == <<now, roster, user, lastSuccess, cache, failureAt, settledAt, caller>>

-----------------------------------------------------------------------------
(* Rows and values *)

Time == 0..MaxTime

NoRow == [known |-> FALSE]
NoUser == [bound |-> FALSE]
RosterRow == {NoRow} \cup [known : {TRUE}, name : Names, online : BOOLEAN,
                           lastOnline : Time]
UserRow == {NoUser} \cup [bound : {TRUE}, name : Names, createdAt : Time]

(* Whom a snapshot shows, and under which name.                            *)
Snapshots == UNION {[online -> Names] : online \in SUBSET Users}

(* sentAt, when the request for the snapshot was sent, is history.         *)
NoEntry == [filled |-> FALSE]
Entry == {NoEntry} \cup [filled : {TRUE}, snapshot : Snapshots, sentAt : Time,
                         completedAt : Time]

Nobody == [u \in {} |-> u]

(* "at" is completedAt, or the instant the cache was found fresh.          *)
Idle == [pc |-> "idle", kind |-> "players", known |-> FALSE,
         snapshot |-> Nobody, calledAt |-> 0, sentAt |-> 0, at |-> 0]
Stages == {"idle", "waiting", "fetching", "applying", "caching", "answering",
           "registering"}
Caller == [pc : Stages, kind : {"players", "fresh"}, known : BOOLEAN,
           snapshot : Snapshots, calledAt : Time, sentAt : Time, at : Time]

Init ==
    /\ now = 1
    /\ \E name \in Snapshots :
         /\ roster = [u \in Users |->
                        IF u \in DOMAIN name
                        THEN [known |-> TRUE, name |-> name[u],
                              online |-> TRUE, lastOnline |-> 0]
                        ELSE NoRow]
         /\ user = [u \in Users |->
                      IF u \in DOMAIN name
                      THEN [bound |-> TRUE, name |-> name[u], createdAt |-> 0]
                      ELSE NoUser]
    /\ lastSuccess = 0
    /\ cache = NoEntry
    /\ failureAt = 0
    /\ settledAt = 0
    /\ caller = [c \in Callers |-> Idle]

-----------------------------------------------------------------------------
(* The mutex and the two waiting times *)

(* Mutant: the mutex is asked for again by a caller that has it.           *)
HoldsFromLock(c) == caller[c].pc \notin {"idle", "registering"}
Holds(c) == caller[c].pc \in {"fetching", "applying", "caching", "answering"}

(* Mutant: the mutex is released before the answer is put together.        *)
MutexFreeForAnswer ==
    \A c \in Callers : caller[c].pc \notin {"fetching", "applying", "caching"}
MutexFree == \A c \in Callers : ~Holds(c)

(* Mutant: a value of exactly the TTL still counts.                        *)
CacheNotOlder == cache.filled /\ now - cache.completedAt <= TTL
CacheFresh == cache.filled /\ now - cache.completedAt < TTL
CoolingDown == failureAt # 0 /\ now - failureAt < TTL

Goes(c, stage) == caller' = [caller EXCEPT ![c].pc = stage]
Leaves(c) == caller' = [caller EXCEPT ![c] = Idle]

(* History: the arrival is kept for registrations only.                    *)
ArrivedAt(kind) == IF kind = "fresh" THEN now ELSE 0

(* A handler asks for the roster: the summary and the player list ask for  *)
(* Players, a registration asks for FreshPlayers.                          *)
Call(c, kind) ==
    /\ caller[c].pc = "idle"
    /\ caller' = [caller EXCEPT
                    ![c] = [Idle EXCEPT !.pc = "waiting", !.kind = kind,
                                        !.calledAt = ArrivedAt(kind)]]
    /\ UNCHANGED <<now, roster, user, lastSuccess, cache, failureAt, settledAt>>

(* The mutex is taken and the clock is read behind it. Within the TTL of a *)
(* success Players answers from the cache ...                              *)
(* Mutant: and so does FreshPlayers.                                       *)
EnterCachedForAll(c) ==
    /\ caller[c].pc = "waiting" /\ MutexFree
    /\ CacheFresh
    /\ caller' = [caller EXCEPT
                    ![c].pc = IF caller[c].kind = "players" THEN "answering"
                                                            ELSE "registering",
                    ![c].known = TRUE, ![c].snapshot = cache.snapshot,
                    ![c].sentAt = cache.sentAt, ![c].at = now]
    /\ UNCHANGED <<now, roster, user, lastSuccess, cache, failureAt, settledAt>>
EnterCached(c) ==
    /\ caller[c].pc = "waiting" /\ MutexFree
    /\ caller[c].kind = "players"
    /\ CacheFresh
    /\ caller' = [caller EXCEPT ![c].pc = "answering", ![c].known = TRUE,
                                ![c].snapshot = cache.snapshot,
                                ![c].sentAt = cache.sentAt, ![c].at = now]
    /\ UNCHANGED <<now, roster, user, lastSuccess, cache, failureAt, settledAt>>

(* ... within the TTL of a failure it answers that it does not know ...    *)
EnterCooling(c) ==
    /\ caller[c].pc = "waiting" /\ MutexFree
    /\ caller[c].kind = "players"
    /\ ~CacheFresh /\ CoolingDown
    /\ caller' = [caller EXCEPT ![c] = [Idle EXCEPT !.pc = "answering"]]
    /\ UNCHANGED <<now, roster, user, lastSuccess, cache, failureAt, settledAt>>

(* ... and otherwise the game server is asked; FreshPlayers always asks.   *)
NeedsFetch(c) == caller[c].kind = "fresh" \/ (~CacheFresh /\ ~CoolingDown)

EnterFetch(c) ==
    /\ caller[c].pc = "waiting" /\ MutexFree
    /\ NeedsFetch(c)
    /\ caller' = [caller EXCEPT ![c].pc = "fetching", ![c].sentAt = now]
    /\ UNCHANGED <<now, roster, user, lastSuccess, cache, failureAt, settledAt>>

-----------------------------------------------------------------------------
(* One refresh *)

(* Mutant: the cooldown starts when the request was sent.                  *)
CooldownFromSending(c) == failureAt' = caller[c].sentAt
CooldownFromEnd(c) == failureAt' = now

(* finishRefresh with an error. Players goes on to answer, without a       *)
(* snapshot; FreshPlayers returns the error.                               *)
Fails(c) ==
    /\ CooldownFromEnd(c)
    /\ settledAt' = now
    /\ IF caller[c].kind = "players"
       THEN caller' = [caller EXCEPT ![c] = [Idle EXCEPT !.pc = "answering"]]
       ELSE Leaves(c)

(* The game server does not answer, answers too late or with a snapshot    *)
(* that ValidatePlayers refuses, or the client of this request is gone.    *)
FetchFails(c) ==
    /\ caller[c].pc = "fetching"
    /\ Fails(c)
    /\ UNCHANGED <<now, roster, user, lastSuccess, cache>>

FetchSucceeds(c, snapshot) ==
    /\ caller[c].pc = "fetching"
    /\ caller' = [caller EXCEPT ![c].pc = "applying", ![c].snapshot = snapshot,
                                ![c].at = now]
    /\ UNCHANGED <<now, roster, user, lastSuccess, cache, failureAt, settledAt>>

(* Mutant: the cache is filled before the transaction.                     *)
ApplyFailsAfterCaching(c) ==
    /\ caller[c].pc = "applying"
    /\ Fails(c)
    /\ cache' = [filled |-> TRUE, snapshot |-> caller[c].snapshot,
                 sentAt |-> caller[c].sentAt,
                 completedAt |-> caller[c].at]
    /\ UNCHANGED <<now, roster, user, lastSuccess>>
(* The transaction is rolled back: a unique index, a busy database, a      *)
(* cancelled request.                                                      *)
ApplyFails(c) ==
    /\ caller[c].pc = "applying"
    /\ Fails(c)
    /\ UNCHANGED <<now, roster, user, lastSuccess, cache>>

(* The rows after ApplySnapshot: everybody offline, then the players of    *)
(* the snapshot inserted or updated.                                       *)
RosterAfter(snapshot, stamp) ==
    [u \in Users |->
       IF u \in DOMAIN snapshot
       THEN [known |-> TRUE, name |-> snapshot[u], online |-> TRUE,
             lastOnline |-> stamp]
       ELSE IF roster[u].known THEN [roster[u] EXCEPT !.online = FALSE]
       ELSE NoRow]

(* Mutant: only accounts that were offline take the name.                  *)
UserAfterReturn(snapshot) ==
    [u \in Users |->
       IF u \in DOMAIN snapshot /\ user[u].bound
          /\ ~(roster[u].known /\ roster[u].online)
       THEN [user[u] EXCEPT !.name = snapshot[u]]
       ELSE user[u]]
(* The accounts bound to the players of the snapshot take their names.     *)
UserAfter(snapshot) ==
    [u \in Users |->
       IF u \in DOMAIN snapshot /\ user[u].bound
       THEN [user[u] EXCEPT !.name = snapshot[u]]
       ELSE user[u]]

ApplyCommits(c) ==
    /\ caller[c].pc = "applying"
    /\ roster' = RosterAfter(caller[c].snapshot, caller[c].at)
    /\ user' = UserAfter(caller[c].snapshot)
    /\ lastSuccess' = caller[c].at
    /\ Goes(c, "caching")
    /\ UNCHANGED <<now, cache, failureAt, settledAt>>

(* The cache is filled and the failure forgotten. Players goes on to       *)
(* answer; FreshPlayers returns the snapshot to the registration.          *)
Succeeds(c) ==
    /\ caller[c].pc = "caching"
    /\ cache' = [filled |-> TRUE, snapshot |-> caller[c].snapshot,
                 sentAt |-> caller[c].sentAt,
                 completedAt |-> caller[c].at]
    /\ failureAt' = 0
    /\ settledAt' = caller[c].at
    /\ caller' = [caller EXCEPT
                    ![c].pc = IF caller[c].kind = "players" THEN "answering"
                                                            ELSE "registering",
                    ![c].known = TRUE]
    /\ UNCHANGED <<now, roster, user, lastSuccess>>

(* responseFromState cannot read the tables: the snapshot is of no use,    *)
(* and the answer is that nothing is known.                                *)
StateFails(c) ==
    /\ caller[c].pc = "answering" /\ caller[c].known
    /\ caller' = [caller EXCEPT ![c] = [Idle EXCEPT !.pc = "answering"]]
    /\ UNCHANGED <<now, roster, user, lastSuccess, cache, failureAt, settledAt>>

(* It has read them, the snapshot if there is one is joined with their     *)
(* rows, and the mutex is released.                                        *)
Answer(c) ==
    /\ caller[c].pc = "answering"
    /\ Leaves(c)
    /\ UNCHANGED <<now, roster, user, lastSuccess, cache, failureAt, settledAt>>

-----------------------------------------------------------------------------
(* The rest of a registration *)

(* The INSERT of Service.Register for a player of the snapshot; a second   *)
(* row for the same player is refused by the unique indexes.               *)
Register(c, u) ==
    /\ caller[c].pc = "registering"
    /\ u \in DOMAIN caller[c].snapshot
    /\ ~user[u].bound
    /\ user' = [user EXCEPT ![u] = [bound |-> TRUE,
                                    name |-> caller[c].snapshot[u],
                                    createdAt |-> now]]
    /\ Leaves(c)
    /\ UNCHANGED <<now, roster, lastSuccess, cache, failureAt, settledAt>>

(* Nobody of that name online, an account that exists, a broken request.   *)
RegisterRefused(c) ==
    /\ caller[c].pc = "registering"
    /\ Leaves(c)
    /\ UNCHANGED <<now, roster, user, lastSuccess, cache, failureAt, settledAt>>

-----------------------------------------------------------------------------
(* The world around *)

(* Time passes; no request to the game server outlasts its timeout.        *)
Tick ==
    /\ now < MaxTime
    /\ \A c \in Callers : caller[c].pc = "fetching"
                            => now < caller[c].sentAt + Timeout
    /\ now' = now + 1
    /\ UNCHANGED <<roster, user, lastSuccess, cache, failureAt, settledAt, caller>>

(* The server dies, at any stage, and starts again: the tables stay.       *)
Restart ==
    /\ cache' = NoEntry
    /\ failureAt' = 0
    /\ settledAt' = 0
    /\ caller' = [c \in Callers |-> Idle]
    /\ UNCHANGED <<now, roster, user, lastSuccess>>

-----------------------------------------------------------------------------

Step(c) ==
    \/ FetchFails(c)
    \/ \E snapshot \in Snapshots : FetchSucceeds(c, snapshot)
    \/ ApplyFails(c)
    \/ ApplyCommits(c)
    \/ Succeeds(c)
    \/ StateFails(c)
    \/ Answer(c)
    \/ \E u \in Users : Register(c, u)
    \/ RegisterRefused(c)

Enter(c) == EnterCached(c) \/ EnterCooling(c) \/ EnterFetch(c)

Next ==
    \/ \E c \in Callers, kind \in {"players", "fresh"} : Call(c, kind)
    \/ \E c \in Callers : Enter(c)
    \/ \E c \in Callers : Step(c)
    \/ Tick
    \/ Restart

Spec == Init /\ [][Next]_vars

(* A caller that holds the mutex goes on: the request to the game server   *)
(* has a timeout, the database a busy timeout. Go's mutex hands itself to  *)
(* a waiter that has waited long enough.                                   *)
FairSpec == /\ Spec
            /\ \A c \in Callers : WF_vars(Step(c)) /\ SF_vars(Enter(c))

-----------------------------------------------------------------------------
(* Properties *)

(* Every variable keeps the shape of its table or field, and at most one   *)
(* caller holds the mutex.                                                 *)
TypeOK ==
    /\ now \in Time
    /\ roster \in [Users -> RosterRow]
    /\ user \in [Users -> UserRow]
    /\ lastSuccess \in Time
    /\ cache \in Entry
    /\ failureAt \in Time
    /\ settledAt \in Time
    /\ caller \in [Callers -> Caller]
    /\ \A c, d \in Callers : Holds(c) /\ Holds(d) => c = d

Online == {u \in Users : roster[u].known /\ roster[u].online}

(* What the tables say about the players of a snapshot completed at t.     *)
TablesAgree(snapshot, t) ==
    /\ Online = DOMAIN snapshot
    /\ lastSuccess = t
    /\ \A u \in Online : roster[u].name = snapshot[u] /\ roster[u].lastOnline = t

(* An answer that claims to know who is online joins rows of the tables    *)
(* with the pings and positions of a snapshot in memory. The two are the   *)
(* same refresh: whenever such an answer is put together, and whenever the *)
(* cache may be used for one, the rows are those that very snapshot wrote. *)
(* A failed transaction, a failed request, a registration that refreshed   *)
(* in between or a restart must not part them.                             *)
KnownIsOneSnapshot ==
    /\ MutexFree /\ cache.filled
         => TablesAgree(cache.snapshot, cache.completedAt)
    /\ \A c \in Callers :
         caller[c].pc = "answering" /\ caller[c].known
           => /\ cache.filled
              /\ caller[c].snapshot = cache.snapshot
              /\ TablesAgree(cache.snapshot, cache.completedAt)

(* When it is decided to answer from a snapshot, the request for that      *)
(* snapshot was sent less than TTL + Timeout ago, also for a caller that   *)
(* waited for the mutex behind a slow refresh.                             *)
KnownIsRecent ==
    \A c \in Callers :
        caller[c].pc = "answering" /\ caller[c].known
          => caller[c].at - caller[c].sentAt < TTL + Timeout

(* A registration binds a player only on a snapshot that was asked for     *)
(* after the registration arrived; neither the cache nor a snapshot that   *)
(* another caller has just been given will do.                             *)
RegistrationIsLive ==
    \A c \in Callers :
        caller[c].pc = "registering" => caller[c].sentAt >= caller[c].calledAt

(* The name by which a player logs in is the roster's, unless the player   *)
(* was last seen before the account was inserted: a registration may       *)
(* insert a name that a refresh has replaced meanwhile, and the next       *)
(* snapshot with the player repairs it.                                    *)
NameFollowsRoster ==
    \A u \in Users :
        user[u].bound =>
          /\ roster[u].known
          /\ \/ user[u].name = roster[u].name
             \/ roster[u].lastOnline <= user[u].createdAt

(* Requests for the player list, however many wait for the mutex, ask the  *)
(* game server only when the latest attempt of any caller, successful or   *)
(* not, ended at least a TTL ago.                                          *)
RefreshesAreSpaced ==
    [][\A c \in Callers :
         /\ caller[c].pc = "waiting" /\ caller[c].kind = "players"
         /\ caller'[c].pc = "fetching"
         => settledAt = 0 \/ now >= settledAt + TTL]_vars

(* Roster implements Presence. Waiting, fetching and applying are asking,  *)
(* and the commit of the transaction is what learns a snapshot: who is     *)
(* online and what they are called change only there, as a whole, while    *)
(* nobody is being answered; a registration binds only a player of the     *)
(* snapshot it learned itself, and a restart forgets what to vouch for.    *)
AskerStage(pc) ==
    CASE pc \in {"waiting", "fetching", "applying"} -> "asking"
      [] pc = "caching" -> "learned"
      [] pc = "answering" -> "told"
      [] pc = "registering" -> "joining"
      [] OTHER -> "idle"
AskerView(r) ==
    IF r.pc \in {"caching", "registering"} \/ (r.pc = "answering" /\ r.known)
    THEN {r.snapshot} ELSE {}
Asking == [c \in Callers |-> [stage |-> AskerStage(caller[c].pc),
                              wants |-> caller[c].kind,
                              view |-> AskerView(caller[c])]]
Shown == [u \in Online |-> roster[u].name]
Named == [u \in Users |-> IF user[u].bound THEN {user[u].name} ELSE {}]
Presence == INSTANCE Presence WITH
    latest <- Shown, vouched <- cache.filled, account <- Named, asker <- Asking
PresenceSpec == Presence!Spec

(* Whoever asks for the roster is answered, whatever the game server and   *)
(* the database do to the callers in front.                                *)
CallersAreServed ==
    \A c \in Callers : caller[c].pc = "waiting" ~> caller[c].pc = "idle"

=============================================================================
