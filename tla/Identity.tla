------------------------------- MODULE Identity -------------------------------
(***************************************************************************)
(* Who is who: the identifying columns of users and player_roster, the     *)
(* snapshots that rewrite them (internal/roster/repository.go), the        *)
(* registration that binds an account to a player of the game and the      *)
(* lookup that finds an account by what somebody typed (internal/auth).    *)
(*                                                                         *)
(* A Palworld user id is "steam_" followed by a SteamID64, so both columns *)
(* are one here. Passwords, roles and statuses are in Accounts, the time   *)
(* at which snapshots are taken is in Roster.                              *)
(***************************************************************************)
EXTENDS Naturals, FiniteSets

CONSTANTS
    Texts,      \* names and what is typed for them
    Typed,      \* texts without blanks around them, as TrimSpace returns them
    Blank,      \* the empty text
    SteamIDs,   \* texts of digits: a uint64 that is not zero (isSteamID)
    Usernames,  \* texts that validUsername accepts
    Names,      \* character names in the game, never empty in a snapshot
    Fold,       \* per text: what is left of it under COLLATE NOCASE
    PlayerIDs,  \* the game's player ids
    None,       \* NULL
    IdsOf,      \* per SteamID: the player ids the game may show for it
    Legacy,     \* rows of schema 3
    Accounts,   \* row ids of users
    Requests    \* registrations in flight

ASSUME IdentityAssumption ==
    /\ Typed \subseteq Texts /\ Blank \in Typed
    /\ SteamIDs \subseteq Typed \ {Blank}
    /\ Usernames \subseteq Typed \ {Blank}
    /\ Names \subseteq Texts \ {Blank}
    /\ Fold \in [Texts -> Texts]
    /\ IdsOf \in [SteamIDs -> SUBSET PlayerIDs]
    /\ Legacy \subseteq Accounts
    /\ None \notin Texts \cup PlayerIDs

VARIABLES
    users,   \* per account: its identifying columns
    roster,  \* per SteamID: its row of player_roster
    setup,   \* system_settings.setup_completed
    req      \* per registration: the player it has found

vars == <<users, roster, setup, req>>

-----------------------------------------------------------------------------
(* Rows *)

Ids == PlayerIDs \cup {None}

NoRow == [kind |-> "none", username |-> None, steam |-> None, pid |-> None,
          name |-> Blank]
UserRow == [kind : {"none", "admin", "player"}, username : Usernames \cup {None},
            steam : SteamIDs \cup {None}, pid : Ids, name : Texts]
Admin(username) ==
    [NoRow EXCEPT !.kind = "admin", !.username = username]
Player(steam, pid, name) ==
    [NoRow EXCEPT !.kind = "player", !.steam = steam, !.pid = pid,
                  !.name = name]

Admins == {a \in Accounts : users[a].kind = "admin"}
Players == {a \in Accounts : users[a].kind = "player"}

RosterRow == [known : BOOLEAN, pid : Ids, name : Texts]
NotSeen == [known |-> FALSE, pid |-> None, name |-> Blank]

Idle == [pc |-> "idle", steam |-> None, pid |-> None, name |-> Blank]
Request == [pc : {"idle", "hashing"}, steam : SteamIDs \cup {None},
            pid : Ids, name : Texts]

(* A file of schema 3, if there is one, has been migrated: users has its   *)
(* players, with unique ids or the migration would have failed, and the    *)
(* roster is filled from them.                                             *)
LegacyPlayers == {Player(s, i, n) : s \in SteamIDs, i \in Ids, n \in Names}
Possible(row) == row.pid \in IdsOf[row.steam] \cup {None}

Init ==
    /\ \E old \in SUBSET Legacy :
         /\ users \in [Accounts -> LegacyPlayers \cup {NoRow}]
         /\ \A a \in Accounts : users[a] # NoRow <=> a \in old
         /\ setup \in BOOLEAN
         /\ setup => old # {}
    /\ \A a \in Players : Possible(users[a])
    /\ \A a, b \in Players : a # b =>
         /\ users[a].steam # users[b].steam
         /\ users[a].pid = None \/ users[a].pid # users[b].pid
    /\ roster = [s \in SteamIDs |->
                   IF \E a \in Players : users[a].steam = s
                   THEN LET a == CHOOSE b \in Players : users[b].steam = s
                        IN [known |-> TRUE, pid |-> users[a].pid,
                            name |-> users[a].name]
                   ELSE NotSeen]
    /\ req = [r \in Requests |-> Idle]

-----------------------------------------------------------------------------
(* Snapshots *)

(* What the game server says of the players online, once ValidatePlayers   *)
(* has passed it: no user twice, no player id twice.                       *)
Shown == [pid : Ids, name : Names]
Snapshots ==
    {snapshot \in UNION {[S -> Shown] : S \in SUBSET SteamIDs} :
        /\ \A s \in DOMAIN snapshot :
             snapshot[s].pid \in IdsOf[s] \cup {None}
        /\ \A s, t \in DOMAIN snapshot :
             s # t => snapshot[s].pid = None \/ snapshot[s].pid # snapshot[t].pid}

(* The orders in which a snapshot may list its players.                    *)
Orders(S) ==
    {order \in [1..Cardinality(S) -> S] : \A s \in S : \E i \in DOMAIN order :
        order[i] = s}
Before(order, i) == {order[j] : j \in {k \in DOMAIN order : k < i}}

(* A player without an id in the snapshot keeps the one on record.         *)
IdAfter(old, new) == IF new = None THEN old ELSE new

(* A unique index on ids that are there. Mutant: on all.                   *)
SameIdOrNone(id, other) == id = other
SameId(id, other) == id = other /\ id # None

(* The ids of the rows once the players in "done" have been written.       *)
RosterId(snapshot, done, s) ==
    IF s \in done THEN IdAfter(roster[s].pid, snapshot[s].pid) ELSE roster[s].pid
UserId(snapshot, done, a) ==
    IF users[a].steam \in done
    THEN IdAfter(users[a].pid, snapshot[users[a].steam].pid)
    ELSE users[a].pid

(* Writing the player s after those in "done" breaks a unique index.       *)
RosterClash(snapshot, done, s) ==
    \E t \in SteamIDs \ {s} :
        SameId(IdAfter(roster[s].pid, snapshot[s].pid),
               RosterId(snapshot, done, t))
(* Mutant: users has no such index.                                        *)
UserClashNever(snapshot, done, s) == s \notin SteamIDs
UserClash(snapshot, done, s) ==
    \E a, b \in Players :
        /\ a # b /\ users[a].steam = s
        /\ SameId(IdAfter(users[a].pid, snapshot[s].pid),
                  UserId(snapshot, done, b))

Applies(snapshot, order) ==
    \A i \in DOMAIN order :
        /\ ~RosterClash(snapshot, Before(order, i), order[i])
        /\ ~UserClash(snapshot, Before(order, i), order[i])

(* ApplySnapshot: one transaction; a clash rolls all of it back, otherwise *)
(* the order of the players makes no difference.                           *)
ApplySnapshot(snapshot) ==
    /\ \E order \in Orders(DOMAIN snapshot) : Applies(snapshot, order)
    /\ roster' = [s \in SteamIDs |->
                    IF s \in DOMAIN snapshot
                    THEN [known |-> TRUE,
                          pid |-> IdAfter(roster[s].pid, snapshot[s].pid),
                          name |-> snapshot[s].name]
                    ELSE roster[s]]
    /\ users' = [a \in Accounts |->
                   IF a \in Players /\ users[a].steam \in DOMAIN snapshot
                   THEN [users[a] EXCEPT
                           !.pid = IdAfter(@, snapshot[users[a].steam].pid),
                           !.name = snapshot[users[a].steam].name]
                   ELSE users[a]]

Sync(snapshot) ==
    /\ ApplySnapshot(snapshot)
    /\ UNCHANGED <<setup, req>>

-----------------------------------------------------------------------------
(* Accounts *)

(* CreateInitialAdmin and CreateRecoveryAdmin, behind validUsername and    *)
(* the unique index on username. Mutant: the index knows upper from lower. *)
UsernameFreeAsWritten(username) ==
    \A a \in Admins : users[a].username # username
UsernameFree(username) ==
    \A a \in Admins : Fold[users[a].username] # Fold[username]

CreateAdmin(a, username) ==
    /\ users[a].kind = "none"
    /\ UsernameFree(username)
    /\ users' = [users EXCEPT ![a] = Admin(username)]
    /\ setup' = TRUE
    /\ UNCHANGED <<roster, req>>

(* Register, up to the hash of the password: a fresh snapshot, in which    *)
(* the character name must be unique or the SteamID be there.              *)
Found(snapshot, asked) ==
    {s \in DOMAIN snapshot : snapshot[s].name = asked}

Asks(r, snapshot, s) ==
    /\ setup
    /\ req[r].pc = "idle"
    /\ \/ \E asked \in Typed \ {Blank} : Found(snapshot, asked) = {s}
       \/ s \in DOMAIN snapshot
    /\ ApplySnapshot(snapshot)
    /\ req' = [req EXCEPT ![r] = [pc |-> "hashing", steam |-> s,
                                  pid |-> snapshot[s].pid,
                                  name |-> snapshot[s].name]]
    /\ UNCHANGED setup

(* The INSERT of CreatePendingPlayer, which the unique indexes may refuse. *)
(* Mutant: an account with another id counts as another player.            *)
SteamIDFreeWithId(r) ==
    \A a \in Players :
        users[a].steam = req[r].steam => users[a].pid # req[r].pid
SteamIDFree(r) == \A a \in Players : users[a].steam # req[r].steam
IdFree(r) == \A a \in Players : ~SameId(req[r].pid, users[a].pid)

Insert(r, a) ==
    /\ req[r].pc = "hashing"
    /\ users[a].kind = "none"
    /\ SteamIDFree(r) /\ IdFree(r)
    /\ users' = [users EXCEPT
                   ![a] = Player(req[r].steam, req[r].pid, req[r].name)]
    /\ req' = [req EXCEPT ![r] = Idle]
    /\ UNCHANGED <<roster, setup>>

(* The INSERT is refused, or the request ends without it.                  *)
GivesUp(r) ==
    /\ req[r].pc = "hashing"
    /\ req' = [req EXCEPT ![r] = Idle]
    /\ UNCHANGED <<users, roster, setup>>

-----------------------------------------------------------------------------

Next ==
    \/ \E a \in Accounts, username \in Usernames : CreateAdmin(a, username)
    \/ \E snapshot \in Snapshots :
         \/ Sync(snapshot)
         \/ \E r \in Requests, s \in SteamIDs : Asks(r, snapshot, s)
    \/ \E r \in Requests : GivesUp(r) \/ \E a \in Accounts : Insert(r, a)

Spec == Init /\ [][Next]_vars

-----------------------------------------------------------------------------
(* Looking an account up *)

BySteamID(text) == {a \in Players : users[a].steam = text}
ByUsername(text) == {a \in Admins : Fold[users[a].username] = Fold[text]}

(* FindUniqueByCharacterName: administrators have the empty name.          *)
ByName(text) ==
    LET bearers == {a \in Admins \cup Players : users[a].name = text}
    IN IF Cardinality(bearers) = 1 THEN bearers ELSE {}

(* ResolveByIdentifier: the set of the account it finds, if any.           *)
(* Mutants: usernames first, names before usernames.                       *)
UsernameFirst(text) ==
    IF ByUsername(text) # {} THEN ByUsername(text)
    ELSE IF text \in SteamIDs THEN BySteamID(text) ELSE ByName(text)
NameFirst(text) ==
    IF text \in SteamIDs THEN BySteamID(text)
    ELSE IF ByName(text) # {} THEN ByName(text) ELSE ByUsername(text)
Reached(text) ==
    IF text \in SteamIDs THEN BySteamID(text)
    ELSE IF ByUsername(text) # {} THEN ByUsername(text) ELSE ByName(text)

-----------------------------------------------------------------------------
(* Properties *)

(* Rows and requests keep their shapes, and no player id is in two rows of *)
(* a table.                                                                *)
TypeOK ==
    /\ users \in [Accounts -> UserRow]
    /\ roster \in [SteamIDs -> RosterRow]
    /\ setup \in BOOLEAN
    /\ req \in [Requests -> Request]
    /\ \A a, b \in Players : a # b => ~SameId(users[a].pid, users[b].pid)
    /\ \A s, t \in SteamIDs : s # t => ~SameId(roster[s].pid, roster[t].pid)

(* Who types the SteamID or the username that is his reaches his account   *)
(* and no other, whatever players call themselves and administrators were  *)
(* named (README.md:39), unless the username is a SteamID: its bearer is   *)
(* never reached by it.                                                    *)
LoginsReachTheirAccount ==
    /\ \A a \in Players : Reached(users[a].steam) = {a}
    /\ \A a \in Admins :
         IF users[a].username \in SteamIDs
         THEN a \notin Reached(users[a].username)
         ELSE Reached(users[a].username) = {a}

(* One game player has one account, for good: registrations that race, by  *)
(* name and by SteamID, and snapshots with other names and ids neither     *)
(* part an account from its SteamID nor bind a second one (README.md:41).  *)
OneAccountPerPlayer ==
    [][\A a \in Players, b \in Accounts :
         users'[b].steam = users[a].steam <=> a = b]_vars

(* A login by username or SteamID is not diverted by anything that happens *)
(* later: a registration, a renaming, an administrator of another name.    *)
(* (A login by character name is: names are not identities.)               *)
LoginsAreNotDiverted ==
    [][\A text \in Typed :
         \/ text \in SteamIDs /\ Reached(text) # {}
         \/ text \notin SteamIDs /\ ByUsername(text) # {}
         => Reached(text)' = Reached(text)]_vars

(* A snapshot is refused only for the sake of a player id that the game    *)
(* shows for two users: registrations with ids that have changed since,    *)
(* snapshots without ids, and whatever else has got into the tables do not *)
(* stop the roster.                                                        *)
Own(s, id) == \A t \in SteamIDs : id \in IdsOf[t] => t = s
SnapshotsApply ==
    \A snapshot \in Snapshots :
        (\A s \in DOMAIN snapshot : Own(s, snapshot[s].pid))
          => \A order \in Orders(DOMAIN snapshot) : Applies(snapshot, order)

=============================================================================
