---------------------------- MODULE IdentityProofs ----------------------------
(***************************************************************************)
(* Proofs about Identity, for every set of texts, SteamIDs and player ids, *)
(* every folding of case and any number of accounts and registrations.     *)
(***************************************************************************)
EXTENDS Identity, TLAPS

PlayersOf(u) == {a \in Accounts : u[a].kind = "player"}
AdminsOf(u) == {a \in Accounts : u[a].kind = "admin"}

(* What a row of users holds: a SteamID and an id that the game shows for  *)
(* it, or a username, or nothing.                                          *)
RowOK(row) ==
    /\ row \in UserRow
    /\ row.kind = "player" =>
         row.steam \in SteamIDs /\ row.pid \in IdsOf[row.steam] \cup {None}
    /\ row.kind # "player" => row.steam = None
    /\ row.kind = "admin" => row.username \in Usernames

UsersOK(u) ==
    /\ u \in [Accounts -> UserRow]
    /\ \A a \in Accounts : RowOK(u[a])

(* The unique indexes of users.                                            *)
SteamsDiffer(u) ==
    \A a, b \in PlayersOf(u) : a # b => u[a].steam # u[b].steam
NamesDiffer(u) ==
    \A a, b \in AdminsOf(u) :
        a # b => Fold[u[a].username] # Fold[u[b].username]
IdsDiffer(u) ==
    \A a, b \in PlayersOf(u) : a # b => ~SameId(u[a].pid, u[b].pid)

RosterOK(ro) ==
    /\ ro \in [SteamIDs -> RosterRow]
    /\ \A s \in SteamIDs : ro[s].pid \in IdsOf[s] \cup {None}
    /\ \A s, t \in SteamIDs : s # t => ~SameId(ro[s].pid, ro[t].pid)

ReqOK(q) ==
    /\ q \in [Requests -> Request]
    /\ \A r \in Requests : q[r].pc = "hashing" =>
         q[r].steam \in SteamIDs /\ q[r].pid \in IdsOf[q[r].steam] \cup {None}

UsersInv(u) ==
    UsersOK(u) /\ SteamsDiffer(u) /\ NamesDiffer(u) /\ IdsDiffer(u)

IdentityInv ==
    UsersInv(users) /\ RosterOK(roster) /\ ReqOK(req) /\ setup \in BOOLEAN

-----------------------------------------------------------------------------
(* Rows *)

LEMMA NoneIsNoText ==
    /\ None \notin SteamIDs /\ None \notin PlayerIDs /\ Blank \in Texts
    /\ SteamIDs \subseteq Typed /\ Typed \subseteq Texts
    /\ Usernames \subseteq Typed /\ Names \subseteq Texts
  BY IdentityAssumption

LEMMA NoRowFields ==
    /\ NoRow \in UserRow
    /\ NoRow.kind = "none" /\ NoRow.steam = None
  BY NoneIsNoText DEF NoRow, UserRow, Ids

LEMMA AdminFields ==
    ASSUME NEW n \in Usernames
    PROVE  /\ RowOK(Admin(n))
           /\ Admin(n).kind = "admin" /\ Admin(n).username = n
           /\ Admin(n).steam = None
  BY NoneIsNoText DEF Admin, NoRow, UserRow, Ids, RowOK

LEMMA PlayerFields ==
    ASSUME NEW s \in SteamIDs, NEW i \in Ids, NEW n \in Texts
    PROVE  /\ Player(s, i, n) \in UserRow
           /\ Player(s, i, n).kind = "player"
           /\ Player(s, i, n).steam = s
           /\ Player(s, i, n).pid = i
           /\ Player(s, i, n).name = n
  BY NoneIsNoText DEF Player, NoRow, UserRow, Ids

LEMMA SnapshotFields ==
    ASSUME NEW snapshot \in Snapshots
    PROVE  /\ DOMAIN snapshot \subseteq SteamIDs
           /\ \A s \in DOMAIN snapshot :
                /\ snapshot[s].pid \in Ids /\ snapshot[s].name \in Texts
                /\ snapshot[s].pid \in IdsOf[s] \cup {None}
           /\ \A s, t \in DOMAIN snapshot :
                s # t => ~SameId(snapshot[s].pid, snapshot[t].pid)
  <1>1. PICK S \in SUBSET SteamIDs : snapshot \in [S -> Shown]
    BY DEF Snapshots
  <1>2. \A s \in S : snapshot[s] \in Shown
    BY <1>1
  <1>3. \A s \in S : snapshot[s].pid \in Ids /\ snapshot[s].name \in Texts
    BY <1>2, NoneIsNoText DEF Shown
  <1>4. \A s, t \in DOMAIN snapshot :
          s # t => snapshot[s].pid = None \/ snapshot[s].pid # snapshot[t].pid
    BY DEF Snapshots
  <1>5. \A s \in DOMAIN snapshot : snapshot[s].pid \in IdsOf[s] \cup {None}
    BY DEF Snapshots
  <1> QED BY <1>1, <1>3, <1>4, <1>5 DEF SameId

-----------------------------------------------------------------------------
(* A snapshot *)

NewId(snapshot, a) == UserId(snapshot, DOMAIN snapshot, a)
NewRosterId(snapshot, s) == RosterId(snapshot, DOMAIN snapshot, s)

(* The rows that a snapshot leaves, field by field.                        *)
LEMMA UsersAfter ==
    ASSUME UsersOK(users), NEW snapshot \in Snapshots, ApplySnapshot(snapshot)
    PROVE  /\ users' \in [Accounts -> UserRow]
           /\ \A a \in Accounts :
                /\ users'[a].kind = users[a].kind
                /\ users'[a].steam = users[a].steam
                /\ users'[a].username = users[a].username
           /\ \A a \in Players : users'[a].pid = NewId(snapshot, a)
           /\ \A a \in Accounts \ Players : users'[a] = users[a]
  <1>1. \A a \in Accounts :
          users'[a] = IF a \in Players /\ users[a].steam \in DOMAIN snapshot
                      THEN [users[a] EXCEPT
                              !.pid = IdAfter(@, snapshot[users[a].steam].pid),
                              !.name = snapshot[users[a].steam].name]
                      ELSE users[a]
    BY DEF ApplySnapshot
  <1>2. users' = [a \in Accounts |-> users'[a]]
    BY DEF ApplySnapshot
  <1>3. SUFFICES ASSUME NEW a \in Accounts
                 PROVE  /\ users'[a] \in UserRow
                        /\ users'[a].kind = users[a].kind
                        /\ users'[a].steam = users[a].steam
                        /\ users'[a].username = users[a].username
                        /\ a \in Players => users'[a].pid = NewId(snapshot, a)
                        /\ a \notin Players => users'[a] = users[a]
    <2>1. /\ \A a \in Accounts : users'[a] \in UserRow
          /\ \A a \in Accounts :
               /\ users'[a].kind = users[a].kind
               /\ users'[a].steam = users[a].steam
               /\ users'[a].username = users[a].username
          /\ \A a \in Accounts :
               /\ a \in Players => users'[a].pid = NewId(snapshot, a)
               /\ a \notin Players => users'[a] = users[a]
      BY <1>3
    <2>2. users' \in [Accounts -> UserRow]
      BY <1>2, <2>1
    <2> QED BY <2>1, <2>2 DEF Players
  <1>4. users[a] \in UserRow
    BY DEF UsersOK
  <1>5. CASE a \in Players /\ users[a].steam \in DOMAIN snapshot
    <2> DEFINE i == IdAfter(users[a].pid, snapshot[users[a].steam].pid)
               n == snapshot[users[a].steam].name
    <2>1. users'[a] = [users[a] EXCEPT !.pid = i, !.name = n]
      BY <1>1, <1>5
    <2>2. i \in Ids /\ n \in Texts
      BY <1>4, <1>5, SnapshotFields DEF IdAfter, UserRow
    <2>3. i = NewId(snapshot, a)
      BY <1>5 DEF NewId, UserId
    <2> HIDE DEF i, n
    <2> QED BY <1>4, <1>5, <2>1, <2>2, <2>3 DEF UserRow
  <1>6. CASE ~(a \in Players /\ users[a].steam \in DOMAIN snapshot)
    <2>1. users'[a] = users[a]
      BY <1>1, <1>6
    <2>2. a \in Players => users[a].pid = NewId(snapshot, a)
      BY <1>6 DEF NewId, UserId
    <2> QED BY <1>4, <2>1, <2>2
  <1> QED BY <1>5, <1>6

LEMMA RosterAfter ==
    ASSUME RosterOK(roster), NEW snapshot \in Snapshots, ApplySnapshot(snapshot)
    PROVE  /\ roster' \in [SteamIDs -> RosterRow]
           /\ \A s \in SteamIDs : roster'[s].pid = NewRosterId(snapshot, s)
  <1>1. \A s \in SteamIDs :
          roster'[s] = IF s \in DOMAIN snapshot
                       THEN [known |-> TRUE,
                             pid |-> IdAfter(roster[s].pid, snapshot[s].pid),
                             name |-> snapshot[s].name]
                       ELSE roster[s]
    BY DEF ApplySnapshot
  <1>2. roster' = [s \in SteamIDs |-> roster'[s]]
    BY DEF ApplySnapshot
  <1>3. SUFFICES ASSUME NEW s \in SteamIDs
                 PROVE  /\ roster'[s] \in RosterRow
                        /\ roster'[s].pid = NewRosterId(snapshot, s)
    BY <1>2
  <1>4. roster[s] \in RosterRow /\ roster[s].pid \in Ids
    BY DEF RosterOK, RosterRow
  <1>5. s \in DOMAIN snapshot =>
          /\ IdAfter(roster[s].pid, snapshot[s].pid) \in Ids
          /\ snapshot[s].name \in Texts
    BY <1>4, SnapshotFields DEF IdAfter
  <1>6. CASE s \in DOMAIN snapshot
    <2> DEFINE i == IdAfter(roster[s].pid, snapshot[s].pid)
               n == snapshot[s].name
    <2>1. roster'[s] = [known |-> TRUE, pid |-> i, name |-> n]
      BY <1>1, <1>6
    <2>2. i \in Ids /\ n \in Texts
      BY <1>5, <1>6
    <2>3. i = NewRosterId(snapshot, s)
      BY <1>6 DEF NewRosterId, RosterId
    <2> HIDE DEF i, n
    <2> QED BY <2>1, <2>2, <2>3 DEF RosterRow
  <1>7. CASE s \notin DOMAIN snapshot
    BY <1>1, <1>4, <1>7 DEF NewRosterId, RosterId
  <1> QED BY <1>6, <1>7

(* Of two rows the index compares the one that is written later with the   *)
(* other as it will stay.                                                  *)
LEMMA LastWriter ==
    ASSUME NEW snapshot, NEW order, Applies(snapshot, order),
           NEW i \in DOMAIN order
    PROVE  /\ \A a, b \in Players :
                (/\ a # b /\ users[a].steam = order[i]
                 /\ order[i] \in DOMAIN snapshot
                 /\ \/ users[b].steam \in Before(order, i)
                                          \cap DOMAIN snapshot
                    \/ users[b].steam \notin Before(order, i)
                                             \cup DOMAIN snapshot)
                => ~SameId(NewId(snapshot, a), NewId(snapshot, b))
           /\ \A t \in SteamIDs :
                (/\ t # order[i] /\ order[i] \in DOMAIN snapshot
                 /\ \/ t \in Before(order, i) \cap DOMAIN snapshot
                    \/ t \notin Before(order, i) \cup DOMAIN snapshot)
                => ~SameId(NewRosterId(snapshot, order[i]),
                           NewRosterId(snapshot, t))
  <1>1. ~UserClash(snapshot, Before(order, i), order[i])
    BY DEF Applies
  <1>2. ~RosterClash(snapshot, Before(order, i), order[i])
    BY DEF Applies
  <1> QED
    BY <1>1, <1>2
       DEF UserClash, RosterClash, NewId, UserId, NewRosterId, RosterId

LEMMA Earlier ==
    ASSUME NEW snapshot, NEW order \in Orders(DOMAIN snapshot)
    PROVE  /\ \A i \in DOMAIN order :
                Before(order, i) \subseteq DOMAIN snapshot
           /\ \A s, t \in DOMAIN snapshot : s # t =>
                \E i \in DOMAIN order :
                   \/ s = order[i] /\ t \in Before(order, i)
                   \/ t = order[i] /\ s \in Before(order, i)
  <1> DEFINE n == Cardinality(DOMAIN snapshot)
  <1>1. /\ order \in [1..n -> DOMAIN snapshot]
        /\ \A s \in DOMAIN snapshot : \E i \in DOMAIN order : order[i] = s
    BY DEF Orders
  <1> HIDE DEF n
  <1>3. ASSUME NEW i \in 1..n, NEW j \in 1..n, i # j
        PROVE  i < j \/ j < i
    BY <1>3
  <1>4. \A i \in DOMAIN order : Before(order, i) \subseteq DOMAIN snapshot
    BY <1>1 DEF Before
  <1>5. ASSUME NEW s \in DOMAIN snapshot, NEW t \in DOMAIN snapshot, s # t
        PROVE  \E i \in DOMAIN order :
                   \/ s = order[i] /\ t \in Before(order, i)
                   \/ t = order[i] /\ s \in Before(order, i)
    <2>1. PICK i \in 1..n : order[i] = s
      BY <1>1
    <2>2. PICK j \in 1..n : order[j] = t
      BY <1>1
    <2>3. i # j
      BY <1>5, <2>1, <2>2
    <2> QED BY <1>1, <1>3, <2>1, <2>2, <2>3 DEF Before
  <1> QED BY <1>4, <1>5

(* A snapshot that applies keeps the indexes, and who is who.              *)
LEMMA SnapshotStep ==
    ASSUME UsersInv(users), RosterOK(roster), NEW snapshot \in Snapshots,
           ApplySnapshot(snapshot)
    PROVE  /\ UsersInv(users') /\ RosterOK(roster')
           /\ PlayersOf(users') = Players /\ AdminsOf(users') = Admins
           /\ \A a \in Accounts : /\ users'[a].steam = users[a].steam
                                  /\ users'[a].username = users[a].username
  <1> USE DEF UsersInv
  <1>1. PICK order \in Orders(DOMAIN snapshot) : Applies(snapshot, order)
    BY DEF ApplySnapshot
  <1>2. /\ users' \in [Accounts -> UserRow]
        /\ \A a \in Accounts :
             /\ users'[a].kind = users[a].kind
             /\ users'[a].steam = users[a].steam
             /\ users'[a].username = users[a].username
        /\ \A a \in Players : users'[a].pid = NewId(snapshot, a)
        /\ \A a \in Accounts \ Players : users'[a] = users[a]
    BY UsersAfter
  <1>3. PlayersOf(users') = Players /\ AdminsOf(users') = Admins
    BY <1>2 DEF PlayersOf, AdminsOf, Players, Admins
  <1>4. UsersOK(users')
    <2>1. ASSUME NEW a \in Accounts PROVE RowOK(users'[a])
      <3>1. RowOK(users[a]) /\ users'[a] \in UserRow
        BY <1>2 DEF UsersOK
      <3>2. CASE a \in Players
        <4>1. users[a].steam \in SteamIDs
          BY <3>1, <3>2 DEF RowOK, Players
        <4>2. users[a].pid \in IdsOf[users[a].steam] \cup {None}
          BY <3>1, <3>2 DEF RowOK, Players
        <4>3. NewId(snapshot, a) \in IdsOf[users[a].steam] \cup {None}
          BY <4>1, <4>2, SnapshotFields DEF NewId, UserId, IdAfter
        <4>4. users[a].kind = "player"
          BY <3>2 DEF Players
        <4> QED BY <1>2, <3>1, <3>2, <4>1, <4>3, <4>4 DEF RowOK
      <3>3. CASE a \notin Players
        BY <1>2, <3>1, <3>3
      <3> QED BY <3>2, <3>3
    <2> QED BY <1>2, <2>1 DEF UsersOK
  <1>5. SteamsDiffer(users') /\ NamesDiffer(users')
    BY <1>2, <1>3
       DEF SteamsDiffer, NamesDiffer, PlayersOf, AdminsOf, Players, Admins
  <1>6. IdsDiffer(users')
    <2>1. SUFFICES ASSUME NEW a \in Players, NEW b \in Players, a # b
                   PROVE  ~SameId(NewId(snapshot, a), NewId(snapshot, b))
      BY <1>2, <1>3 DEF IdsDiffer
    <2>2. users[a].steam # users[b].steam
      BY <2>1 DEF SteamsDiffer, PlayersOf, Players
    <2>3. ~SameId(users[a].pid, users[b].pid)
      BY <2>1 DEF IdsDiffer, PlayersOf, Players
    <2>4. SameId(NewId(snapshot, b), NewId(snapshot, a))
            <=> SameId(NewId(snapshot, a), NewId(snapshot, b))
      BY DEF SameId
    <2>5. CASE /\ users[a].steam \in DOMAIN snapshot
               /\ users[b].steam \in DOMAIN snapshot
      BY <1>1, <2>1, <2>2, <2>4, <2>5, Earlier, LastWriter
    <2>6. CASE /\ users[a].steam \in DOMAIN snapshot
               /\ users[b].steam \notin DOMAIN snapshot
      <3>1. PICK i \in DOMAIN order : order[i] = users[a].steam
        BY <1>1, <2>6 DEF Orders
      <3>2. users[b].steam \notin Before(order, i)
        BY <1>1, <2>6, Earlier
      <3> QED BY <1>1, <2>1, <2>6, <3>1, <3>2, LastWriter
    <2>7. CASE /\ users[b].steam \in DOMAIN snapshot
               /\ users[a].steam \notin DOMAIN snapshot
      <3>1. PICK i \in DOMAIN order : order[i] = users[b].steam
        BY <1>1, <2>7 DEF Orders
      <3>2. users[a].steam \notin Before(order, i)
        BY <1>1, <2>7, Earlier
      <3> QED BY <1>1, <2>1, <2>4, <2>7, <3>1, <3>2, LastWriter
    <2>8. CASE /\ users[a].steam \notin DOMAIN snapshot
               /\ users[b].steam \notin DOMAIN snapshot
      BY <2>3, <2>8 DEF NewId, UserId
    <2> QED BY <2>5, <2>6, <2>7, <2>8
  <1>7. RosterOK(roster')
    <2>1. /\ roster' \in [SteamIDs -> RosterRow]
          /\ \A s \in SteamIDs : roster'[s].pid = NewRosterId(snapshot, s)
      BY RosterAfter
    <2>2. \A s \in SteamIDs :
            NewRosterId(snapshot, s) \in IdsOf[s] \cup {None}
      BY SnapshotFields DEF RosterOK, NewRosterId, RosterId, IdAfter
    <2>3. ASSUME NEW s \in SteamIDs, NEW t \in SteamIDs, s # t
          PROVE  ~SameId(NewRosterId(snapshot, s), NewRosterId(snapshot, t))
      <3>1. SameId(NewRosterId(snapshot, t), NewRosterId(snapshot, s))
              <=> SameId(NewRosterId(snapshot, s), NewRosterId(snapshot, t))
        BY DEF SameId
      <3>2. CASE s \in DOMAIN snapshot /\ t \in DOMAIN snapshot
        BY <1>1, <2>3, <3>1, <3>2, Earlier, LastWriter
      <3>3. CASE s \in DOMAIN snapshot /\ t \notin DOMAIN snapshot
        <4>1. PICK i \in DOMAIN order : order[i] = s
          BY <1>1, <3>3 DEF Orders
        <4>2. t \notin Before(order, i)
          BY <1>1, <3>3, Earlier
        <4> QED BY <1>1, <2>3, <3>3, <4>1, <4>2, LastWriter
      <3>4. CASE t \in DOMAIN snapshot /\ s \notin DOMAIN snapshot
        <4>1. PICK i \in DOMAIN order : order[i] = t
          BY <1>1, <3>4 DEF Orders
        <4>2. s \notin Before(order, i)
          BY <1>1, <3>4, Earlier
        <4> QED BY <1>1, <2>3, <3>1, <3>4, <4>1, <4>2, LastWriter
      <3>5. CASE s \notin DOMAIN snapshot /\ t \notin DOMAIN snapshot
        BY <2>3, <3>5 DEF NewRosterId, RosterId, RosterOK
      <3> QED BY <3>2, <3>3, <3>4, <3>5
    <2> QED BY <2>1, <2>2, <2>3 DEF RosterOK
  <1> QED BY <1>2, <1>3, <1>4, <1>5, <1>6, <1>7

-----------------------------------------------------------------------------
(* The other steps *)

LEMMA CreateAdminStep ==
    ASSUME UsersInv(users), NEW a \in Accounts, NEW n \in Usernames,
           CreateAdmin(a, n)
    PROVE  /\ UsersInv(users')
           /\ \A b \in Accounts : b # a => users'[b] = users[b]
           /\ users[a].kind = "none" /\ users'[a] = Admin(n)
  <1> USE DEF UsersInv
  <1>1. /\ \A b \in Accounts : b # a => users'[b] = users[b]
        /\ users[a].kind = "none" /\ users'[a] = Admin(n)
        /\ users' = [b \in Accounts |-> users'[b]]
    BY DEF CreateAdmin, UsersOK
  <1>2. UsersOK(users')
    <2>1. \A b \in Accounts : RowOK(users'[b])
      BY <1>1, AdminFields DEF UsersOK
    <2> QED BY <1>1, <2>1 DEF UsersOK, RowOK
  <1>3. SteamsDiffer(users') /\ IdsDiffer(users')
    BY <1>1, AdminFields DEF SteamsDiffer, IdsDiffer, PlayersOf
  <1>4. NamesDiffer(users')
    BY <1>1, AdminFields
       DEF NamesDiffer, AdminsOf, Admins, CreateAdmin, UsernameFree
  <1> QED BY <1>1, <1>2, <1>3, <1>4

LEMMA InsertStep ==
    ASSUME UsersInv(users), ReqOK(req), NEW r \in Requests, NEW a \in Accounts,
           Insert(r, a)
    PROVE  /\ UsersInv(users')
           /\ \A b \in Accounts : b # a => users'[b] = users[b]
           /\ users[a].kind = "none" /\ users'[a].kind = "player"
           /\ users'[a].steam = req[r].steam
  <1> USE DEF UsersInv
  <1>1. /\ \A b \in Accounts : b # a => users'[b] = users[b]
        /\ users[a].kind = "none"
        /\ users'[a] = Player(req[r].steam, req[r].pid, req[r].name)
        /\ users' = [b \in Accounts |-> users'[b]]
    BY DEF Insert, UsersOK
  <1>2. /\ req[r].steam \in SteamIDs /\ req[r].pid \in Ids
        /\ req[r].name \in Texts
        /\ req[r].pid \in IdsOf[req[r].steam] \cup {None}
    BY DEF ReqOK, Request, Insert
  <1>3. /\ users'[a] \in UserRow /\ users'[a].kind = "player"
        /\ users'[a].steam = req[r].steam /\ users'[a].pid = req[r].pid
    BY <1>1, <1>2, PlayerFields
  <1>4. UsersOK(users')
    <2>1. RowOK(users'[a])
      BY <1>2, <1>3 DEF RowOK
    <2>2. \A b \in Accounts : RowOK(users'[b])
      BY <1>1, <2>1 DEF UsersOK
    <2> QED BY <1>1, <2>2 DEF UsersOK, RowOK
  <1>5. SteamsDiffer(users') /\ NamesDiffer(users')
    BY <1>1, <1>3
       DEF SteamsDiffer, NamesDiffer, AdminsOf, PlayersOf, Players, Insert,
           SteamIDFree
  <1>6. IdsDiffer(users')
    <2>1. \A b \in Players : ~SameId(req[r].pid, users[b].pid)
      BY DEF Insert, IdFree
    <2> QED BY <1>1, <1>3, <2>1 DEF IdsDiffer, PlayersOf, Players, SameId
  <1> QED BY <1>1, <1>3, <1>4, <1>5, <1>6

LEMMA ReqStep ==
    ASSUME ReqOK(req), [Next]_vars
    PROVE  ReqOK(req')
  <1>1. ASSUME NEW r \in Requests, NEW s \in SteamIDs,
               NEW snapshot \in Snapshots, Asks(r, snapshot, s)
        PROVE  ReqOK(req')
    <2>1. s \in DOMAIN snapshot
      BY <1>1 DEF Asks, Found
    <2>2. snapshot[s].pid \in Ids /\ snapshot[s].name \in Texts
          /\ snapshot[s].pid \in IdsOf[s] \cup {None}
      BY <2>1, SnapshotFields
    <2> DEFINE q == [pc |-> "hashing", steam |-> s, pid |-> snapshot[s].pid,
                     name |-> snapshot[s].name]
    <2>3. q \in Request
      BY <2>2 DEF Request
    <2>4. q.steam = s /\ q.pid = snapshot[s].pid
      OBVIOUS
    <2>5. req' = [req EXCEPT ![r] = q]
      BY <1>1 DEF Asks
    <2> HIDE DEF q
    <2> QED BY <2>2, <2>3, <2>4, <2>5 DEF ReqOK
  <1>2. ASSUME NEW r \in Requests, req' = [req EXCEPT ![r] = Idle]
        PROVE  ReqOK(req')
    <2>1. Idle \in Request /\ Idle.pc # "hashing"
      BY NoneIsNoText DEF Idle, Request, Ids
    <2> QED BY <1>2, <2>1 DEF ReqOK
  <1>3. ASSUME req' = req PROVE ReqOK(req')
    BY <1>3
  <1> QED
    BY <1>1, <1>2, <1>3
       DEF Next, vars, CreateAdmin, Sync, Insert, GivesUp

-----------------------------------------------------------------------------
(* The invariant *)

LEMMA InitInv == Init => IdentityInv
  <1>1. SUFFICES ASSUME Init PROVE IdentityInv
    OBVIOUS
  <1>2. users \in [Accounts -> LegacyPlayers \cup {NoRow}]
    BY <1>1 DEF Init
  <1>3. ASSUME NEW a \in Accounts
        PROVE  /\ users[a] \in UserRow
               /\ users[a].kind \in {"player", "none"}
               /\ users[a].kind = "player" => users[a].steam \in SteamIDs
               /\ users[a].kind = "none" => users[a].steam = None
    <2>1. CASE users[a] = NoRow
      BY <2>1, NoRowFields
    <2>2. CASE users[a] \in LegacyPlayers
      <3>1. PICK s \in SteamIDs, i \in Ids, n \in Names :
                users[a] = Player(s, i, n)
        BY <2>2 DEF LegacyPlayers
      <3> QED BY <3>1, PlayerFields, NoneIsNoText
    <2> QED BY <1>2, <2>1, <2>2
  <1>4. \A a \in Players : users[a].pid \in IdsOf[users[a].steam] \cup {None}
    BY <1>1 DEF Init, Possible
  <1>5. UsersOK(users)
    <2>1. \A a \in Accounts : RowOK(users[a])
      BY <1>3, <1>4 DEF RowOK, Players
    <2> QED BY <1>2, <1>3, <2>1 DEF UsersOK
  <1>6. \A a, b \in Players : a # b =>
          /\ users[a].steam # users[b].steam
          /\ ~SameId(users[a].pid, users[b].pid)
    BY <1>1 DEF Init, SameId
  <1>7. UsersInv(users)
    BY <1>3, <1>5, <1>6
       DEF UsersInv, SteamsDiffer, IdsDiffer, NamesDiffer, PlayersOf, Players,
           AdminsOf
  <1>8. RosterOK(roster)
    <2> DEFINE Of(s) == CHOOSE b \in Players : users[b].steam = s
    <2>1. ASSUME NEW s \in SteamIDs, NEW b \in Players, users[b].steam = s
          PROVE  Of(s) \in Players /\ users[Of(s)].steam = s
      BY <2>1
    <2> HIDE DEF Of
    <2>2. ASSUME NEW s \in SteamIDs
          PROVE  \/ roster[s] = NotSeen
                 \/ /\ Of(s) \in Players /\ users[Of(s)].steam = s
                    /\ roster[s] = [known |-> TRUE, pid |-> users[Of(s)].pid,
                                    name |-> users[Of(s)].name]
      BY <1>1, <2>1 DEF Init, Of
    <2>3. roster = [s \in SteamIDs |-> roster[s]]
      BY <1>1 DEF Init
    <2>4. NotSeen \in RosterRow /\ NotSeen.pid = None
      BY NoneIsNoText DEF NotSeen, RosterRow, Ids
    <2>5. \A a \in Players : users[a].pid \in Ids /\ users[a].name \in Texts
      BY <1>3 DEF UserRow, Players
    <2>6. ASSUME NEW s \in SteamIDs
          PROVE  /\ roster[s] \in RosterRow
                 /\ \/ roster[s].pid = None
                    \/ /\ Of(s) \in Players /\ users[Of(s)].steam = s
                       /\ roster[s].pid = users[Of(s)].pid
      <3>1. CASE roster[s] = NotSeen
        BY <2>4, <3>1
      <3>2. CASE roster[s] # NotSeen
        <4>1. Of(s) \in Players /\ users[Of(s)].steam = s
          BY <2>2, <3>2
        <4>2. roster[s] = [known |-> TRUE, pid |-> users[Of(s)].pid,
                           name |-> users[Of(s)].name]
          BY <2>2, <3>2
        <4>3. users[Of(s)].pid \in Ids /\ users[Of(s)].name \in Texts
          BY <2>5, <4>1
        <4> QED BY <4>1, <4>2, <4>3 DEF RosterRow
      <3> QED BY <3>1, <3>2
    <2>7. roster \in [SteamIDs -> RosterRow]
      BY <2>3, <2>6
    <2>8. \A s \in SteamIDs : roster[s].pid \in IdsOf[s] \cup {None}
      BY <1>4, <2>6
    <2>9. ASSUME NEW s \in SteamIDs, NEW t \in SteamIDs, s # t,
                 SameId(roster[s].pid, roster[t].pid)
          PROVE  FALSE
      <3>1. roster[s].pid # None /\ roster[t].pid # None
        BY <2>9 DEF SameId
      <3>2. /\ Of(s) \in Players /\ users[Of(s)].steam = s
            /\ Of(t) \in Players /\ users[Of(t)].steam = t
            /\ SameId(users[Of(s)].pid, users[Of(t)].pid)
        BY <2>6, <2>9, <3>1
      <3> QED BY <1>6, <2>9, <3>2
    <2> QED BY <2>7, <2>8, <2>9 DEF RosterOK
  <1>9. ReqOK(req)
    <2>1. Idle \in Request /\ Idle.pc # "hashing"
      BY NoneIsNoText DEF Idle, Request, Ids
    <2> QED BY <1>1, <2>1 DEF Init, ReqOK
  <1> QED BY <1>1, <1>7, <1>8, <1>9 DEF Init, IdentityInv

LEMMA StepInv == IdentityInv /\ [Next]_vars => IdentityInv'
  <1>1. SUFFICES ASSUME IdentityInv, [Next]_vars PROVE IdentityInv'
    OBVIOUS
  <1>2. ReqOK(req')
    BY <1>1, ReqStep DEF IdentityInv
  <1>3. UsersInv(users) /\ RosterOK(roster) /\ ReqOK(req) /\ setup \in BOOLEAN
    BY <1>1 DEF IdentityInv
  <1>4. SUFFICES UsersInv(users') /\ RosterOK(roster') /\ setup' \in BOOLEAN
    BY <1>2 DEF IdentityInv
  <1>5. CASE UNCHANGED vars
    BY <1>3, <1>5 DEF vars
  <1>6. ASSUME NEW a \in Accounts, NEW n \in Usernames, CreateAdmin(a, n)
        PROVE  UsersInv(users') /\ RosterOK(roster') /\ setup' \in BOOLEAN
    <2>1. roster' = roster /\ setup' = TRUE
      BY <1>6 DEF CreateAdmin
    <2>2. UsersInv(users')
      BY <1>3, <1>6, CreateAdminStep
    <2> QED BY <1>3, <2>1, <2>2
  <1>7. ASSUME NEW snapshot \in Snapshots, ApplySnapshot(snapshot),
               setup' = setup
        PROVE  UsersInv(users') /\ RosterOK(roster') /\ setup' \in BOOLEAN
    BY <1>3, <1>7, SnapshotStep
  <1>8. ASSUME NEW r \in Requests, NEW a \in Accounts, Insert(r, a)
        PROVE  UsersInv(users') /\ RosterOK(roster') /\ setup' \in BOOLEAN
    <2>1. roster' = roster /\ setup' = setup
      BY <1>8 DEF Insert
    <2>2. UsersInv(users')
      BY <1>3, <1>8, InsertStep
    <2> QED BY <1>3, <2>1, <2>2
  <1>9. ASSUME NEW r \in Requests, GivesUp(r)
        PROVE  UsersInv(users') /\ RosterOK(roster') /\ setup' \in BOOLEAN
    BY <1>3, <1>9 DEF GivesUp
  <1> QED
    BY <1>1, <1>5, <1>6, <1>7, <1>8, <1>9 DEF Next, Sync, Asks

(* Rows of users hold what their kind of account has, the ids in them and  *)
(* in the roster are the game's for that player, and the unique indexes    *)
(* hold, whatever snapshots bring.                                         *)
THEOREM InvHolds == Spec => []IdentityInv
  BY InitInv, StepInv, PTL DEF Spec

(* The shapes, and that no player id is in two rows of a table.            *)
THEOREM TypeCorrect == Spec => []TypeOK
  <1>1. IdentityInv => TypeOK
    BY DEF IdentityInv, UsersInv, UsersOK, RosterOK, ReqOK, IdsDiffer, TypeOK,
           PlayersOf, Players
  <1> QED BY <1>1, InvHolds, PTL

(* Who logs in with the SteamID or the username that is his reaches his    *)
(* account and no other.                                                   *)
THEOREM LoginsReach == Spec => []LoginsReachTheirAccount
  <1>1. ASSUME IdentityInv PROVE LoginsReachTheirAccount
    <2>1. ASSUME NEW a \in Players PROVE Reached(users[a].steam) = {a}
      <3>1. users[a].steam \in SteamIDs
        BY <1>1 DEF IdentityInv, UsersInv, UsersOK, RowOK, Players
      <3>2. BySteamID(users[a].steam) = {a}
        BY <1>1
           DEF IdentityInv, UsersInv, SteamsDiffer, PlayersOf, Players,
               BySteamID
      <3> QED BY <3>1, <3>2 DEF Reached
    <2>2. ASSUME NEW a \in Admins
          PROVE  IF users[a].username \in SteamIDs
                 THEN a \notin Reached(users[a].username)
                 ELSE Reached(users[a].username) = {a}
      <3>1. ByUsername(users[a].username) = {a}
        BY <1>1
           DEF IdentityInv, UsersInv, NamesDiffer, AdminsOf, Admins, ByUsername
      <3>2. a \notin BySteamID(users[a].username)
        BY DEF BySteamID, Players, Admins
      <3> QED BY <3>1, <3>2 DEF Reached
    <2> QED BY <2>1, <2>2 DEF LoginsReachTheirAccount
  <1> QED BY <1>1, InvHolds, PTL

-----------------------------------------------------------------------------
(* Accounts keep what identifies them *)

LEMMA Kept ==
    ASSUME IdentityInv, [Next]_vars
    PROVE  /\ \A a \in Players :
                a \in PlayersOf(users') /\ users'[a].steam = users[a].steam
           /\ \A a \in Admins :
                /\ a \in AdminsOf(users')
                /\ users'[a].username = users[a].username
  <1> DEFINE Keeps ==
        /\ \A a \in Players :
             a \in PlayersOf(users') /\ users'[a].steam = users[a].steam
        /\ \A a \in Admins :
             a \in AdminsOf(users') /\ users'[a].username = users[a].username
  <1>1. UsersInv(users) /\ RosterOK(roster) /\ ReqOK(req)
    BY DEF IdentityInv
  <1>2. ASSUME NEW a \in Accounts, users[a].kind = "none",
               \A b \in Accounts : b # a => users'[b] = users[b]
        PROVE  Keeps
    BY <1>2 DEF Players, Admins, PlayersOf, AdminsOf
  <1>3. ASSUME NEW a \in Accounts, NEW n \in Usernames, CreateAdmin(a, n)
        PROVE  Keeps
    BY <1>1, <1>2, <1>3, CreateAdminStep
  <1>4. ASSUME NEW r \in Requests, NEW a \in Accounts, Insert(r, a)
        PROVE  Keeps
    BY <1>1, <1>2, <1>4, InsertStep
  <1>5. ASSUME NEW snapshot \in Snapshots, ApplySnapshot(snapshot) PROVE Keeps
    BY <1>1, <1>5, SnapshotStep DEF Players, Admins
  <1>6. ASSUME users' = users PROVE Keeps
    BY <1>6 DEF Players, Admins, PlayersOf, AdminsOf
  <1> HIDE DEF Keeps
  <1>7. Keeps
    BY <1>3, <1>4, <1>5, <1>6 DEF Next, Sync, Asks, GivesUp, vars
  <1> QED BY <1>7 DEF Keeps

(* One game player has one account, for good.                              *)
THEOREM OnePerPlayer == Spec => OneAccountPerPlayer
  <1>1. ASSUME IdentityInv, IdentityInv', [Next]_vars
        PROVE  \A a \in Players, b \in Accounts :
                 users'[b].steam = users[a].steam <=> a = b
    <2>1. SUFFICES ASSUME NEW a \in Players, NEW b \in Accounts
                   PROVE  users'[b].steam = users[a].steam <=> a = b
      OBVIOUS
    <2>2. a \in PlayersOf(users') /\ users'[a].steam = users[a].steam
      BY <1>1, Kept
    <2>3. UsersOK(users') /\ SteamsDiffer(users')
      BY <1>1 DEF IdentityInv, UsersInv
    <2>4. users'[a].steam # None
      BY <2>2, <2>3, NoneIsNoText DEF UsersOK, RowOK, PlayersOf
    <2>5. b \notin PlayersOf(users') => users'[b].steam = None
      BY <2>3 DEF UsersOK, RowOK, PlayersOf
    <2> QED BY <2>2, <2>3, <2>4, <2>5 DEF SteamsDiffer
  <1>2. IdentityInv /\ IdentityInv' /\ [Next]_vars
          => [\A a \in Players, b \in Accounts :
                users'[b].steam = users[a].steam <=> a = b]_vars
    BY <1>1
  <1> QED BY <1>2, InvHolds, PTL DEF Spec, OneAccountPerPlayer

(* A login by username or SteamID is not diverted by what happens later.   *)
THEOREM NotDiverted == Spec => LoginsAreNotDiverted
  <1> DEFINE Diverts ==
        \A text \in Typed :
          (\/ text \in SteamIDs /\ Reached(text) # {}
           \/ text \notin SteamIDs /\ ByUsername(text) # {})
          => Reached(text)' = Reached(text)
  <1>1. ASSUME IdentityInv, IdentityInv', [Next]_vars
        PROVE  Diverts
    <2>1. /\ SteamsDiffer(users) /\ SteamsDiffer(users')
          /\ NamesDiffer(users) /\ NamesDiffer(users')
      BY <1>1 DEF IdentityInv, UsersInv
    <2>2. PlayersOf(users') = Players' /\ PlayersOf(users) = Players
          /\ AdminsOf(users') = Admins' /\ AdminsOf(users) = Admins
      BY DEF PlayersOf, AdminsOf, Players, Admins
    <2>3. ASSUME NEW text \in SteamIDs, Reached(text) # {}
          PROVE  Reached(text)' = Reached(text)
      <3>1. Reached(text) = BySteamID(text)
            /\ Reached(text)' = BySteamID(text)'
        BY <2>3 DEF Reached
      <3>2. PICK a \in Players : users[a].steam = text
        BY <2>3, <3>1 DEF BySteamID
      <3>3. a \in Players' /\ users'[a].steam = text
        BY <1>1, <2>2, <3>2, Kept
      <3>4. BySteamID(text) = {a}
        BY <2>1, <2>2, <3>2 DEF SteamsDiffer, BySteamID
      <3>5. BySteamID(text)' = {a}
        BY <2>1, <2>2, <3>3 DEF SteamsDiffer, BySteamID
      <3> QED BY <3>1, <3>4, <3>5
    <2>4. ASSUME NEW text \in Typed, text \notin SteamIDs,
                 ByUsername(text) # {}
          PROVE  Reached(text)' = Reached(text)
      <3>1. PICK a \in Admins : Fold[users[a].username] = Fold[text]
        BY <2>4 DEF ByUsername
      <3>2. a \in Admins' /\ Fold[users'[a].username] = Fold[text]
        BY <1>1, <2>2, <3>1, Kept
      <3>3. ByUsername(text) = {a}
        BY <2>1, <2>2, <3>1 DEF NamesDiffer, ByUsername
      <3>4. ByUsername(text)' = {a}
        BY <2>1, <2>2, <3>2 DEF NamesDiffer, ByUsername
      <3> QED BY <2>4, <3>3, <3>4 DEF Reached
    <2> QED BY <2>3, <2>4
  <1>2. IdentityInv /\ IdentityInv' /\ [Next]_vars => [Diverts]_vars
    BY <1>1
  <1> QED BY <1>2, InvHolds, PTL DEF Spec, LoginsAreNotDiverted

(* Only an id that the game shows for two users can stop the roster.       *)
THEOREM RosterGoesOn == Spec => []SnapshotsApply
  <1>1. ASSUME IdentityInv PROVE SnapshotsApply
    <2>1. SUFFICES ASSUME NEW snapshot \in Snapshots,
                          \A s \in DOMAIN snapshot : Own(s, snapshot[s].pid),
                          NEW order \in Orders(DOMAIN snapshot),
                          NEW i \in DOMAIN order
                   PROVE  /\ ~RosterClash(snapshot, Before(order, i), order[i])
                          /\ ~UserClash(snapshot, Before(order, i), order[i])
      BY DEF SnapshotsApply, Applies
    <2> DEFINE done == Before(order, i)
               s == order[i]
    <2>2. s \in DOMAIN snapshot /\ s \in SteamIDs
      BY SnapshotFields DEF Orders
    <2>3. done \subseteq DOMAIN snapshot
      BY Earlier
    <2> HIDE DEF done, s
    <2>4. \A t \in DOMAIN snapshot : snapshot[t].pid \in IdsOf[t] \cup {None}
      BY SnapshotFields
    <2>5. ASSUME NEW t \in SteamIDs \ {s}, NEW old, NEW other,
                 old \in IdsOf[s] \cup {None}, other \in IdsOf[t] \cup {None},
                 ~SameId(old, other)
          PROVE  /\ ~SameId(IdAfter(old, snapshot[s].pid), other)
                 /\ t \in DOMAIN snapshot =>
                      ~SameId(IdAfter(old, snapshot[s].pid),
                              IdAfter(other, snapshot[t].pid))
      <3>1. snapshot[s].pid # None => snapshot[s].pid \notin IdsOf[t]
        BY <2>1, <2>2, <2>5 DEF Own
      <3>2. t \in DOMAIN snapshot /\ snapshot[t].pid # None
              => snapshot[t].pid \notin IdsOf[s]
        BY <2>1, <2>2, <2>5 DEF Own
      <3> QED BY <2>2, <2>4, <2>5, <3>1, <3>2 DEF SameId, IdAfter
    <2>6. ~RosterClash(snapshot, done, s)
      <3>1. SUFFICES ASSUME NEW t \in SteamIDs \ {s}
                     PROVE  ~SameId(IdAfter(roster[s].pid, snapshot[s].pid),
                                    RosterId(snapshot, done, t))
        BY DEF RosterClash
      <3>2. /\ roster[s].pid \in IdsOf[s] \cup {None}
            /\ roster[t].pid \in IdsOf[t] \cup {None}
            /\ ~SameId(roster[s].pid, roster[t].pid)
        BY <1>1, <2>2 DEF IdentityInv, RosterOK
      <3> QED BY <2>3, <2>5, <3>2 DEF RosterId
    <2>7. ~UserClash(snapshot, done, s)
      <3>1. SUFFICES ASSUME NEW a \in Players, NEW b \in Players, a # b,
                            users[a].steam = s
                     PROVE  ~SameId(IdAfter(users[a].pid, snapshot[s].pid),
                                    UserId(snapshot, done, b))
        BY DEF UserClash
      <3>2. UsersOK(users) /\ SteamsDiffer(users) /\ IdsDiffer(users)
        BY <1>1 DEF IdentityInv, UsersInv
      <3>3. /\ users[b].steam \in SteamIDs \ {s}
            /\ users[a].pid \in IdsOf[s] \cup {None}
            /\ users[b].pid \in IdsOf[users[b].steam] \cup {None}
            /\ ~SameId(users[a].pid, users[b].pid)
        BY <3>1, <3>2
           DEF UsersOK, RowOK, SteamsDiffer, IdsDiffer, PlayersOf, Players
      <3> QED BY <2>3, <2>5, <3>3 DEF UserId
    <2> QED BY <2>6, <2>7 DEF done, s
  <1> QED BY <1>1, InvHolds, PTL

-----------------------------------------------------------------------------
(* A snapshot, row by row. The model writes it in one step; the code loops *)
(* over the players, and an index may refuse each of its statements.       *)

(* What the statements make of a row, the upsert of player_roster and the  *)
(* update of users, for a player shown as "shown".                         *)
RosterRowAfter(row, shown) ==
    [known |-> TRUE, pid |-> IdAfter(row.pid, shown.pid), name |-> shown.name]
UserRowAfter(row, shown) ==
    [row EXCEPT !.pid = IdAfter(@, shown.pid), !.name = shown.name]

(* The tables once they have run for player s.                             *)
WriteRoster(ro, s, shown) == [ro EXCEPT ![s] = RosterRowAfter(@, shown)]
WriteUsers(u, s, shown) ==
    [a \in Accounts |-> IF u[a].kind = "player" /\ u[a].steam = s
                        THEN UserRowAfter(u[a], shown) ELSE u[a]]

(* The unique indexes, around the rows of player s.                        *)
RosterRefuses(ro, s) ==
    \E t \in SteamIDs \ {s} : SameId(ro[s].pid, ro[t].pid)
UsersRefuse(u, s) ==
    \E a, b \in PlayersOf(u) :
        a # b /\ u[a].steam = s /\ SameId(u[a].pid, u[b].pid)

(* The tables when the players in "done" have been written.                *)
RosterMid(snapshot, done) ==
    [s \in SteamIDs |-> IF s \in done
                        THEN RosterRowAfter(roster[s], snapshot[s])
                        ELSE roster[s]]
UsersMid(snapshot, done) ==
    [a \in Accounts |-> IF a \in Players /\ users[a].steam \in done
                        THEN UserRowAfter(users[a], snapshot[users[a].steam])
                        ELSE users[a]]

LEMMA IdAfterTwice ==
    ASSUME NEW old, NEW new
    PROVE  IdAfter(IdAfter(old, new), new) = IdAfter(old, new)
  BY DEF IdAfter

LEMMA UserRowFields ==
    ASSUME NEW row \in UserRow, NEW shown,
           shown.pid \in Ids, shown.name \in Texts
    PROVE  /\ UserRowAfter(row, shown) \in UserRow
           /\ UserRowAfter(row, shown).kind = row.kind
           /\ UserRowAfter(row, shown).steam = row.steam
           /\ UserRowAfter(row, shown).pid = IdAfter(row.pid, shown.pid)
           /\ UserRowAfter(row, shown).name = shown.name
           /\ UserRowAfter(UserRowAfter(row, shown), shown)
                = UserRowAfter(row, shown)
  <1> DEFINE i == IdAfter(row.pid, shown.pid)
             n == shown.name
             r == UserRowAfter(row, shown)
  <1>1. i \in Ids /\ n \in Texts
    BY DEF IdAfter, UserRow
  <1>2. r = [row EXCEPT !.pid = i, !.name = n]
    BY DEF UserRowAfter
  <1> HIDE DEF i, n, r
  <1>3. /\ r \in UserRow /\ r.kind = row.kind /\ r.steam = row.steam
        /\ r.pid = i /\ r.name = n
    BY <1>1, <1>2 DEF UserRow
  <1>4. UserRowAfter(r, shown)
          = [r EXCEPT !.pid = IdAfter(r.pid, shown.pid), !.name = n]
    BY DEF UserRowAfter, n
  <1>5. IdAfter(r.pid, shown.pid) = r.pid
    BY <1>3, IdAfterTwice DEF i
  <1>6. UserRowAfter(r, shown) = [r EXCEPT !.pid = r.pid, !.name = r.name]
    BY <1>3, <1>4, <1>5
  <1>7. [r EXCEPT !.pid = r.pid, !.name = r.name] = r
    BY <1>3 DEF UserRow
  <1> QED BY <1>3, <1>6, <1>7 DEF i, n, r

(* One turn of the loop takes the tables from one such state to the next,  *)
(* whether or not the player has been written before.                      *)
LEMMA RosterTurn ==
    ASSUME NEW snapshot, NEW done \in SUBSET SteamIDs, NEW s \in SteamIDs
    PROVE  RosterMid(snapshot, done \cup {s})
             = WriteRoster(RosterMid(snapshot, done), s, snapshot[s])
  <1> DEFINE mid == RosterMid(snapshot, done)
             next == RosterMid(snapshot, done \cup {s})
  <1>1. RosterRowAfter(mid[s], snapshot[s])
          = RosterRowAfter(roster[s], snapshot[s])
    <2>1. CASE s \in done
      <3>1. mid[s].pid = IdAfter(roster[s].pid, snapshot[s].pid)
        BY <2>1 DEF RosterMid, RosterRowAfter
      <3> QED BY <3>1, IdAfterTwice DEF RosterRowAfter
    <2>2. CASE s \notin done
      BY <2>2 DEF RosterMid
    <2> QED BY <2>1, <2>2
  <1>2. \A t \in SteamIDs :
          next[t] = IF t = s THEN RosterRowAfter(mid[s], snapshot[s])
                             ELSE mid[t]
    BY <1>1 DEF RosterMid
  <1>3. /\ next = [t \in SteamIDs |-> next[t]]
        /\ mid = [t \in SteamIDs |-> mid[t]]
    BY DEF RosterMid
  <1> HIDE DEF mid, next
  <1>4. next = [mid EXCEPT ![s] = RosterRowAfter(mid[s], snapshot[s])]
    BY <1>2, <1>3
  <1> QED BY <1>4 DEF WriteRoster, mid, next

LEMMA UsersTurn ==
    ASSUME UsersOK(users), NEW snapshot \in Snapshots,
           NEW done \in SUBSET DOMAIN snapshot, NEW s \in DOMAIN snapshot
    PROVE  UsersMid(snapshot, done \cup {s})
             = WriteUsers(UsersMid(snapshot, done), s, snapshot[s])
  <1> DEFINE mid == UsersMid(snapshot, done)
             next == UsersMid(snapshot, done \cup {s})
  <1>1. ASSUME NEW a \in Accounts
        PROVE  next[a] = IF mid[a].kind = "player" /\ mid[a].steam = s
                         THEN UserRowAfter(mid[a], snapshot[s]) ELSE mid[a]
    <2> DEFINE t == users[a].steam
    <2>1. users[a] \in UserRow
      BY DEF UsersOK
    <2>2. CASE a \in Players /\ t \in done
      <3>1. snapshot[t].pid \in Ids /\ snapshot[t].name \in Texts
        BY <2>2, SnapshotFields
      <3>2. mid[a] = UserRowAfter(users[a], snapshot[t])
        BY <2>2 DEF UsersMid
      <3>3. next[a] = UserRowAfter(users[a], snapshot[t])
        BY <2>2 DEF UsersMid
      <3>4. mid[a].steam = t /\ UserRowAfter(mid[a], snapshot[t]) = mid[a]
        BY <2>1, <3>1, <3>2, UserRowFields
      <3> QED BY <3>2, <3>3, <3>4
    <2>3. CASE a \in Players /\ t \notin done
      BY <2>3 DEF UsersMid, Players
    <2>4. CASE a \notin Players
      BY <2>4 DEF UsersMid, Players
    <2> QED BY <2>2, <2>3, <2>4
  <1>2. next = [a \in Accounts |-> next[a]]
    BY DEF UsersMid
  <1> HIDE DEF mid, next
  <1>3. next = [a \in Accounts |->
                  IF mid[a].kind = "player" /\ mid[a].steam = s
                  THEN UserRowAfter(mid[a], snapshot[s]) ELSE mid[a]]
    BY <1>1, <1>2
  <1> QED BY <1>3 DEF WriteUsers, mid, next

(* What an index finds at a turn is what the model asks of the tables.     *)
LEMMA RosterIndex ==
    ASSUME NEW snapshot, NEW done, NEW s \in SteamIDs
    PROVE  RosterClash(snapshot, done, s)
             <=> RosterRefuses(RosterMid(snapshot, done \cup {s}), s)
  <1> DEFINE next == RosterMid(snapshot, done \cup {s})
  <1>1. next[s].pid = IdAfter(roster[s].pid, snapshot[s].pid)
    BY DEF RosterMid, RosterRowAfter
  <1>2. \A t \in SteamIDs \ {s} : next[t].pid = RosterId(snapshot, done, t)
    BY DEF RosterMid, RosterRowAfter, RosterId
  <1> HIDE DEF next
  <1>3. RosterRefuses(next, s)
          <=> \E t \in SteamIDs \ {s} :
                SameId(IdAfter(roster[s].pid, snapshot[s].pid),
                       RosterId(snapshot, done, t))
    BY <1>1, <1>2 DEF RosterRefuses
  <1> QED BY <1>3 DEF RosterClash, next

LEMMA UsersIndex ==
    ASSUME UsersInv(users), NEW snapshot \in Snapshots,
           NEW done \in SUBSET DOMAIN snapshot, NEW s \in DOMAIN snapshot
    PROVE  UserClash(snapshot, done, s)
             <=> UsersRefuse(UsersMid(snapshot, done \cup {s}), s)
  <1> DEFINE next == UsersMid(snapshot, done \cup {s})
  <1>1. ASSUME NEW a \in Accounts
        PROVE  /\ next[a].kind = users[a].kind
               /\ a \in Players =>
                    /\ next[a].steam = users[a].steam
                    /\ next[a].pid = UserId(snapshot, done \cup {s}, a)
    <2> DEFINE t == users[a].steam
    <2>1. users[a] \in UserRow
      BY DEF UsersInv, UsersOK
    <2>2. CASE a \in Players /\ t \in done \cup {s}
      <3>1. snapshot[t].pid \in Ids /\ snapshot[t].name \in Texts
        BY <2>2, SnapshotFields
      <3>2. next[a] = UserRowAfter(users[a], snapshot[t])
        BY <2>2 DEF UsersMid
      <3> QED BY <2>1, <2>2, <3>1, <3>2, UserRowFields DEF UserId
    <2>3. CASE ~(a \in Players /\ t \in done \cup {s})
      BY <2>3 DEF UsersMid, UserId
    <2> QED BY <2>2, <2>3
  <1>2. PlayersOf(next) = Players
    BY <1>1 DEF PlayersOf, Players
  <1>3. ASSUME NEW a \in Players, NEW b \in Players, a # b, users[a].steam = s
        PROVE  /\ next[a].steam = s
               /\ next[a].pid = IdAfter(users[a].pid, snapshot[s].pid)
               /\ next[b].pid = UserId(snapshot, done, b)
    <2>1. a \in Accounts /\ b \in Accounts
      BY DEF Players
    <2>2. users[b].steam # s
      BY <1>3 DEF UsersInv, SteamsDiffer, PlayersOf, Players
    <2> QED BY <1>1, <1>3, <2>1, <2>2 DEF UserId
  <1>4. \A a \in Players : next[a].steam = users[a].steam
    BY <1>1 DEF Players
  <1> HIDE DEF next
  <1>5. UsersRefuse(next, s) <=> UserClash(snapshot, done, s)
    BY <1>2, <1>3, <1>4 DEF UsersRefuse, UserClash
  <1> QED BY <1>5 DEF next

(* The one step that writes a snapshot is the loop that writes its rows:   *)
(* in any order of the players, each turn takes the tables from what they  *)
(* were before it to what they are after, the unique indexes refuse a turn *)
(* exactly when Applies says so, and after the last turn the tables are    *)
(* those of the step, whatever the order was (Repository.ApplySnapshot).   *)
THEOREM SnapshotsAreWrittenRowByRow ==
    ASSUME IdentityInv, NEW snapshot \in Snapshots,
           NEW order \in Orders(DOMAIN snapshot)
    PROVE  /\ RosterMid(snapshot, {}) = roster /\ UsersMid(snapshot, {}) = users
           /\ Before(order, 1) = {}
           /\ \A i \in DOMAIN order :
                LET s == order[i]
                    ro == RosterMid(snapshot, Before(order, i))
                    u == UsersMid(snapshot, Before(order, i))
                    ro2 == RosterMid(snapshot, Before(order, i + 1))
                    u2 == UsersMid(snapshot, Before(order, i + 1))
                IN  /\ ro2 = WriteRoster(ro, s, snapshot[s])
                    /\ u2 = WriteUsers(u, s, snapshot[s])
                    /\ RosterClash(snapshot, Before(order, i), s)
                         <=> RosterRefuses(ro2, s)
                    /\ UserClash(snapshot, Before(order, i), s)
                         <=> UsersRefuse(u2, s)
           /\ {order[i] : i \in DOMAIN order} = DOMAIN snapshot
           /\ ApplySnapshot(snapshot) =>
                /\ roster' = RosterMid(snapshot, DOMAIN snapshot)
                /\ users' = UsersMid(snapshot, DOMAIN snapshot)
  <1> DEFINE n == Cardinality(DOMAIN snapshot)
  <1>1. /\ order \in [1..n -> DOMAIN snapshot] /\ DOMAIN order = 1..n
        /\ \A s \in DOMAIN snapshot : \E i \in DOMAIN order : order[i] = s
    BY DEF Orders
  <1>2. UsersInv(users) /\ RosterOK(roster)
    BY DEF IdentityInv
  <1>3. RosterMid(snapshot, {}) = roster /\ UsersMid(snapshot, {}) = users
    BY <1>2 DEF RosterMid, UsersMid, UsersInv, UsersOK, RosterOK
  <1>4. DOMAIN snapshot \subseteq SteamIDs
    BY SnapshotFields
  <1>5. Before(order, 1) = {}
    <2> HIDE DEF n
    <2> QED BY <1>1 DEF Before
  <1>6. ASSUME NEW i \in DOMAIN order
        PROVE  /\ order[i] \in DOMAIN snapshot
               /\ Before(order, i) \in SUBSET DOMAIN snapshot
               /\ Before(order, i + 1) = Before(order, i) \cup {order[i]}
    <2> HIDE DEF n
    <2>1. \A k \in DOMAIN order : k < i + 1 <=> k < i \/ k = i
      BY <1>1, <1>6
    <2> QED BY <1>1, <1>6, <2>1 DEF Before
  <1>7. ASSUME NEW i \in DOMAIN order
        PROVE  LET s == order[i]
                   ro == RosterMid(snapshot, Before(order, i))
                   u == UsersMid(snapshot, Before(order, i))
                   ro2 == RosterMid(snapshot, Before(order, i + 1))
                   u2 == UsersMid(snapshot, Before(order, i + 1))
               IN  /\ ro2 = WriteRoster(ro, s, snapshot[s])
                   /\ u2 = WriteUsers(u, s, snapshot[s])
                   /\ RosterClash(snapshot, Before(order, i), s)
                        <=> RosterRefuses(ro2, s)
                   /\ UserClash(snapshot, Before(order, i), s)
                        <=> UsersRefuse(u2, s)
    <2> DEFINE done == Before(order, i)
               s == order[i]
    <2>1. /\ s \in DOMAIN snapshot /\ s \in SteamIDs
          /\ done \in SUBSET DOMAIN snapshot /\ done \in SUBSET SteamIDs
          /\ Before(order, i + 1) = done \cup {s}
      BY <1>4, <1>6
    <2> HIDE DEF done, s
    <2>2. RosterMid(snapshot, done \cup {s})
            = WriteRoster(RosterMid(snapshot, done), s, snapshot[s])
      BY <2>1, RosterTurn
    <2>3. UsersMid(snapshot, done \cup {s})
            = WriteUsers(UsersMid(snapshot, done), s, snapshot[s])
      BY <1>2, <2>1, UsersTurn DEF UsersInv
    <2>4. RosterClash(snapshot, done, s)
            <=> RosterRefuses(RosterMid(snapshot, done \cup {s}), s)
      BY <2>1, RosterIndex
    <2>5. UserClash(snapshot, done, s)
            <=> UsersRefuse(UsersMid(snapshot, done \cup {s}), s)
      BY <1>2, <2>1, UsersIndex
    <2> QED BY <2>1, <2>2, <2>3, <2>4, <2>5 DEF done, s
  <1>8. {order[i] : i \in DOMAIN order} = DOMAIN snapshot
    BY <1>1
  <1>9. ApplySnapshot(snapshot) => roster' = RosterMid(snapshot, DOMAIN snapshot)
    BY DEF ApplySnapshot, RosterMid, RosterRowAfter
  <1>10. ApplySnapshot(snapshot) => users' = UsersMid(snapshot, DOMAIN snapshot)
    BY DEF ApplySnapshot, UsersMid, UserRowAfter
  <1> QED BY <1>3, <1>5, <1>7, <1>8, <1>9, <1>10


=============================================================================
