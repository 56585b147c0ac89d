------------------------------ MODULE Accounts ------------------------------
(***************************************************************************)
(* Accounts, sessions and the requests that read one and write the other:  *)
(* the users and sessions tables of internal/storage, the statements of    *)
(* internal/auth/repository.go, the operations of internal/auth/service.go *)
(* and the handlers of internal/httpapi/auth_handlers.go, together with    *)
(* the `companion users` commands that open the same database from another *)
(* process.                                                                *)
(*                                                                         *)
(* The database connection pool holds one connection, so each statement,   *)
(* and each transaction, is one step. An HTTP request is several: it reads *)
(* a row, works on what it read (hashing a password takes long), and       *)
(* writes later. req[r] is what request r still carries from its reads.    *)
(*                                                                         *)
(* Passwords are abstracted to the version number of the stored hash:      *)
(* every HashPassword draws a fresh salt, so no two stored hashes are the  *)
(* same. Hash 0 is the NULL of a row migrated from a Steam-only schema.    *)
(***************************************************************************)
EXTENDS Naturals, FiniteSets

CONSTANTS
    AdminNames,   \* rows that setup or `users create-admin` may create
    Players,      \* rows that registration may create, one per SteamID64
    Legacy,       \* the players that schema 3 already had, without password
    Tokens,       \* session tokens
    Requests,     \* HTTP requests and CLI commands in flight
    NoAccount, NoToken,
    MaxHash       \* bound: password writes per account

Ids == AdminNames \cup Players

ASSUME ConstantsAssumption ==
    /\ AdminNames \cap Players = {}
    /\ Legacy \subseteq Players
    /\ IsFiniteSet(Ids)
    /\ NoAccount \notin Ids
    /\ NoToken \notin Tokens
    /\ MaxHash \in Nat \ {0}

VARIABLES
    setupCompleted,  \* system_settings.setup_completed = 'true'
    account,         \* users: one record per account, "absent" before INSERT
    session,         \* sessions: one record per token, "none" without a row
    req              \* per request: its stage, and the values it has read

vars == <<setupCompleted, account, session, req>>

-----------------------------------------------------------------------------
(* Rows *)

Statuses == {"pending", "active", "disabled", "rejected", "deleted"}
Previous == {"null", "pending", "active", "disabled", "rejected"}
Roles == {"admin", "player"}

NoRow == [status |-> "absent", previous |-> "null", role |-> "player",
          hash |-> 0, approved |-> FALSE]
AccountRow == [status : Statuses \cup {"absent"}, previous : Previous,
               role : Roles, hash : 0..MaxHash, approved : BOOLEAN]

(* A row is live until it is revoked or expires, then "ended".             *)
(* "late" is history, not a column: the login that inserted the row had    *)
(* read its account before the latest revocation of all its sessions.      *)
NoSession == [user |-> NoAccount, late |-> FALSE, state |-> "none"]
SessionRow == {NoSession}
    \cup [user : Ids, late : BOOLEAN, state : {"live", "ended"}]

(* "overtaken" is the same history while the login is still in flight.     *)
Idle == [pc |-> "idle", user |-> NoAccount, token |-> NoToken, hash |-> 0,
         overtaken |-> FALSE]
Request == {Idle}
    \cup [pc : {"login", "change", "admin", "revoke", "cliRevoke"}, user : Ids,
          token : Tokens \cup {NoToken}, hash : 0..MaxHash, overtaken : BOOLEAN]

LiveSession(a, late) == [user |-> a, late |-> late, state |-> "live"]
AdminRow == [status |-> "active", previous |-> "null", role |-> "admin",
             hash |-> 1, approved |-> TRUE]
PendingRow == [status |-> "pending", previous |-> "null", role |-> "player",
               hash |-> 1, approved |-> FALSE]

(* The join of Repository.Authenticate: the row is not revoked, has not    *)
(* expired, and its account is active at this moment.                      *)
Usable(t) == /\ session[t].state = "live"
             /\ account[session[t].user].status = "active"

ActiveAdmins == {a \in Ids : account[a].role = "admin"
                             /\ account[a].status = "active"}

(* Mutant: the count forgets status='active'.                              *)
LastAdminOfAnyStatus(a) ==
    a \in ActiveAdmins /\ Cardinality({b \in Ids : account[b].role = "admin"}) <= 1
(* activeAdminCount, and the condition under which it is asked.            *)
LastActiveAdmin(a) == a \in ActiveAdmins /\ Cardinality(ActiveAdmins) <= 1

-----------------------------------------------------------------------------
(* A database that was empty, or that migration 4 has just carried over    *)
(* from schema 3: players without a password, in the three statuses schema *)
(* 3 had, and the live sessions of the active ones.                        *)

LegacyRow == {[status |-> s, previous |-> "null", role |-> o, hash |-> 0,
               approved |-> (s = "active")] :
                 s \in {"active", "disabled", "deleted"}, o \in Roles}

Init ==
    /\ \E row \in [Legacy -> LegacyRow] :
         account = [a \in Ids |-> IF a \in Legacy THEN row[a] ELSE NoRow]
    /\ setupCompleted = (\E a \in Legacy : account[a].role = "admin")
    /\ \E owner \in [Tokens -> Legacy \cup {NoAccount}] :
         /\ \A t \in Tokens : owner[t] # NoAccount
                                => account[owner[t]].status = "active"
         /\ session = [t \in Tokens |-> IF owner[t] = NoAccount THEN NoSession
                                        ELSE LiveSession(owner[t], FALSE)]
    /\ req = [r \in Requests |-> Idle]

-----------------------------------------------------------------------------
(* What the statements do to the sessions and to the requests in flight.   *)

(* Mutant: token_hash=? for token_hash<>?.                                 *)
RevokedKept(a, kept) ==
    [t \in Tokens |-> IF session[t].user = a /\ t \in kept
                      THEN [session[t] EXCEPT !.state = "ended"]
                      ELSE session[t]]
(* UPDATE sessions SET revoked_at=? WHERE user_id=? [AND token_hash<>?]    *)
(* AND revoked_at IS NULL                                                  *)
Revoked(a, kept) ==
    [t \in Tokens |-> IF /\ session[t].user = a
                         /\ session[t].state = "live"
                         /\ t \notin kept
                      THEN [session[t] EXCEPT !.state = "ended"]
                      ELSE session[t]]

Done(r) == req' = [req EXCEPT ![r] = Idle]

(* Request r ends with the revocation of a's sessions; logins of a that    *)
(* have read their row are overtaken by it.                                *)
DoneRevoking(r, a, kept) ==
    /\ session' = Revoked(a, kept)
    /\ req' = [q \in Requests |->
                 IF q = r THEN Idle
                 ELSE IF req[q].pc = "login" /\ req[q].user = a
                      THEN [req[q] EXCEPT !.overtaken = TRUE]
                      ELSE req[q]]

-----------------------------------------------------------------------------
(* Setup and registration *)

(* Service.SetupAdmin, POST /setup: row, first session and flag in one     *)
(* transaction that reads the flag again.                                  *)
(* Mutant: the flag is read only by the page, before the transaction.      *)
SetupAdminUnchecked(a, t) ==
    /\ account[a].status = "absent"
    /\ session[t].state = "none"
    /\ account' = [account EXCEPT ![a] = AdminRow]
    /\ session' = [session EXCEPT ![t] = LiveSession(a, FALSE)]
    /\ setupCompleted' = TRUE
    /\ UNCHANGED req
SetupAdmin(a, t) ==
    /\ ~setupCompleted
    /\ account[a].status = "absent"
    /\ session[t].state = "none"
    /\ account' = [account EXCEPT ![a] = AdminRow]
    /\ session' = [session EXCEPT ![t] = LiveSession(a, FALSE)]
    /\ setupCompleted' = TRUE
    /\ UNCHANGED req

(* Mutant: the flag is left to the setup page.                             *)
CreateRecoveryAdminOnly(a) ==
    /\ account[a].status = "absent"
    /\ account' = [account EXCEPT ![a] = AdminRow]
    /\ UNCHANGED <<setupCompleted, session, req>>
(* `companion users create-admin`: with or without an earlier setup.       *)
CreateRecoveryAdmin(a) ==
    /\ account[a].status = "absent"
    /\ account' = [account EXCEPT ![a] = AdminRow]
    /\ setupCompleted' = TRUE
    /\ UNCHANGED <<session, req>>

(* Service.Register, once the player has been found online: one INSERT,    *)
(* refused by the unique indexes when the player has a row of any status.  *)
Register(p) ==
    /\ setupCompleted
    /\ account[p].status = "absent"
    /\ account' = [account EXCEPT ![p] = PendingRow]
    /\ UNCHANGED <<setupCompleted, session, req>>

-----------------------------------------------------------------------------
(* Login, logout, expiry *)

(* Mutant: the switch forgets the cases of an application.                 *)
MayLoginIfNotBarred(a) ==
    account[a].status \notin {"absent", "disabled", "deleted"}
(* The switch of Service.Login on the status it read.                      *)
MayLogin(a) == account[a].status = "active"

(* Service.Login up to the switch on the status it read. A row without a   *)
(* hash is compared with the placeholder hash, whose match is not refused. *)
LoginRead(r, a) ==
    /\ req[r].pc = "idle"
    /\ setupCompleted
    /\ MayLogin(a)
    /\ req' = [req EXCEPT ![r] = [Idle EXCEPT !.pc = "login", !.user = a,
                                              !.hash = account[a].hash]]
    /\ UNCHANGED <<setupCompleted, account, session>>

(* The INSERT of CreateSession, which reads nothing again.                 *)
LoginInsert(r, t) ==
    /\ req[r].pc = "login"
    /\ session[t].state = "none"
    /\ session' = [session EXCEPT
                     ![t] = LiveSession(req[r].user, req[r].overtaken)]
    /\ Done(r)
    /\ UNCHANGED <<setupCompleted, account>>

(* POST /auth/logout revokes the cookie's row, whoever's it is.            *)
Logout(t) ==
    /\ session[t].state = "live"
    /\ session' = [session EXCEPT ![t].state = "ended"]
    /\ UNCHANGED <<setupCompleted, account, req>>

(* expires_at passes.                                                      *)
Expire(t) ==
    /\ session[t].state = "live"
    /\ session' = [session EXCEPT ![t].state = "ended"]
    /\ UNCHANGED <<setupCompleted, account, req>>

-----------------------------------------------------------------------------
(* Password change by the user, password reset by an administrator *)

(* requireUser, then Service.ChangePassword up to VerifyPassword: the hash *)
(* it verifies is the one of the row requireUser read.                     *)
ChangeRead(r, t) ==
    /\ req[r].pc = "idle"
    /\ Usable(t)
    /\ account[session[t].user].hash # 0
    /\ req' = [req EXCEPT ![r] =
                 [Idle EXCEPT !.pc = "change", !.user = session[t].user,
                              !.token = t,
                              !.hash = account[session[t].user].hash]]
    /\ UNCHANGED <<setupCompleted, account, session>>

(* Repository.UpdatePassword: neither the status nor the old hash is read  *)
(* again.                                                                  *)
UpdatePassword(r, a, kept) ==
    /\ account[a].status # "absent"
    /\ account[a].hash < MaxHash
    /\ account' = [account EXCEPT ![a].hash = @ + 1]
    /\ DoneRevoking(r, a, kept)
    /\ UNCHANGED setupCompleted

ChangeCommit(r) ==
    /\ req[r].pc = "change"
    /\ UpdatePassword(r, req[r].user, {req[r].token})

(* POST /admin/users/{id}/reset-password and `users reset-password`.       *)
ResetPassword(r, a) ==
    /\ req[r].pc \in {"admin", "idle"}
    /\ UpdatePassword(r, a, {})

-----------------------------------------------------------------------------
(* Administration: an HTTP request that requireAdmin has let through, or a *)
(* CLI command, which names its target by SteamID64 and has no actor.      *)

AdminRead(r, t) ==
    /\ req[r].pc = "idle"
    /\ Usable(t)
    /\ account[session[t].user].role = "admin"
    /\ req' = [req EXCEPT ![r] = [Idle EXCEPT !.pc = "admin",
                                              !.user = session[t].user]]
    /\ UNCHANGED <<setupCompleted, account, session>>

ByAdmin(r) == req[r].pc = "admin"
ByCli(r, a) == req[r].pc = "idle" /\ a \in Players

(* Mutant: any account can be enabled.                                     *)
CanSetAnyActive(actor, a, status) ==
    /\ account[a].status # "absent"
    /\ status # "active" => actor # a /\ ~LastActiveAdmin(a)
    /\ status = "disabled" => account[a].status = "active"
    /\ status = "deleted" => account[a].status # "deleted"
(* The refusals of Repository.SetStatus, in their order.                   *)
CanSetStatus(actor, a, status) ==
    /\ account[a].status # "absent"
    /\ status # "active" => actor # a
    /\ status = "active" => account[a].status = "disabled"
    /\ status = "disabled" => account[a].status = "active"
    /\ status = "deleted" => account[a].status # "deleted"
    /\ status # "active" => ~LastActiveAdmin(a)

(* Mutant: the previous status is read after the new one is written.       *)
PreviousAfterWrite(a, status) ==
    IF status = "deleted" THEN status ELSE account[a].previous
(* previous_status after the UPDATE.                                       *)
PreviousStatus(a, status) ==
    IF status = "deleted" THEN account[a].status ELSE account[a].previous

(* Mutant: disabling leaves the sessions, since they are not usable.       *)
OnlyDeletionEndsSessions(status) == status = "deleted"
EndsSessions(status) == status \in {"disabled", "deleted"}

(* Repository.SetStatus: disable, enable and delete, one transaction.      *)
SetStatus(r, a, status) ==
    /\ ByAdmin(r)
    /\ CanSetStatus(req[r].user, a, status)
    /\ account' = [account EXCEPT
                     ![a].status = status,
                     ![a].previous = PreviousStatus(a, status)]
    /\ IF EndsSessions(status) THEN DoneRevoking(r, a, {})
                               ELSE Done(r) /\ UNCHANGED session
    /\ UNCHANGED setupCompleted

(* Mutant: a restored account is always active.                            *)
RestoredActive(a) == "active"
(* COALESCE(previous_status,'active') in Repository.Restore.               *)
RestoredStatus(a) == IF account[a].previous = "null" THEN "active"
                     ELSE account[a].previous

Restore(r, a) ==
    /\ ByAdmin(r)
    /\ account[a].status = "deleted"
    /\ account' = [account EXCEPT ![a].status = RestoredStatus(a),
                                  ![a].previous = "null"]
    /\ Done(r)
    /\ UNCHANGED <<setupCompleted, session>>

Approve(r, a) ==
    /\ ByAdmin(r) \/ ByCli(r, a)
    /\ account[a].status \in {"pending", "rejected"}
    /\ account' = [account EXCEPT ![a].status = "active",
                                  ![a].approved = TRUE]
    /\ Done(r)
    /\ UNCHANGED <<setupCompleted, session>>

(* Repository.Reject is two statements outside a transaction; the second   *)
(* one is RejectRevoke.                                                    *)
Reject(r, a) ==
    /\ ByAdmin(r) \/ ByCli(r, a)
    /\ account[a].status = "pending"
    /\ account' = [account EXCEPT ![a].status = "rejected"]
    /\ req' = [req EXCEPT ![r] =
                 [Idle EXCEPT !.pc = IF ByAdmin(r) THEN "revoke"
                                                   ELSE "cliRevoke",
                              !.user = a]]
    /\ UNCHANGED <<setupCompleted, session>>

RejectRevoke(r) ==
    /\ req[r].pc \in {"revoke", "cliRevoke"}
    /\ DoneRevoking(r, req[r].user, {})
    /\ UNCHANGED <<setupCompleted, account>>

(* Repository.SetRole: any status, but not the last active administrator.  *)
SetRole(r, a, role) ==
    /\ ByAdmin(r) \/ ByCli(r, a)
    /\ account[a].status # "absent"
    /\ role = "player" => ~LastActiveAdmin(a)
    /\ account' = [account EXCEPT ![a].role = role]
    /\ Done(r)
    /\ UNCHANGED <<setupCompleted, session>>

RevokeUserSessions(r, a) ==
    /\ ByAdmin(r)
    /\ account[a].status # "absent"
    /\ DoneRevoking(r, a, {})
    /\ UNCHANGED <<setupCompleted, account>>

-----------------------------------------------------------------------------
(* Failures *)

(* A request ends early: refused, cancelled, a failed statement, a killed  *)
(* command. What it has committed stays.                                   *)
Abort(r) ==
    /\ req[r].pc # "idle"
    /\ Done(r)
    /\ UNCHANGED <<setupCompleted, account, session>>

(* The server dies and starts again: its requests are gone, and app.New    *)
(* deletes the session rows whose expires_at has passed. Revoked rows may  *)
(* be among them; an expired one may stay, since the stamps are compared   *)
(* as strings and order wrongly within a second.                           *)
Restart ==
    /\ \E gone \in SUBSET {t \in Tokens : session[t].state = "ended"} :
         session' = [t \in Tokens |-> IF t \in gone THEN NoSession
                                      ELSE session[t]]
    /\ req' = [r \in Requests |-> IF req[r].pc = "cliRevoke" THEN req[r]
                                  ELSE Idle]
    /\ UNCHANGED <<setupCompleted, account>>

-----------------------------------------------------------------------------

Next ==
    \/ \E a \in AdminNames, t \in Tokens : SetupAdmin(a, t)
    \/ \E a \in AdminNames : CreateRecoveryAdmin(a)
    \/ \E p \in Players : Register(p)
    \/ \E r \in Requests, a \in Ids : LoginRead(r, a)
    \/ \E r \in Requests, t \in Tokens : LoginInsert(r, t)
    \/ \E t \in Tokens : Logout(t)
    \/ \E t \in Tokens : Expire(t)
    \/ \E r \in Requests, t \in Tokens : ChangeRead(r, t)
    \/ \E r \in Requests : ChangeCommit(r)
    \/ \E r \in Requests, t \in Tokens : AdminRead(r, t)
    \/ \E r \in Requests, a \in Ids : ResetPassword(r, a)
    \/ \E r \in Requests, a \in Ids, s \in {"active", "disabled", "deleted"} :
         SetStatus(r, a, s)
    \/ \E r \in Requests, a \in Ids : Restore(r, a)
    \/ \E r \in Requests, a \in Ids : Approve(r, a)
    \/ \E r \in Requests, a \in Ids : Reject(r, a)
    \/ \E r \in Requests : RejectRevoke(r)
    \/ \E r \in Requests, a \in Ids, role \in Roles : SetRole(r, a, role)
    \/ \E r \in Requests, a \in Ids : RevokeUserSessions(r, a)
    \/ \E r \in Requests : Abort(r)
    \/ Restart

Spec == Init /\ [][Next]_vars

-----------------------------------------------------------------------------
(* Invariants *)

(* Every variable keeps the shape its table or its request has.            *)
TypeOK ==
    /\ setupCompleted \in BOOLEAN
    /\ account \in [Ids -> AccountRow]
    /\ session \in [Tokens -> SessionRow]
    /\ req \in [Requests -> Request]

(* An account that is, or before its deletion was, active or disabled.     *)
(* COALESCE makes a deleted legacy row, whose previous status is NULL, one *)
(* of these.                                                               *)
Admitted(a) ==
    \/ account[a].status \in {"active", "disabled"}
    \/ /\ account[a].status = "deleted"
       /\ account[a].previous \notin {"pending", "rejected"}

(* Nobody is admitted without an approval: no sequence of registration,    *)
(* rejection, deletion, restoration and disabling of one account, in any   *)
(* order and by any administrators, goes round Approve.                    *)
AdmittedMeansApproved ==
    \A a \in Ids \ Legacy : Admitted(a) => account[a].approved

(* An account that was never admitted has no session row, not even a       *)
(* revoked one, and no login or password change is in flight for it. So    *)
(* the second statement of Repository.Reject has nothing to revoke, and    *)
(* losing it to a crash loses nothing.                                     *)
NeverAdmittedHasNoSession ==
    /\ \A t \in Tokens : session[t].state # "none" => Admitted(session[t].user)
    /\ \A r \in Requests : req[r].pc \in {"login", "change"}
                             => Admitted(req[r].user)

(* A live session of an account that is not active is always one that a    *)
(* login overtaken by the disabling or deletion inserted: sessions of      *)
(* every other origin are gone when the account stops being active, and a  *)
(* login that was not overtaken is still for an active account. The tables *)
(* keep no such rule; SetStatus, Login and the order of their steps do.    *)
OnlyALateLoginOutlivesItsAccount ==
    /\ \A t \in Tokens : session[t].state = "live" /\ ~session[t].late
                           => account[session[t].user].status = "active"
    /\ \A r \in Requests : req[r].pc = "login" /\ ~req[r].overtaken
                             => account[req[r].user].status = "active"

(* Setup and administrators go together: on a database that was empty, the *)
(* setup page is closed exactly when an active administrator exists.       *)
SetupHasAdmin == Legacy = {} => (setupCompleted <=> ActiveAdmins # {})

-----------------------------------------------------------------------------
(* Action properties *)

(* Once there is an active administrator there always is one, whichever    *)
(* administrators and commands disable, delete, demote and restore each    *)
(* other, on whatever they read before (SetStatus and SetRole count inside *)
(* their transaction).                                                     *)
ActiveAdminPersists == [][ActiveAdmins # {} => ActiveAdmins' # {}]_vars

Live(a) == {t \in Tokens : session[t].user = a /\ session[t].state = "live"}

(* Only POST /setup makes an account together with a session. It founds    *)
(* the first account that schema 3 did not leave behind, or none: of two   *)
(* setups, and of a setup and a `create-admin` from another process, one   *)
(* succeeds, and no setup follows a registration (README.md:29, :31).      *)
SetupComesFirst ==
    [][\A a \in Ids :
         account[a].status = "absent" /\ Live(a)' # {}
           => \A b \in Ids \ Legacy : account[b].status = "absent"]_vars

(* A step that stops an account from being active leaves it no live        *)
(* session; one that replaces its password leaves it at most the session   *)
(* that asked for it, and that one only if it was live before.             *)
RevocationIsComplete ==
    [][\A a \in Ids :
         /\ account[a].status = "active" /\ account'[a].status # "active"
              => Live(a)' = {}
         /\ account[a].status # "absent" /\ account'[a].hash # account[a].hash
              => \A t \in Live(a)' :
                   /\ t \in Live(a)
                   /\ \E r \in Requests : /\ req[r].pc = "change"
                                          /\ req'[r].pc = "idle"
                                          /\ req[r].token = t
      ]_vars

(* Under deletion lies the status the account had before; a legacy row     *)
(* does not say, and counts as active.                                     *)
Underlying(a) ==
    IF account[a].status # "deleted" THEN account[a].status
    ELSE IF account[a].previous = "null" THEN "active"
    ELSE account[a].previous
Standing(a) == IF Underlying(a) = "absent" THEN "none"
               ELSE IF Underlying(a) = "disabled" THEN "suspended"
               ELSE Underlying(a)

(* A restored account is what it was before it was deleted: everything     *)
(* this module does to accounts is a step of AccountLifecycle, where       *)
(* deletion is a mark beside the standing.                                 *)
Lifecycle == INSTANCE AccountLifecycle WITH
    standing <- [a \in Ids |-> Standing(a)],
    archived <- {a \in Ids : account[a].status = "deleted"},
    admins <- {a \in Ids : account[a].role = "admin"}

LifecycleSpec == Lifecycle!Spec

-----------------------------------------------------------------------------
(* What the documents say and the code does not do *)

(* docs/architecture.md:65: disabling, deletion and password reset revoke  *)
(* the account's sessions. A login that read the account before and        *)
(* inserts its session after is not revoked.                               *)
RevocationIsFinal ==
    \A t \in Tokens : session[t].late => ~Usable(t)

(* docs/deployment.md:51: an account without a password hash cannot log    *)
(* in. The comparison with the placeholder hash may succeed.               *)
LoginNeedsPassword ==
    \A r \in Requests : req[r].pc = "login" => req[r].hash # 0

=============================================================================
