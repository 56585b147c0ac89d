--------------------------- MODULE AccountsProofs ---------------------------
(***************************************************************************)
(* Proofs about Accounts, for every number of accounts, tokens and         *)
(* requests and every bound MaxHash.                                       *)
(***************************************************************************)
EXTENDS Accounts, FiniteSetTheorems, TLAPS

(* The constant records are of the types they are stored in.               *)
LEMMA ConstantRows ==
    /\ NoRow \in AccountRow /\ AdminRow \in AccountRow /\ PendingRow \in AccountRow
    /\ NoSession \in SessionRow
    /\ Idle \in Request
    /\ \A a \in Ids, b \in BOOLEAN : LiveSession(a, b) \in SessionRow
  BY ConstantsAssumption
     DEF NoRow, AdminRow, PendingRow, LiveSession, AccountRow,
         SessionRow, Request, Statuses, Previous, Roles

(* A session row that exists belongs to an account.                        *)
LEMMA SessionOwner ==
    ASSUME TypeOK, NEW t \in Tokens, session[t].state # "none"
    PROVE  session[t].user \in Ids
  BY DEF TypeOK, SessionRow, NoSession

(* A request that is not idle is about an account.                         *)
LEMMA RequestUser ==
    ASSUME TypeOK, NEW r \in Requests, req[r].pc # "idle"
    PROVE  req[r].user \in Ids
  BY DEF TypeOK, Request, Idle

LEMMA NoHash == 0 \in 0..MaxHash
  BY ConstantsAssumption

(* DoneRevoking only ends live sessions, and marks logins in flight.       *)
LEMMA RevokingType ==
    ASSUME TypeOK, NEW r \in Requests, NEW a, NEW kept, DoneRevoking(r, a, kept)
    PROVE  session' \in [Tokens -> SessionRow] /\ req' \in [Requests -> Request]
  <1>1. session' \in [Tokens -> SessionRow]
    BY DEF DoneRevoking, Revoked, TypeOK, SessionRow, NoSession
  <1>2. ASSUME NEW q \in Requests, req[q].pc = "login"
        PROVE  [req[q] EXCEPT !.overtaken = TRUE] \in Request
    <2>1. req[q] \in Request \ {Idle}
      BY <1>2 DEF TypeOK, Idle
    <2> QED BY <2>1 DEF Request
  <1>3. req' \in [Requests -> Request]
    BY <1>2, ConstantRows DEF DoneRevoking, TypeOK
  <1> QED BY <1>1, <1>3

LEMMA DoneType ==
    ASSUME TypeOK, NEW r \in Requests, Done(r)
    PROVE  req' \in [Requests -> Request]
  BY ConstantRows DEF Done, TypeOK

LEMMA TypeInit == Init => TypeOK
  <1> SUFFICES ASSUME Init PROVE TypeOK
    OBVIOUS
  <1>1. PICK row \in [Legacy -> LegacyRow] :
          account = [a \in Ids |-> IF a \in Legacy THEN row[a] ELSE NoRow]
    BY DEF Init
  <1>2. ASSUME NEW x \in LegacyRow PROVE x \in AccountRow
    <2>1. PICK s \in {"active", "disabled", "deleted"}, o \in Roles :
            x = [status |-> s, previous |-> "null", role |-> o, hash |-> 0,
                 approved |-> (s = "active")]
      BY DEF LegacyRow
    <2>2. (s = "active") \in BOOLEAN /\ 0 \in 0..MaxHash
      BY ConstantsAssumption
    <2> QED BY <2>1, <2>2 DEF AccountRow, Statuses, Previous
  <1>3. account \in [Ids -> AccountRow]
    BY <1>1, <1>2, ConstantRows
  <1>4. PICK owner \in [Tokens -> Legacy \cup {NoAccount}] :
          session = [t \in Tokens |-> IF owner[t] = NoAccount THEN NoSession
                                      ELSE LiveSession(owner[t], FALSE)]
    BY DEF Init
  <1>5. \A t \in Tokens : owner[t] # NoAccount => owner[t] \in Ids
    BY <1>4, ConstantsAssumption DEF Ids
  <1>6. session \in [Tokens -> SessionRow]
    BY <1>4, <1>5, ConstantRows
  <1>7. setupCompleted \in BOOLEAN /\ req \in [Requests -> Request]
    BY ConstantRows DEF Init
  <1> QED BY <1>3, <1>6, <1>7 DEF TypeOK

LEMMA TypeStep == TypeOK /\ [Next]_vars => TypeOK'
  <1> SUFFICES ASSUME TypeOK, [Next]_vars PROVE TypeOK'
    OBVIOUS
  <1> USE ConstantRows
  <1>1. ASSUME NEW a \in AdminNames, NEW t \in Tokens, SetupAdmin(a, t)
        PROVE  TypeOK'
    BY <1>1 DEF SetupAdmin, TypeOK, Ids
  <1>2. ASSUME NEW a \in AdminNames, CreateRecoveryAdmin(a)
        PROVE  TypeOK'
    BY <1>2 DEF CreateRecoveryAdmin, TypeOK, Ids
  <1>3. ASSUME NEW p \in Players, Register(p)
        PROVE  TypeOK'
    BY <1>3 DEF Register, TypeOK, Ids
  <1>4. ASSUME NEW r \in Requests, NEW a \in Ids, LoginRead(r, a)
        PROVE  TypeOK'
    <2> DEFINE read == [Idle EXCEPT !.pc = "login", !.user = a,
                                    !.hash = account[a].hash]
    <2>1. read \in Request
      BY ConstantsAssumption DEF Request, Idle, TypeOK, AccountRow
    <2>2. req' = [req EXCEPT ![r] = read]
      BY <1>4 DEF LoginRead
    <2> HIDE DEF read
    <2> QED BY <1>4, <2>1, <2>2 DEF LoginRead, TypeOK
  <1>5. ASSUME NEW r \in Requests, NEW t \in Tokens, LoginInsert(r, t)
        PROVE  TypeOK'
    <2>1. req[r].overtaken \in BOOLEAN
      <3>1. req[r] \in Request /\ req[r] # Idle
        BY <1>5 DEF TypeOK, Idle, LoginInsert
      <3> QED BY <3>1 DEF Request
    <2>2. LiveSession(req[r].user, req[r].overtaken) \in SessionRow
      BY <1>5, <2>1, RequestUser DEF LoginInsert
    <2>3. session' \in [Tokens -> SessionRow]
      BY <1>5, <2>2 DEF LoginInsert, TypeOK
    <2> QED BY <1>5, <2>3, DoneType DEF LoginInsert, TypeOK
  <1>6. ASSUME NEW t \in Tokens, Logout(t) \/ Expire(t)
        PROVE  TypeOK'
    BY <1>6 DEF Logout, Expire, TypeOK, SessionRow, NoSession
  <1>7. ASSUME NEW r \in Requests, NEW t \in Tokens, ChangeRead(r, t)
        PROVE  TypeOK'
    <2> DEFINE a == session[t].user
               read == [Idle EXCEPT !.pc = "change", !.user = a, !.token = t,
                                    !.hash = account[a].hash]
    <2>1. a \in Ids
      BY <1>7, SessionOwner DEF ChangeRead, Usable
    <2>2. read \in Request
      BY <2>1, ConstantsAssumption DEF Request, Idle, TypeOK, AccountRow
    <2>3. req' = [req EXCEPT ![r] = read]
      BY <1>7 DEF ChangeRead
    <2> HIDE DEF read
    <2> QED BY <1>7, <2>2, <2>3 DEF ChangeRead, TypeOK
  <1>8. ASSUME NEW r \in Requests, NEW a, NEW kept, UpdatePassword(r, a, kept)
        PROVE  TypeOK'
    <2>1. a \in Ids => account[a].hash + 1 \in 0..MaxHash
      BY <1>8, ConstantsAssumption DEF UpdatePassword, TypeOK, AccountRow
    <2>2. a \in Ids => [account[a] EXCEPT !.hash = @ + 1] \in AccountRow
      BY <2>1 DEF TypeOK, AccountRow
    <2>3. account' \in [Ids -> AccountRow]
      BY <1>8, <2>2 DEF UpdatePassword, TypeOK
    <2> QED BY <1>8, <2>3, RevokingType DEF UpdatePassword, TypeOK
  <1>9. ASSUME NEW r \in Requests, NEW t \in Tokens, AdminRead(r, t)
        PROVE  TypeOK'
    <2> DEFINE read == [Idle EXCEPT !.pc = "admin", !.user = session[t].user]
    <2>1. session[t].user \in Ids
      BY <1>9, SessionOwner DEF AdminRead, Usable
    <2>2. read \in Request
      BY <2>1, NoHash DEF Request, Idle
    <2>3. req' = [req EXCEPT ![r] = read]
      BY <1>9 DEF AdminRead
    <2> HIDE DEF read
    <2> QED BY <1>9, <2>2, <2>3 DEF AdminRead, TypeOK
  <1>10. ASSUME NEW r \in Requests, NEW a \in Ids,
                NEW s \in {"active", "disabled", "deleted"}, SetStatus(r, a, s)
         PROVE  TypeOK'
    <2>1. PreviousStatus(a, s) \in Previous
      BY <1>10 DEF PreviousStatus, SetStatus, CanSetStatus, TypeOK, AccountRow,
                   Statuses, Previous
    <2>2. account' \in [Ids -> AccountRow]
      BY <1>10, <2>1 DEF SetStatus, TypeOK, AccountRow, Statuses
    <2>3. session' \in [Tokens -> SessionRow] /\ req' \in [Requests -> Request]
      BY <1>10, RevokingType, DoneType DEF SetStatus, TypeOK
    <2> QED BY <1>10, <2>2, <2>3 DEF SetStatus, TypeOK
  <1>11. ASSUME NEW r \in Requests, NEW a \in Ids, Restore(r, a)
         PROVE  TypeOK'
    <2>1. RestoredStatus(a) \in Statuses
      BY DEF RestoredStatus, TypeOK, AccountRow, Statuses, Previous
    <2>2. account' \in [Ids -> AccountRow]
      BY <1>11, <2>1 DEF Restore, TypeOK, AccountRow, Previous
    <2> QED BY <1>11, <2>2, DoneType DEF Restore, TypeOK
  <1>12. ASSUME NEW r \in Requests, NEW a \in Ids, Approve(r, a)
         PROVE  TypeOK'
    <2>1. account' \in [Ids -> AccountRow]
      BY <1>12 DEF Approve, TypeOK, AccountRow, Statuses
    <2> QED BY <1>12, <2>1, DoneType DEF Approve, TypeOK
  <1>13. ASSUME NEW r \in Requests, NEW a \in Ids, Reject(r, a)
         PROVE  TypeOK'
    <2> DEFINE next == [Idle EXCEPT !.pc = IF ByAdmin(r) THEN "revoke"
                                                         ELSE "cliRevoke",
                                    !.user = a]
    <2>1. account' \in [Ids -> AccountRow]
      BY <1>13 DEF Reject, TypeOK, AccountRow, Statuses
    <2>2. next \in Request
      BY NoHash DEF Request, Idle
    <2>3. req' = [req EXCEPT ![r] = next]
      BY <1>13 DEF Reject
    <2> HIDE DEF next
    <2> QED BY <1>13, <2>1, <2>2, <2>3 DEF Reject, TypeOK
  <1>14. ASSUME NEW r \in Requests, RejectRevoke(r)
         PROVE  TypeOK'
    BY <1>14, RevokingType DEF RejectRevoke, TypeOK
  <1>15. ASSUME NEW r \in Requests, NEW a \in Ids, NEW role \in Roles,
                SetRole(r, a, role)
         PROVE  TypeOK'
    <2>1. account' \in [Ids -> AccountRow]
      BY <1>15 DEF SetRole, TypeOK, AccountRow
    <2> QED BY <1>15, <2>1, DoneType DEF SetRole, TypeOK
  <1>16. ASSUME NEW r \in Requests, NEW a \in Ids, RevokeUserSessions(r, a)
         PROVE  TypeOK'
    BY <1>16, RevokingType DEF RevokeUserSessions, TypeOK
  <1>17. ASSUME NEW r \in Requests, Abort(r)
         PROVE  TypeOK'
    BY <1>17, DoneType DEF Abort, TypeOK
  <1>18. CASE Restart
    BY <1>18 DEF Restart, TypeOK
  <1>19. CASE UNCHANGED vars
    BY <1>19 DEF vars, TypeOK
  <1> QED
    BY <1>1, <1>2, <1>3, <1>4, <1>5, <1>6, <1>7, <1>8, <1>9, <1>10, <1>11,
       <1>12, <1>13, <1>14, <1>15, <1>16, <1>17, <1>18, <1>19
       DEF Next, ChangeCommit, ResetPassword

(* Tables and requests keep their shape: in particular the previous status *)
(* of a deleted account is never "deleted", so Restore always has a status *)
(* to go back to.                                                          *)
THEOREM TypeCorrect == Spec => []TypeOK
  BY TypeInit, TypeStep, PTL DEF Spec

-----------------------------------------------------------------------------
(* The steps that write an account *)

(* Steps that leave the users table alone.                                 *)
ReadsAccounts ==
    \/ \E r \in Requests, a \in Ids : LoginRead(r, a) \/ RevokeUserSessions(r, a)
    \/ \E r \in Requests, t \in Tokens :
         LoginInsert(r, t) \/ ChangeRead(r, t) \/ AdminRead(r, t)
    \/ \E t \in Tokens : Logout(t) \/ Expire(t)
    \/ \E r \in Requests : RejectRevoke(r) \/ Abort(r)
    \/ Restart

LEMMA ReadersLeaveAccounts == ReadsAccounts \/ UNCHANGED vars => UNCHANGED account
  BY DEF ReadsAccounts, LoginRead, RevokeUserSessions, LoginInsert, ChangeRead,
         AdminRead, Logout, Expire, RejectRevoke, Abort, Restart, vars

(* Steps that write one row of it.                                         *)
WritesAccount(a) ==
    \/ a \in AdminNames /\ \E t \in Tokens : SetupAdmin(a, t)
    \/ a \in AdminNames /\ CreateRecoveryAdmin(a)
    \/ a \in Players /\ Register(a)
    \/ \E r \in Requests, kept \in SUBSET (Tokens \cup {NoToken}) :
         UpdatePassword(r, a, kept)
    \/ \E r \in Requests, s \in {"active", "disabled", "deleted"} :
         SetStatus(r, a, s)
    \/ \E r \in Requests : Restore(r, a) \/ Approve(r, a) \/ Reject(r, a)
    \/ \E r \in Requests, role \in Roles : SetRole(r, a, role)

LEMMA StepsOnAccounts ==
    TypeOK /\ [Next]_vars => UNCHANGED account \/ \E a \in Ids : WritesAccount(a)
  <1> SUFFICES ASSUME TypeOK, Next, ~ReadsAccounts
               PROVE  \E a \in Ids : WritesAccount(a)
    BY ReadersLeaveAccounts
  <1>1. ASSUME NEW r \in Requests, ChangeCommit(r)
        PROVE  \E a \in Ids : WritesAccount(a)
    <2>1. req[r] \in Request \ {Idle}
      BY <1>1 DEF ChangeCommit, TypeOK, Idle
    <2>2. req[r].user \in Ids /\ {req[r].token} \in SUBSET (Tokens \cup {NoToken})
      BY <2>1 DEF Request
    <2> QED BY <1>1, <2>2 DEF ChangeCommit, WritesAccount
  <1>2. ASSUME NEW r \in Requests, NEW a \in Ids, ResetPassword(r, a)
        PROVE  WritesAccount(a)
    BY <1>2 DEF ResetPassword, WritesAccount
  <1> QED BY <1>1, <1>2 DEF Next, ReadsAccounts, WritesAccount, Ids

(* The other rows stay as they are.                                        *)
LEMMA OtherRows ==
    ASSUME TypeOK, NEW a \in Ids, WritesAccount(a), NEW b \in Ids \ {a}
    PROVE  account'[b] = account[b]
  BY DEF WritesAccount, SetupAdmin, CreateRecoveryAdmin, Register, UpdatePassword,
         SetStatus, Restore, Approve, Reject, SetRole, TypeOK

-----------------------------------------------------------------------------
(* The last active administrator *)

(* Whoever is not the last active administrator can go: somebody stays.    *)
LEMMA SomebodyStays ==
    ASSUME NEW a \in Ids, ActiveAdmins # {}, ~LastActiveAdmin(a)
    PROVE  ActiveAdmins \ {a} # {}
  <1> SUFFICES ASSUME ActiveAdmins = {a} PROVE FALSE
    OBVIOUS
  <1>1. Cardinality(ActiveAdmins) = 1
    BY FS_Singleton
  <1> QED BY <1>1 DEF LastActiveAdmin

LEMMA AdminStep ==
    TypeOK /\ [Next]_vars => (ActiveAdmins # {} => ActiveAdmins' # {})
  <1> SUFFICES ASSUME TypeOK, ActiveAdmins # {}, NEW a \in Ids, WritesAccount(a)
               PROVE  ActiveAdmins' # {}
    BY StepsOnAccounts DEF ActiveAdmins
  <1>1. ActiveAdmins \ {a} \subseteq ActiveAdmins'
    BY OtherRows DEF ActiveAdmins
  <1>2. CASE a \notin ActiveAdmins \/ ~LastActiveAdmin(a)
    BY <1>1, <1>2, SomebodyStays
  <1>3. CASE a \in ActiveAdmins /\ LastActiveAdmin(a)
    <2> SUFFICES a \in ActiveAdmins'
      OBVIOUS
    <2>1. account[a].status = "active" /\ account[a].role = "admin"
      BY <1>3 DEF ActiveAdmins
    <2>2. CASE \E r \in Requests, kept \in SUBSET (Tokens \cup {NoToken}) :
                 UpdatePassword(r, a, kept)
      BY <2>1, <2>2 DEF UpdatePassword, TypeOK, AccountRow, ActiveAdmins
    <2>3. CASE \E r \in Requests, role \in Roles : SetRole(r, a, role)
      BY <1>3, <2>1, <2>3 DEF SetRole, Roles, TypeOK, AccountRow, ActiveAdmins
    <2>4. CASE \E r \in Requests, s \in {"active", "disabled", "deleted"} :
                 SetStatus(r, a, s)
      BY <1>3, <2>1, <2>4 DEF SetStatus, CanSetStatus
    <2> QED
      BY <2>1, <2>2, <2>3, <2>4
         DEF WritesAccount, SetupAdmin, CreateRecoveryAdmin, Register, Restore,
             Approve, Reject
  <1> QED BY <1>2, <1>3

(* Once there is an active administrator there always is one.              *)
THEOREM ActiveAdminAlways == Spec => ActiveAdminPersists
  BY TypeInit, TypeStep, AdminStep, PTL DEF Spec, ActiveAdminPersists

-----------------------------------------------------------------------------
(* Approval *)

(* An admitted account stays admitted, and approved if it was.             *)
LEMMA AdmittedStays ==
    ASSUME TypeOK, [Next]_vars, NEW a \in Ids, Admitted(a)
    PROVE  Admitted(a)' /\ (account[a].approved => account'[a].approved)
  <1> SUFFICES ASSUME NEW b \in Ids, WritesAccount(b)
               PROVE  Admitted(a)' /\ (account[a].approved => account'[a].approved)
    BY StepsOnAccounts DEF Admitted
  <1>1. CASE a # b
    BY <1>1, OtherRows DEF Admitted
  <1>2. CASE a = b
    <2>1. CASE \E r \in Requests, s \in {"active", "disabled", "deleted"} :
                 SetStatus(r, a, s)
      BY <2>1 DEF SetStatus, CanSetStatus, PreviousStatus, Admitted, TypeOK,
                  AccountRow
    <2>2. CASE \E r \in Requests : Restore(r, a)
      BY <2>2 DEF Restore, RestoredStatus, Admitted, TypeOK, AccountRow, Previous
    <2>3. CASE \/ \E r \in Requests, kept \in SUBSET (Tokens \cup {NoToken}) :
                    UpdatePassword(r, a, kept)
               \/ \E r \in Requests, role \in Roles : SetRole(r, a, role)
      BY <2>3 DEF UpdatePassword, SetRole, Admitted, TypeOK, AccountRow
    <2>4. CASE \E r \in Requests : Approve(r, a) \/ Reject(r, a)
      BY <2>4 DEF Approve, Reject, Admitted
    <2> QED
      BY <1>2, <2>1, <2>2, <2>3, <2>4
         DEF WritesAccount, SetupAdmin, CreateRecoveryAdmin, Register, Admitted
  <1> QED BY <1>1, <1>2

(* Whoever becomes admitted is approved in that step.                      *)
LEMMA AdmittedByApproval ==
    ASSUME TypeOK, [Next]_vars, NEW a \in Ids, ~Admitted(a), Admitted(a)'
    PROVE  account'[a].approved
  <1> SUFFICES ASSUME NEW b \in Ids, WritesAccount(b) PROVE account'[a].approved
    BY StepsOnAccounts DEF Admitted
  <1>1. CASE a # b
    BY <1>1, OtherRows DEF Admitted
  <1>2. CASE a = b
    <2>1. CASE \E r \in Requests, s \in {"active", "disabled", "deleted"} :
                 SetStatus(r, a, s)
      BY <2>1 DEF SetStatus, CanSetStatus, PreviousStatus, Admitted, TypeOK,
                  AccountRow, Statuses
    <2>2. CASE \E r \in Requests : Restore(r, a)
      BY <2>2 DEF Restore, RestoredStatus, Admitted, TypeOK, AccountRow, Previous
    <2>3. CASE \/ \E r \in Requests, kept \in SUBSET (Tokens \cup {NoToken}) :
                    UpdatePassword(r, a, kept)
               \/ \E r \in Requests, role \in Roles : SetRole(r, a, role)
      BY <2>3 DEF UpdatePassword, SetRole, Admitted, TypeOK, AccountRow
    <2>4. CASE \E r \in Requests : Approve(r, a) \/ Reject(r, a)
      BY <2>4 DEF Approve, Reject, Admitted, TypeOK, AccountRow
    <2>5. CASE \/ \E t \in Tokens : SetupAdmin(a, t)
               \/ CreateRecoveryAdmin(a) \/ Register(a)
      <3>1. account'[a] = AdminRow \/ account'[a] = PendingRow
        BY <2>5 DEF SetupAdmin, CreateRecoveryAdmin, Register, TypeOK
      <3> QED BY <3>1 DEF AdminRow, PendingRow, Admitted
    <2> QED BY <1>2, <2>1, <2>2, <2>3, <2>4, <2>5 DEF WritesAccount
  <1> QED BY <1>1, <1>2

(* Nobody is admitted without an approval.                                 *)
THEOREM ApprovalIsNeeded == Spec => []AdmittedMeansApproved
  <1>1. Init => AdmittedMeansApproved
    BY DEF Init, AdmittedMeansApproved, Admitted, NoRow
  <1>2. TypeOK /\ AdmittedMeansApproved /\ [Next]_vars => AdmittedMeansApproved'
    BY AdmittedStays, AdmittedByApproval DEF AdmittedMeansApproved
  <1> QED BY <1>1, <1>2, TypeInit, TypeStep, PTL DEF Spec

-----------------------------------------------------------------------------
(* Sessions and the accounts they belong to *)

(* The steps that write the sessions table.                                *)
LEMMA StepsOnSessions ==
    ASSUME TypeOK, [Next]_vars
    PROVE  \/ UNCHANGED session
           \/ \E a \in AdminNames, u \in Tokens : SetupAdmin(a, u)
           \/ \E r \in Requests, u \in Tokens : LoginInsert(r, u)
           \/ \E u \in Tokens : Logout(u) \/ Expire(u)
           \/ \E r \in Requests : \E a, kept : DoneRevoking(r, a, kept)
           \/ Restart
  <1>1. ASSUME NEW r \in Requests, NEW a \in Ids,
               \/ LoginRead(r, a) \/ Restore(r, a) \/ Approve(r, a)
               \/ Reject(r, a) \/ \E role \in Roles : SetRole(r, a, role)
        PROVE  UNCHANGED session
    BY <1>1 DEF LoginRead, Restore, Approve, Reject, SetRole
  <1>2. ASSUME NEW r \in Requests, NEW a \in Ids,
               \/ ResetPassword(r, a) \/ RevokeUserSessions(r, a)
               \/ \E s \in {"active", "disabled", "deleted"} : SetStatus(r, a, s)
        PROVE  UNCHANGED session \/ \E b, kept : DoneRevoking(r, b, kept)
    BY <1>2 DEF ResetPassword, RevokeUserSessions, SetStatus, UpdatePassword
  <1>3. ASSUME NEW r \in Requests, ChangeCommit(r) \/ RejectRevoke(r)
        PROVE  \E b, kept : DoneRevoking(r, b, kept)
    BY <1>3 DEF ChangeCommit, RejectRevoke, UpdatePassword
  <1>4. ASSUME NEW a \in Ids, CreateRecoveryAdmin(a) \/ Register(a)
        PROVE  UNCHANGED session
    BY <1>4 DEF CreateRecoveryAdmin, Register
  <1>5. ASSUME NEW r \in Requests,
               Abort(r) \/ \E t \in Tokens : ChangeRead(r, t) \/ AdminRead(r, t)
        PROVE  UNCHANGED session
    BY <1>5 DEF Abort, ChangeRead, AdminRead
  <1>6. CASE UNCHANGED vars
    BY <1>6 DEF vars
  <1>7. CASE Next
    BY <1>1, <1>2, <1>3, <1>4, <1>5, <1>7 DEF Next, Ids
  <1> QED BY <1>6, <1>7

(* Where a session row can come from in one step.                          *)
LEMMA SessionOrigin ==
    ASSUME TypeOK, [Next]_vars, NEW t \in Tokens, session'[t].state # "none"
    PROVE  \/ session[t].state # "none" /\ session'[t].user = session[t].user
           \/ \E r \in Requests :
                req[r].pc = "login" /\ session'[t].user = req[r].user
           \/ session'[t].user \in Ids /\ account'[session'[t].user] = AdminRow
  <1>1. ASSUME NEW a \in AdminNames, NEW u \in Tokens, SetupAdmin(a, u)
        PROVE  \/ session'[t] = session[t]
               \/ session'[t].user \in Ids /\ account'[session'[t].user] = AdminRow
    BY <1>1 DEF SetupAdmin, LiveSession, TypeOK, Ids
  <1>2. ASSUME NEW r \in Requests, NEW u \in Tokens, LoginInsert(r, u)
        PROVE  \/ session'[t] = session[t]
               \/ req[r].pc = "login" /\ session'[t].user = req[r].user
    BY <1>2 DEF LoginInsert, LiveSession, TypeOK
  <1>3. ASSUME NEW u \in Tokens, Logout(u) \/ Expire(u)
        PROVE  session[t].state # "none" /\ session'[t].user = session[t].user
    BY <1>3 DEF Logout, Expire, TypeOK, SessionRow, NoSession
  <1>4. ASSUME NEW r \in Requests, NEW a, NEW kept, DoneRevoking(r, a, kept)
        PROVE  session[t].state # "none" /\ session'[t].user = session[t].user
    BY <1>4 DEF DoneRevoking, Revoked, TypeOK, SessionRow, NoSession
  <1>5. CASE Restart
    BY <1>5 DEF Restart, NoSession
  <1> QED BY <1>1, <1>2, <1>3, <1>4, <1>5, StepsOnSessions

(* The steps that write what a request carries.                            *)
LEMMA StepsOnRequests ==
    ASSUME TypeOK, [Next]_vars
    PROVE  \/ UNCHANGED req
           \/ \E r \in Requests : Done(r)
           \/ \E r \in Requests, a \in Ids : LoginRead(r, a) \/ Reject(r, a)
           \/ \E r \in Requests, t \in Tokens : ChangeRead(r, t) \/ AdminRead(r, t)
           \/ \E r \in Requests : \E a, kept : DoneRevoking(r, a, kept)
           \/ Restart
  <1>1. ASSUME NEW r \in Requests, NEW a \in Ids,
               \/ Restore(r, a) \/ Approve(r, a)
               \/ \E role \in Roles : SetRole(r, a, role)
        PROVE  Done(r)
    BY <1>1 DEF Restore, Approve, SetRole
  <1>2. ASSUME NEW r \in Requests, NEW a \in Ids,
               \/ ResetPassword(r, a) \/ RevokeUserSessions(r, a)
               \/ \E s \in {"active", "disabled", "deleted"} : SetStatus(r, a, s)
        PROVE  Done(r) \/ \E b, kept : DoneRevoking(r, b, kept)
    BY <1>2 DEF ResetPassword, RevokeUserSessions, SetStatus, UpdatePassword
  <1>3. ASSUME NEW r \in Requests, ChangeCommit(r) \/ RejectRevoke(r)
        PROVE  \E b, kept : DoneRevoking(r, b, kept)
    BY <1>3 DEF ChangeCommit, RejectRevoke, UpdatePassword
  <1>4. ASSUME NEW r \in Requests,
               Abort(r) \/ \E t \in Tokens : LoginInsert(r, t)
        PROVE  Done(r)
    BY <1>4 DEF Abort, LoginInsert
  <1>5. ASSUME NEW a \in Ids,
               \/ CreateRecoveryAdmin(a) \/ Register(a)
               \/ \E t \in Tokens : SetupAdmin(a, t)
        PROVE  UNCHANGED req
    BY <1>5 DEF CreateRecoveryAdmin, Register, SetupAdmin
  <1>6. ASSUME NEW t \in Tokens, Logout(t) \/ Expire(t)
        PROVE  UNCHANGED req
    BY <1>6 DEF Logout, Expire
  <1>7. CASE UNCHANGED vars
    BY <1>7 DEF vars
  <1>8. CASE Next
    BY <1>1, <1>2, <1>3, <1>4, <1>5, <1>6, <1>8 DEF Next, Ids
  <1> QED BY <1>7, <1>8

(* Where a login or a password change in flight can come from in one step. *)
LEMMA RequestOrigin ==
    ASSUME TypeOK, [Next]_vars, NEW r \in Requests,
           req'[r].pc \in {"login", "change"}
    PROVE  \/ /\ req[r].pc = req'[r].pc
              /\ req[r].user = req'[r].user
              /\ req[r].overtaken => req'[r].overtaken
           \/ /\ UNCHANGED <<account, session>>
              /\ req'[r].user \in Ids
              /\ account[req'[r].user].status = "active"
  <1>1. ASSUME NEW q \in Requests, Done(q)
        PROVE  req'[r] = req[r]
    BY <1>1 DEF Done, TypeOK, Idle
  <1>2. ASSUME NEW q \in Requests, NEW a \in Ids, LoginRead(q, a)
        PROVE  \/ req'[r] = req[r]
               \/ /\ UNCHANGED <<account, session>>
                  /\ req'[r].user = a /\ account[a].status = "active"
    BY <1>2 DEF LoginRead, MayLogin, TypeOK, Idle
  <1>3. ASSUME NEW q \in Requests, NEW a \in Ids, Reject(q, a)
        PROVE  req'[r] = req[r]
    BY <1>3 DEF Reject, TypeOK, Idle
  <1>4. ASSUME NEW q \in Requests, NEW t \in Tokens, ChangeRead(q, t)
        PROVE  \/ req'[r] = req[r]
               \/ /\ UNCHANGED <<account, session>>
                  /\ req'[r].user \in Ids
                  /\ account[req'[r].user].status = "active"
    <2>1. session[t].user \in Ids
      BY <1>4, SessionOwner DEF ChangeRead, Usable
    <2> QED BY <1>4, <2>1 DEF ChangeRead, Usable, TypeOK, Idle
  <1>5. ASSUME NEW q \in Requests, NEW t \in Tokens, AdminRead(q, t)
        PROVE  req'[r] = req[r]
    BY <1>5 DEF AdminRead, TypeOK, Idle
  <1>6. ASSUME NEW q \in Requests, NEW a, NEW kept, DoneRevoking(q, a, kept)
        PROVE  /\ req[r].pc = req'[r].pc
               /\ req[r].user = req'[r].user
               /\ req[r].overtaken => req'[r].overtaken
    <2>1. req'[r] # Idle
      BY DEF Idle
    <2>2. \/ req'[r] = req[r]
          \/ req[r].pc = "login" /\ req'[r] = [req[r] EXCEPT !.overtaken = TRUE]
      BY <1>6, <2>1 DEF DoneRevoking
    <2>3. CASE req[r].pc = "login"
      <3>1. req[r] \in Request \ {Idle}
        BY <2>3 DEF TypeOK, Idle
      <3> QED BY <2>2, <3>1 DEF Request
    <2> QED BY <2>2, <2>3
  <1>7. CASE Restart
    BY <1>7 DEF Restart, Idle
  <1> QED BY <1>1, <1>2, <1>3, <1>4, <1>5, <1>6, <1>7, StepsOnRequests

(* An account that was never admitted has no session and no login or       *)
(* password change in flight.                                              *)
THEOREM SessionsAreOfAdmitted == Spec => []NeverAdmittedHasNoSession
  <1>1. Init => NeverAdmittedHasNoSession
    <2> SUFFICES ASSUME Init PROVE NeverAdmittedHasNoSession
      OBVIOUS
    <2>1. PICK owner \in [Tokens -> Legacy \cup {NoAccount}] :
            /\ \A t \in Tokens : owner[t] # NoAccount
                                   => account[owner[t]].status = "active"
            /\ session = [t \in Tokens |-> IF owner[t] = NoAccount THEN NoSession
                                           ELSE LiveSession(owner[t], FALSE)]
      BY DEF Init
    <2>2. \A t \in Tokens : session[t].state # "none" => Admitted(session[t].user)
      BY <2>1 DEF NoSession, LiveSession, Admitted
    <2>3. \A r \in Requests : req[r].pc = "idle"
      BY DEF Init, Idle
    <2> QED BY <2>2, <2>3 DEF NeverAdmittedHasNoSession
  <1>2. TypeOK /\ NeverAdmittedHasNoSession /\ [Next]_vars
          => NeverAdmittedHasNoSession'
    <2> SUFFICES ASSUME TypeOK, NeverAdmittedHasNoSession, [Next]_vars
                 PROVE  NeverAdmittedHasNoSession'
      OBVIOUS
    <2>1. ASSUME NEW t \in Tokens, session'[t].state # "none"
          PROVE  Admitted(session[t].user)'
      <3>1. CASE session[t].state # "none" /\ session'[t].user = session[t].user
        BY <3>1, SessionOwner, AdmittedStays DEF NeverAdmittedHasNoSession, Admitted
      <3>2. CASE \E r \in Requests :
                   req[r].pc = "login" /\ session'[t].user = req[r].user
        BY <3>2, RequestUser, AdmittedStays DEF NeverAdmittedHasNoSession, Admitted
      <3>3. CASE session'[t].user \in Ids /\ account'[session'[t].user] = AdminRow
        BY <3>3 DEF AdminRow, Admitted
      <3> QED BY <2>1, <3>1, <3>2, <3>3, SessionOrigin
    <2>2. ASSUME NEW r \in Requests, req'[r].pc \in {"login", "change"}
          PROVE  Admitted(req[r].user)'
      <3>1. CASE req[r].pc = req'[r].pc /\ req[r].user = req'[r].user
        BY <2>2, <3>1, RequestUser, AdmittedStays
           DEF NeverAdmittedHasNoSession, Admitted
      <3>2. CASE UNCHANGED account /\ account[req'[r].user].status = "active"
        BY <3>2 DEF Admitted
      <3> QED BY <2>2, <3>1, <3>2, RequestOrigin
    <2> QED BY <2>1, <2>2 DEF NeverAdmittedHasNoSession
  <1> QED BY <1>1, <1>2, TypeInit, TypeStep, PTL DEF Spec

-----------------------------------------------------------------------------
(* Revocation *)

(* An account stops being active only in a step that revokes its sessions. *)
LEMMA DeactivationRevokes ==
    ASSUME TypeOK, [Next]_vars, NEW a \in Ids,
           account[a].status = "active", account'[a].status # "active"
    PROVE  \E r \in Requests : DoneRevoking(r, a, {})
  <1>1. PICK b \in Ids : WritesAccount(b)
    BY StepsOnAccounts
  <1>2. a = b
    BY <1>1, OtherRows
  <1>3. ASSUME NEW r \in Requests, NEW s \in {"active", "disabled", "deleted"},
               SetStatus(r, a, s)
        PROVE  DoneRevoking(r, a, {})
    BY <1>3 DEF SetStatus, EndsSessions, TypeOK, AccountRow
  <1>4. ASSUME \/ \E r \in Requests, kept \in SUBSET (Tokens \cup {NoToken}) :
                    UpdatePassword(r, a, kept)
               \/ \E r \in Requests, role \in Roles : SetRole(r, a, role)
        PROVE  account'[a].status = account[a].status
    BY <1>4 DEF UpdatePassword, SetRole, TypeOK, AccountRow
  <1> QED
    BY <1>1, <1>2, <1>3, <1>4
       DEF WritesAccount, SetupAdmin, CreateRecoveryAdmin, Register, Restore,
           Approve, Reject

(* What a live session was before the step.                                *)
LEMMA LiveOrigin ==
    ASSUME TypeOK, [Next]_vars, NEW t \in Tokens, session'[t].state = "live"
    PROVE  \/ session'[t] = session[t]
           \/ /\ UNCHANGED account
              /\ \E r \in Requests : /\ req[r].pc = "login"
                                     /\ session'[t].user = req[r].user
                                     /\ session'[t].late = req[r].overtaken
           \/ session'[t].user \in Ids /\ account'[session'[t].user] = AdminRow
  <1>1. ASSUME NEW a \in AdminNames, NEW u \in Tokens, SetupAdmin(a, u)
        PROVE  \/ session'[t] = session[t]
               \/ session'[t].user \in Ids /\ account'[session'[t].user] = AdminRow
    BY <1>1 DEF SetupAdmin, LiveSession, TypeOK, Ids
  <1>2. ASSUME NEW r \in Requests, NEW u \in Tokens, LoginInsert(r, u)
        PROVE  \/ session'[t] = session[t]
               \/ /\ UNCHANGED account
                  /\ \E q \in Requests : /\ req[q].pc = "login"
                                         /\ session'[t].user = req[q].user
                                         /\ session'[t].late = req[q].overtaken
    BY <1>2 DEF LoginInsert, LiveSession, TypeOK
  <1>3. ASSUME NEW u \in Tokens, Logout(u) \/ Expire(u)
        PROVE  session'[t] = session[t]
    BY <1>3 DEF Logout, Expire, TypeOK, SessionRow, NoSession
  <1>4. ASSUME NEW r \in Requests, NEW a, NEW kept, DoneRevoking(r, a, kept)
        PROVE  session'[t] = session[t]
    BY <1>4 DEF DoneRevoking, Revoked, TypeOK, SessionRow, NoSession
  <1>5. CASE Restart
    <2>1. session'[t] = session[t] \/ session'[t] = NoSession
      BY <1>5 DEF Restart
    <2> QED BY <2>1 DEF NoSession
  <1>6. CASE UNCHANGED session
    BY <1>6
  <1>7. CASE \E a \in AdminNames, u \in Tokens : SetupAdmin(a, u)
    BY <1>1, <1>7
  <1>8. CASE \E r \in Requests, u \in Tokens : LoginInsert(r, u)
    BY <1>2, <1>8
  <1>9. CASE \E u \in Tokens : Logout(u) \/ Expire(u)
    BY <1>3, <1>9
  <1>10. CASE \E r \in Requests : \E a, kept : DoneRevoking(r, a, kept)
    BY <1>4, <1>10
  <1> QED BY <1>5, <1>6, <1>7, <1>8, <1>9, <1>10, StepsOnSessions

(* After a revocation nothing of the account is live but what it keeps,    *)
(* and every login in flight for it is overtaken.                          *)
LEMMA AfterRevoking ==
    ASSUME TypeOK, NEW a \in Ids, NEW r \in Requests, NEW kept,
           DoneRevoking(r, a, kept)
    PROVE  /\ \A t \in Tokens : session'[t].state = "live" /\ session'[t].user = a
                => t \in kept /\ session'[t] = session[t]
           /\ \A q \in Requests : req'[q].pc = "login" /\ req'[q].user = a
                => req'[q].overtaken
  <1>1. ASSUME NEW t \in Tokens, session'[t].state = "live", session'[t].user = a
        PROVE  t \in kept /\ session'[t] = session[t]
    BY <1>1 DEF DoneRevoking, Revoked, TypeOK, SessionRow, NoSession
  <1>2. ASSUME NEW q \in Requests, req'[q].pc = "login", req'[q].user = a
        PROVE  req'[q].overtaken
    <2>1. req'[q] # Idle
      BY <1>2 DEF Idle
    <2>2. CASE req[q].pc = "login"
      <3>1. req[q] \in Request \ {Idle}
        BY <2>2 DEF TypeOK, Idle
      <3> QED BY <1>2, <2>1, <2>2, <3>1 DEF DoneRevoking, Request
    <2>3. CASE req[q].pc # "login"
      BY <1>2, <2>1, <2>3 DEF DoneRevoking
    <2> QED BY <2>2, <2>3
  <1> QED BY <1>1, <1>2

(* Only the session of an overtaken login is live for an account that is   *)
(* not active.                                                             *)
THEOREM OnlyLateSessionsOutlive == Spec => []OnlyALateLoginOutlivesItsAccount
  <1>1. Init => OnlyALateLoginOutlivesItsAccount
    <2> SUFFICES ASSUME Init PROVE OnlyALateLoginOutlivesItsAccount
      OBVIOUS
    <2>1. PICK owner \in [Tokens -> Legacy \cup {NoAccount}] :
            /\ \A t \in Tokens : owner[t] # NoAccount
                                   => account[owner[t]].status = "active"
            /\ session = [t \in Tokens |-> IF owner[t] = NoAccount THEN NoSession
                                           ELSE LiveSession(owner[t], FALSE)]
      BY DEF Init
    <2>2. \A t \in Tokens : session[t].state = "live"
                              => account[session[t].user].status = "active"
      BY <2>1 DEF NoSession, LiveSession
    <2>3. \A r \in Requests : req[r].pc = "idle"
      BY DEF Init, Idle
    <2> QED BY <2>2, <2>3 DEF OnlyALateLoginOutlivesItsAccount
  <1>2. TypeOK /\ OnlyALateLoginOutlivesItsAccount /\ [Next]_vars
          => OnlyALateLoginOutlivesItsAccount'
    <2> SUFFICES ASSUME TypeOK, OnlyALateLoginOutlivesItsAccount, [Next]_vars
                 PROVE  OnlyALateLoginOutlivesItsAccount'
      OBVIOUS
    <2>1. ASSUME NEW t \in Tokens, session'[t].state = "live", ~session'[t].late
          PROVE  account'[session'[t].user].status = "active"
      <3>1. CASE session'[t] = session[t]
        <4>1. /\ session[t].user \in Ids
              /\ account[session[t].user].status = "active"
          BY <2>1, <3>1, SessionOwner DEF OnlyALateLoginOutlivesItsAccount
        <4> QED BY <2>1, <3>1, <4>1, DeactivationRevokes, AfterRevoking
      <3>2. ASSUME UNCHANGED account, NEW r \in Requests, req[r].pc = "login",
                   session'[t].user = req[r].user,
                   session'[t].late = req[r].overtaken
            PROVE  account'[session'[t].user].status = "active"
        BY <2>1, <3>2 DEF OnlyALateLoginOutlivesItsAccount
      <3>3. CASE session'[t].user \in Ids /\ account'[session'[t].user] = AdminRow
        BY <3>3 DEF AdminRow
      <3> QED BY <2>1, <3>1, <3>2, <3>3, LiveOrigin
    <2>2. ASSUME NEW r \in Requests, req'[r].pc = "login", ~req'[r].overtaken
          PROVE  account'[req'[r].user].status = "active"
      <3>1. CASE req[r].pc = "login" /\ req[r].user = req'[r].user
                 /\ (req[r].overtaken => req'[r].overtaken)
        <4>1. /\ req[r].user \in Ids
              /\ account[req[r].user].status = "active"
          BY <2>2, <3>1, RequestUser DEF OnlyALateLoginOutlivesItsAccount
        <4> QED BY <2>2, <3>1, <4>1, DeactivationRevokes, AfterRevoking
      <3>2. CASE UNCHANGED account /\ account[req'[r].user].status = "active"
        BY <3>2
      <3> QED BY <2>2, <3>1, <3>2, RequestOrigin
    <2> QED BY <2>1, <2>2 DEF OnlyALateLoginOutlivesItsAccount
  <1> QED BY <1>1, <1>2, TypeInit, TypeStep, PTL DEF Spec

(* A stored password is replaced only in a step that revokes the account's *)
(* sessions, all but that of the request which changes it.                 *)
LEMMA PasswordRevokes ==
    ASSUME TypeOK, [Next]_vars, NEW a \in Ids,
           account[a].status # "absent", account'[a].hash # account[a].hash
    PROVE  \E r \in Requests :
             \/ DoneRevoking(r, a, {})
             \/ req[r].pc = "change" /\ DoneRevoking(r, a, {req[r].token})
  <1>1. PICK b \in Ids : WritesAccount(b)
    BY StepsOnAccounts
  <1>2. a = b
    BY <1>1, OtherRows
  <1>3. ASSUME NEW c \in Ids,
               \/ c \in AdminNames /\ \E t \in Tokens : SetupAdmin(c, t)
               \/ c \in AdminNames /\ CreateRecoveryAdmin(c)
               \/ c \in Players /\ Register(c)
        PROVE  account'[a].hash = account[a].hash
    BY <1>3 DEF SetupAdmin, CreateRecoveryAdmin, Register, TypeOK
  <1>4. ASSUME NEW c \in Ids, NEW r \in Requests,
               \/ \E s \in {"active", "disabled", "deleted"} : SetStatus(r, c, s)
               \/ Restore(r, c) \/ Approve(r, c) \/ Reject(r, c)
               \/ \E role \in Roles : SetRole(r, c, role)
        PROVE  account'[a].hash = account[a].hash
    BY <1>4 DEF SetStatus, Restore, Approve, Reject, SetRole, TypeOK, AccountRow
  <1>5. ASSUME NEW c, NEW r \in Requests, NEW kept, UpdatePassword(r, c, kept)
        PROVE  c = a /\ DoneRevoking(r, a, kept)
    BY <1>5 DEF UpdatePassword, TypeOK
  <1>6. ~UNCHANGED account
    OBVIOUS
  <1>7. CASE \E r \in Requests : ChangeCommit(r)
    BY <1>5, <1>7 DEF ChangeCommit
  <1>8. CASE \E r \in Requests, c \in Ids : ResetPassword(r, c)
    BY <1>5, <1>8 DEF ResetPassword
  <1>9. CASE Next /\ ~ReadsAccounts
    BY <1>3, <1>4, <1>7, <1>8, <1>9 DEF Next, ReadsAccounts, Ids
  <1> QED BY <1>6, <1>9, ReadersLeaveAccounts

(* A step that stops an account from being active, or replaces its         *)
(* password, leaves none of its sessions live but that of the changer.     *)
THEOREM RevocationCompletes == Spec => RevocationIsComplete
  <1> DEFINE Complete(a) ==
        /\ account[a].status = "active" /\ account'[a].status # "active"
             => Live(a)' = {}
        /\ account[a].status # "absent" /\ account'[a].hash # account[a].hash
             => \A t \in Live(a)' :
                  /\ t \in Live(a)
                  /\ \E r \in Requests : /\ req[r].pc = "change"
                                         /\ req'[r].pc = "idle"
                                         /\ req[r].token = t
  <1>1. ASSUME TypeOK, [Next]_vars, NEW a \in Ids
        PROVE  Complete(a)
    <2>1. ASSUME account[a].status = "active", account'[a].status # "active"
          PROVE  Live(a)' = {}
      BY <1>1, <2>1, DeactivationRevokes, AfterRevoking DEF Live
    <2>2. ASSUME account[a].status # "absent",
                 account'[a].hash # account[a].hash,
                 NEW t \in Live(a)'
          PROVE  /\ t \in Live(a)
                 /\ \E r \in Requests : /\ req[r].pc = "change"
                                        /\ req'[r].pc = "idle"
                                        /\ req[r].token = t
      <3>1. t \in Tokens /\ session'[t].user = a /\ session'[t].state = "live"
        BY <2>2 DEF Live
      <3>2. PICK r \in Requests :
              \/ DoneRevoking(r, a, {})
              \/ req[r].pc = "change" /\ DoneRevoking(r, a, {req[r].token})
        BY <1>1, <2>2, PasswordRevokes
      <3>3. /\ DoneRevoking(r, a, {req[r].token}) /\ req[r].pc = "change"
            /\ t = req[r].token /\ session'[t] = session[t]
        BY <1>1, <3>1, <3>2, AfterRevoking
      <3>4. req'[r].pc = "idle"
        BY <3>3 DEF DoneRevoking, Idle
      <3> QED BY <3>1, <3>3, <3>4 DEF Live
    <2> QED BY <2>1, <2>2
  <1>2. TypeOK /\ [Next]_vars => [\A a \in Ids : Complete(a)]_vars
    BY <1>1
  <1> QED BY <1>2, TypeInit, TypeStep, PTL DEF Spec, RevocationIsComplete

-----------------------------------------------------------------------------
(* Setup *)

(* Before setup an initially empty database has no account at all, which   *)
(* is what makes SetupHasAdmin inductive.                                  *)
SetupInv ==
    Legacy = {} => IF setupCompleted THEN ActiveAdmins # {}
                   ELSE \A a \in Ids : account[a].status = "absent"

LEMMA SetupStep ==
    ASSUME TypeOK, [Next]_vars, SetupInv
    PROVE  SetupInv'
  <1> SUFFICES ASSUME Legacy = {} PROVE SetupInv'
    BY DEF SetupInv
  <1>1. CASE UNCHANGED account /\ UNCHANGED setupCompleted
    BY <1>1 DEF SetupInv, ActiveAdmins
  <1>2. CASE setupCompleted
    <2>1. setupCompleted'
      <3>1. CASE \E a \in AdminNames, t \in Tokens : SetupAdmin(a, t)
        BY <3>1 DEF SetupAdmin
      <3>2. CASE \E a \in AdminNames : CreateRecoveryAdmin(a)
        BY <3>2 DEF CreateRecoveryAdmin
      <3> QED
        BY <1>2, <3>1, <3>2
           DEF Next, vars, Register, LoginRead, LoginInsert, Logout, Expire,
               ChangeRead, ChangeCommit, AdminRead, ResetPassword,
               UpdatePassword, SetStatus, Restore, Approve, Reject,
               RejectRevoke, SetRole, RevokeUserSessions, Abort, Restart
    <2> QED BY <1>2, <2>1, AdminStep DEF SetupInv
  <1>3. ASSUME ~setupCompleted, NEW a \in Ids, WritesAccount(a)
        PROVE  SetupInv'
    <2>1. account[a].status = "absent"
      BY <1>3 DEF SetupInv
    <2>2. account'[a] = AdminRow /\ setupCompleted'
      BY <1>3, <2>1
         DEF WritesAccount, SetupAdmin, CreateRecoveryAdmin, Register,
             UpdatePassword, SetStatus, CanSetStatus, Restore, Approve, Reject,
             SetRole, TypeOK
    <2>3. a \in ActiveAdmins'
      BY <2>2 DEF ActiveAdmins, AdminRow
    <2> QED BY <2>2, <2>3 DEF SetupInv
  <1>4. ASSUME ~setupCompleted, UNCHANGED account
        PROVE  UNCHANGED setupCompleted
    <2>1. ASSUME NEW a \in AdminNames
          PROVE  /\ ~\E t \in Tokens : SetupAdmin(a, t)
                 /\ ~CreateRecoveryAdmin(a)
      <3>1. account[a].status = "absent" => account'[a] # AdminRow
        BY <1>4 DEF AdminRow
      <3> QED BY <2>1, <3>1 DEF SetupAdmin, CreateRecoveryAdmin, TypeOK, Ids
    <2> QED
      BY <1>4, <2>1
         DEF Next, vars, Register, LoginRead, LoginInsert, Logout, Expire,
             ChangeRead, ChangeCommit, AdminRead, ResetPassword,
             UpdatePassword, SetStatus, Restore, Approve, Reject,
             RejectRevoke, SetRole, RevokeUserSessions, Abort, Restart
  <1> QED BY <1>1, <1>2, <1>3, <1>4, StepsOnAccounts

(* On a database that was empty the setup page is closed exactly when an   *)
(* active administrator exists.                                            *)
THEOREM SetupMeansAdmin == Spec => []SetupHasAdmin
  <1>1. Init => SetupInv
    BY DEF Init, SetupInv, NoRow
  <1>2. SetupInv => SetupHasAdmin
    BY DEF SetupInv, SetupHasAdmin, ActiveAdmins
  <1> QED BY <1>1, <1>2, SetupStep, TypeInit, TypeStep, PTL DEF Spec

(* Before setup nobody is there but the players of schema 3.               *)
FoundersInv ==
    ~setupCompleted => \A b \in Ids \ Legacy : account[b].status = "absent"

LEMMA FoundersStep ==
    ASSUME TypeOK, [Next]_vars, FoundersInv
    PROVE  FoundersInv'
  <1>1. setupCompleted => setupCompleted'
    <2>1. CASE \E a \in AdminNames, t \in Tokens : SetupAdmin(a, t)
      BY <2>1 DEF SetupAdmin
    <2>2. CASE \E a \in AdminNames : CreateRecoveryAdmin(a)
      BY <2>2 DEF CreateRecoveryAdmin
    <2> QED
      BY <2>1, <2>2
         DEF Next, vars, Register, LoginRead, LoginInsert, Logout, Expire,
             ChangeRead, ChangeCommit, AdminRead, ResetPassword,
             UpdatePassword, SetStatus, Restore, Approve, Reject,
             RejectRevoke, SetRole, RevokeUserSessions, Abort, Restart
  <1>2. CASE UNCHANGED account
    BY <1>1, <1>2 DEF FoundersInv
  <1>3. ASSUME NEW a \in Ids, WritesAccount(a), ~setupCompleted'
        PROVE  FoundersInv'
    <2>1. ~setupCompleted /\ \A b \in Ids \ Legacy : account[b].status = "absent"
      BY <1>1, <1>3 DEF FoundersInv
    <2>2. a \in Legacy
      BY <1>3, <2>1
         DEF WritesAccount, SetupAdmin, CreateRecoveryAdmin, Register,
             UpdatePassword, SetStatus, CanSetStatus, Restore, Approve, Reject,
             SetRole
    <2> QED BY <1>3, <2>1, <2>2, OtherRows DEF FoundersInv
  <1> QED BY <1>2, <1>3, StepsOnAccounts DEF FoundersInv

(* POST /setup founds the first account or none, whoever else founds,      *)
(* registers or administers at the same time (SetupComesFirst).            *)
THEOREM SetupFoundsOnce == Spec => SetupComesFirst
  <1> DEFINE IInv == TypeOK /\ FoundersInv
             First == \A a \in Ids :
                        account[a].status = "absent" /\ Live(a)' # {}
                          => \A b \in Ids \ Legacy :
                               account[b].status = "absent"
  <1>1. Init => IInv
    <2>1. Init => \A b \in Ids \ Legacy : account[b] = NoRow
      BY DEF Init
    <2> QED BY <2>1, TypeInit DEF FoundersInv, NoRow
  <1>2. IInv /\ [Next]_vars => IInv'
    BY TypeStep, FoundersStep
  <1>3. /\ IInv /\ NeverAdmittedHasNoSession /\ NeverAdmittedHasNoSession'
        /\ [Next]_vars
        => [First]_vars
    <2> SUFFICES ASSUME TypeOK, FoundersInv, NeverAdmittedHasNoSession,
                        NeverAdmittedHasNoSession', Next,
                        NEW a \in Ids, account[a].status = "absent",
                        NEW t \in Live(a)'
                 PROVE  ~setupCompleted
      BY DEF FoundersInv
    <2>1. session'[t].user = a /\ session'[t].state = "live" /\ t \in Tokens
      BY DEF Live
    <2>2. Admitted(a)'
      BY <2>1 DEF NeverAdmittedHasNoSession
    <2>3. PICK b \in Ids : WritesAccount(b)
      BY <2>2, StepsOnAccounts DEF Admitted
    <2>4. b = a
      BY <2>2, <2>3, OtherRows DEF Admitted
    <2>5. session[t].user # a
      <3>1. session[t].state # "none" => session[t].user # a
        BY <2>1 DEF NeverAdmittedHasNoSession, Admitted
      <3>2. session[t].state = "none" => session[t] = NoSession
        BY <2>1 DEF TypeOK, SessionRow, NoSession
      <3> QED BY <3>1, <3>2, ConstantsAssumption DEF NoSession
    <2> QED
      BY <2>1, <2>3, <2>4, <2>5
         DEF WritesAccount, SetupAdmin, CreateRecoveryAdmin, Register,
             UpdatePassword, SetStatus, CanSetStatus, Restore, Approve, Reject,
             SetRole
  <1> HIDE DEF First
  <1>4. [First]_vars <=>
          [\A a \in Ids :
             account[a].status = "absent" /\ Live(a)' # {}
               => \A b \in Ids \ Legacy : account[b].status = "absent"]_vars
    BY DEF First
  <1> QED BY <1>1, <1>2, <1>3, <1>4, SessionsAreOfAdmitted, PTL
          DEF Spec, SetupComesFirst

-----------------------------------------------------------------------------
(* Accounts implements AccountLifecycle *)

standings == [a \in Ids |-> Standing(a)]
archive == {a \in Ids : account[a].status = "deleted"}
administrators == {a \in Ids : account[a].role = "admin"}

LEMMA InChargeAreActiveAdmins == Lifecycle!InCharge = ActiveAdmins
  BY DEF Lifecycle!InCharge, ActiveAdmins, Standing, Underlying

LEMMA DispensableIfNotLast ==
    ASSUME NEW a \in Ids, ~LastActiveAdmin(a)
    PROVE  Lifecycle!Dispensable(a)
  BY InChargeAreActiveAdmins, SomebodyStays DEF Lifecycle!Dispensable

(* One row changes: so do, at most, its entries in the abstract state.     *)
LEMMA LifecycleRow ==
    ASSUME TypeOK, NEW a \in Ids, WritesAccount(a)
    PROVE  /\ standings' = [standings EXCEPT ![a] = Standing(a)']
           /\ archive' = IF account'[a].status = "deleted" THEN archive \cup {a}
                         ELSE archive \ {a}
           /\ administrators' = IF account'[a].role = "admin"
                                THEN administrators \cup {a}
                                ELSE administrators \ {a}
  <1>1. \A b \in Ids \ {a} : account'[b] = account[b]
    BY OtherRows
  <1>2. \A b \in Ids \ {a} : Standing(b)' = Standing(b)
    BY <1>1 DEF Standing, Underlying
  <1>3. standings' = [standings EXCEPT ![a] = Standing(a)']
    BY <1>2 DEF standings
  <1>4. archive' = IF account'[a].status = "deleted" THEN archive \cup {a}
                   ELSE archive \ {a}
    BY <1>1 DEF archive
  <1>5. administrators' = IF account'[a].role = "admin"
                          THEN administrators \cup {a}
                          ELSE administrators \ {a}
    BY <1>1 DEF administrators
  <1> QED BY <1>3, <1>4, <1>5

(* What the row keeps, the abstract state keeps.                           *)
LEMMA LifecycleKeeps ==
    ASSUME TypeOK, NEW a \in Ids, WritesAccount(a)
    PROVE  /\ Standing(a)' = Standing(a) => UNCHANGED standings
           /\ (account'[a].status = "deleted" <=> account[a].status = "deleted")
                => UNCHANGED archive
           /\ account'[a].role = account[a].role => UNCHANGED administrators
  <1>1. \A b \in Ids \ {a} : account'[b] = account[b]
    BY OtherRows
  <1>2. Standing(a)' = Standing(a) => UNCHANGED standings
    BY <1>1 DEF standings, Standing, Underlying
  <1>3. (account'[a].status = "deleted" <=> account[a].status = "deleted")
          => UNCHANGED archive
    BY <1>1 DEF archive
  <1>4. account'[a].role = account[a].role => UNCHANGED administrators
    BY <1>1 DEF administrators
  <1> QED BY <1>2, <1>3, <1>4

(* A row that does not exist yet carries nothing.                          *)
AbsentRows == \A a \in Ids : account[a].status = "absent" => account[a] = NoRow

LEMMA AbsentStep ==
    ASSUME TypeOK, [Next]_vars, AbsentRows
    PROVE  AbsentRows'
  <1> SUFFICES ASSUME NEW a \in Ids, WritesAccount(a)
               PROVE  account'[a].status = "absent" => account'[a] = account[a]
    BY OtherRows, StepsOnAccounts DEF AbsentRows
  <1>1. CASE a \in AdminNames /\ \/ \E t \in Tokens : SetupAdmin(a, t)
                                 \/ CreateRecoveryAdmin(a)
    <2>1. account' = [account EXCEPT ![a] = AdminRow]
      BY <1>1 DEF SetupAdmin, CreateRecoveryAdmin
    <2> QED BY <2>1 DEF AdminRow, TypeOK
  <1>2. CASE a \in Players /\ Register(a)
    BY <1>2 DEF Register, PendingRow, TypeOK
  <1>3. CASE \/ \E r \in Requests, kept \in SUBSET (Tokens \cup {NoToken}) :
                  UpdatePassword(r, a, kept)
             \/ \E r \in Requests, role \in Roles : SetRole(r, a, role)
    BY <1>3 DEF UpdatePassword, SetRole, TypeOK, AccountRow
  <1>4. CASE \E r \in Requests, s \in {"active", "disabled", "deleted"} :
               SetStatus(r, a, s)
    BY <1>4 DEF SetStatus, TypeOK, AccountRow
  <1>5. CASE \E r \in Requests : Restore(r, a) \/ Approve(r, a) \/ Reject(r, a)
    BY <1>5 DEF Restore, RestoredStatus, Approve, Reject, TypeOK, AccountRow,
                Previous
  <1> QED BY <1>1, <1>2, <1>3, <1>4, <1>5 DEF WritesAccount

LEMMA LifecycleInit == Init => Lifecycle!Init
  <1> SUFFICES ASSUME Init PROVE Lifecycle!Init
    OBVIOUS
  <1>1. PICK row \in [Legacy -> LegacyRow] :
          account = [a \in Ids |-> IF a \in Legacy THEN row[a] ELSE NoRow]
    BY DEF Init
  <1>2. ASSUME NEW a \in Legacy
        PROVE  /\ a \in Ids /\ account[a] = row[a]
               /\ account[a].status \in {"active", "disabled", "deleted"}
               /\ account[a].previous = "null"
    <2>1. a \in Ids /\ account[a] = row[a] /\ row[a] \in LegacyRow
      BY <1>1, ConstantsAssumption DEF Ids
    <2> QED BY <2>1 DEF LegacyRow
  <1>3. \A a \in Ids \ Legacy : account[a] = NoRow
    BY <1>1
  <1>4. \A a \in Ids \ Legacy : Standing(a) = "none"
    BY <1>3 DEF Standing, Underlying, NoRow
  <1>5. \A a \in Legacy : Standing(a) \in {"active", "suspended"}
    BY <1>2 DEF Standing, Underlying
  <1>6. \A a \in Ids : account[a].status = "deleted" => Standing(a) # "none"
    BY <1>3, <1>5 DEF NoRow
  <1>7. \A a \in Ids : account[a].role = "admin" => Standing(a) # "none"
    BY <1>3, <1>5 DEF NoRow
  <1> QED BY <1>4, <1>5, <1>6, <1>7 DEF Lifecycle!Init

LEMMA LifecycleStep ==
    ASSUME TypeOK, [Next]_vars, AbsentRows
    PROVE  [Lifecycle!Next]_(Lifecycle!lvars)
  <1>1. CASE UNCHANGED account
    BY <1>1 DEF Lifecycle!lvars, Standing, Underlying
  <1>2. ASSUME NEW a \in Ids, WritesAccount(a)
        PROVE  Lifecycle!Next \/ UNCHANGED Lifecycle!lvars
    <2> USE LifecycleRow, LifecycleKeeps DEF standings, archive, administrators
    <2>1. CASE a \in AdminNames /\ \/ \E t \in Tokens : SetupAdmin(a, t)
                                   \/ CreateRecoveryAdmin(a)
      <3>1. account[a].status = "absent" /\ account'[a] = AdminRow
        BY <2>1 DEF SetupAdmin, CreateRecoveryAdmin, TypeOK
      <3>2. Lifecycle!Found(a)
        BY <3>1, <1>2 DEF Lifecycle!Found, Lifecycle!Move, AdminRow, Standing,
                          Underlying
      <3> QED BY <3>2 DEF Lifecycle!Next
    <2>2. CASE a \in Players /\ Register(a)
      <3>1. account[a] = NoRow /\ account'[a] = PendingRow
        BY <2>2 DEF Register, TypeOK, AbsentRows
      <3>2. Lifecycle!Apply(a)
        BY <3>1, <1>2 DEF Lifecycle!Apply, Lifecycle!Move, PendingRow, NoRow,
                          Standing, Underlying
      <3> QED BY <3>2 DEF Lifecycle!Next
    <2>3. CASE \E r \in Requests, kept \in SUBSET (Tokens \cup {NoToken}) :
                 UpdatePassword(r, a, kept)
      <3>1. /\ account'[a].status = account[a].status
            /\ account'[a].previous = account[a].previous
            /\ account'[a].role = account[a].role
        BY <2>3 DEF UpdatePassword, TypeOK, AccountRow
      <3>2. Standing(a)' = Standing(a)
        BY <3>1 DEF Standing, Underlying
      <3> QED BY <3>1, <3>2, <1>2 DEF Lifecycle!lvars
    <2>4. CASE \E r \in Requests : SetStatus(r, a, "active")
      <3>1. /\ account[a].status = "disabled" /\ account'[a].status = "active"
            /\ account'[a].role = account[a].role
        BY <2>4 DEF SetStatus, CanSetStatus, TypeOK, AccountRow
      <3>2. Lifecycle!Reinstate(a)
        BY <3>1, <1>2 DEF Lifecycle!Reinstate, Lifecycle!Move, Standing, Underlying
      <3> QED BY <3>2 DEF Lifecycle!Next
    <2>5. CASE \E r \in Requests : SetStatus(r, a, "disabled")
      <3>1. /\ account[a].status = "active" /\ account'[a].status = "disabled"
            /\ account'[a].role = account[a].role
            /\ ~LastActiveAdmin(a)
        BY <2>5 DEF SetStatus, CanSetStatus, TypeOK, AccountRow
      <3>2. Lifecycle!Suspend(a)
        BY <3>1, <1>2, DispensableIfNotLast
           DEF Lifecycle!Suspend, Lifecycle!Move, Standing, Underlying
      <3> QED BY <3>2 DEF Lifecycle!Next
    <2>6. CASE \E r \in Requests : SetStatus(r, a, "deleted")
      <3>1. /\ account[a].status \notin {"absent", "deleted"}
            /\ account'[a].status = "deleted"
            /\ account'[a].previous = account[a].status
            /\ account'[a].role = account[a].role
            /\ ~LastActiveAdmin(a)
        BY <2>6 DEF SetStatus, CanSetStatus, PreviousStatus, TypeOK, AccountRow
      <3>2. account[a].status # "null"
        BY DEF TypeOK, AccountRow, Statuses
      <3>3. Standing(a)' = Standing(a) /\ Standing(a) # "none"
        BY <3>1, <3>2 DEF Standing, Underlying, TypeOK, AccountRow, Statuses
      <3>4. Lifecycle!Archive(a)
        BY <3>1, <3>3, <1>2, DispensableIfNotLast DEF Lifecycle!Archive
      <3> QED BY <3>4 DEF Lifecycle!Next
    <2>7. CASE \E r \in Requests : Restore(r, a)
      <3>1. /\ account[a].status = "deleted"
            /\ account'[a].status = RestoredStatus(a)
            /\ account'[a].role = account[a].role
        BY <2>7 DEF Restore, TypeOK, AccountRow
      <3>2. RestoredStatus(a) \notin {"deleted", "absent"}
        BY DEF RestoredStatus, TypeOK, AccountRow, Previous
      <3>3. Standing(a)' = Standing(a)
        BY <3>1, <3>2 DEF Standing, Underlying, RestoredStatus
      <3>4. Lifecycle!Unarchive(a)
        BY <3>1, <3>2, <3>3, <1>2 DEF Lifecycle!Unarchive
      <3> QED BY <3>4 DEF Lifecycle!Next
    <2>8. CASE \E r \in Requests : Approve(r, a)
      <3>1. /\ account[a].status \in {"pending", "rejected"}
            /\ account'[a].status = "active"
            /\ account'[a].role = account[a].role
        BY <2>8 DEF Approve, TypeOK, AccountRow
      <3>2. Lifecycle!Approve(a)
        BY <3>1, <1>2 DEF Lifecycle!Approve, Lifecycle!Move, Standing, Underlying
      <3> QED BY <3>2 DEF Lifecycle!Next
    <2>9. CASE \E r \in Requests : Reject(r, a)
      <3>1. /\ account[a].status = "pending" /\ account'[a].status = "rejected"
            /\ account'[a].role = account[a].role
        BY <2>9 DEF Reject, TypeOK, AccountRow
      <3>2. Lifecycle!Reject(a)
        BY <3>1, <1>2 DEF Lifecycle!Reject, Lifecycle!Move, Standing, Underlying
      <3> QED BY <3>2 DEF Lifecycle!Next
    <2>10. CASE \E r \in Requests, role \in Roles : SetRole(r, a, role)
      <3>1. PICK role \in Roles :
              /\ account[a].status # "absent"
              /\ account'[a].status = account[a].status
              /\ account'[a].previous = account[a].previous
              /\ account'[a].role = role
              /\ role = "player" => ~LastActiveAdmin(a)
        BY <2>10 DEF SetRole, TypeOK, AccountRow
      <3>2. Standing(a) # "none" /\ Standing(a)' = Standing(a)
        BY <3>1 DEF Standing, Underlying, TypeOK, AccountRow, Previous, Statuses
      <3>3. CASE role = "admin"
        BY <3>1, <3>2, <3>3, <1>2 DEF Lifecycle!Appoint, Lifecycle!Next
      <3>4. CASE role = "player"
        BY <3>1, <3>2, <3>4, <1>2, DispensableIfNotLast
           DEF Lifecycle!Dismiss, Lifecycle!Next
      <3> QED BY <3>3, <3>4 DEF Roles
    <2> QED
      BY <1>2, <2>1, <2>2, <2>3, <2>4, <2>5, <2>6, <2>7, <2>8, <2>9, <2>10
         DEF WritesAccount
  <1> QED BY <1>1, <1>2, StepsOnAccounts

(* Whatever requests and commands do to accounts, they take the steps of   *)
(* AccountLifecycle.                                                       *)
THEOREM AccountsImplementLifecycle == Spec => LifecycleSpec
  <1>1. Init => AbsentRows
    <2> SUFFICES ASSUME Init, NEW a \in Ids, account[a].status = "absent"
                 PROVE  account[a] = NoRow
      BY DEF AbsentRows
    <2>1. PICK row \in [Legacy -> LegacyRow] :
            account = [b \in Ids |-> IF b \in Legacy THEN row[b] ELSE NoRow]
      BY DEF Init
    <2>2. a \in Legacy => row[a] \in LegacyRow /\ account[a] = row[a]
      BY <2>1
    <2> QED BY <2>1, <2>2 DEF LegacyRow
  <1> QED
    BY <1>1, AbsentStep, LifecycleInit, LifecycleStep, TypeInit, TypeStep, PTL
       DEF Spec, LifecycleSpec, Lifecycle!Spec

=============================================================================
