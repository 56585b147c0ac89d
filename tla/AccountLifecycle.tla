-------------------------- MODULE AccountLifecycle --------------------------
(***************************************************************************)
(* What the account tables promise, without rows, sessions or requests.    *)
(*                                                                         *)
(* An account has a standing, may be an administrator, and may be archived *)
(* (soft-deleted). Archiving hides an account and changes neither of the   *)
(* other two, so taking it out of the archive cannot approve anybody, and  *)
(* nobody is in good standing who was not approved or founded. Once        *)
(* somebody is in charge, somebody always is.                              *)
(***************************************************************************)
EXTENDS FiniteSets

CONSTANTS Ids, Legacy

VARIABLES
    standing,  \* "none", "pending", "active", "rejected" or "suspended"
    archived,  \* accounts that are hidden
    admins     \* accounts with the administrator's role

lvars == <<standing, archived, admins>>

InCharge == {a \in admins \ archived : standing[a] = "active"}

(* Somebody other than a is in charge, or a is not.                        *)
Dispensable(a) == a \in InCharge => InCharge \ {a} # {}

Init ==
    /\ standing \in [Ids -> {"none", "active", "suspended"}]
    /\ \A a \in Ids \ Legacy : standing[a] = "none"
    /\ archived \in SUBSET {a \in Ids : standing[a] # "none"}
    /\ admins \in SUBSET {a \in Ids : standing[a] # "none"}

Move(a, from, to) ==
    /\ a \notin archived
    /\ standing[a] \in from
    /\ standing' = [standing EXCEPT ![a] = to]
    /\ UNCHANGED archived

Found(a) == Move(a, {"none"}, "active") /\ admins' = admins \cup {a}
Apply(a) == Move(a, {"none"}, "pending") /\ UNCHANGED admins
Approve(a) == Move(a, {"pending", "rejected"}, "active") /\ UNCHANGED admins
Reject(a) == Move(a, {"pending"}, "rejected") /\ UNCHANGED admins
Suspend(a) == /\ Dispensable(a)
              /\ Move(a, {"active"}, "suspended")
              /\ UNCHANGED admins
Reinstate(a) == Move(a, {"suspended"}, "active") /\ UNCHANGED admins

Archive(a) ==
    /\ standing[a] # "none"
    /\ a \notin archived
    /\ Dispensable(a)
    /\ archived' = archived \cup {a}
    /\ UNCHANGED <<standing, admins>>

Unarchive(a) ==
    /\ a \in archived
    /\ archived' = archived \ {a}
    /\ UNCHANGED <<standing, admins>>

Appoint(a) ==
    /\ standing[a] # "none"
    /\ admins' = admins \cup {a}
    /\ UNCHANGED <<standing, archived>>

Dismiss(a) ==
    /\ standing[a] # "none"
    /\ Dispensable(a)
    /\ admins' = admins \ {a}
    /\ UNCHANGED <<standing, archived>>

Next ==
    \E a \in Ids :
        \/ Found(a) \/ Apply(a)
        \/ Approve(a) \/ Reject(a)
        \/ Suspend(a) \/ Reinstate(a)
        \/ Archive(a) \/ Unarchive(a)
        \/ Appoint(a) \/ Dismiss(a)

Spec == Init /\ [][Next]_lvars

=============================================================================
