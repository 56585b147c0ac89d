-------------------------------- MODULE Schema --------------------------------
(***************************************************************************)
(* What the migrations promise, without transactions, locks, binaries and  *)
(* the stages of a start.                                                  *)
(*                                                                         *)
(* The schema goes up one version at a time and never back, each version   *)
(* takes effect once and is recorded in the same step. The tables do not   *)
(* change under a process that serves: it serves the version that is there *)
(* when it begins, and that one until it stops.                            *)
(***************************************************************************)
EXTENDS Naturals

CONSTANTS Processes, Latest

VARIABLES
    version,   \* the version of the tables, 0 for an empty file
    recorded,  \* the versions on record
    applied,   \* per version: how often it took effect
    serves     \* per process: the version it serves, 0 if it does not

svars == <<version, recorded, applied, serves>>

Init ==
    /\ version \in 0..Latest
    /\ recorded = 1..version
    /\ applied = [v \in 1..Latest |-> 0]
    /\ serves = [p \in Processes |-> 0]

Migrate ==
    /\ version < Latest
    /\ \A p \in Processes : serves[p] = 0
    /\ applied[version + 1] = 0
    /\ version' = version + 1
    /\ recorded' = recorded \cup {version + 1}
    /\ applied' = [applied EXCEPT ![version + 1] = 1]
    /\ UNCHANGED serves

Serve(p) ==
    /\ version # 0 /\ serves[p] = 0
    /\ serves' = [serves EXCEPT ![p] = version]
    /\ UNCHANGED <<version, recorded, applied>>

Stop(p) ==
    /\ serves[p] # 0
    /\ serves' = [serves EXCEPT ![p] = 0]
    /\ UNCHANGED <<version, recorded, applied>>

Next == Migrate \/ \E p \in Processes : Serve(p) \/ Stop(p)

Spec == Init /\ [][Next]_svars

=============================================================================
