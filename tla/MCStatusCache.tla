---------------------------- MODULE MCStatusCache ----------------------------
(* The instance of StatusCache for TLC: the info is kept for longer than   *)
(* the metrics, as in the example configuration.                           *)
EXTENDS StatusCache

Lives == [p \in Parts |-> IF p = "info" THEN 2 ELSE 1]

=============================================================================
