------------------------------- MODULE Allowance -------------------------------
(***************************************************************************)
(* What the limiter promises, without a map to keep or to purge.           *)
(*                                                                         *)
(* A window of a key is open from the call that opens it until it closes,  *)
(* a fixed time later, by itself. While it is open the key has what is     *)
(* left of its limit, and nothing but its own calls takes from it.         *)
(***************************************************************************)
EXTENDS Naturals

CONSTANTS Keys, Limit, Window

VARIABLES
    now,       \* the clock
    window,    \* per key: the calls used and when it closes, or Closed
    admitted   \* per key: the calls let through

avars == <<now, window, admitted>>

Open(used, closes) == [used |-> used, closes |-> closes]
Closed == Open(0, 0)

Init ==
    /\ now = 0
    /\ window = [k \in Keys |-> Closed]
    /\ admitted = [k \in Keys |-> 0]

Admit(k) ==
    /\ \/ /\ window[k] = Closed
          /\ window' = [window EXCEPT ![k] = Open(1, now + Window)]
       \/ /\ window[k].used \in 1..(Limit - 1)
          /\ window' = [window EXCEPT
                          ![k] = Open(window[k].used + 1, window[k].closes)]
    /\ admitted' = [admitted EXCEPT ![k] = @ + 1]
    /\ UNCHANGED now

Tick ==
    /\ now' = now + 1
    /\ window' = [k \in Keys |-> IF window[k].closes = now' THEN Closed
                                                           ELSE window[k]]
    /\ UNCHANGED admitted

Next == Tick \/ \E k \in Keys : Admit(k)

Spec == Init /\ [][Next]_avars

=============================================================================
