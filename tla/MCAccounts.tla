----------------------------- MODULE MCAccounts -----------------------------
(* Instances of Accounts for TLC. Tokens are random and requests carry no  *)
(* identity of their own, so both sets are symmetric; the accounts are not *)
(* (one founder, one legacy player, one new player).                       *)
EXTENDS Accounts, TLC

Symmetry == Permutations(Tokens) \cup Permutations(Requests)

=============================================================================
