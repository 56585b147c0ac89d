------------------------------- MODULE MCTasks -------------------------------
(* Instances of Tasks for TLC: users, texts and requests are               *)
(* interchangeable.                                                        *)
EXTENDS Tasks, TLC

Symmetry == Permutations(Users) \cup Permutations(Texts) \cup Permutations(Requests)

=============================================================================
