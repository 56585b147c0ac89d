------------------------------ MODULE MCIdentity ------------------------------
(* Instances of Identity for TLC: a name that differs from another only in *)
(* case, one that is all digits, a player id that moves between users.     *)
EXTENDS Identity, TLC

CONSTANTS ann, ANN, s1, s2, i1, i2

TheTexts == {Blank, ann, ANN, s1, s2}
InLowerCase == [t \in TheTexts |-> IF t = ANN THEN ann ELSE t]
Shared == [s \in SteamIDs |-> IF s = s1 THEN {i1, i2} ELSE {i2}]

Symmetry == Permutations(Requests)

=============================================================================
