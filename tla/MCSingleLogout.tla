--------------------------- MODULE MCSingleLogout ---------------------------
(* Values of the constants of SingleLogout for TLC. *)
EXTENDS SingleLogout, TLC

CONSTANTS rpA, rpB, s1, s2, w1, w2, l1, l2

(* Tabs and logouts are told apart by what they do only. *)
Symmetry == Permutations(Tabs) \cup Permutations(Logouts)
=============================================================================
