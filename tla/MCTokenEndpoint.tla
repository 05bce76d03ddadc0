-------------------------- MODULE MCTokenEndpoint --------------------------
(* Values of the constants of TokenEndpoint for TLC. *)
EXTENDS TokenEndpoint, TLC

CONSTANTS q1, q2, q3, rpA, rpB, gOnline, gOffline, k1, k2, t1, t2, t3, t4, f1, f2, v1, v2, u1, u2

TwoRequests == {q1, q2}
ThreeRequests == {q1, q2, q3}

(* Which goroutine serves a request, and the random values, carry no meaning. *)
Symmetry == Permutations(TwoRequests) \cup Permutations({t1, t2, t3}) \cup Permutations({f1, f2})
Symmetry3 == Permutations(ThreeRequests) \cup Permutations({t1, t2, t3}) \cup Permutations({f1, f2})
=============================================================================
