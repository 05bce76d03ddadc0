----------------------------- MODULE MCAuthorize -----------------------------
(* Authorize for TLC; Authorize.cfg gives the constants values.              *)
EXTENDS Authorize, TLC

CONSTANTS q1, q2, u1, u2, p1, p2, k1, k2, c1, x1, x2, openid, profile, unknown

OneURI == {{x} : x \in URIs}

Symmetry == Permutations(Requests) \cup Permutations(Pages) \cup Permutations(Codes)
            \cup Permutations(Users) \cup Permutations(URIs)
(* A behaviour ends with its last code: with none left nothing more is       *)
(* granted.  It ends when everyone is disabled, too.  TLC still checks the   *)
(* states with which it ends.                                                *)
SomethingCanBeGranted == Issued # Codes /\ enabled # {}
=============================================================================
