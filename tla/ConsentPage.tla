---------------------------- MODULE ConsentPage ----------------------------
(***************************************************************************)
(* What the provider promises of a consent page, whatever the interleaving *)
(* and the failures: its permission is a slip of paper.  It says what the  *)
(* page shows, it is in one place at a time (on the page, in the answer of *)
(* one user, in one authorization code), and once torn it is gone.         *)
(***************************************************************************)
CONSTANTS Pages, Offers, Users, Codes

VARIABLE slips  \* where the slip of each page is: in one place, or nowhere

Blank == [place |-> "pad"]
OnPage(offer) == [place |-> "page", offer |-> offer]
InAnswer(offer, u) == [place |-> "answer", offer |-> offer, user |-> u]
InCode(offer, u, k) == [place |-> "code", offer |-> offer, user |-> u, code |-> k]

Init == slips = [p \in Pages |-> {Blank}]

Moves(p, from, to) == slips[p] = {from} /\ slips'[p] = {to}

Show(p) == \E offer \in Offers : Moves(p, Blank, OnPage(offer))

(* Whoever submits the page decides. *)
Allow(p) ==
  \E offer \in Offers, u \in Users : Moves(p, OnPage(offer), InAnswer(offer, u))

Grant(p) ==
  \E offer \in Offers, u \in Users, k \in Codes :
    Moves(p, InAnswer(offer, u), InCode(offer, u, k))

(* A denial, an expiry or a failure. *)
Tear(p) ==
  /\ \E slip \in slips[p] : slip.place \in {"page", "answer"}
  /\ slips'[p] = {}

Stays(p) == slips'[p] = slips[p]

(* The pages have nothing to do with each other; several slips are torn at   *)
(* once when the process stops.                                              *)
Next == \A p \in Pages : Stays(p) \/ Show(p) \/ Allow(p) \/ Grant(p) \/ Tear(p)

Spec == Init /\ [][Next]_slips
=============================================================================
