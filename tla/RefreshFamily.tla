--------------------------- MODULE RefreshFamily ---------------------------
(***************************************************************************)
(* What the token endpoint promises of a refresh token family, whatever    *)
(* the interleaving and the failures: the family is a baton.  It is minted *)
(* once for one owner, it is in one hand at a time (a relying party's, or  *)
(* that of a request rotating it), and once put down it is never picked up *)
(* again.                                                                  *)
(***************************************************************************)
CONSTANTS Families, Owners

VARIABLES
  stage,  \* where the baton of each family is
  owner   \* whom it was minted for: {} before, then one owner

Init ==
  /\ stage = [f \in Families |-> "unborn"]
  /\ owner = [f \in Families |-> {}]

Move(f, from, to) == stage[f] = from /\ stage' = [stage EXCEPT ![f] = to]

Mint(f, o) == Move(f, "unborn", "live") /\ owner' = [owner EXCEPT ![f] = {o}]

(* A rotation takes the live token, and returns its child. *)
Take(f) == Move(f, "live", "rotating") /\ UNCHANGED owner

Return(f) == Move(f, "rotating", "live") /\ UNCHANGED owner

(* The family is revoked, or its one live token is spent for nothing. *)
Revoke(f) == Move(f, "live", "dead") /\ UNCHANGED owner

(* Rotations fail, several at once when the process stops. *)
Abandon(S) ==
  /\ S # {} /\ \A f \in S : stage[f] = "rotating"
  /\ stage' = [f \in Families |-> IF f \in S THEN "dead" ELSE stage[f]]
  /\ UNCHANGED owner

Next ==
  \/ \E f \in Families :
       \/ \E o \in Owners : Mint(f, o)
       \/ Take(f) \/ Return(f) \/ Revoke(f)
  \/ \E S \in SUBSET Families : Abandon(S)

Spec == Init /\ [][Next]_<<stage, owner>>
=============================================================================
