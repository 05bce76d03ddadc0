---------------------------- MODULE MCOrgTenancy ----------------------------
(* Values of the constants of OrgTenancy for TLC. *)
EXTENDS OrgTenancy, TLC

CONSTANTS o1, o2, u1, u2, u3, s1, q1, q2

OwnerU1 == [s \in {s1} |-> u1]

Symmetry == Permutations(Requests) \cup Permutations(Orgs)
(* Claims are about the owner of the session, who needs both organizations;  *)
(* the other user, whom the last owner needs, joins the first one only.      *)
OnlyOwnerInSecond ==
  Len(orgs) = 2 => \A u \in Users \ {u1} : ~IsMember(u, orgs[2])
=============================================================================
