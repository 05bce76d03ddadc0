\* Claims are put together while an admin changes memberships.
CONSTANTS
  o1 = o1 o2 = o2 u1 = u1 u2 = u2 u3 = u3 s1 = s1 q1 = q1 q2 = q2
  Orgs = {o1, o2}
  Users = {u1, u2}
  Sids = {s1}
  Owner <- OwnerU1
  Requests = {q1, q2}
  None = None
  MaxFaults = 1

SPECIFICATION Spec
SYMMETRY Symmetry
CONSTRAINT OnlyOwnerInSecond
INVARIANTS
  TypeOK
  ClaimsAreCurrent
PROPERTY LastOwnerGoesOnlyInARace
