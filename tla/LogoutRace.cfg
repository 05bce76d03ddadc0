\* A login in flight while its session is logged out; nothing fails.
CONSTANTS
  rpA = rpA rpB = rpB s1 = s1 s2 = s2 w1 = w1 w2 = w2 l1 = l1 l2 = l2
  Clients = {rpA, rpB}
  Back = {rpA, rpB}
  Front = {rpA, rpB}
  Sids = {s1}
  Tabs = {w1}
  Logouts = {l1}
  None = None
  MaxFaults = 0

SPECIFICATION Spec
INVARIANT LogoutEndsEveryLogin
CHECK_DEADLOCK FALSE
