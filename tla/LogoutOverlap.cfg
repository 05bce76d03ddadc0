\* Two logouts of one session overlap logins at an RP with both channels; one failure.
CONSTANTS
  rpA = rpA rpB = rpB s1 = s1 s2 = s2 w1 = w1 w2 = w2 l1 = l1 l2 = l2
  Clients = {rpA}
  Back = {rpA}
  Front = {rpA}
  Sids = {s1}
  Tabs = {w1}
  Logouts = {l1, l2}
  None = None
  MaxFaults = 1

SPECIFICATION Spec
SYMMETRY Symmetry
INVARIANTS
  EarlierLoginsInv
  LogoutEndsEarlierLogins
CHECK_DEADLOCK FALSE
