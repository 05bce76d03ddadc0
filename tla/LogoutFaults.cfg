\* One failure; a second login leaves the first session behind; rpA has both channels.
CONSTANTS
  rpA = rpA rpB = rpB s1 = s1 s2 = s2 w1 = w1 w2 = w2 l1 = l1 l2 = l2
  Clients = {rpA}
  Back = {rpA}
  Front = {rpA}
  Sids = {s1, s2}
  Tabs = {w1}
  Logouts = {l1}
  None = None
  MaxFaults = 1

SPECIFICATION FairSpec
INVARIANTS
  LogoutInv
  LiveLoginsAreMembers
PROPERTIES
  LogoutIsOfOneSession
  LogoutEndsSession
CHECK_DEADLOCK FALSE
