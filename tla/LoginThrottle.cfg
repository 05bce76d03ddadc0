\* Two requests in flight from two addresses; a session cannot be stored, or the
\* process restarts.  Guessing goes on for ever, and so does time.
CONSTANTS
  Requests = {q1, q2, q3}
  Addresses = {a1, a2}
  Emails = {e1}
  Max = 1
  Window = 2
  MaxInFlight = 2
  MaxFaults = 1

SPECIFICATION FairSpec
INVARIANTS
  ThrottleInv
  DisabledIsKeptOut
PROPERTIES RefusedForOwnFailures NobodyIsLockedOut
