\* Two requests in flight; a code, and a refresh token with its child and grandchild;
\* tokens expire, and one thing fails: a store call, with effect or without, an
\* answer, or the process.
CONSTANTS
  q1 = q1 q2 = q2 q3 = q3 rpA = rpA rpB = rpB gOnline = gOnline gOffline = gOffline
  k1 = k1 k2 = k2 t1 = t1 t2 = t2 t3 = t3 t4 = t4 f1 = f1 f2 = f2 v1 = v1 v2 = v2 u1 = u1 u2 = u2
  Requests = {q1, q2}
  Clients = {rpA, rpB}
  Grants = {gOnline, gOffline}
  Offline = {gOffline}
  Codes = {k1}
  RefreshTokens = {t1, t2, t3}
  Families = {f1}
  Redirects = {u1}
  Verifiers = {v1}
  NoRow = NoRow
  NoFamily = NoFamily
  CodeTTL = 1
  RefreshTTL = 1
  MaxTime = 1
  MaxFaults = 1

SPECIFICATION FairSpec
INVARIANTS
  EndpointInv
  SourceMintsOnce
  OneLiveTokenPerFamily
  ChainKeepsGrant
  DeadFamilyIsAudited
PROPERTIES FamilyProtocol ReuseRevokesFamily
