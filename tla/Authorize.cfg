\* Two handlers, two users of one browser, one client whose URIs change.
CONSTANTS
  q1 = q1 q2 = q2 u1 = u1 u2 = u2 p1 = p1 p2 = p2 k1 = k1 k2 = k2
  c1 = c1 x1 = x1 x2 = x2
  openid = openid profile = profile unknown = unknown
  Requests = {q1, q2}
  Users = {u1, u2}
  Clients = {c1}
  URIs = {x1, x2}
  Edits <- OneURI
  Scopes = {openid, profile, unknown}
  Known = {openid, profile}
  OpenID = openid
  Pages = {p1, p2}
  Codes = {k1, k2}
  None = None
  MaxFaults = 1

SPECIFICATION Spec
SYMMETRY Symmetry
INVARIANTS
  AuthorizeInv
  PageAnsweredOnce
  CodesAreAllowed
  DisabledGetNoCode
  CodesGoToRegisteredURIs
PROPERTY ConsentProtocol
CONSTRAINT SomethingCanBeGranted
CHECK_DEADLOCK FALSE
