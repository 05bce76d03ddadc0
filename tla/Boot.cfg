\* Two replicas, three scripts of which the second may run again, a seeded client and
\* another one whose secret is rotated.
CONSTANTS
  r1 = r1 r2 = r2 a1 = a1 a2 = a2 seeded = seeded other = other
  x1 = x1 x2 = x2 bad = bad blank = blank l1 = l1 l2 = l2
  Admins = {a1, a2}
  Clients = {seeded, other}
  URIs = {x1, x2}
  Rejected = {bad}
  Blank = blank
  Labels = {l1}
  None = None
  MaxDrawn = 3
  MaxFaults = 1
  Replicas = {r1, r2}
  Last = 3
  Idempotent = {2}
  Seeds = {seeded}
  SeedURI <- SeedX1
  SeedLabel <- SeedL1

SPECIFICATION FairSpec
INVARIANTS
  
  SchemaInOrder
  
  StuckOnlyByAHalt
  ReplacedSecretsAreRefused
  SecretsInForceAreKnown
  AnswersWork
PROPERTIES SeedsDropNoURI ReplicasServe
