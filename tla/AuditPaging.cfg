\* Five events, some at the same time; pages of one to three.
CONSTANTS
  Times = {1, 2}
  Ids = {1, 2, 3, 4, 5}
  DefaultLimit = 2
  MaxLimit = 3
  Limits = {0, 1, 4, None}
  None = None
  MaxFaults = 1

SPECIFICATION Spec
INVARIANTS
  PagingInv
  ShownInOrder
  WalkShowsAll
  LinksWork
  StoresAgree
CHECK_DEADLOCK FALSE
