CONSTANTS
  None = None
  Match = {m1}
  Pod = {p1, p2}
  MaxChanges = 2
  MaxTroubles = 2

SPECIFICATION FairSpec
INVARIANTS
  TypeOK
  NoStaleNumbers
  ProseHasNumbers
  CacheHoldsCommitted
PROPERTIES
  EventuallyCurrent
CHECK_DEADLOCK FALSE
