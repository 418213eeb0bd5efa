CONSTANTS
  Match = {m1}
  Client = {c1, c2}
  Ttl = 2
  MaxTexts = 3
  MaxOutages = 1

SPECIFICATION Spec
INVARIANTS
  TypeOK
  StaleWithinCycle
  NotFoundIsHonest
  AnswersCommitted
SYMMETRY Symmetry
CHECK_DEADLOCK FALSE
