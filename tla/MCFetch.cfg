CONSTANTS
  Leagues <- TwoLeagues
  Year = 2026
  PageSize = 2
  Back = 4
  Attempts = 3

SPECIFICATION Spec
INVARIANTS
  TypeOK
  DailyAllOrNothing
  NewestSeasonsKept
PROPERTIES
  FetchEnds
CHECK_DEADLOCK FALSE
