CONSTANTS
  a = a
  b = b
  c = c
  None = None
  Team = {a, b, c}
  Date = {0, 1}
  Now = 1
  Score <- Scores
  MAX_GOALS = 3
  MaxMatches = 3
SPECIFICATION Spec
SYMMETRY Symmetry
CHECK_DEADLOCK FALSE
INVARIANTS
  TypeOK
  WalkForward
  PointsConserved
  NewcomersStartLevel
  LeagueAverageIsOne
  NilNeedsGoallessLeague
  RowAccepted
