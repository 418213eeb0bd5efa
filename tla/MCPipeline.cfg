CONSTANTS
  m1 = m1
  pl = pl
  None = None
  Match = {m1}
  League = {pl}
  LeagueOf <- OneLeague
  Gate = {scheduled, moved, played}
  Upcoming = {scheduled, moved}
  Finished = {played}
  Rejected = {}
  CronJob = {cron}
  Manual = {}
  Historic = {}
  Pod = {p1}
  MaxFeedChanges = 1
  MaxFaults = 2
  MaxTroubles = 1

SPECIFICATION PFairSpec
INVARIANTS
  NothingFallsBetween
PROPERTIES
  WorkerAsAssumed
  NumbersCatchUp
CHECK_DEADLOCK FALSE
