CONSTANTS
  m1 = m1
  m2 = m2
  pl = pl
  cl = cl
  None = None
  Match = {m1, m2}
  League = {pl, cl}
  LeagueOf <- TwoLeagues
  Gate = {scheduled, malformed, played}
  Upcoming = {scheduled, malformed}
  Finished = {played}
  Rejected = {malformed}
  CronJob = {cron}
  Manual = {}
  Historic = {backfill}
  MaxFeedChanges = 1
  MaxFaults = 1

SPECIFICATION FairSpec
INVARIANTS
  UpcomingCovered
PROPERTIES
  CatchesUp
  BlockedOnlyWhileRejected
CHECK_DEADLOCK FALSE
