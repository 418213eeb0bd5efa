CONSTANTS
  m1 = m1
  m2 = m2
  pl = pl
  cl = cl
  None = None
  Match = {m1}
  League = {pl}
  LeagueOf <- OneLeague
  Gate = {scheduled, played}
  Upcoming = {scheduled}
  Finished = {played}
  Rejected = {}
  CronJob = {cron}
  Manual = {}
  Historic = {}
  MaxFeedChanges = 1
  MaxFaults = 0

SPECIFICATION FairSpec
PROPERTIES
  ResultsIngested
CHECK_DEADLOCK FALSE
