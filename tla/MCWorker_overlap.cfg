CONSTANTS
  m1 = m1
  m2 = m2
  pl = pl
  cl = cl
  None = None
  Match = {m1, m2}
  League = {pl}
  LeagueOf <- OneLeague
  Gate = {scheduled, played}
  Upcoming = {scheduled}
  Finished = {played}
  Rejected = {}
  CronJob = {cron}
  Manual = {manual}
  Historic = {}
  MaxFeedChanges = 1
  MaxFaults = 2

SYMMETRY Symmetry
SPECIFICATION Spec
INVARIANTS
  TypeOK
  NoLostChange
PROPERTIES
  NoRedundantEvent
  NoticeKept
CHECK_DEADLOCK FALSE
