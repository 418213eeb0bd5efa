CONSTANTS
  pl = pl
  ec = ec
  past = past
  now = now
  ars = ars
  che = che
  first = first
  return = return
  d1 = d1
  None = None
  Competition = {pl, ec}
  Season = {past, now}
  Team = {ars, che}
  Match = {first, return}
  Catalogue <- Listing
  CurrentSeason <- Current
  CompetitionOf <- InPl
  SeasonOf <- Seasons
  Home <- Hosts
  Away <- Guests
  Daily = {d1, d2}
  Historic = {h1}
  Batches <- Orders
  MaxRetries = 1
  MaxFaults = 1

SPECIFICATION Spec
INVARIANTS
  TypeOK
  RowsFindParents
  NoHoles
PROPERTIES
  SeasonDataKept
  EveryRunEnds
CHECK_DEADLOCK FALSE
