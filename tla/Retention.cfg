SPECIFICATION FairSpec
CONSTANTS
  NumRows = 5
  Purgers = {p1, p2}
  RetentionDays = 1
  BatchSize = 2
  MaxPasses = 2
  LastDay = 3
  RecordedOn = {0, 1}
  MaxFaults = 1
INVARIANTS TypeOK
PROPERTIES OnlyExpiredRowsGo PurgeIsComplete ExpiredRowsGo
