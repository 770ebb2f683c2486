SPECIFICATION FairSpec
CONSTANTS
  d1 = d1
  d2 = d2
  Workers = {w1, w2}
  Devices = {d1, d2}
  NumPings = 3
  Device <- TwoDevices
  ReadCount = 2
  MaxReclaims = 1
  MaxFaults = 1
INVARIANTS TypeOK NothingForgotten
PROPERTIES BackOnlyByRace PositionsAreShown
