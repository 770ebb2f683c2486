SPECIFICATION FairSpec
CONSTANTS
  w1 = w1
  w2 = w2
  Workers = {w1}
  Consumers = {w1, w2}
  Consumer <- OwnName
  Requests = {r1, r2}
  MaxPings = 1
  ChunkSize = 2
  BacklogLimit = 0
  StreamMaxLen = 1
  ReadCount = 2
  NoOne = NoOne
  MaxEntries = 3
  MaxFaults = 2
INVARIANTS TypeOK BacklogBound
PROPERTIES GateReopens EveryEntrySettles
