SPECIFICATION FairSpec
CONSTANTS
  w1 = w1
  w2 = w2
  Workers = {w1}
  Consumers = {w1, w2}
  Consumer <- OwnName
  Requests = {r1}
  MaxPings = 1
  ChunkSize = 1
  BacklogLimit = 1
  StreamMaxLen = 2
  ReadCount = 2
  NoOne = NoOne
  MaxEntries = 2
  MaxFaults = 0
PROPERTIES StaleCounterIsReset
