SPECIFICATION Spec
CONSTANTS
  w1 = w1
  w2 = w2
  Workers = {w1, w2}
  Consumers = {w1, w2}
  Consumer <- SharedName
  Requests = {r1}
  MaxPings = 2
  ChunkSize = 1
  BacklogLimit = 1
  StreamMaxLen = 2
  ReadCount = 2
  NoOne = NoOne
  MaxEntries = 3
  MaxFaults = 1
INVARIANTS NoLossWithinWindow DuplicatesOnlyFromRedelivery
PROPERTIES AckOnlyWritten ImplementsLedger
