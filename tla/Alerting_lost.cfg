SPECIFICATION Spec
CONSTANTS
  d1 = d1
  d2 = d2
  z1 = z1
  z2 = z2
  u1 = u1
  u2 = u2
  Workers = {w1, w2}
  Devices = {d1, d2}
  Zones = {z1, z2}
  Users = {u1, u2}
  Owner <- TwoOwners
  Pings <- ParkedPings
  NumPings = 2
  ReadCount = 2
  MaxReclaims = 1
  MaxExpiries = 1
  MaxFaults = 1
CHECK_DEADLOCK FALSE
INVARIANTS ParkedIsTold
