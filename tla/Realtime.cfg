SPECIFICATION FairSpec
CONSTANTS
  c1 = c1
  c2 = c2
  c3 = c3
  c4 = c4
  u1 = u1
  u2 = u2
  Connections = {c1, c2, c3, c4}
  Users = {u1, u2}
  UserOf <- LaptopAndPhone
  PositionChannel = positions
  MaxFaults = 4
CHECK_DEADLOCK FALSE
INVARIANTS TypeOK SubscriptionsCoverRegistry SendersEnd
PROPERTIES AlertsResume
