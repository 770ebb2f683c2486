SPECIFICATION FairSpec
CONSTANTS
  u1 = u1
  u2 = u2
  n1 = n1
  n2 = n2
  c1 = c1
  c2 = c2
  r1 = r1
  r2 = r2
  Handlers = {h1, h2}
  Users = {u1, u2}
  Names = {n1, n2}
  Centers = {c1, c2}
  Radii = {r1, r2}
  NoZone = NoZone
  Patches <- SomePatches
  Initial <- ThreeZones
  NumIds = 4
  MaxRequests = 3
  MaxFaults = 1
CHECK_DEADLOCK FALSE
INVARIANTS TypeOK BoundsFollowShape
PROPERTIES OwnersOnly PatchesMerge NothingAfterDelete EveryRequestAnswered
