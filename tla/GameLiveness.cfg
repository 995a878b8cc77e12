\* A projectile whose target can run for ever; standing costs, so that both may starve in one tick
SPECIFICATION FairSpec
CONSTANTS
  p1 = p1  p2 = p2  p3 = p3  b1 = b1  b2 = b2
  Players = {p1, p2}
  Bullets = {b1}
  Width = 3  Height = 2
  Walls <- NoWalls
  Items <- NoItems
  InitialHealth = 2  HitValue = 1  MovementDrop = 0  StayDrop = 1
  Movements = 4  MaxUpdates = 1
  Discovery <- DiscoveryOrder
  NextDirection <- StraightSteps
CHECK_DEADLOCK FALSE
PROPERTIES BulletsVanish PlaysContest
