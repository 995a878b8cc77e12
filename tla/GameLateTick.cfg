\* Steps cost, standing heals as in the shipped settings, and a tick may stand for two periods
SPECIFICATION FairSpec
CONSTANTS
  p1 = p1  p2 = p2  p3 = p3  b1 = b1  b2 = b2
  Players = {p1, p2}
  Bullets = {b1}
  Width = 3  Height = 2
  Walls <- NoWalls
  Items <- NoItems
  InitialHealth = 1  HitValue = 1  MovementDrop = 1  StayDrop <- Healing
  Movements = 3  MaxUpdates = 2
  Discovery <- DiscoveryOrder
  NextDirection <- StraightSteps
CHECK_DEADLOCK FALSE
CONSTRAINT HealthBound
PROPERTY LosesAtZero
