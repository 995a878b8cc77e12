\* Three players and two projectiles around a wall, a health pack and a mine; standing heals
SPECIFICATION Spec
CONSTANTS
  p1 = p1  p2 = p2  p3 = p3  b1 = b1  b2 = b2
  Players = {p1, p2, p3}
  Bullets = {b1, b2}
  Width = 3  Height = 2
  Walls <- FieldWalls
  Items <- FieldItems
  InitialHealth = 2  HitValue = 1  MovementDrop = 1  StayDrop <- Healing
  Movements = 3  MaxUpdates = 2
  Discovery <- DiscoveryOrder
  NextDirection <- StraightSteps
SYMMETRY Symmetry
CHECK_DEADLOCK FALSE
CONSTRAINT HealthBound
INVARIANTS TypeOK PlayersOnMap BulletsOnMap Pursuit
PROPERTY DeadStayDead
