SPECIFICATION GameSpec
CONSTANTS
  Width = 2
  Height = 2
  Walls <- SecondRow
  MaxId = 2
  MaxPlayers = 2
  MaxHealth = 2
  GunDamage = 1
  GunRange = 2
  SwordDamage = 1
  Healing = 1
  PointsValue = 1
  ScoreModulus = 2
  MaxItems = 1
  MaxProjectiles = 2
  ItemTypes = {"GUN", "SWORD", "POINTS", "HEART"}
  Directions = {"EAST", "WEST", "SOUTH"}
  ReadsFreedNodes = TRUE
INVARIANTS
  GameTypeOK
  PlayersApart
  ProjectilesFly
PROPERTIES
  ScoreEarned
  DeadPlayersRest
CHECK_DEADLOCK FALSE
