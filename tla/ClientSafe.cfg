SPECIFICATION ClientSpec
CONSTANTS
  IdModulus = 4
  MaxId = 3
  MaxPlayers = 2
  ProjectileLists <- Lists
  Keys <- KeyBytes
  MaxTyped = 1
  MayInterrupt = TRUE
  MaxChanges = 1
  MaxBacklog = 1
INVARIANTS
  OwnPlayerKept
  CopyCatchesUp
  ScreenShowsWorld
  InputIsThere
CHECK_DEADLOCK FALSE
