SPECIFICATION FairClientSpec
CONSTANTS
  IdModulus = 4
  MaxId = 2
  MaxPlayers = 1
  ProjectileLists <- LiveLists
  Keys <- LiveKeys
  MaxTyped = 1
  MayInterrupt = FALSE
  MaxChanges = 1
  MaxBacklog = 1
PROPERTIES
  
  ScreenCatchesUp
CHECK_DEADLOCK FALSE
