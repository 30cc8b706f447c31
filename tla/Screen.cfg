SPECIFICATION ScreenSpec
CONSTANTS
  WorldSize <- MCWorldSize
  Noises <- MCNoise
  HeightTypes <- MCHeightTypes
  smoothing_distance = 2
  building_size_min <- MCBuildingMin
  building_size_max <- MCBuildingMax
  BlocksPerBuilding = 14
  ViewportSize <- MCViewportSize
  BlockSize <- MCBlockSize
  max_health = 1
  PlayerColumnWidths <- MCPlayerColumns
  StatisticsColumnWidth = 2
  MessageTypeCount = 1
  RespawnMessage <- MCMessage
  Contents <- MCContents
  PlayerLists <- MCPlayerLists
  TerminalSizes = {narrow, wide}
  MaxFrames = 3
SYMMETRY MCSymmetry
INVARIANTS
  EdgesStayFree
  NothingOverflows
  ViewportShowsWorld
  FrameIsFresh
  
PROPERTIES
  DoorsLeadOut
CHECK_DEADLOCK FALSE
