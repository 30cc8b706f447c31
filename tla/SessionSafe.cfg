SPECIFICATION SessionSpec
CONSTANTS
  SequenceModulus = 64
  ClientFirstSequence = 10
  ServerFirstSequence = 30
  Kinds = {"PAYLOAD", "KEEP_ALIVE", "CONNECTION_RESET"}
  MaxSent = 2
  MaxErrors = 1
  MaxBacklog = 0
  MayTimeOut = FALSE
  Greeting = 1
  Traffic = 2
  MayExit = TRUE
  MayRefuse = TRUE
  MayTick = FALSE
  Killable = {}
INVARIANTS
  SessionTypeOK
  ClosedOnBothSides
  PlayersHaveConnections
  DisconnectHasReason
  RemovedOnce
CHECK_DEADLOCK FALSE
