SPECIFICATION SessionSpec
CONSTANTS
  SequenceModulus = 64
  ClientFirstSequence = 10
  ServerFirstSequence = 30
  Kinds = {"PAYLOAD", "KEEP_ALIVE", "CONNECTION_RESET"}
  MaxSent = 3
  MaxErrors = 0
  MaxBacklog = 0
  MayTimeOut = FALSE
  Greeting = 2
  Traffic = 2
  MayExit = TRUE
  MayRefuse = FALSE
  MayTick = FALSE
  Killable = {}
INVARIANTS
  ServerKnowsPartners
CHECK_DEADLOCK FALSE
