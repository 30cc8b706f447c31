SPECIFICATION FairSessionSpec
CONSTANTS
  SequenceModulus = 64
  ClientFirstSequence = 10
  ServerFirstSequence = 30
  Kinds = {"PAYLOAD", "KEEP_ALIVE", "CONNECTION_RESET"}
  MaxSent = 2
  MaxErrors = 0
  MaxBacklog = 0
  MayTimeOut = FALSE
  Greeting = 1
  Traffic = 0
  MayExit = TRUE
  MayRefuse = FALSE
  MayTick = TRUE
  Killable = {"client"}

  
PROPERTIES
  ClientTerminates
  
CHECK_DEADLOCK FALSE
