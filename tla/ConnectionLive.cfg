SPECIFICATION FairSpec
CONSTANTS
  SequenceModulus = 64
  ClientFirstSequence = 10
  ServerFirstSequence = 30
  Kinds = {"PAYLOAD"}
  MaxSent = 1
  MaxErrors = 1
  MaxBacklog = 0
  MayTimeOut = FALSE
PROPERTIES
  EveryMessageDelivered
  HandshakeCompletes
  
