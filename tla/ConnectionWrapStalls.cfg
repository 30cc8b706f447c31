SPECIFICATION FairSpec
CONSTANTS
  SequenceModulus = 8
  ClientFirstSequence = 5
  ServerFirstSequence = 2
  Kinds = {"PAYLOAD"}
  MaxSent = 2
  MaxErrors = 0
  MaxBacklog = 0
  MayTimeOut = FALSE
PROPERTIES
  EveryMessageDelivered
