SPECIFICATION Spec
CONSTANTS
  SequenceModulus = 16
  ClientFirstSequence = 12
  ServerFirstSequence = 2
  Kinds = {"PAYLOAD", "CONNECTION_RESET"}
  MaxSent = 2
  MaxErrors = 1
  MaxBacklog = 1
  MayTimeOut = TRUE
INVARIANTS
  TypeOK
  NoProtocolException
  OneOutstanding
  ReadyMeansDelivered
  NothingLost
  HandshakeAgreement
  ReceiveQueueBounded
PROPERTIES
  ImplementsLink
CHECK_DEADLOCK FALSE
