SPECIFICATION StreamSpec
CONSTANTS
  ByteModulus = 11
  Flag = 7
  Escape = 8
  EndMarker = 9
  SequenceLength = 1
  LengthLength = 1
  ErrorOffsets = {3}
  FirstErrors = {4, 26}
  ErrorIntervals = {9}
  ErrorLengths = {1, 2}
  Payloads <- SpecialPayloads
  FirstSequence = 8
  SocketCapacity = 14
  MaxReceive = 2
  MaxFrames = 3
  MaxShortReads = 1
INVARIANTS
  OnlySentMessages
  LossIsLocal
  LossIsReported
  NoFalseReports
CHECK_DEADLOCK FALSE
