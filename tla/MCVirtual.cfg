SPECIFICATION FairSpec
CONSTANTS
  HEAD_FLAG = 5
  MAX_SIZE = 3
  CMD_NACK = 4
  Byte <- ThreeBits
  XorByte <- BitXor
  VR = VR
  SM = SM
  Answers <- AckAndNack
  None = None
INVARIANTS
  NothingForgotten
  TimeoutArmed
  SendsWhatIsOwed
PROPERTIES
  ComesToRest
CHECK_DEADLOCK FALSE
