SPECIFICATION Spec
CONSTANTS
  HEAD_FLAG = 5
  MAX_SIZE = 4
  CMD_NACK = 8
  Byte <- FourBits
  XorByte <- BitXor
  Answers <- SomeAnswers
  MaxFaults = 2
  None = None
INVARIANTS
  InBuffer
  AnswerAccepted
