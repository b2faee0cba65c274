SPECIFICATION TasksSpec
CONSTANTS
  SM = SM
  None = None
  Modes <- SomeModes
  Variants <- AllVariants
  MaxBytes = 3
INVARIANTS
  NoFault
  NothingForgotten
  LooksAgain
CHECK_DEADLOCK FALSE
