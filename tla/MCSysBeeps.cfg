SPECIFICATION FairSpec
CONSTANTS
  SM = SM
  None = None
  Modes <- SomeModes
  Variants <- AsItIs
PROPERTY
  KeyBeeps
CHECK_DEADLOCK FALSE
