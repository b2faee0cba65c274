SPECIFICATION FairSpec
CONSTANTS
  b = b
  l = l
  NoTimer = NoTimer
  Timers <- BothTimers
  Periodic <- BothTimers
  BeepTmr = b
  LedTmr = l
  QueueSize = 4
  Width = 65536
  BeepCalls <- SomeBeeps
  LedCalls <- AllModes
INVARIANTS
  LedFollows
PROPERTIES
  BeepTimesKept
  FlashesAsPlanned
  BeepEnds
