SPECIFICATION ServiceSpec
CONSTANTS
  t1 = t1
  t2 = t2
  t3 = t3
  NoTimer = NoTimer
  Timers <- ThreeTimers
  Periodic <- TwoTimers
  QueueSize = 2
  Width = 5
  Delays <- SomeDelays
  MaxLate = 1
PROPERTIES
  ImplementsDeadlines
SYMMETRY TimerSymmetry
