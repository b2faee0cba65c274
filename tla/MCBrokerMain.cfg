SPECIFICATION Spec
CONSTANTS
  kd = kd
  sm = sm
  vr = vr
  gps = gps
  keyb = keyb
  v1 = v1
  v2 = v2
  None = None
  Tasks <- TasksMain
  Topics <- TopicsAll
  Values <- ValuesAll
  TopicOrder <- OrderMain
  Publishers <- PubMain
  WrongSize <- NoPairs
  Subscribers <- SubMain
  Prio <- PrioMain
  Locked = FALSE
PROPERTIES
  ImplementsBroker
CHECK_DEADLOCK FALSE
