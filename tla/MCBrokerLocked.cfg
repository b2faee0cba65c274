SPECIFICATION FairSpec
CONSTANTS
  kd = kd
  sm = sm
  vr = vr
  gps = gps
  keyb = keyb
  v1 = v1
  v2 = v2
  None = None
  Tasks <- TasksAll
  Topics <- TopicsAll
  Values <- ValueOne
  TopicOrder <- OrderMain
  Publishers <- PubKeyb
  WrongSize <- WrongAll
  Subscribers <- SubKeyb
  Prio <- PrioFlat
  Locked = TRUE
INVARIANTS
  TypeOK
  LookupExact
  NoFault
  CountExact
PROPERTIES
  ImplementsBroker
  CallsReturn
