-------------------------- MODULE KeyDecoder_proofs --------------------------
(***************************************************************************)
(* Proofs about KeyDecoder, for any set of keys: type correctness, no edge *)
(* missed, the repeat timeout armed by the last reading.  The second part  *)
(* carries them over to KeyDecoderNew, which starts at the constructor,    *)
(* and bounds what uses _th too early there, for any vectors.  The last    *)
(* part is about GpsReader: run() never sleeps on a byte.                  *)
(***************************************************************************)
EXTENDS KeyDecoderNew, GpsReader, TLAPS

\* A thread's control block stays one, whatever is done to its signals.
LEMMA TcbTypes ==
  ASSUME NEW t \in Tcb(Flags), NEW F \in SUBSET Flags
  PROVE  /\ SignalWait(t, F) \in Tcb(Flags) /\ SignalSet(t, F) \in Tcb(Flags)
         /\ SignalClr(t, F) \in Tcb(Flags) /\ WaitTimeout(t) \in Tcb(Flags)
  BY DEF Tcb, TcbStates, Statuses, SignalWait, SignalSet, SignalClr, WaitTimeout,
         Signalled, Blocked

\* A signal to a thread that stays blocked, or was not blocked, leaves a flag.
LEMMA SetLeavesFlag ==
  ASSUME NEW t \in Tcb(Flags), NEW F \in SUBSET Flags, F # {},
         Blocked(t) => Blocked(SignalSet(t, F))
  PROVE  /\ SignalSet(t, F).events # {} /\ (Blocked(SignalSet(t, F)) <=> Blocked(t))
         /\ SignalSet(t, F).waits = t.waits
  BY DEF Tcb, TcbStates, SignalSet, Signalled, Blocked

\* The states of the run() before and after the lines are enabled.
Starting == {"new", "th", "released", "enable"}
Looping  == Labels \ (Starting \union {"fault"})

\* Key k has moved since the reading that view stands for.
Moved(k, view) == (k \in pins) # (k \in view)

Trace(k) == k \in pend \/ (irqOn /\ tcb.events # {})

\* Where the task is, what it has set up by then, and whether it is blocked.
Control ==
  /\ pc # "fault"
  /\ irqOn <=> pc \in Looping
  /\ pc \notin {"new", "th"} => th
  /\ Blocked(tcb) <=> pc = "blocked"
  /\ pc = "blocked" => tcb.waits = Flags

\* Every key read since the flags were cleared leaves a trace when it moves.
Tracked ==
  /\ pc \in {"released", "read"} =>
       /\ result \intersect todo = {}
       /\ \A k \in Keys \ todo : Moved(k, result) => Trace(k)
  /\ pc \in {"enable", "publish", "wait", "blocked"} =>
       \A k \in Keys : Moved(k, current) => Trace(k)

\* The timeout follows the last reading from the moment it is set.
Armed ==
  /\ pc = "enable" => current = {}
  /\ pc \in {"publish", "wait", "blocked"} =>
       (timeout = "REPEAT_TIMEOUT" <=> current # {})

Inv == TypeOK /\ Control /\ Tracked /\ Armed

-----------------------------------------------------------------------------
\* The lines are disabled and nothing has been read.
LEMMA InitInv == Init => Inv
<1> SUFFICES ASSUME Init PROVE Inv
  OBVIOUS
<1>1. TypeOK
  BY DEF Init, TypeOK, Labels, Tcb, TcbInit, TcbStates, Statuses
<1>2. Control
  BY DEF Init, Control, Labels, Starting, Looping, Blocked, TcbInit
<1>3. Tracked
  BY DEF Init, Tracked
<1>4. Armed
  BY DEF Init, Armed
<1> QED
  BY <1>1, <1>2, <1>3, <1>4 DEF Inv

\* Inv is inductive.
LEMMA NextInv == Inv /\ [Next]_vars => Inv'
<1> SUFFICES ASSUME Inv, [Next]_vars PROVE Inv'
  OBVIOUS
<1> USE DEF Inv, TypeOK, Control, Armed, Labels, Starting, Looping, At
<1>1. ASSUME NEW k \in Keys, Edge(k) PROVE Inv'
  BY <1>1 DEF Edge, Tracked, Moved, Trace
<1>2. ASSUME NEW k \in Keys, Irq(k) PROVE Inv'
  <2> DEFINE F == IF k \in pins THEN {KEY_EV_PRESSED} ELSE {KEY_EV_RELEASED}
  <2>1. F \in SUBSET Flags /\ F # {}
    BY DEF Flags
  <2>2. tcb' = SignalSet(tcb, F) /\ tcb' \in Tcb(Flags)
    BY <1>2, <2>1, TcbTypes DEF Irq
  <2>3. th /\ pc \in Looping /\ irqOn
    BY <1>2 DEF Irq
  <2>4. CASE pc = "blocked" /\ ~Blocked(tcb')
    BY <1>2, <2>2, <2>3, <2>4 DEF Irq, Tracked
  <2>5. CASE ~(pc = "blocked" /\ ~Blocked(tcb'))
    <3>1. pc' = pc
      BY <1>2, <2>3, <2>5 DEF Irq
    <3>2. tcb'.events # {} /\ (Blocked(tcb') <=> Blocked(tcb)) /\ tcb'.waits = tcb.waits
      BY <2>1, <2>2, <2>5, SetLeavesFlag
    <3>3. \A j : Trace(j)'
      BY <1>2, <2>3, <3>2 DEF Irq, Trace
    <3> QED
      BY <1>2, <2>2, <2>3, <3>1, <3>2, <3>3 DEF Irq, Tracked
  <2> QED
    BY <2>4, <2>5
<1>3. CASE CreateThread
  BY <1>3 DEF CreateThread, Tracked, Moved, Trace
<1>4. CASE AssignTh
  BY <1>4 DEF AssignTh, Tracked, Moved, Trace
<1>5. CASE FoundTh
  BY <1>5 DEF FoundTh, StartReading, Tracked, Moved, Trace
<1>6. CASE AllReleased
  BY <1>6 DEF AllReleased, StartReading, Tracked, Moved, Trace
<1>7. CASE EnableIrqs
  BY <1>7 DEF EnableIrqs, Tracked, Moved, Trace
<1>8. CASE Wait
  <2>1. tcb' = SignalWait(tcb, Flags) /\ tcb' \in Tcb(Flags)
    BY <1>8, TcbTypes DEF Wait
  <2>2. Blocked(tcb') => tcb'.events = tcb.events /\ tcb'.waits = Flags
    BY <2>1 DEF SignalWait, Signalled, Blocked, Tcb
  <2> QED
    BY <1>8, <2>1, <2>2 DEF Wait, Tracked, Moved, Trace
<1>9. CASE Timeout
  <2>1. tcb' \in Tcb(Flags) /\ ~Blocked(tcb')
    BY <1>9, TcbTypes DEF Timeout, WaitTimeout, Blocked, Tcb, Flags
  <2> QED
    BY <1>9, <2>1 DEF Timeout, Tracked, Moved, Trace
<1>10. CASE Debounce
  BY <1>10 DEF Debounce, StartReading, Tracked, Moved, Trace
<1>11. CASE Clear
  <2>1. tcb' \in Tcb(Flags) /\ ~Blocked(tcb')
    BY <1>11, TcbTypes DEF Clear, SignalClr, Blocked, Tcb
  <2> QED
    BY <1>11, <2>1 DEF Clear, StartReading, Tracked, Moved, Trace
<1>12. CASE KeyboardRead
  BY <1>12 DEF KeyboardRead, NextTimeout, Tracked, Moved, Trace
<1>13. CASE Publish
  BY <1>13 DEF Publish, Tracked, Moved, Trace
<1>14. ASSUME NEW k \in Keys, ReadKey(k) PROVE Inv'
  BY <1>14 DEF ReadKey, Reading, Tracked, Moved, Trace
<1>15. CASE UNCHANGED vars
  BY <1>15 DEF vars, Tracked, Moved, Trace
<1> QED
  BY <1>1, <1>2, <1>3, <1>4, <1>5, <1>6, <1>7, <1>8, <1>9, <1>10, <1>11, <1>12, <1>13,
     <1>14, <1>15 DEF Next, Task

LEMMA Invariance == Spec => []Inv
  BY InitInv, NextInv, PTL DEF Spec

\* Type correctness of KeyDecoder, for any set of keys.
THEOREM TypeCorrect == Spec => []TypeOK
  BY Invariance, PTL DEF Inv

\* Clearing the flags before reading the pins, run() never sleeps on an edge it
\* has not seen: it is still latched, or a flag is set.
THEOREM EdgesLeaveTraces == Spec => []NoMissedEdge
<1>1. Inv => NoMissedEdge
  BY DEF Inv, TypeOK, Tracked, Moved, Trace, NoMissedEdge
<1> QED
  BY <1>1, Invariance, PTL

\* run() arms the repeat timeout exactly while it last saw a key pressed.
THEOREM RepeatFollowsReading == Spec => []RepeatArmed
<1>1. Inv => RepeatArmed
  BY DEF Inv, Armed, RepeatArmed
<1> QED
  BY <1>1, Invariance, PTL

-----------------------------------------------------------------------------
(* KeyDecoderNew: from the first line of the constructor on.               *)

\* The lines of the keys that come later have no callback, the vectors of those that
\* came before are disabled, and nothing else has begun.
Exposure ==
  /\ at \in Nat \ {0} /\ step \in 1 .. 3
  /\ callback \in [Keys -> SUBSET {"fall", "rise"}] /\ enabled \subseteq Vectors
  /\ Constructing =>
       /\ pc = "new" /\ ~irqOn
       /\ \A i \in DOMAIN Order : callback[Order[i]] # {} => i <= at
       /\ \A i \in DOMAIN Order : i < at => Vector[Order[i]] \notin enabled

Sound == Inv /\ Exposure /\ OnlyFirstExposed

\* The program has stopped in the constructor, in the callback of an exposed key.
Broken == /\ pc = "fault" /\ Constructing /\ TypeOK
          /\ early # {} /\ OnlyFirstExposed

NewInv == Sound \/ Broken

LEMMA NewInitInv == NewInit => Sound
<1> SUFFICES ASSUME NewInit PROVE Sound
  OBVIOUS
<1>1. Inv
  BY InitInv DEF NewInit
<1>2. Exposure
  BY NewAssumption DEF NewInit, Init, Exposure
<1>3. OnlyFirstExposed
  BY DEF NewInit, OnlyFirstExposed
<1> QED
  BY <1>1, <1>2, <1>3 DEF Sound

\* An interrupt that uses _th is one of the key the constructor is at, and no vector
\* before it is its own.
LEMMA ExposedIsFirst ==
  ASSUME Sound, Constructing, NEW k \in Servable, callback[k] # {}
  PROVE  k \in FirstOfVector
<1>1. k \in Keys
  BY DEF Sound, Inv, TypeOK, Servable
<1>2. PICK i \in DOMAIN Order : k = Order[i]
  BY <1>1, NewAssumption
<1>3. i = at
  BY <1>2, NewAssumption DEF Sound, Exposure, Servable
<1>4. \A h \in 1 .. i - 1 : Vector[Order[h]] # Vector[Order[i]]
  BY <1>2, <1>3, NewAssumption DEF Sound, Exposure, Servable
<1> QED
  BY <1>2, <1>4 DEF FirstOfVector

\* While the program has not stopped.
LEMMA SoundNext == Sound /\ [NewNext]_allVars => NewInv'
<1> SUFFICES ASSUME Sound, [NewNext]_allVars PROVE NewInv'
  OBVIOUS
<1> USE DEF Sound, NewInv
<1>0. Order \in Seq(Keys) /\ Len(Order) \in Nat /\ DOMAIN Order = 1 .. Len(Order)
  BY NewAssumption
<1>1. ASSUME NEW k \in Keys, NewEdge(k) PROVE NewInv'
  <2>1. Inv'
    BY <1>1 DEF NewEdge, task, Exposure, Inv, TypeOK, Control, Tracked, Armed, Looping, Starting, Labels
  <2>2. Exposure' /\ OnlyFirstExposed'
    BY <1>1 DEF NewEdge, task, Exposure, Constructing, OnlyFirstExposed
  <2> QED
    BY <2>1, <2>2
<1>2. ASSUME NEW k \in Keys, NewIrq(k) PROVE NewInv'
  <2>1. early' # early => callback[k] # {} /\ early' = early \union {k}
    BY <1>2 DEF NewIrq, Calls
  <2>2. early' \subseteq FirstOfVector
    BY <1>2, <2>1, ExposedIsFirst DEF OnlyFirstExposed, NewIrq
  <2>3. CASE pc' = pc
    <3>1. Inv'
      BY <1>2, <2>3 DEF NewIrq, Exposure, Inv, TypeOK, Control, Tracked, Armed, Looping, Starting, Labels
    <3>2. Exposure'
      BY <1>2, <2>3 DEF NewIrq, Exposure, Constructing
    <3> QED
      BY <2>2, <3>1, <3>2 DEF OnlyFirstExposed
  <2>4. CASE pc' = "fault" /\ Calls(k)
    <3>1. TypeOK' /\ Constructing'
      BY <1>2, <2>4 DEF NewIrq, Inv, TypeOK, Labels, Constructing
    <3>2. early' # {}
      BY <1>2, <2>4 DEF NewIrq
    <3> QED
      BY <2>2, <2>4, <3>1, <3>2 DEF Broken, OnlyFirstExposed
  <2> QED
    BY <1>2, <2>3, <2>4 DEF NewIrq
<1>3. ASSUME NEW e \in {"fall", "rise"}, Attach(e) PROVE NewInv'
  <2>1. Inv' /\ OnlyFirstExposed'
    BY <1>3 DEF Attach, task, exti, Inv, TypeOK, Control, Tracked, Moved, Trace, Armed, OnlyFirstExposed
  <2>2. at' = at /\ step' \in 1 .. 3
    <3>1. Steps[step] = e /\ Moves /\ step \in 1 .. 3
      BY <1>3 DEF Attach, NewAt, Exposure
    <3>2. step # 3 /\ Len(Steps) = 3
      BY <1>3, <3>1 DEF Steps
    <3> QED
      BY <3>1, <3>2 DEF Moves
  <2>3. Exposure'
    <3>1. /\ Constructing /\ Constructing' /\ pc' = pc /\ irqOn' = irqOn /\ enabled' = enabled
          /\ at \in DOMAIN Order
      BY <1>0, <1>3, <2>2 DEF Attach, NewAt, task, Exposure, Constructing
    <3>2. /\ callback' \in [Keys -> SUBSET {"fall", "rise"}]
          /\ \A k \in Keys : k # Order[at] => callback'[k] = callback[k]
      BY <1>3 DEF Attach, Exposure
    <3>3. \A i \in DOMAIN Order : callback'[Order[i]] # {} => i <= at
      BY <3>1, <3>2, NewAssumption DEF Exposure
    <3> QED
      BY <2>2, <3>1, <3>2, <3>3 DEF Exposure
  <2> QED
    BY <2>1, <2>3
<1>4. CASE Disable
  <2>1. Inv' /\ OnlyFirstExposed'
    BY <1>4 DEF Disable, task, exti, Inv, TypeOK, Control, Tracked, Moved, Trace, Armed, OnlyFirstExposed
  <2>2. at' = at + 1 /\ step' = 1
    BY <1>4 DEF Disable, NewAt, Moves, Steps, Exposure
  <2>3. Exposure'
    BY <1>0, <1>4, <2>2 DEF Disable, NewAt, task, exti, Exposure, Constructing
  <2> QED
    BY <2>1, <2>3
<1>5. CASE Run
  <2>1. Inv'
    BY <1>5, NextInv DEF Run
  <2>2. Exposure' /\ OnlyFirstExposed'
    BY <1>5 DEF Run, Exposure, Constructing, OnlyFirstExposed
  <2> QED
    BY <2>1, <2>2
<1>6. CASE UNCHANGED allVars
  <2>1. Inv'
    BY <1>6, NextInv DEF allVars
  <2> QED
    BY <1>6, <2>1 DEF allVars, vars, Exposure, Constructing, OnlyFirstExposed
<1> QED
  BY <1>1, <1>2, <1>3, <1>4, <1>5, <1>6 DEF NewNext, Construct

\* Once it has stopped, only keys move.
LEMMA BrokenNext == Broken /\ [NewNext]_allVars => Broken'
<1> SUFFICES ASSUME Broken, [NewNext]_allVars PROVE Broken'
  OBVIOUS
<1>1. UNCHANGED allVars \/ \E k \in Keys : NewEdge(k)
  BY DEF Broken, NewNext, Construct, Attach, Disable, NewAt, Run, NewIrq
<1>2. UNCHANGED <<task, at, early>> /\ pins' \subseteq Keys /\ pend' \subseteq Keys
  BY <1>1 DEF Broken, TypeOK, NewEdge, allVars, vars, task
<1> QED
  BY <1>2 DEF Broken, TypeOK, Constructing, OnlyFirstExposed, task

\* NewInv is inductive.
LEMMA NewNextInv == NewInv /\ [NewNext]_allVars => NewInv'
  BY SoundNext, BrokenNext DEF NewInv

LEMMA NewInvariance == NewSpec => []NewInv
<1>1. NewInit => NewInv
  BY NewInitInv DEF NewInv
<1> QED
  BY <1>1, NewNextInv, PTL DEF NewSpec

\* From the constructor on, whatever its edges and interrupts do: types.
THEOREM NewTypeCorrect == NewSpec => []TypeOK
  BY NewInvariance, PTL DEF NewInv, Sound, Broken, Inv

\* No interrupt that run() has enabled meets a _th that is not assigned: those that do
\* are served while the constructor attaches the callbacks.
THEOREM NewFaultsOnlyEarly == NewSpec => []FaultsOnlyEarly
<1>1. NewInv => FaultsOnlyEarly
  BY DEF NewInv, Sound, Broken, Inv, Control, FaultsOnlyEarly
<1> QED
  BY <1>1, NewInvariance, PTL

\* No edge is lost between two looks at the keyboard.
THEOREM NewEdgesLeaveTraces == NewSpec => []NoMissedEdge
<1>1. NewInv => NoMissedEdge
  BY DEF NewInv, Sound, Broken, Inv, TypeOK, Tracked, Moved, Trace, NoMissedEdge
<1> QED
  BY <1>1, NewInvariance, PTL

\* The repeat timeout follows the last reading.
THEOREM NewRepeatFollowsReading == NewSpec => []RepeatArmed
<1>1. NewInv => RepeatArmed
  BY DEF NewInv, Sound, Broken, Inv, Armed, RepeatArmed
<1> QED
  BY <1>1, NewInvariance, PTL

\* An interrupt uses _th before the constructor has assigned it only for the first key
\* of each vector: the disable_irq() of one key covers all that share its vector.
THEOREM FirstExposed == NewSpec => []OnlyFirstExposed
  BY NewInvariance, PTL DEF NewInv, Sound, Broken

-----------------------------------------------------------------------------
(* GpsReader, the other task that interrupts wake, for any number of bytes. *)

DataReady == "GPS_EV_DATAREADY"
Awaits(t) == Blocked(t) /\ t.waits = {DataReady} /\ DataReady \notin t.events

GpsShape ==
  /\ gpsTcb \in Tcb(GpsFlags) /\ rxne \in BOOLEAN /\ tc \in BOOLEAN /\ seen \in BOOLEAN
  /\ attached \subseteq Irqs
  /\ IF gpsPc = "attach_rx" THEN attached = {} ELSE "RxIrq" \in attached

\* run() only sleeps in signal_wait, for a flag that is not set.
GpsAsleep == Blocked(gpsTcb) => gpsPc = "blocked" /\ Awaits(gpsTcb)

\* A byte that readable() has not been asked about is in the register, has set the
\* flag, or has set it before and run() is on its way to readable().
GpsRemembered ==
  seen => \/ rxne
          \/ gpsPc # "attach_rx" /\ DataReady \in gpsTcb.events
          \/ gpsPc \in {"clear", "readable"}
          \/ gpsPc = "blocked" /\ ~Blocked(gpsTcb)

GpsInv == GpsShape /\ GpsAsleep /\ GpsRemembered

\* What a step of the signals does to a control block, and where it leaves the flag.
LEMMA GpsSetsReady ==
  ASSUME NEW t \in Tcb(GpsFlags), NEW F \in SUBSET GpsFlags,
         Blocked(t) => Awaits(t)
  PROVE  /\ SignalSet(t, F) \in Tcb(GpsFlags)
         /\ Blocked(SignalSet(t, F)) =>
              Blocked(t) /\ Awaits(SignalSet(t, F)) /\ DataReady \notin F
         /\ ~Blocked(t) => SignalSet(t, F).events = t.events \union F
  BY DEF Tcb, TcbStates, Statuses, SignalSet, Signalled, Blocked, Awaits

LEMMA GpsWaitsReady ==
  ASSUME NEW t \in Tcb(GpsFlags)
  PROVE  /\ SignalWait(t, {DataReady}) \in Tcb(GpsFlags)
         /\ Blocked(SignalWait(t, {DataReady})) =>
              Awaits(SignalWait(t, {DataReady})) /\ DataReady \notin t.events
  BY DEF Tcb, TcbStates, Statuses, SignalWait, Signalled, Blocked, DataReady, GpsFlags,
         Awaits

LEMMA GpsClearsReady ==
  ASSUME NEW t \in Tcb(GpsFlags), ~Blocked(t)
  PROVE  SignalClr(t, {DataReady}) \in Tcb(GpsFlags) /\ ~Blocked(SignalClr(t, {DataReady}))
  BY DEF Tcb, TcbStates, Statuses, SignalClr, Blocked

-----------------------------------------------------------------------------
LEMMA GpsStarts == GpsInit => GpsInv
<1> SUFFICES ASSUME GpsInit PROVE GpsInv
  OBVIOUS
<1>1. gpsTcb \in Tcb(GpsFlags) /\ ~Blocked(gpsTcb)
  BY DEF GpsInit, TcbInit, Tcb, TcbStates, Statuses, Blocked
<1> QED
  BY <1>1 DEF GpsInit, GpsInv, GpsShape, GpsAsleep, GpsRemembered

LEMMA GpsSteps == GpsInv /\ [GpsNext]_gpsVars => GpsInv'
<1> SUFFICES ASSUME GpsInv, [GpsNext]_gpsVars PROVE GpsInv'
  OBVIOUS
<1> USE DEF GpsInv, GpsShape, GpsAsleep, GpsRemembered, Awaits
<1>1. CASE Arrive
  BY <1>1 DEF Arrive
\* The handler clears RXNE, and the flag takes its place.
<1>2. CASE UartIrq
  <2>1. Raised \in SUBSET GpsFlags /\ (rxne /\ "RxIrq" \in attached => DataReady \in Raised)
    BY DEF Raised, GpsFlags, DataReady
  <2>2. /\ gpsTcb' = SignalSet(gpsTcb, Raised) /\ rxne' = FALSE /\ tc' = FALSE
        /\ attached' = attached /\ gpsPc' = gpsPc /\ seen' = seen
    BY <1>2 DEF UartIrq
  <2>3. /\ gpsTcb' \in Tcb(GpsFlags)
        /\ Blocked(gpsTcb') => Blocked(gpsTcb) /\ Awaits(gpsTcb') /\ DataReady \notin Raised
        /\ ~Blocked(gpsTcb) => gpsTcb'.events = gpsTcb.events \union Raised
    BY <2>1, <2>2, GpsSetsReady
  <2>4. "RxIrq" \in attached /\ gpsPc # "attach_rx"
    BY <1>2 DEF UartIrq, Pending
  <2>5. GpsRemembered'
    <3>1. CASE Blocked(gpsTcb)
      BY <2>1, <2>2, <2>3, <2>4, <3>1
    <3>2. CASE ~Blocked(gpsTcb)
      BY <2>1, <2>2, <2>3, <2>4, <3>2
    <3> QED
      BY <3>1, <3>2
  <2> QED
    BY <2>2, <2>3, <2>4, <2>5
<1>3. CASE AttachIrq("RxIrq", "attach_rx", "attach_tx")
  BY <1>3 DEF AttachIrq, Step, Irqs
<1>4. CASE AttachIrq("TxIrq", "attach_tx", "wait")
  BY <1>4 DEF AttachIrq, Step, Irqs
<1>5. CASE AwaitData
  <2>1. /\ gpsTcb' = SignalWait(gpsTcb, {DataReady}) /\ gpsPc = "wait"
        /\ gpsPc' = IF Blocked(gpsTcb') THEN "blocked" ELSE "clear"
        /\ UNCHANGED <<rxne, tc, attached, seen>> /\ ~Pending
    BY <1>5 DEF AwaitData, uart, DataReady
  <2>2. /\ gpsTcb' \in Tcb(GpsFlags)
        /\ Blocked(gpsTcb') => Awaits(gpsTcb') /\ DataReady \notin gpsTcb.events
    BY <2>1, GpsWaitsReady
  <2>3. "RxIrq" \in attached /\ ~rxne
    BY <2>1 DEF Pending
  <2> QED
    BY <2>1, <2>2, <2>3
<1>6. CASE Wake
  BY <1>6 DEF Wake, Step, uart
<1>7. CASE ClearReady
  <2>1. /\ gpsTcb' = SignalClr(gpsTcb, {DataReady}) /\ gpsPc = "clear" /\ gpsPc' = "readable"
        /\ UNCHANGED <<rxne, tc, attached, seen>>
    BY <1>7 DEF ClearReady, Step, uart, DataReady
  <2>2. gpsTcb' \in Tcb(GpsFlags) /\ ~Blocked(gpsTcb')
    BY <2>1, GpsClearsReady
  <2> QED
    BY <2>1, <2>2
<1>8. CASE Readable
  BY <1>8 DEF Readable, Load, uart
<1>9. CASE Getc
  BY <1>9 DEF Getc, Load, uart
<1>10. CASE Read
  BY <1>10 DEF Read, Step
<1>11. CASE UNCHANGED gpsVars
  BY <1>11 DEF gpsVars
<1> QED
  BY <1>1, <1>2, <1>3, <1>4, <1>5, <1>6, <1>7, <1>8, <1>9, <1>10, <1>11 DEF GpsNext, GpsRun

LEMMA GpsInvariance == GpsSpec => []GpsInv
  BY GpsStarts, GpsSteps, PTL DEF GpsSpec

\* Every byte makes run() look at the receiver: it does not sleep when a byte has come
\* since it last asked readable(), unless the interrupt that wakes it is pending.
THEOREM NeverSleepsOnAByte == GpsSpec => []LooksAgain
<1>1. GpsInv => LooksAgain
  BY DEF GpsInv, GpsShape, GpsAsleep, GpsRemembered, Awaits, LooksAgain, Pending
<1> QED
  BY <1>1, GpsInvariance, PTL
=============================================================================
