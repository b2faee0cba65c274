----------------------------- MODULE KeyDecoder -----------------------------
(***************************************************************************)
(* user-tasks/KeyDecoder.cpp: the task that turns edges on the key inputs  *)
(* into /keyb updates, with the interrupt path under it (EXTI lines as     *)
(* mbed's gpio_irq_api.c serves them, RTX signal flags).                   *)
(*                                                                         *)
(* KeyDecoder is the task of highest priority, so nothing delays its       *)
(* steps; an interrupt preempts it anywhere and is served at once.  The    *)
(* pins may move at any moment, while the keyboard is being read too.      *)
(* Time is abstract: a wait that has a timeout may time out.               *)
(***************************************************************************)
EXTENDS RtxSignals

CONSTANT Keys    \* the key inputs, active low

KEY_EV_PRESSED  == "pressed"
KEY_EV_RELEASED == "released"
Flags == {KEY_EV_PRESSED, KEY_EV_RELEASED}

VARIABLES
  pins,     \* the keys held down
  pend,     \* EXTI lines with a latched edge
  irqOn,    \* the lines are enabled in the NVIC
  th,       \* main has assigned _th
  tcb,      \* the thread's control block
  pc,       \* where run() is
  todo,     \* inputs readKeyboard has still to read
  result,   \* what it has gathered so far
  current,  \* _currentkey
  last,     \* _lastkey
  keycode,  \* _keydata.data.keycode, the buffer of every publish
  timeout   \* _timeout: "osWaitForever" or "REPEAT_TIMEOUT"

vars == <<pins, pend, irqOn, th, tcb, pc, todo, result, current, last, keycode, timeout>>

Labels == {"new", "th", "released", "enable", "wait", "blocked", "debounce",
           "clear", "read", "publish", "fault"}

-----------------------------------------------------------------------------
(* The world: keys move, and every edge is latched by its EXTI line.       *)

Edge(k) ==
  /\ pins' = (pins \ {k}) \union ({k} \ pins)
  /\ pend' = pend \union {k}
  /\ UNCHANGED <<irqOn, th, tcb, pc, todo, result, current, last, keycode, timeout>>

\* handle_interrupt_in clears the flag and tells the edge by the level it finds;
\* the callback sets the signal of _th.
Irq(k) ==
  /\ irqOn /\ k \in pend
  /\ pend' = pend \ {k}
  /\ tcb' = SignalSet(tcb, IF k \in pins THEN {KEY_EV_PRESSED} ELSE {KEY_EV_RELEASED})
  /\ pc' = IF ~th THEN "fault"
           ELSE IF pc = "blocked" /\ ~Blocked(tcb') THEN "debounce" ELSE pc
  /\ UNCHANGED <<pins, irqOn, th, todo, result, current, last, keycode, timeout>>

\* The task runs when no interrupt is waiting to be served.
At(label) == pc = label /\ (irqOn => pend = {})

-----------------------------------------------------------------------------
(* Start: the constructor has left every line disabled. *)

\* new Thread: the task preempts main before _th is assigned, and polls.
CreateThread ==
  /\ pc = "new" /\ pc' = "th"
  /\ UNCHANGED <<pins, pend, irqOn, th, tcb, todo, result, current, last, keycode, timeout>>

AssignTh ==
  /\ pc = "th" /\ ~th /\ th' = TRUE
  /\ UNCHANGED <<pins, pend, irqOn, tcb, pc, todo, result, current, last, keycode, timeout>>

StartReading == todo' = Keys /\ result' = {}

\* Mutant: run() does not wait for _th.
FoundTask ==
  /\ At("th")
  /\ pc' = "released" /\ StartReading
  /\ UNCHANGED <<pins, pend, irqOn, th, tcb, current, last, keycode, timeout>>

FoundTh ==
  /\ At("th") /\ th
  /\ pc' = "released" /\ StartReading
  /\ UNCHANGED <<pins, pend, irqOn, th, tcb, current, last, keycode, timeout>>

-----------------------------------------------------------------------------
\* readKeyboard reads the inputs one after the other.
Reading == pc \in {"released", "read"} /\ (irqOn => pend = {})

ReadKey(k) ==
  /\ Reading /\ k \in todo
  /\ todo' = todo \ {k}
  /\ result' = result \union ({k} \intersect pins)
  /\ UNCHANGED <<pins, pend, irqOn, th, tcb, pc, current, last, keycode, timeout>>

\* do { ... } while(_currentkey != KEY_NONE)
AllReleased ==
  /\ At("released") /\ todo = {}
  /\ current' = result
  /\ IF result = {}
       THEN /\ last' = result /\ pc' = "enable" /\ UNCHANGED <<todo, result>>
       ELSE /\ StartReading /\ UNCHANGED <<last, pc>>
  /\ UNCHANGED <<pins, pend, irqOn, th, tcb, keycode, timeout>>

EnableIrqs ==
  /\ At("enable")
  /\ irqOn' = TRUE /\ timeout' = "osWaitForever" /\ pc' = "wait"
  /\ UNCHANGED <<pins, pend, th, tcb, todo, result, current, last, keycode>>

-----------------------------------------------------------------------------
(* The loop of run(). *)

Wait ==
  /\ At("wait")
  /\ tcb' = SignalWait(tcb, Flags)
  /\ pc' = IF Blocked(tcb') THEN "blocked" ELSE "debounce"
  /\ UNCHANGED <<pins, pend, irqOn, th, todo, result, current, last, keycode, timeout>>

Timeout ==
  /\ At("blocked") /\ timeout = "REPEAT_TIMEOUT"
  /\ tcb' = WaitTimeout(tcb)
  /\ pc' = "debounce"
  /\ UNCHANGED <<pins, pend, irqOn, th, todo, result, current, last, keycode, timeout>>

\* Mutant: a timeout publishes at once, the keyboard is not read again.
DebounceOnly ==
  /\ At("debounce")
  /\ pc' = IF tcb.status = "osEventSignal" THEN "clear" ELSE "publish"
  /\ UNCHANGED <<pins, pend, irqOn, th, tcb, todo, result, current, last, keycode, timeout>>

\* Thread::wait(50), then the branch on the status of the wait.
Debounce ==
  /\ At("debounce")
  /\ IF tcb.status = "osEventSignal"
       THEN pc' = "clear" /\ UNCHANGED <<todo, result>>
       ELSE pc' = "read" /\ StartReading
  /\ UNCHANGED <<pins, pend, irqOn, th, tcb, current, last, keycode, timeout>>

Clear ==
  /\ At("clear")
  /\ tcb' = SignalClr(tcb, Flags)
  /\ pc' = "read" /\ StartReading
  /\ UNCHANGED <<pins, pend, irqOn, th, current, last, keycode, timeout>>

\* Mutants: the timeout is never disarmed; never armed again once disarmed.
AlwaysRepeat(keys) == "REPEAT_TIMEOUT"
KeepTimeout(keys)  == timeout

NextTimeout(keys) == IF keys = {} THEN "osWaitForever" ELSE "REPEAT_TIMEOUT"

\* The keyboard is read: only a signal updates the keycode (XOR as symmetric
\* difference), a timeout publishes the buffer as it is.
KeyboardRead ==
  /\ At("read") /\ todo = {}
  /\ current' = result
  /\ keycode' = IF tcb.status = "osEventSignal"
                  THEN (result \ last) \union (last \ result) ELSE keycode
  /\ timeout' = NextTimeout(result)
  /\ pc' = "publish"
  /\ UNCHANGED <<pins, pend, irqOn, th, tcb, todo, result, last>>

\* Mutant: the flags are cleared at the end of the pass, not before the reading.
PublishThenClear ==
  /\ At("publish") /\ pc' = "wait"
  /\ tcb' = SignalClr(tcb, Flags)
  /\ UNCHANGED <<pins, pend, irqOn, th, todo, result, current, last, keycode, timeout>>

\* MsgBroker::publish, its exception ignored.
Publish ==
  /\ At("publish") /\ pc' = "wait"
  /\ UNCHANGED <<pins, pend, irqOn, th, tcb, todo, result, current, last, keycode, timeout>>

-----------------------------------------------------------------------------
Init ==
  /\ pins \in SUBSET Keys /\ pend \in SUBSET Keys
  /\ irqOn = FALSE /\ th = FALSE /\ tcb = TcbInit /\ pc = "new"
  /\ todo = {} /\ result = {} /\ current = {} /\ last = {} /\ keycode = {}
  /\ timeout = "osWaitForever"

Task == \/ CreateThread \/ AssignTh \/ FoundTh \/ AllReleased \/ EnableIrqs
        \/ Wait \/ Debounce \/ Clear \/ KeyboardRead \/ Publish
        \/ \E k \in Keys : ReadKey(k)

Next == Task \/ Timeout \/ \E k \in Keys : Edge(k) \/ Irq(k)

Spec == Init /\ [][Next]_vars

\* The processor runs the highest priority task, hardware serves latched lines
\* and the tick ends delays; nobody makes the user press or release a key.
Fairness == WF_vars(Task) /\ WF_vars(Timeout) /\ \A k \in Keys : WF_vars(Irq(k))
FairSpec == Spec /\ Fairness

-----------------------------------------------------------------------------
(* Properties *)

TypeOK ==
  /\ pins \subseteq Keys /\ pend \subseteq Keys
  /\ irqOn \in BOOLEAN /\ th \in BOOLEAN
  /\ tcb \in Tcb(Flags) /\ pc \in Labels
  /\ todo \subseteq Keys /\ result \subseteq Keys
  /\ current \subseteq Keys /\ last \subseteq Keys /\ keycode \subseteq Keys
  /\ timeout \in {"osWaitForever", "REPEAT_TIMEOUT"}

\* An edge is never lost between two looks at the keyboard: whenever the task
\* goes to wait or is waiting, a key that has moved since it was read has left
\* an interrupt to be served or a signal flag, because run() clears the flags
\* before it reads the pins.
NoMissedEdge ==
  pc \in {"publish", "wait", "blocked"} /\ pins # current => pend # {} \/ tcb.events # {}

\* The repeat timeout is armed exactly while the keyboard was last read pressed.
RepeatArmed ==
  pc \in {"wait", "blocked"} => (timeout = "REPEAT_TIMEOUT" <=> current # {})

\* Once all keys stay released, the task stops repeating and sleeps (unless a callback
\* has used _th before it was assigned, and stopped the program).
RepeatStops ==
  <>[](pins = {}) => <>[](pc = "fault" \/ (pc = "blocked" /\ timeout = "osWaitForever"))

\* While the task is repeating, a keyboard that stays as it is gets read.
RepeatTracks == \A p \in SUBSET Keys :
  <>[](pins = p) /\ []<>(timeout = "REPEAT_TIMEOUT") => <>[](current = p)
=============================================================================
