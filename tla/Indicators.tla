----------------------------- MODULE Indicators -----------------------------
(***************************************************************************)
(* The buzzer and the led of SysManager on the two software timers they    *)
(* share a list, a tick and a thread with.  Their owner, a thread of       *)
(* priority Normal, starts and stops them at any moment; the timer thread, *)
(* of priority High, has no message left when the owner runs, and is done  *)
(* with its callbacks well before the next 100 ms are over.                *)
(***************************************************************************)
EXTENDS BeepGenerator, LedFlasher

CONSTANTS
  BeepCalls,    \* <<mode, time, repeat>>: what beepStart is called with
  LedCalls      \* the modes ledStart is called with

\* Two periodic timers, whose counters hold the longest delay, and what the headers' enums allow.
ASSUME IndicatorsAssumption ==
  /\ {BeepTmr, LedTmr} \subseteq Timers \intersect Periodic /\ BeepTmr # LedTmr
  /\ Width > 9 * SHORT_TIME + 2
  /\ BeepCalls \subseteq {ONE_SHOT, DUAL_SHOT, QUAD_SHOT} \X {SHORT_TIME, LONG_TIME}
                           \X {"NO_REPEAT", "REPEAT_FOREVER"}
  /\ LedCalls \subseteq Modes

vars == <<tm, beep, led, call>>

Init == /\ tm = TimersInit /\ call = <<>>
        /\ beep = BeepInit /\ led = LedInit

\* The tick handler runs at the end of each unit of time.
Tick ==
  /\ tm.busy = NoTimer
  /\ tm' = TimerTick(tm)
  /\ UNCHANGED <<beep, led, call>>

BeepOwner == /\ \/ \E c \in BeepCalls : BeepHalt(c[1], c[2], c[3])
                \/ BeepArm
                \/ BeepCalls # {} /\ BeepStop
             /\ UNCHANGED led
LedOwner  == /\ \/ \E m \in LedCalls : LedHalt(m)
                \/ LedArm
                \/ LedCalls # {} /\ LedStop
             /\ UNCHANGED beep

Callback == \/ BeepCallback /\ UNCHANGED led
            \/ LedCallback /\ UNCHANGED beep

Next == Tick \/ Callback \/ BeepOwner \/ LedOwner

Spec == Init /\ [][Next]_vars

\* Fairness without ENABLED: the timer thread has the highest priority and ends its
\* callbacks, a call that the owner has begun is gone through with, and time goes on
\* while a timer runs.  Nobody makes the owner call again.
FairSpec ==
  /\ Spec
  /\ []<>(tm.busy = NoTimer) /\ []<>(call = <<>>)
  /\ []<>(tm.list = <<>>) \/ []<><<Tick>>_vars

-----------------------------------------------------------------------------
(* Properties *)

\* Ticks gone of a delay of n that timer t was last started or inserted with.
Elapsed(t, n) ==
  IF tm.busy = t \/ \E i \in DOMAIN tm.queue : tm.queue[i] = t THEN n
  ELSE n - Left(tm, Place(tm, t))

Beeping == beep.status # "STOPPED" /\ (call # <<>> => call[1] # "beep")
Flashing == led.status # "STOPPED" /\ (call # <<>> => call[1] # "led")

\* What becomes of a beep of one shot, by BEEP and what follows it.  One that repeats has
\* its first silence in units of _time and all later ones in units of the wait, the
\* period its timer keeps.  (Two shots and four beep once, too, against BeepGenerator.h:
\* there is no plan for them here.)
BeepPlan(time, repeat) ==
  LET wait == 9 * SHORT_TIME
      s(on, ticks) == [on |-> on, ticks |-> ticks]
  IN  IF repeat = "NO_REPEAT"
        THEN [steps |-> <<s(TRUE, time), s(FALSE, time)>>, loop |-> 0]
        ELSE [steps |-> <<s(TRUE, time), s(FALSE, time), s(FALSE, wait),
                          s(TRUE, time), s(FALSE, wait)>>, loop |-> 3]

Cycle == IF tm.icnt[BeepTmr] = 9 * SHORT_TIME THEN 2 ELSE 1

\* Which command the buzzer carries out, at which step of its plan, and since when.
BeepCmd == IF Beeping THEN <<beep.mode, beep.time, beep.repeat>> ELSE <<>>
BeepStep ==
  IF ~Beeping THEN 0
  ELSE CASE beep.status = "BEEP"       -> IF Cycle = 1 THEN 1 ELSE 4
         [] beep.status = "SILENCE"    -> IF Cycle = 1 THEN 2 ELSE 5
         [] beep.status = "WAIT_CYCLE" -> 3
BeepAge ==
  IF ~Beeping THEN 0
  ELSE CASE beep.status = "BEEP"       -> Elapsed(BeepTmr, beep.time)
         [] beep.status = "SILENCE"    -> (beep.mode - beep.shots) * tm.icnt[BeepTmr]
                                            + Elapsed(BeepTmr, tm.icnt[BeepTmr])
         [] beep.status = "WAIT_CYCLE" -> Elapsed(BeepTmr, 9 * SHORT_TIME)

SingleBeeps == {c \in BeepCalls : c[1] = ONE_SHOT}

B == INSTANCE Blink WITH
       Commands <- SingleBeeps, Idle <- <<>>,
       Plan <- [c \in SingleBeeps |-> BeepPlan(c[2], c[3])],
       cmd  <- IF BeepCmd \in SingleBeeps THEN BeepCmd ELSE <<>>,
       step <- IF BeepCmd \in SingleBeeps THEN BeepStep ELSE 0,
       age  <- IF BeepCmd \in SingleBeeps THEN BeepAge ELSE 0

\* beepStart with one shot is in BEEP for exactly its time, and out of it as planned:
\* no tick, callback or call that concerns the led changes that.  (What is heard of it
\* is another matter, see Sounds.)
BeepTimesKept == B!Spec

\* "Generates a beep sound" (BeepGenerator.h): while it beeps, the output has pulses.
Sounds == beep.status = "BEEP" => beep.buzzer.pulse > 0

\* The modes with the times that LedFlasher.h gives them.  (That of one fast flash is
\* dark for 2 s, where the header says 1 s.)
PlannedModes == Modes \ {"SINGLE_FAST_FLASHING"}

LedPlan(mode) ==
  LET on(ticks)  == [on |-> TRUE, ticks |-> ticks]
      off(ticks) == [on |-> FALSE, ticks |-> ticks]
  IN CASE mode = "ON_FOREVER" -> [steps |-> <<on(0)>>, loop |-> 1]
       [] mode = "SLOW_FLASHING" -> [steps |-> <<on(10), off(10)>>, loop |-> 1]
       [] mode = "DUAL_FAST_FLASHING" ->
            [steps |-> <<on(5), off(5), on(5), off(5), off(15)>>, loop |-> 1]
       [] mode = "CONTINUOUS_FAST_FLASHING" ->
            [steps |-> <<on(5), off(5)>>, loop |-> 1]

SecondShot == IF led.mode = "DUAL_FAST_FLASHING" /\ led.shots = 1 THEN 2 ELSE 0

\* The same of the led.
LedCmd == IF Flashing THEN led.mode ELSE "none"
LedStep ==
  IF ~Flashing THEN 0
  ELSE CASE led.status = "STAT_FLASH" -> 1 + SecondShot
         [] led.status = "STAT_OFF"   -> 2 + SecondShot
         [] led.status = "STAT_WAIT"  -> IF led.mode = "DUAL_FAST_FLASHING" THEN 5 ELSE 3
LedAge ==
  IF ~Flashing \/ led.mode = "ON_FOREVER" THEN 0
  ELSE CASE led.status = "STAT_FLASH" -> Elapsed(LedTmr, led.on)
         [] led.status = "STAT_OFF"   -> Elapsed(LedTmr, led.off)
         [] led.status = "STAT_WAIT"  -> Elapsed(LedTmr, led.wait)

PlannedCalls == LedCalls \intersect PlannedModes

L == INSTANCE Blink WITH
       Commands <- PlannedCalls, Idle <- "none",
       Plan <- [m \in PlannedCalls |-> LedPlan(m)],
       cmd  <- IF LedCmd \in PlannedCalls THEN LedCmd ELSE "none",
       step <- IF LedCmd \in PlannedCalls THEN LedStep ELSE 0,
       age  <- IF LedCmd \in PlannedCalls THEN LedAge ELSE 0

\* The led is on and off for exactly the times of its mode, one flash or two in a
\* cycle, and nothing that concerns the buzzer changes that.
FlashesAsPlanned == L!Spec

\* What is written to the led is what the plan has, whenever no call is under way: it is
\* not left lit when its timer has stopped.
LedFollows == call = <<>> /\ led.mode \in PlannedCalls => (led.lit <=> L!On)

\* A beep that is not repeated ends: generator and timer come to rest again and again,
\* unless the owner keeps giving commands or asks for repetition.
BeepEnds ==
  \/ []<>(beep.status = "STOPPED" /\ tm.state[BeepTmr] = "Stopped")
  \/ []<>(call # <<>> /\ call[1] = "beep")
  \/ []<>(beep.repeat # "NO_REPEAT")
=============================================================================
