----------------------------- MODULE LedFlasher -----------------------------
(***************************************************************************)
(* user-tasks/LedFlasher.cpp: a led that flashes, timed by a periodic      *)
(* RtosTimer that its callback starts again with each delay.  Times are in *)
(* units of 100 ms; call is <<"led", mode>> between the steps of ledStart. *)
(***************************************************************************)
EXTENDS TimerOwner

CONSTANT LedTmr    \* _tmr

VARIABLE led       \* _status, _mode, the three times, _shots, what was written to _led

Modes == {"ON_FOREVER", "SLOW_FLASHING", "SINGLE_FAST_FLASHING",
          "DUAL_FAST_FLASHING", "CONTINUOUS_FAST_FLASHING"}

TIME_DISABLED == 0
TIME_FAST == 5
TIME_SLOW == 10
TIME_WAIT == 15

LedInit == [status |-> "STOPPED", mode |-> "ON_FOREVER", on |-> 0, off |-> 0,
            wait |-> 0, shots |-> 0, lit |-> FALSE]

-----------------------------------------------------------------------------
\* ledStart: the timer is stopped first ...
LedHalt(mode) ==
  /\ Free /\ call = <<>>
  /\ tm' = TimerStop(tm, LedTmr)
  /\ call' = <<"led", mode>>
  /\ UNCHANGED led

Timing(mode) == IF mode = "SLOW_FLASHING" THEN TIME_SLOW ELSE TIME_FAST
Waits(mode)  == mode \in {"SINGLE_FAST_FLASHING", "DUAL_FAST_FLASHING"}

\* Mutant: a dual shot broken off leaves its count to the next one.
LitOnly(mode) == [led EXCEPT !.status = "STAT_FLASH", !.mode = mode, !.lit = TRUE,
  !.on = Timing(mode), !.off = Timing(mode),
  !.wait = IF Waits(mode) THEN TIME_WAIT ELSE TIME_DISABLED]

\* ... then the led is lit; ON_FOREVER leaves the times as they were.
Lit(mode) ==
  IF mode = "ON_FOREVER"
    THEN [led EXCEPT !.status = "STAT_FLASH", !.mode = mode, !.lit = TRUE]
    ELSE [led EXCEPT !.status = "STAT_FLASH", !.mode = mode, !.lit = TRUE,
            !.on = Timing(mode), !.off = Timing(mode),
            !.wait = IF Waits(mode) THEN TIME_WAIT ELSE TIME_DISABLED,
            !.shots = IF Waits(mode) THEN 0 ELSE @]

\* ... and the timer started, but for ON_FOREVER.
LedArm ==
  /\ Free /\ call # <<>> /\ call[1] = "led"
  /\ led' = Lit(call[2])
  /\ tm' = IF call[2] = "ON_FOREVER" THEN tm ELSE TimerStart(tm, LedTmr, led'.on)
  /\ call' = <<>>

\* Mutant: a led that is stopped stays lit.
LedStopOnly ==
  /\ Free /\ call = <<>>
  /\ tm' = TimerStop(tm, LedTmr)
  /\ led' = [led EXCEPT !.status = "STOPPED"]
  /\ UNCHANGED call

LedStop ==
  /\ Free /\ call = <<>>
  /\ tm' = TimerStop(tm, LedTmr)
  /\ led' = [led EXCEPT !.status = "STOPPED", !.lit = FALSE]
  /\ UNCHANGED call

-----------------------------------------------------------------------------
(* ledTimer, the callback: STAT_FLASH goes to STAT_OFF; STAT_OFF to        *)
(* STAT_FLASH or, at the end of a cycle that has a wait, to STAT_WAIT;     *)
(* STAT_WAIT to STAT_FLASH.                                                *)

EndOfCycle ==
  led.wait # TIME_DISABLED /\ (led.mode = "SINGLE_FAST_FLASHING" \/ led.shots # 0)

Dual == led.wait # TIME_DISABLED /\ led.mode # "SINGLE_FAST_FLASHING"

LedNext ==
  IF led.status = "STAT_FLASH" THEN [led EXCEPT !.status = "STAT_OFF", !.lit = FALSE]
  ELSE IF led.status = "STAT_OFF" THEN
    IF EndOfCycle
      THEN [led EXCEPT !.status = "STAT_WAIT", !.shots = IF Dual THEN 0 ELSE @]
      ELSE [led EXCEPT !.status = "STAT_FLASH", !.lit = TRUE,
                       !.shots = IF Dual THEN @ + 1 ELSE @]
  ELSE IF led.status = "STAT_WAIT" THEN [led EXCEPT !.status = "STAT_FLASH", !.lit = TRUE]
  ELSE led

LedTimed ==
  CASE led'.status = "STAT_OFF"   -> TimerStart(tm, LedTmr, led.off)
    [] led'.status = "STAT_WAIT"  -> TimerStart(tm, LedTmr, led.wait)
    [] led'.status = "STAT_FLASH" -> TimerStart(tm, LedTmr, led.on)
    [] led'.status = "STOPPED"    -> tm

LedCallback ==
  /\ tm.busy = LedTmr
  /\ led' = LedNext
  /\ tm' = NextMessage(LedTimed)
  /\ UNCHANGED call
=============================================================================
