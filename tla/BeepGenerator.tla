---------------------------- MODULE BeepGenerator ----------------------------
(***************************************************************************)
(* user-tasks/BeepGenerator.cpp: beeps on a PWM output, timed by a         *)
(* periodic RtosTimer.  Times are in units of 100 ms.  call is             *)
(* <<"beep", mode, time, repeat>> between the steps of beepStart.          *)
(***************************************************************************)
EXTENDS TimerOwner

CONSTANT BeepTmr    \* _tmr

VARIABLE beep       \* _status, _mode, _time, _repeat, _shots and _buzzer

ONE_SHOT  == 1
DUAL_SHOT == 2
QUAD_SHOT == 4
SHORT_TIME == 2
LONG_TIME  == 10

-----------------------------------------------------------------------------
\* PwmOut::period_us: pwmout_api.c sets the duty cycle again with the old period,
\* so the pulse stays as it is, and is lost with a period of 0.
PeriodUs(pwm, us) ==
  [period |-> us, pulse |-> IF pwm.pulse > pwm.period THEN pwm.period ELSE pwm.pulse]

\* PwmOut(), then period_us(250) and pulsewidth_us(0).
Buzzer == [period |-> 250, pulse |-> 0]

BeepInit == [status |-> "STOPPED", mode |-> 0, time |-> 0, repeat |-> "NO_REPEAT",
             shots |-> 0, buzzer |-> Buzzer]

-----------------------------------------------------------------------------
\* beepStart: the timer is stopped first ...
BeepHalt(mode, time, repeat) ==
  /\ Free /\ call = <<>>
  /\ tm' = TimerStop(tm, BeepTmr)
  /\ call' = <<"beep", mode, time, repeat>>
  /\ UNCHANGED beep

\* ... and started when everything is set.
BeepArm ==
  /\ Free /\ call # <<>> /\ call[1] = "beep"
  /\ beep' = [status |-> "BEEP", mode |-> call[2], time |-> call[3], repeat |-> call[4],
              shots |-> call[2], buzzer |-> PeriodUs(beep.buzzer, 125)]
  /\ tm' = TimerStart(tm, BeepTmr, call[3])
  /\ call' = <<>>

BeepStop ==
  /\ Free /\ call = <<>>
  /\ tm' = TimerStop(tm, BeepTmr)
  /\ beep' = [beep EXCEPT !.status = "STOPPED", !.shots = 0, !.buzzer = PeriodUs(@, 0)]
  /\ UNCHANGED call

-----------------------------------------------------------------------------
(* beepTimer, the callback: by status, what it does to the object and to   *)
(* the timer.                                                              *)

LastShot == beep.status = "SILENCE" /\ beep.shots = 1

BeepNext ==
  IF beep.status = "BEEP" THEN [beep EXCEPT !.status = "SILENCE", !.buzzer = PeriodUs(@, 0)]
  ELSE IF beep.status = "WAIT_CYCLE"
    THEN [beep EXCEPT !.status = "BEEP", !.shots = beep.mode, !.buzzer = PeriodUs(@, 125)]
  ELSE IF beep.status = "SILENCE"
    THEN [beep EXCEPT !.shots = (@ - 1) % 256,
                      !.status = IF ~LastShot THEN @
                                 ELSE IF beep.repeat = "NO_REPEAT" THEN "STOPPED"
                                 ELSE "WAIT_CYCLE"]
  ELSE beep

\* Mutant: the next beep is not timed, the timer goes on as for the wait.
BeepNotTimed ==
  IF beep.status = "STOPPED" THEN TimerStop(tm, BeepTmr)
  ELSE IF ~LastShot THEN tm
  ELSE IF beep.repeat = "NO_REPEAT" THEN TimerStop(tm, BeepTmr)
  ELSE TimerStart(TimerStop(tm, BeepTmr), BeepTmr, 9 * SHORT_TIME)

\* Mutant: the timer is stopped with the sound.
BeepStoppedEarly ==
  IF beep.status \in {"STOPPED", "BEEP"} THEN TimerStop(tm, BeepTmr)
  ELSE IF beep.status = "WAIT_CYCLE" THEN TimerStart(tm, BeepTmr, beep.time)
  ELSE IF ~LastShot THEN tm
  ELSE IF beep.repeat = "NO_REPEAT" THEN TimerStop(tm, BeepTmr)
  ELSE TimerStart(TimerStop(tm, BeepTmr), BeepTmr, 9 * SHORT_TIME)

BeepTimed ==
  IF beep.status = "STOPPED" THEN TimerStop(tm, BeepTmr)
  ELSE IF beep.status = "WAIT_CYCLE" THEN TimerStart(tm, BeepTmr, beep.time)
  ELSE IF ~LastShot THEN tm
  ELSE IF beep.repeat = "NO_REPEAT" THEN TimerStop(tm, BeepTmr)
  ELSE TimerStart(TimerStop(tm, BeepTmr), BeepTmr, 9 * SHORT_TIME)

BeepCallback ==
  /\ tm.busy = BeepTmr
  /\ beep' = BeepNext
  /\ tm' = NextMessage(BeepTimed)
  /\ UNCHANGED call
=============================================================================
