----------------------------- MODULE TimerOwner -----------------------------
(***************************************************************************)
(* What BeepGenerator and LedFlasher share: the timers, and the thread     *)
(* that starts and stops them.                                             *)
(*                                                                         *)
(* Their calls run in a thread of lower priority than the timer thread: no *)
(* callback is pending when they take a step, and none comes between their *)
(* steps once they have stopped the timer.                                 *)
(***************************************************************************)
EXTENDS RtxTimers

VARIABLES
  tm,     \* the RTX timers
  call    \* between the steps of beepStart or ledStart, which and with what

\* The timer thread waits.
Free == tm.busy = NoTimer
=============================================================================
