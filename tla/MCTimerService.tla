--------------------------- MODULE MCTimerService ---------------------------
(***************************************************************************)
(* Three timers, one of them one-shot, and a queue they just fit in.       *)
(* Counters hold 0 to 4, so that the longest delay asked for, 7, is cut.   *)
(***************************************************************************)
EXTENDS TimerService

CONSTANTS t1, t2, t3
ThreeTimers == {t1, t2, t3}
TwoTimers   == {t1, t2}
SomeDelays  == {0, 2, 7}

\* The periodic timers are interchangeable.
TimerSymmetry == Permutations(TwoTimers)
=============================================================================
