---------------------------- MODULE TimerService ----------------------------
(***************************************************************************)
(* The software timers as a service: threads and callbacks start, stop,    *)
(* create and delete timers at any moment, the tick interrupt counts, and  *)
(* the timer thread runs the callbacks one after the other.  Each of these *)
(* is a supervisor call or the tick handler, and they do not interrupt     *)
(* each other.                                                             *)
(*                                                                         *)
(* The timer thread has priority High, callbacks are short, and a tick is  *)
(* 1 ms: the thread is done with all its messages before late reaches      *)
(* MaxLate ticks.                                                          *)
(***************************************************************************)
EXTENDS RtxTimers, FiniteSets

CONSTANTS
  Delays,    \* delays asked for, in ms
  MaxLate    \* ticks the timer thread may take to get through its queue

\* No delay is so short that a timer expires again before the thread is through.
ASSUME ServiceAssumption ==
  /\ MaxLate \in Nat
  /\ \A ms \in Delays : ms \in Nat /\ (Ticks(ms) = 0 \/ Ticks(ms) > MaxLate)

VARIABLES
  rtx,    \* the timers
  late    \* ticks since the timer thread last waited

serviceVars == <<rtx, late>>

ServiceInit == rtx = TimersInit /\ late = 0

Start(t, ms) == rtx' = TimerStart(rtx, t, ms) /\ UNCHANGED late
Stop(t)      == rtx' = TimerStop(rtx, t) /\ UNCHANGED late
Create(t)    == rtx' = TimerCreate(rtx, t) /\ UNCHANGED late
Delete(t)    == rtx' = TimerDelete(rtx, t) /\ UNCHANGED late

ServiceTick ==
  /\ rtx.busy # NoTimer => late < MaxLate
  /\ rtx' = TimerTick(rtx)
  /\ late' = IF rtx.busy = NoTimer THEN 0 ELSE late + 1

Return ==
  /\ rtx.busy # NoTimer
  /\ rtx' = NextMessage(rtx)
  /\ late' = IF rtx'.busy = NoTimer THEN 0 ELSE late

ServiceNext ==
  /\ ~rtx.error
  /\ \/ ServiceTick \/ Return
     \/ \E t \in Timers : \/ Stop(t) \/ Create(t) \/ Delete(t)
                          \/ \E ms \in Delays : Start(t, ms)

ServiceSpec == ServiceInit /\ [][ServiceNext]_serviceVars

-----------------------------------------------------------------------------
(* Properties *)

Pending(t) == (IF rtx.busy = t THEN 1 ELSE 0)
              + Cardinality({i \in DOMAIN rtx.queue : rtx.queue[i] = t})

\* Each expiry gets to the timer thread, and the list keeps the delay of every
\* timer exact, through any starts, stops and expiries of the others.
Due(t) == IF \E i \in DOMAIN rtx.list : rtx.list[i] = t
            THEN Left(rtx, Place(rtx, t)) ELSE 0
D == INSTANCE Deadlines WITH
       Delays <- {Ticks(ms) : ms \in Delays},
       due    <- [t \in Timers |-> Due(t)],
       period <- rtx.icnt,
       fired  <- [t \in Timers |-> Pending(t)]
ImplementsDeadlines == D!Spec
=============================================================================
