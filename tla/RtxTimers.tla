------------------------------ MODULE RtxTimers ------------------------------
(***************************************************************************)
(* The software timers of the RTX kernel (rt_CMSIS.c, used through         *)
(* RtosTimer): the list of running timers, each with its delay counted     *)
(* from the one before it, and the timer thread with its message queue.    *)
(* The state is one record, tm, that the modules using timers keep:        *)
(*   list    os_timer_head: the running timers, the first to expire first  *)
(*   state   "Invalid", "Stopped" or "Running"                             *)
(*   tcnt    ticks from the expiry of the timer before it in the list      *)
(*   icnt    ticks it is inserted with again when it is periodic           *)
(*   queue   messages to the timer thread, the timers that have expired    *)
(*   busy    the timer whose callback the thread runs, or NoTimer          *)
(*   error   os_error has stopped the system                               *)
(***************************************************************************)
EXTENDS Integers, Sequences, FiniteSets, SequencesExt

CONSTANTS
  Timers,      \* timer control blocks
  Periodic,    \* those of type osTimerPeriodic
  NoTimer,
  QueueSize,   \* OS_TIMERCBQS
  Width        \* tcnt and icnt hold 0 .. Width - 1: 2^16 in the code

ASSUME TimersAssumption == NoTimer \notin Timers /\ Width \in Nat /\ Width > 2

\* The queue holds one message of each timer but the one being called back.
ASSUME RoomAssumption ==
  IsFiniteSet(Timers) /\ QueueSize \in Nat \ {0} /\ Cardinality(Timers) <= QueueSize + 1

TimersInit == [list |-> <<>>, state |-> [t \in Timers |-> "Stopped"],
               tcnt |-> [t \in Timers |-> 0], icnt |-> [t \in Timers |-> 0],
               queue |-> <<>>, busy |-> NoTimer, error |-> FALSE]

\* rt_ms2tick, with a tick of 1 ms: a delay too long is cut to the longest.
Ticks(ms) == IF ms > Width - 2 THEN Width - 2 ELSE ms

\* Ticks left until the i-th timer of the list expires.
Left(tm, i) ==
  LET sum[j \in 0 .. i] == IF j = 0 THEN 0 ELSE sum[j - 1] + tm.tcnt[tm.list[j]]
  IN  sum[i]

\* The place of timer t in the list, 0 when it is not there.
Place(tm, t) == SelectInSeq(tm.list, LAMBDA u : u = t)

\* Mutant: the delay of the next timer is not shortened.
InsertOnly(tm, t, n) ==
  LET before == {i \in DOMAIN tm.list : Left(tm, i) <= n}
      at     == 1 + Max({0} \union before)
  IN  [tm EXCEPT !.list = InsertAt(@, at, t), !.tcnt[t] = n - Left(tm, at - 1)]

\* rt_timer_insert: t expires in n ticks, after those that expire then or earlier.
Insert(tm, t, n) ==
  LET before == {i \in DOMAIN tm.list : Left(tm, i) <= n}
      at     == 1 + Max({0} \union before)
      delta  == n - Left(tm, at - 1)
  IN  [tm EXCEPT !.list = InsertAt(@, at, t),
                 !.tcnt = [u \in Timers |->
                    IF u = t THEN delta
                    ELSE IF at <= Len(tm.list) /\ u = tm.list[at]
                      THEN (@[u] - delta) % Width ELSE @[u]]]

\* Mutant: the next timer loses the delay of the one that is removed.
RemoveOnly(tm, t) ==
  [tm EXCEPT !.list = RemoveAt(@, Place(tm, t))]

\* rt_timer_remove: the delay of t is added to the next one's.
RemoveTimer(tm, t) ==
  LET at == Place(tm, t)
  IN  [tm EXCEPT !.list = RemoveAt(@, at),
                 !.tcnt = [u \in Timers |->
                    IF at < Len(tm.list) /\ u = tm.list[at + 1]
                      THEN (@[u] + tm.tcnt[t]) % Width ELSE @[u]]]

-----------------------------------------------------------------------------
\* svcTimerStart; a delay of 0 is osErrorValue.  A running timer moves to its
\* new delay and keeps its period.
TimerStart(tm, t, ms) ==
  LET n == Ticks(ms)
  IN  IF n = 0 \/ tm.state[t] = "Invalid" THEN tm
      ELSE IF tm.state[t] = "Running" THEN Insert(RemoveTimer(tm, t), t, n)
      ELSE Insert([tm EXCEPT !.state[t] = "Running", !.icnt[t] = n], t, n)

\* svcTimerStop
TimerStop(tm, t) ==
  IF tm.state[t] # "Running" THEN tm
  ELSE RemoveTimer([tm EXCEPT !.state[t] = "Stopped"], t)

\* svcTimerCreate and svcTimerDelete.
TimerCreate(tm, t) ==
  IF tm.state[t] = "Invalid" THEN [tm EXCEPT !.state[t] = "Stopped"] ELSE tm
TimerDelete(tm, t) == [TimerStop(tm, t) EXCEPT !.state[t] = "Invalid"]

-----------------------------------------------------------------------------
\* rt_mbx_psh: a thread that waits gets the message, else the queue does.
Post(tm, t) ==
  IF tm.busy = NoTimer THEN [tm EXCEPT !.busy = t]
  ELSE IF Len(tm.queue) < QueueSize THEN [tm EXCEPT !.queue = Append(@, t)]
  ELSE [tm EXCEPT !.error = TRUE]

\* Mutant: the last place of the queue is never used.
PutButLast(tm, t, room) == IF room <= 1 THEN tm ELSE Post(tm, t)

\* isrMessagePut: what is posted in this tick is stored only at its end, so the
\* room is that of the queue before the tick.
Put(tm, t, room) == IF room = 0 THEN tm ELSE Post(tm, t)

Expired(tm, t) ==
  IF t \in Periodic THEN Insert(tm, t, tm.icnt[t]) ELSE [tm EXCEPT !.state[t] = "Stopped"]

\* sysTimerTick: the head counts down, and all that come to zero leave the list,
\* are posted to the timer thread and inserted again or stopped.
TimerTick(tm) ==
  IF tm.list = <<>> THEN tm
  ELSE LET down == [tm EXCEPT !.tcnt[Head(tm.list)] = (@ - 1) % Width]
           n    == Max({0} \union {i \in DOMAIN down.list : Left(down, i) = 0})
           rest == [down EXCEPT !.list = SubSeq(@, n + 1, Len(@))]
           room == QueueSize - Len(tm.queue)
           after[i \in 0 .. n] ==
             IF i = 0 THEN rest
             ELSE Expired(Put(after[i - 1], tm.list[i], room), tm.list[i])
       IN  after[n]

\* osTimerThread comes back from a callback and gets its next message, or waits.
NextMessage(tm) ==
  IF tm.queue = <<>> THEN [tm EXCEPT !.busy = NoTimer]
  ELSE [tm EXCEPT !.busy = Head(tm.queue), !.queue = Tail(@)]
=============================================================================
