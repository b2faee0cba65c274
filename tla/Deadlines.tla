------------------------------ MODULE Deadlines ------------------------------
(***************************************************************************)
(* What the software timers promise to those who use them: a timer that is *)
(* running expires when its delay is over, whatever the other timers do,   *)
(* and each expiry is one call of its callback.                            *)
(***************************************************************************)
EXTENDS Integers

CONSTANTS Timers, Periodic, Delays

VARIABLES
  due,      \* due[t]: ticks until t expires, 0 when it is not running
  period,   \* period[t]: ticks a periodic t starts again with
  fired     \* fired[t]: expiries whose callback has not returned

vars == <<due, period, fired>>

Init == /\ due    = [t \in Timers |-> 0]
        /\ period = [t \in Timers |-> 0]
        /\ fired  = [t \in Timers |-> 0]

\* The period is that of the start, a restart only moves the next expiry.
Start(t, n) ==
  /\ UNCHANGED fired
  /\ due' = [due EXCEPT ![t] = n]
  /\ period' = IF due[t] = 0 THEN [period EXCEPT ![t] = n] ELSE period

Stop(t) ==
  /\ UNCHANGED <<period, fired>>
  /\ due' = [due EXCEPT ![t] = 0]

Tick ==
  /\ UNCHANGED period
  /\ due' = [t \in Timers |-> IF due[t] # 1 THEN due[t] - (IF due[t] = 0 THEN 0 ELSE 1)
                              ELSE IF t \in Periodic THEN period[t] ELSE 0]
  /\ fired' = [t \in Timers |-> IF due[t] = 1 THEN fired[t] + 1 ELSE fired[t]]

Return(t) ==
  /\ fired[t] > 0
  /\ UNCHANGED period
  /\ fired' = [fired EXCEPT ![t] = @ - 1]
  /\ UNCHANGED due

Next == \/ \E t \in Timers : Return(t) \/ Stop(t) \/ \E n \in Delays : Start(t, n)
        \/ Tick

Spec == Init /\ [][Next]_vars
=============================================================================
