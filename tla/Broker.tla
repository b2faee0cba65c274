------------------------------- MODULE Broker -------------------------------
(***************************************************************************)
(* What MsgBroker.h promises to its users, with every operation atomic: a  *)
(* publish reaches each observer attached at that moment, and the topic    *)
(* accepts no other update until each of them has called consumed().       *)
(* MsgBroker is shown to implement this specification (where it does).     *)
(***************************************************************************)
CONSTANTS Tasks, Topics, Values, None

VARIABLES
  subscribed,   \* subscribed[n]: the tasks attached to topic n
  outstanding,  \* outstanding[n]: those that still owe consumed() for n
  latest        \* latest[n]: the update they owe it for

vars == <<subscribed, outstanding, latest>>

Init ==
  /\ subscribed  = [n \in Topics |-> {}]
  /\ outstanding = [n \in Topics |-> {}]
  /\ latest      = [n \in Topics |-> None]

Subscribe(t, n) ==
  /\ subscribed' = [subscribed EXCEPT ![n] = @ \union {t}]
  /\ UNCHANGED <<outstanding, latest>>

\* Accepted only when nobody owes an answer: otherwise TOPIC_PENDING, a stutter.
Accept(n, v) ==
  /\ outstanding[n] = {}
  /\ outstanding' = [outstanding EXCEPT ![n] = subscribed[n]]
  /\ latest' = [latest EXCEPT ![n] = v]
  /\ UNCHANGED subscribed

Consume(t, n) ==
  /\ t \in outstanding[n]
  /\ outstanding' = [outstanding EXCEPT ![n] = @ \ {t}]
  /\ UNCHANGED <<subscribed, latest>>

Next == \E n \in Topics : \/ \E v \in Values : Accept(n, v)
                          \/ \E t \in Tasks : Subscribe(t, n) \/ Consume(t, n)

\* The broker does not owe progress to anyone: safety only.
Spec == Init /\ [][Next]_vars
=============================================================================
