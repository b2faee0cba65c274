----------------------------- MODULE MCMsgBroker -----------------------------
(***************************************************************************)
(* Instances of MsgBroker for TLC: the tasks are KeyDecoder (kd),          *)
(* SysManager (sm) and VirtualReceiver (vr).                               *)
(***************************************************************************)
EXTENDS MsgBroker, TLC

CONSTANTS kd, sm, vr, gps, keyb, v1, v2

TasksAll  == {kd, sm, vr}
TasksMain == {kd, sm}
TopicsAll == {gps, keyb}
ValuesAll == {v1, v2}
ValueOne == {v1}
OrderMain == <<gps, keyb>>

\* main.cpp: KeyDecoder is High, SysManager Normal and attached to both topics.
PubMain  == {<<kd, keyb>>}
SubMain  == {<<sm, gps>>, <<sm, keyb>>}
PrioMain == (kd :> 2) @@ (sm :> 0)

\* With the link task, which is attached to /keyb too.
SubKeyb  == {<<sm, keyb>>, <<vr, keyb>>}
PrioFlat == [t \in TasksAll |-> 0]
NoPairs  == {}

\* vr also publishes to a topic of another size, as it does to /stat.
WrongAll == {<<vr, keyb>>}
PubKeyb == PubMain \union WrongAll
=============================================================================
