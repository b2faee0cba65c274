--------------------------- MODULE VirtualReceiver ---------------------------
(***************************************************************************)
(* user-tasks/VirtualReceiver.cpp: the task between the topics and the     *)
(* peer at the other end of the wifi modem.  It composes the decoder of    *)
(* PduCodec, the broker as Broker.tla has it, the signal flags of          *)
(* RtxSignals and the receiver of the UART: GpsReader.tla has its          *)
(* interrupt in steps, here it is one with the byte.  A publish in the     *)
(* middle of a lookup of the task may hide the topic from it (MsgBroker,   *)
(* findTopic): each call of the task may miss.                             *)
(*                                                                         *)
(* The module starts when run() has found _th and attached its callbacks.  *)
(* The peer answers when it likes, and may speak unasked.                  *)
(***************************************************************************)
EXTENDS PduCodec, RtxSignals

CONSTANTS
  VR,        \* the VirtualReceiver object
  SM,        \* another observer, of the topics VR publishes
  Answers,   \* the data of the PDUs the peer sends
  None

Sources == <<"/keyb", "/gps">>         \* in the order of their handlers
Topics  == {"/keyb", "/gps", "/alarm", "/stat"}

\* sizeof the data of a topic, as main installs it, and of what VR publishes for it.
Installed == [n \in Topics |-> CASE n = "/stat" -> 20 [] n = "/alarm" -> 8
                                 [] n = "/gps" -> 16 [] n = "/keyb" -> 4]
AlarmSize == 8

VARIABLES
  subscribed, outstanding, latest,   \* the broker
  buffer,                            \* what the data of /keyb and /gps point to (Ages)
  tcb, pc, at,                       \* the thread, where run() is, which source it handles
  armed,                             \* _timeout is TIME_TO_VALID_RESPONSE
  rx, dr, wire,                      \* the decoder, the data register, bytes under way
  tx                                 \* the data of _txpdu

broker == <<subscribed, outstanding, latest>>
line   == <<dr, wire>>
vars == <<subscribed, outstanding, latest, buffer, tcb, pc, at, armed, rx, dr, wire, tx>>

B == INSTANCE Broker WITH Tasks <- {VR, SM}, Values <- {"update"}

\* What is in a publisher's buffer: the data of an update that VR has given back, of the
\* one that it owes, or of one that was written later and has not been accepted.
Ages == {"given", "owed", "later"}

DATAREADY == "VR_EV_DATAREADY"
Awaited   == {DATAREADY, "/keyb", "/gps"}

-----------------------------------------------------------------------------
(* Publishers, the other observer, the peer and its line *)

\* An update that is accepted; OnTopicUpdateCallback sets the flag of the topic.
Publish(n) ==
  /\ pc # "missed"
  /\ B!Accept(n, "update")
  /\ buffer' = [buffer EXCEPT ![n] = "owed"]
  /\ tcb' = SignalSet(tcb, {n})
  /\ UNCHANGED <<pc, at, armed, rx, line, tx>>

\* Each publisher writes the next update into the same buffer before it calls publish,
\* which may refuse it.
Write(n) ==
  /\ pc # "missed" /\ buffer[n] # None
  /\ buffer' = [buffer EXCEPT ![n] = "later"]
  /\ UNCHANGED <<broker, tcb, pc, at, armed, rx, line, tx>>

ConsumeOther(n) ==
  /\ pc # "missed"
  /\ B!Consume(SM, n)
  /\ UNCHANGED <<buffer, tcb, pc, at, armed, rx, line, tx>>

Answer(data) ==
  /\ pc # "missed"
  /\ wire = <<>> /\ wire' = Frame(data)
  /\ UNCHANGED <<broker, buffer, tcb, pc, at, armed, rx, dr, tx>>

\* A byte comes, its interrupt calls RxISRCallback, and uart_irq clears RXNE before the
\* task goes on.  Only a load of the status register that the pending interrupt lets go
\* first sees the bit: that of readable(), or that of getc() in its loop.
Arrive ==
  /\ pc # "missed" /\ wire # <<>>
  /\ wire' = Tail(wire) /\ dr' = Head(wire)
  /\ tcb' = SignalSet(tcb, {DATAREADY})
  /\ \/ pc' = pc
     \/ pc = "poll" /\ pc' = "getc"
     \/ pc = "getc" /\ pc' = "read"
  /\ UNCHANGED <<broker, buffer, at, armed, rx, tx>>

TimeOut ==
  /\ armed /\ Blocked(tcb)
  /\ tcb' = WaitTimeout(tcb)
  /\ UNCHANGED <<broker, buffer, pc, at, armed, rx, line, tx>>

-----------------------------------------------------------------------------
(* run() *)

\* The broker takes an update of the size it was told for the topic, when it finds the
\* topic and nobody owes it an answer for the last update; else it gives an exception,
\* not looked at.
Published(n, size) ==
  \/ size = Installed[n] /\ B!Accept(n, "update")
  \/ UNCHANGED broker

\* signal_wait for all three flags.
Wait ==
  /\ pc = "wait" /\ pc' = "blocked"
  /\ tcb' = SignalWait(tcb, Awaited)
  /\ UNCHANGED <<broker, buffer, at, armed, rx, line, tx>>

Wake ==
  /\ pc = "blocked" /\ ~Blocked(tcb)
  /\ pc' = IF tcb.status = "osEventTimeout" THEN "timeout" ELSE "data"
  /\ UNCHANGED <<broker, buffer, tcb, at, armed, rx, line, tx>>

\* Mutant: the protocol is not reset.
GaveUpHalf ==
  /\ pc = "timeout" /\ pc' = "wait"
  /\ IF rx.stat # "WAIT_COMMAND"
       THEN Published("/alarm", AlarmSize) /\ armed' = FALSE
       ELSE UNCHANGED <<broker, armed>>
  /\ UNCHANGED <<buffer, tcb, at, rx, line, tx>>

\* Both alarm codes are 0.
GiveUp ==
  /\ pc = "timeout" /\ pc' = "wait"
  /\ IF rx.stat # "WAIT_COMMAND"
       THEN /\ Published("/alarm", AlarmSize)
            /\ armed' = FALSE /\ rx' = [rx EXCEPT !.stat = "WAIT_COMMAND"]
       ELSE UNCHANGED <<broker, armed, rx>>
  /\ UNCHANGED <<buffer, tcb, at, line, tx>>

ClearData ==
  /\ pc = "data" /\ pc' = "poll"
  /\ tcb' = SignalClr(tcb, {DATAREADY})
  /\ UNCHANGED <<broker, buffer, at, armed, rx, line, tx>>

\* readable() says no.
NoMore ==
  /\ pc = "poll"
  /\ pc' = "clear" /\ at' = 1
  /\ UNCHANGED <<broker, buffer, tcb, armed, rx, line, tx>>

\* getc() loads the data register, and decodePdu; a NACK is left at that.
Decode ==
  /\ pc = "read"
  /\ rx' = IF Ready(rx, dr) THEN rx ELSE Decoded(rx, dr)
  /\ pc' = IF Ready(rx, dr) /\ ~Nack(rx.data) THEN "stat" ELSE "poll"
  /\ UNCHANGED <<broker, buffer, tcb, at, armed, line, tx>>

\* publish("/stat", &_alarmdata, sizeof(Topic::AlarmData_t), &e)
Stat ==
  /\ pc = "stat" /\ pc' = "poll"
  /\ Published("/stat", AlarmSize)
  /\ armed' = FALSE /\ rx' = [rx EXCEPT !.stat = "WAIT_COMMAND"]
  /\ UNCHANGED <<buffer, tcb, at, line, tx>>

ClearKey ==
  /\ pc = "clear" /\ pc' = "copy"
  /\ tcb' = SignalClr(tcb, {Sources[at]})
  /\ UNCHANGED <<broker, buffer, at, armed, rx, line, tx>>

\* Mutant: the name of the other topic.
CopyKey ==
  /\ pc = "copy"
  /\ \/ pc' = "consume" /\ tx' = buffer["/keyb"]
     \/ pc' = "missed" /\ UNCHANGED tx
  /\ UNCHANGED <<broker, buffer, tcb, at, armed, rx, line>>

\* getTopicData, and memcpy from the publisher's buffer.  A topic that is not found is
\* a null pointer that memcpy reads through ...
Copy ==
  /\ pc = "copy"
  /\ \/ pc' = "consume" /\ tx' = buffer[Sources[at]]
     \/ pc' = "missed" /\ UNCHANGED tx
  /\ UNCHANGED <<broker, buffer, tcb, at, armed, rx, line>>

\* ... and here it is one that consumed() writes through.
Consume ==
  /\ pc = "consume"
  /\ \/ /\ pc' = "send"
        /\ IF VR \in outstanding[Sources[at]]
             THEN /\ B!Consume(VR, Sources[at])
                  /\ buffer' = [buffer EXCEPT ![Sources[at]] = IF @ = "owed" THEN "given" ELSE @]
             ELSE UNCHANGED <<broker, buffer>>
     \/ pc' = "missed" /\ UNCHANGED <<broker, buffer>>
  /\ UNCHANGED <<tcb, at, armed, rx, line, tx>>

\* Mutant: the flag is cleared when its update has been handled.
SendClear ==
  /\ pc = "send"
  /\ tcb' = SignalClr(tcb, {Sources[at]})
  /\ armed' = TRUE /\ rx' = [rx EXCEPT !.stat = "WAIT_RESPONSE"]
  /\ IF at = 1 THEN at' = 2 /\ pc' = "clear" ELSE at' = 1 /\ pc' = "wait"
  /\ UNCHANGED <<broker, buffer, dr, wire, tx>>

Send ==
  /\ pc = "send"
  /\ armed' = TRUE /\ rx' = [rx EXCEPT !.stat = "WAIT_RESPONSE"]
  /\ IF at = 1 THEN at' = 2 /\ pc' = "clear" ELSE at' = 1 /\ pc' = "wait"
  /\ UNCHANGED <<broker, buffer, tcb, dr, wire, tx>>

-----------------------------------------------------------------------------
Init ==
  /\ subscribed = [n \in Topics |-> IF n \in {"/keyb", "/gps"} THEN {VR} ELSE {SM}]
  /\ outstanding = [n \in Topics |-> {}] /\ latest = [n \in Topics |-> None]
  /\ buffer = [n \in {"/keyb", "/gps"} |-> None]
  /\ tcb = TcbInit /\ pc = "wait" /\ at = 1 /\ armed = FALSE
  /\ rx = RxInit /\ dr = 0 /\ wire = <<>> /\ tx = None

Run == \/ Wait \/ Wake \/ GiveUp \/ ClearData \/ NoMore \/ Decode \/ Stat
       \/ ClearKey \/ Copy \/ Consume \/ Send

Next == \/ \E n \in {"/keyb", "/gps"} : Publish(n) \/ Write(n)
        \/ \E n \in {"/alarm", "/stat"} : ConsumeOther(n)
        \/ \E data \in Answers : Answer(data)
        \/ Arrive \/ TimeOut \/ Run

Spec == Init /\ [][Next]_vars

\* The task runs, its timeout expires, and its loop is faster than the line: readable()
\* says no between two bytes.  Nothing is asked of the peer and the publishers.
FairSpec == Spec /\ WF_vars(Run) /\ WF_vars(TimeOut) /\ SF_vars(NoMore)

-----------------------------------------------------------------------------
(* Properties *)

Owed(n) == VR \in outstanding[n]

\* No update is forgotten: while VR owes consumed() for a key or a position, the flag
\* of the topic is set or its handler is still to come, unless a disturbed lookup has
\* stopped the program.
NothingForgotten ==
  \A i \in DOMAIN Sources : Owed(Sources[i]) =>
    \/ Sources[i] \in tcb.events
    \/ pc = "blocked" /\ ~Blocked(tcb) /\ tcb.status = "osEventSignal"
    \/ pc \in {"data", "poll", "getc", "read", "stat"}
    \/ pc \in {"clear", "copy", "consume"} /\ at <= i
    \/ pc = "send" /\ at < i
    \/ pc = "missed"

\* The task waits with a timeout exactly when it waits for a response, and it never
\* waits in the middle of one: the handlers of /keyb and /gps, which come after the
\* data in every pass, have reset the decoder (ALARM_WRONG_RESPONSE is never raised).
TimeoutArmed ==
  pc = "blocked" => rx.stat = IF armed THEN "WAIT_RESPONSE" ELSE "WAIT_COMMAND"

\* Every command goes with an update that no command has gone with before, and carries
\* what was written with that update or after it: the publisher may be ahead of it with
\* one that is going to be refused, and the other topic's data is not taken for it.
SendsWhatIsOwed ==
  pc = "consume" => Owed(Sources[at]) /\ tx \in {"owed", "later"}

\* The protocol comes back to its state of rest again and again, whatever the peer
\* says or does not say, unless new keys and new positions keep coming, a disturbed
\* lookup stops the program, or getc() waits for a byte whose RXNE uart_irq has cleared.
ComesToRest ==
  \/ []<>(rx.stat = "WAIT_COMMAND")
  \/ \A n \in {"/keyb", "/gps"} : []<>Owed(n) /\ []<>~Owed(n)
  \/ <>[](pc = "getc") \/ <>(pc = "missed")
=============================================================================
