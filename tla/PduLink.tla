------------------------------- MODULE PduLink -------------------------------
(***************************************************************************)
(* The decoder of VirtualReceiver at the end of a line that keeps the      *)
(* order of its bytes, with a peer that answers when it likes: in time,    *)
(* late, when the receiver is in the middle of something else, or unasked. *)
(* The line may corrupt or lose a number of bytes.                         *)
(***************************************************************************)
EXTENDS PduCodec, FiniteSets

CONSTANTS
  Answers,      \* the data of the PDUs the peer sends
  MaxFaults,
  None

ASSUME LineAssumption == MaxFaults \in Nat /\ None \notin Seq(Byte)

\* The peer's PDUs hold bytes, at least one, and fit the receiver's buffer.
ASSUME FrameAssumption == Answers \subseteq Seq(Byte)
ASSUME FitAssumption   == \A data \in Answers : Len(data) \in 1 .. MAX_SIZE - 1

VARIABLES
  rx,        \* the receiver
  wire,      \* bytes under way
  awaited,   \* an answer sent to a waiting receiver and undisturbed since, or None
  faults     \* bytes the line has damaged

vars == <<rx, wire, awaited, faults>>

Init == rx = RxInit /\ wire = <<>> /\ awaited = None /\ faults = 0

\* A command is sent: the receiver waits for an answer from its start.
Request ==
  /\ rx' = [rx EXCEPT !.stat = "WAIT_RESPONSE"]
  /\ awaited' = None
  /\ UNCHANGED <<wire, faults>>

Timeout ==
  /\ rx.stat # "WAIT_COMMAND"
  /\ rx' = [rx EXCEPT !.stat = "WAIT_COMMAND"]
  /\ awaited' = None
  /\ UNCHANGED <<wire, faults>>

Answer(data) ==
  /\ wire = <<>>
  /\ wire' = Frame(data)
  /\ awaited' = IF rx.stat = "WAIT_RESPONSE" THEN data ELSE None
  /\ UNCHANGED <<rx, faults>>

Damaged ==
  /\ faults < MaxFaults /\ faults' = faults + 1
  /\ awaited' = None
  /\ UNCHANGED rx

Corrupt ==
  /\ Damaged
  /\ \E i \in DOMAIN wire, b \in Byte : wire' = [wire EXCEPT ![i] = b]

Lose ==
  /\ Damaged
  /\ \E i \in DOMAIN wire :
       wire' = SubSeq(wire, 1, i - 1) \o SubSeq(wire, i + 1, Len(wire))

\* The loop of run() on one byte: an accepted PDU that is no NACK ends the wait.
Receive ==
  /\ wire # <<>> /\ wire' = Tail(wire)
  /\ IF Ready(rx, Head(wire))
       THEN /\ rx' = IF Nack(rx.data) THEN rx ELSE [rx EXCEPT !.stat = "WAIT_COMMAND"]
            /\ awaited' = IF awaited = rx.data THEN None ELSE awaited
       ELSE /\ rx' = Decoded(rx, Head(wire))
            /\ UNCHANGED awaited
  /\ UNCHANGED faults

Next == \/ Request \/ Timeout \/ Receive \/ Corrupt \/ Lose
        \/ \E data \in Answers : Answer(data)

Spec == Init /\ [][Next]_vars

-----------------------------------------------------------------------------
(* Properties *)

TypeOK ==
  /\ rx \in Rx /\ wire \in Seq(Byte)
  /\ awaited \in Seq(Byte) \union {None}
  /\ faults \in 0 .. MaxFaults

\* decodePdu writes data[datasize] in these two states: the index is in the
\* buffer, whatever bytes come and whenever the protocol is reset.
InBuffer == rx.stat \in {"RECV_SIZE", "RECV_DATA"} => Len(rx.data) < MAX_SIZE

\* An answer sent to a receiver that waits for it is accepted by its last byte, if
\* nothing disturbs it: whatever its bytes are, the head flag among them, and whatever
\* damaged or foreign frames have left in the receiver.
AnswerAccepted == awaited # None => wire # <<>>
=============================================================================
