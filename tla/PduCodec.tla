------------------------------ MODULE PduCodec ------------------------------
(***************************************************************************)
(* The frames of user-tasks/VirtualReceiver.cpp: head flag, size, data and *)
(* a check byte, the exclusive or of the size and the data.  A receiver is *)
(* a record:                                                               *)
(*   stat   _protostat                                                     *)
(*   size   _rxpdu.size                                                    *)
(*   data   _rxpdu.data[0 .. datasize - 1]                                 *)
(***************************************************************************)
EXTENDS Integers, Sequences

CONSTANTS
  HEAD_FLAG, MAX_SIZE,
  CMD_NACK,     \* the bit of data[0] that tells a NACK
  Byte,         \* 0 .. 2^8 - 1 in the code
  XorByte(_, _)

ASSUME CodecAssumption ==
  /\ MAX_SIZE \in Nat \ {0, 1} /\ (0 .. MAX_SIZE - 1) \union {HEAD_FLAG} \subseteq Byte
  /\ Byte \subseteq Nat /\ \A a, b \in Byte : XorByte(a, b) \in Byte

Stats == {"WAIT_COMMAND", "WAIT_RESPONSE", "RECV_HEAD", "RECV_SIZE", "RECV_DATA"}

Rx == [stat : Stats, size : Byte, data : Seq(Byte)]

RxInit == [stat |-> "WAIT_COMMAND", size |-> 0, data |-> <<>>]

\* getCRC, over the size and the data.
Crc(size, data) ==
  LET crc[i \in 0 .. Len(data)] == IF i = 0 THEN size ELSE XorByte(crc[i - 1], data[i])
  IN  crc[Len(data)]

\* send, of a PDU with this data.
Frame(data) == <<HEAD_FLAG, Len(data)>> \o data \o <<Crc(Len(data), data)>>

-----------------------------------------------------------------------------
(* decodePdu: what it returns for a byte, and what becomes of the receiver. *)

Ready(rx, byte) == rx.stat = "RECV_DATA" /\ byte = Crc(rx.size, rx.data)

\* Mutant: a PDU of the size of the buffer is let in.
DecodedLarge(rx, byte) ==
  CASE rx.stat = "WAIT_RESPONSE" /\ byte = HEAD_FLAG -> [rx EXCEPT !.stat = "RECV_HEAD"]
    [] rx.stat = "RECV_HEAD" /\ byte <= MAX_SIZE ->
         [stat |-> "RECV_SIZE", size |-> byte, data |-> <<>>]
    [] rx.stat = "RECV_SIZE" ->
         [rx EXCEPT !.data = Append(@, byte),
                    !.stat = IF Len(rx.data) + 1 >= rx.size THEN "RECV_DATA" ELSE @]
    [] OTHER -> rx

\* Mutant: the data of the last PDU is not put aside.
DecodedOn(rx, byte) ==
  CASE rx.stat = "WAIT_RESPONSE" /\ byte = HEAD_FLAG -> [rx EXCEPT !.stat = "RECV_HEAD"]
    [] rx.stat = "RECV_HEAD" /\ byte < MAX_SIZE ->
         [rx EXCEPT !.stat = "RECV_SIZE", !.size = byte]
    [] rx.stat = "RECV_SIZE" ->
         [rx EXCEPT !.data = Append(@, byte),
                    !.stat = IF Len(rx.data) + 1 >= rx.size THEN "RECV_DATA" ELSE @]
    [] OTHER -> rx

\* CMD_ERROR leaves the receiver where it is, CMD_READY too.
Decoded(rx, byte) ==
  CASE rx.stat = "WAIT_RESPONSE" /\ byte = HEAD_FLAG -> [rx EXCEPT !.stat = "RECV_HEAD"]
    [] rx.stat = "RECV_HEAD" /\ byte < MAX_SIZE ->
         [stat |-> "RECV_SIZE", size |-> byte, data |-> <<>>]
    [] rx.stat = "RECV_SIZE" ->
         [rx EXCEPT !.data = Append(@, byte),
                    !.stat = IF Len(rx.data) + 1 >= rx.size THEN "RECV_DATA" ELSE @]
    [] OTHER -> rx

Nack(data) == (data[1] \div CMD_NACK) % 2 = 1
=============================================================================
