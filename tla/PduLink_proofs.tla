--------------------------- MODULE PduLink_proofs ---------------------------
(***************************************************************************)
(* Proofs about PduLink, for bytes and an exclusive or of any width, any   *)
(* size of the buffer, any answers and any number of faults on the line.   *)
(***************************************************************************)
EXTENDS PduLink, SequenceTheorems, WellFoundedInduction, TLAPS

-----------------------------------------------------------------------------
(* The check byte, by induction over the data: there is no least index     *)
(* where a claim fails.                                                    *)

\* A set of numbers has a least one.
LEMMA LeastNat ==
  ASSUME NEW S \in SUBSET Nat, S # {}
  PROVE  \E n \in S : \A m \in S : n <= m
<1>1. IsWellFoundedOn(OpToRel(<, Nat), Nat)
  BY NatLessThanWellFounded
<1>2. PICK n \in S : \A m \in S : ~(<<m, n>> \in OpToRel(<, Nat))
  BY <1>1, WFMin
<1>3. \A m \in S : ~(m < n)
  BY <1>2 DEF OpToRel
<1> QED
  BY <1>3

\* getCRC of bytes is a byte: the function that Crc speaks of exists, and each of its
\* values is a byte.
LEMMA CrcIsByte ==
  ASSUME NEW size \in Byte, NEW data \in Seq(Byte)
  PROVE  Crc(size, data) \in Byte
<1> DEFINE n          == Len(data)
           Body(f, m) == [i \in 0 .. m |-> IF i = 0 THEN size ELSE XorByte(f[i - 1], data[i])]
           Exists(m)  == \E f : f = Body(f, m)
<1>0. n \in Nat /\ \A i \in 1 .. n : data[i] \in Byte
  BY LenProperties, ElementOfSeq
<1>1. Exists(n)
  <2> DEFINE Bad == {m \in Nat : m <= n /\ ~Exists(m)}
  <2> SUFFICES ASSUME Bad # {} PROVE FALSE
    BY <1>0
  <2>1. PICK m \in Bad : \A k \in Bad : m <= k
    BY LeastNat
  <2>2. CASE m = 0
    <3> DEFINE f == [i \in 0 .. 0 |-> size]
    <3>1. f = Body(f, 0)
      OBVIOUS
    <3> QED
      BY <2>1, <2>2, <3>1
  <2>3. CASE m # 0
    <3>1. m - 1 \in Nat /\ m - 1 <= n /\ ~(m <= m - 1)
      BY <1>0, <2>1, <2>3
    <3>2. Exists(m - 1)
      BY <2>1, <3>1
    <3>3. PICK f : f = Body(f, m - 1)
      BY <3>2
    <3> DEFINE g == [i \in 0 .. m |-> IF i = m THEN XorByte(f[m - 1], data[m]) ELSE f[i]]
    <3>4. \A i \in 0 .. m - 1 : f[i] = IF i = 0 THEN size ELSE XorByte(f[i - 1], data[i])
      BY <3>3
    <3>5. ASSUME NEW i \in 0 .. m
          PROVE  g[i] = IF i = 0 THEN size ELSE XorByte(g[i - 1], data[i])
      <4>1. CASE i = m
        <5>1. m - 1 \in 0 .. m /\ m - 1 # m /\ m \in 0 .. m
          BY <3>1
        <5>2. g[m - 1] = f[m - 1] /\ g[m] = XorByte(f[m - 1], data[m])
          BY <5>1
        <5> QED
          BY <2>3, <4>1, <5>2
      <4>2. CASE i # m
        <5>1. i \in 0 .. m - 1 /\ g[i] = f[i]
          BY <3>1, <4>2
        <5>2. i # 0 => i - 1 \in 0 .. m /\ i - 1 # m
          BY <5>1
        <5>3. i # 0 => g[i - 1] = f[i - 1]
          BY <5>2
        <5> QED
          BY <3>4, <5>1, <5>3
      <4> QED
        BY <4>1, <4>2
    <3>6. g = Body(g, m)
      BY <3>5
    <3> QED
      BY <2>1, <3>6
  <2> QED
    BY <2>2, <2>3
<1> DEFINE crc == CHOOSE f : f = Body(f, n)
<1>2. crc = Body(crc, n)
  BY <1>1
<1> HIDE DEF crc
<1>3. \A i \in 0 .. n : crc[i] = IF i = 0 THEN size ELSE XorByte(crc[i - 1], data[i])
  BY <1>2
<1>4. crc[n] \in Byte
  <2> DEFINE Bad == {m \in Nat : m <= n /\ crc[m] \notin Byte}
  <2> SUFFICES ASSUME Bad # {} PROVE FALSE
    BY <1>0
  <2>1. PICK m \in Bad : \A k \in Bad : m <= k
    BY LeastNat
  <2>2. CASE m = 0
    BY <1>0, <1>3, <2>1, <2>2
  <2>3. CASE m # 0
    <3>1. m - 1 \in Nat /\ m - 1 <= n /\ ~(m <= m - 1)
      BY <1>0, <2>1, <2>3
    <3>2. crc[m - 1] \in Byte
      BY <2>1, <3>1
    <3>3. m \in 1 .. n /\ data[m] \in Byte
      BY <1>0, <2>1, <2>3
    <3>4. crc[m] = XorByte(crc[m - 1], data[m])
      BY <1>0, <1>3, <2>3, <3>3
    <3>5. crc[m] \in Byte
      BY <3>2, <3>3, <3>4, CodecAssumption
    <3> QED
      BY <2>1, <3>5
  <2> QED
    BY <2>2, <2>3
<1>5. Crc(size, data) = crc[n]
  BY DEF Crc, crc
<1> QED
  BY <1>4, <1>5

\* What send puts on the line are bytes.
LEMMA FrameTypes ==
  ASSUME NEW a \in Answers
  PROVE  a \in Seq(Byte) /\ Frame(a) \in Seq(Byte)
<1>1. a \in Seq(Byte) /\ Len(a) \in Byte /\ HEAD_FLAG \in Byte
  BY FrameAssumption, FitAssumption, CodecAssumption
<1>2. <<HEAD_FLAG, Len(a)>> \in Seq(Byte) /\ <<Crc(Len(a), a)>> \in Seq(Byte)
  BY <1>1, CrcIsByte
<1>3. <<HEAD_FLAG, Len(a)>> \o a \in Seq(Byte)
  BY <1>1, <1>2, ConcatProperties
<1> QED
  BY <1>1, <1>2, <1>3, ConcatProperties DEF Frame

-----------------------------------------------------------------------------
(* The decoder and its buffer *)

\* The bytes of data when a PDU of this size is complete: a byte is stored before
\* its number is compared.
Full(size) == IF size = 0 THEN 1 ELSE size

\* How far the data has got, in the states that store it.
Sized(r) ==
  /\ r.stat \in {"RECV_SIZE", "RECV_DATA"} => r.size < MAX_SIZE
  /\ r.stat = "RECV_SIZE" => Len(r.data) < Full(r.size)
  /\ r.stat = "RECV_DATA" => Len(r.data) = Full(r.size)

Inv == TypeOK /\ Sized(rx)

\* decodePdu keeps the receiver a receiver, whatever byte comes.
LEMMA DecodedTypes ==
  ASSUME NEW r \in Rx, NEW byte \in Byte, Sized(r)
  PROVE  Decoded(r, byte) \in Rx /\ Sized(Decoded(r, byte))
<1> DEFINE d == Decoded(r, byte)
<1>1. /\ r.data \in Seq(Byte) /\ Len(r.data) \in Nat /\ r.size \in Nat /\ byte \in Nat
      /\ Append(r.data, byte) \in Seq(Byte) /\ Len(Append(r.data, byte)) = Len(r.data) + 1
  <2>1. r.data \in Seq(Byte) /\ r.size \in Nat /\ byte \in Nat
    BY CodecAssumption DEF Rx
  <2>2. Len(r.data) \in Nat
    BY <2>1, LenProperties, Zenon
  <2>3. Append(r.data, byte) \in Seq(Byte) /\ Len(Append(r.data, byte)) = Len(r.data) + 1
    BY <2>1, AppendProperties, CodecAssumption, ZenonT(20)
  <2> QED
    BY <2>1, <2>2, <2>3
<1>2. CASE r.stat = "WAIT_RESPONSE" /\ byte = HEAD_FLAG
  BY <1>2 DEF Decoded, Rx, Stats, Sized
<1>3. CASE r.stat = "RECV_HEAD" /\ byte < MAX_SIZE
  <2>1. d = [stat |-> "RECV_SIZE", size |-> byte, data |-> <<>>]
    BY <1>3 DEF Decoded
  <2>2. d.stat = "RECV_SIZE" /\ d.size = byte /\ Len(d.data) = 0
    BY <2>1
  <2>3. Sized(d)
    BY <1>1, <1>3, <2>2 DEF Sized, Full
  <2>4. d \in Rx
    BY <2>1 DEF Rx, Stats
  <2> QED
    BY <2>3, <2>4
<1>4. CASE r.stat = "RECV_SIZE"
  <2>1. d = [r EXCEPT !.data = Append(r.data, byte),
                      !.stat = IF Len(r.data) + 1 >= r.size THEN "RECV_DATA" ELSE r.stat]
    BY <1>4 DEF Decoded
  <2>2. /\ d.data = Append(r.data, byte) /\ d.size = r.size
        /\ d.stat = IF Len(r.data) + 1 >= r.size THEN "RECV_DATA" ELSE "RECV_SIZE"
    BY <1>4, <2>1 DEF Rx
  <2>3. d \in Rx
    BY <1>1, <1>4, <2>1 DEF Rx, Stats
  <2>4. Sized(d)
    BY <1>1, <1>4, <2>2 DEF Sized, Full
  <2> QED
    BY <2>3, <2>4
<1>5. CASE /\ ~(r.stat = "WAIT_RESPONSE" /\ byte = HEAD_FLAG)
           /\ ~(r.stat = "RECV_HEAD" /\ byte < MAX_SIZE) /\ r.stat # "RECV_SIZE"
  BY <1>5 DEF Decoded
<1> QED
  BY <1>2, <1>3, <1>4, <1>5

\* A reset of the protocol leaves size and data as they are.
LEMMA ResetTypes ==
  ASSUME NEW r \in Rx, NEW s \in {"WAIT_COMMAND", "WAIT_RESPONSE"}
  PROVE  [r EXCEPT !.stat = s] \in Rx /\ Sized([r EXCEPT !.stat = s])
  BY DEF Rx, Stats, Sized

\* What is left of the line when its first byte has been read, or a byte is lost.
LEMMA LineTypes ==
  ASSUME NEW w \in Seq(Byte), w # <<>>
  PROVE  /\ Head(w) \in Byte /\ Tail(w) \in Seq(Byte)
         /\ Len(w) \in Nat \ {0} /\ Len(Tail(w)) = Len(w) - 1
         /\ Head(w) = w[1] /\ \A i \in 1 .. Len(w) - 1 : Tail(w)[i] = w[i + 1]
  BY HeadTailProperties, LenProperties

LEMMA LostTypes ==
  ASSUME NEW w \in Seq(Byte), NEW i \in DOMAIN w
  PROVE  SubSeq(w, 1, i - 1) \o SubSeq(w, i + 1, Len(w)) \in Seq(Byte)
<1>1. Len(w) \in Nat /\ i \in 1 .. Len(w) /\ \A j \in 1 .. Len(w) : w[j] \in Byte
  BY LenProperties, ElementOfSeq
<1>2. SubSeq(w, 1, i - 1) \in Seq(Byte) /\ SubSeq(w, i + 1, Len(w)) \in Seq(Byte)
  BY <1>1, SubSeqProperties
<1> QED
  BY <1>2, ConcatProperties

-----------------------------------------------------------------------------
(* Inv is inductive *)

LEMMA InitInv == Init => Inv
<1> SUFFICES ASSUME Init PROVE Inv
  OBVIOUS
<1>1. RxInit \in Rx /\ Sized(RxInit)
  <2>1. 0 \in Byte
    BY CodecAssumption
  <2> QED
    BY <2>1 DEF RxInit, Rx, Stats, Sized
<1> QED
  BY <1>1, LineAssumption DEF Init, Inv, TypeOK

LEMMA ReceiveInv == Inv /\ Receive => Inv'
<1> SUFFICES ASSUME Inv, Receive PROVE Inv'
  OBVIOUS
<1> USE DEF Inv
<1>1. rx \in Rx /\ wire \in Seq(Byte) /\ wire # <<>>
  BY DEF TypeOK, Receive
<1>2. wire' \in Seq(Byte) /\ Head(wire) \in Byte /\ faults' = faults
  BY <1>1, LineTypes DEF Receive
<1>3. CASE Ready(rx, Head(wire))
  <2>1. rx' \in {rx, [rx EXCEPT !.stat = "WAIT_COMMAND"]}
        /\ awaited' \in {awaited, None}
    BY <1>3 DEF Receive
  <2>2. rx' \in Rx /\ Sized(rx')
    BY <1>1, <2>1, ResetTypes
  <2> QED
    BY <1>2, <2>1, <2>2 DEF TypeOK
<1>4. CASE ~Ready(rx, Head(wire))
  <2>1. rx' = Decoded(rx, Head(wire)) /\ awaited' = awaited
    BY <1>4 DEF Receive
  <2>2. rx' \in Rx /\ Sized(rx')
    BY <1>1, <1>2, <2>1, DecodedTypes
  <2> QED
    BY <1>2, <2>1, <2>2 DEF TypeOK
<1> QED
  BY <1>3, <1>4

LEMMA NextInv == Inv /\ [Next]_vars => Inv'
<1> SUFFICES ASSUME Inv, [Next]_vars PROVE Inv'
  OBVIOUS
<1> USE DEF Inv
<1>1. CASE Request
  BY <1>1, ResetTypes DEF Request, TypeOK
<1>2. CASE Timeout
  BY <1>2, ResetTypes DEF Timeout, TypeOK
<1>3. ASSUME NEW data \in Answers, Answer(data) PROVE Inv'
  BY <1>3, FrameTypes DEF Answer, TypeOK
<1>4. CASE Corrupt
  <2>1. PICK i \in DOMAIN wire, b \in Byte : wire' = [wire EXCEPT ![i] = b]
    BY <1>4 DEF Corrupt
  <2>2. wire' \in Seq(Byte)
    BY <2>1, ExceptSeq, LenProperties DEF TypeOK
  <2> QED
    BY <1>4, <2>2, LineAssumption DEF Corrupt, Damaged, TypeOK
<1>5. CASE Lose
  <2>1. wire' \in Seq(Byte)
    BY <1>5, LostTypes DEF Lose, TypeOK
  <2> QED
    BY <1>5, <2>1, LineAssumption DEF Lose, Damaged, TypeOK
<1>6. CASE UNCHANGED vars
  BY <1>6 DEF vars, TypeOK
<1> QED
  BY <1>1, <1>2, <1>3, <1>4, <1>5, <1>6, ReceiveInv DEF Next

LEMMA Invariance == Spec => []Inv
  BY InitInv, NextInv, PTL DEF Spec

\* Every variable of the link keeps its type.
THEOREM TypeCorrect == Spec => []TypeOK
<1>1. Inv => TypeOK
  BY DEF Inv
<1> QED
  BY Invariance, <1>1, PTL

\* Whatever bytes come, however they are cut off by timeouts and new commands,
\* decodePdu never writes behind its buffer.
THEOREM StaysInBuffer == Spec => []InBuffer
<1>1. Inv => InBuffer
  <2> SUFFICES ASSUME Inv, rx.stat \in {"RECV_SIZE", "RECV_DATA"}
               PROVE  Len(rx.data) < MAX_SIZE
    BY DEF InBuffer
  <2>1. rx.size \in Nat /\ Len(rx.data) \in Nat /\ MAX_SIZE \in Nat \ {0, 1}
    BY CodecAssumption, LenProperties DEF Inv, TypeOK, Rx
  <2> QED
    BY <2>1 DEF Inv, Sized, Full
<1> QED
  BY Invariance, <1>1, PTL

-----------------------------------------------------------------------------
(* An answer and its frame *)

LEMMA FrameShape ==
  ASSUME NEW a \in Answers
  PROVE  /\ Len(a) \in 1 .. MAX_SIZE - 1 /\ Len(Frame(a)) = Len(a) + 3
         /\ Frame(a)[1] = HEAD_FLAG /\ Frame(a)[2] = Len(a)
         /\ \A i \in 1 .. Len(a) : Frame(a)[i + 2] = a[i]
         /\ Frame(a)[Len(a) + 3] = Crc(Len(a), a)
<1> DEFINE S    == Byte \union Nat \union {Crc(Len(a), a)}
           head == <<HEAD_FLAG, Len(a)>>
           last == <<Crc(Len(a), a)>>
<1>1. a \in Seq(S) /\ Len(a) \in 1 .. MAX_SIZE - 1 /\ Len(a) \in Nat
  <2>1. a \in Seq(Byte) /\ Byte \subseteq S
    BY FrameTypes
  <2> QED
    BY <2>1, FitAssumption, LenProperties, SeqMonotonic
<1>2. head \in Seq(S) /\ Len(head) = 2 /\ head[1] = HEAD_FLAG /\ head[2] = Len(a)
  BY <1>1, CodecAssumption
<1>3. last \in Seq(S) /\ Len(last) = 1 /\ last[1] = Crc(Len(a), a)
  OBVIOUS
<1> HIDE DEF S, head, last
<1>4. /\ head \o a \in Seq(S) /\ Len(head \o a) = Len(a) + 2
      /\ \A i \in 1 .. Len(a) + 2 : (head \o a)[i] = IF i <= 2 THEN head[i] ELSE a[i - 2]
  <2>1. /\ head \o a \in Seq(S) /\ Len(head \o a) = Len(head) + Len(a)
        /\ \A i \in 1 .. Len(head) + Len(a) :
             (head \o a)[i] = IF i <= Len(head) THEN head[i] ELSE a[i - Len(head)]
    BY <1>1, <1>2, ConcatProperties
  <2>2. Len(head) + Len(a) = Len(a) + 2
    BY <1>1, <1>2
  <2> QED
    BY <1>2, <2>1, <2>2
<1>5. /\ Len((head \o a) \o last) = Len(a) + 3
      /\ \A i \in 1 .. Len(a) + 3 :
           ((head \o a) \o last)[i] = IF i <= Len(a) + 2 THEN (head \o a)[i] ELSE last[i - (Len(a) + 2)]
  <2> DEFINE front == head \o a
  <2> HIDE DEF front
  <2>1. front \in Seq(S) /\ Len(front) = Len(a) + 2
    BY <1>4 DEF front
  <2>2. /\ Len(front \o last) = Len(front) + Len(last)
        /\ \A i \in 1 .. Len(front) + Len(last) :
             (front \o last)[i] = IF i <= Len(front) THEN front[i] ELSE last[i - Len(front)]
    BY <1>3, <2>1, ConcatProperties
  <2>3. Len(front) + Len(last) = Len(a) + 3
    BY <1>1, <1>3, <2>1
  <2>4. /\ Len(front \o last) = Len(a) + 3
        /\ \A i \in 1 .. Len(a) + 3 :
             (front \o last)[i] = IF i <= Len(a) + 2 THEN front[i] ELSE last[i - (Len(a) + 2)]
    BY <2>1, <2>2, <2>3
  <2> QED
    BY <2>4 DEF front
<1>6. Frame(a) = (head \o a) \o last
  BY DEF Frame, head, last
<1> QED
  BY <1>1, <1>2, <1>3, <1>4, <1>5, <1>6

\* The line holds the frame of an answer, but for its first j bytes.
RestOf(a, j) ==
  /\ Len(wire) = Len(Frame(a)) - j
  /\ \A i \in 1 .. Len(wire) : wire[i] = Frame(a)[i + j]

\* The same, of the answer that is awaited.
Rest(j) == RestOf(awaited, j)

\* The receiver is as far in the awaited answer as the line is.
Aligned ==
  awaited # None =>
    /\ awaited \in Answers
    /\ \/ rx.stat = "WAIT_RESPONSE" /\ Rest(0)
       \/ rx.stat = "RECV_HEAD" /\ Rest(1)
       \/ /\ rx.stat = "RECV_SIZE" /\ rx.size = Len(awaited)
          /\ Len(rx.data) < Len(awaited) /\ Rest(Len(rx.data) + 2)
          /\ \A i \in 1 .. Len(rx.data) : rx.data[i] = awaited[i]
       \/ /\ rx.stat = "RECV_DATA" /\ rx.size = Len(awaited)
          /\ rx.data = awaited /\ Rest(Len(awaited) + 2)

\* One byte less on the line.
LEMMA RestTail ==
  ASSUME NEW a \in Answers, NEW j \in Nat, wire \in Seq(Byte), wire # <<>>,
         wire' = Tail(wire), RestOf(a, j)
  PROVE  Head(wire) = Frame(a)[j + 1] /\ RestOf(a, j + 1)'
<1>1. /\ Len(wire) \in Nat \ {0} /\ Len(wire') = Len(wire) - 1 /\ Head(wire) = wire[1]
      /\ \A i \in 1 .. Len(wire) - 1 : wire'[i] = wire[i + 1]
  BY LineTypes
<1>2. Len(Frame(a)) \in Nat
  BY FrameShape
<1>3. Len(wire') = Len(Frame(a)) - (j + 1)
  BY <1>1, <1>2 DEF RestOf
<1>4. \A i \in 1 .. Len(wire') : wire'[i] = Frame(a)[i + (j + 1)]
  <2> SUFFICES ASSUME NEW i \in 1 .. Len(wire') PROVE wire'[i] = Frame(a)[i + (j + 1)]
    OBVIOUS
  <2>1. i + 1 \in 1 .. Len(wire) /\ (i + 1) + j = i + (j + 1) /\ wire'[i] = wire[i + 1]
    BY <1>1
  <2> QED
    BY <2>1 DEF RestOf
<1>5. Head(wire) = Frame(a)[j + 1]
  <2>1. 1 \in 1 .. Len(wire) /\ 1 + j = j + 1
    BY <1>1
  <2> QED
    BY <1>1, <2>1 DEF RestOf
<1> QED
  BY <1>3, <1>4, <1>5 DEF RestOf

\* One byte of the awaited answer less.
LEMMA AwaitedTail ==
  ASSUME NEW j \in Nat, wire \in Seq(Byte), wire # <<>>, wire' = Tail(wire),
         awaited \in Answers, awaited' = awaited, Rest(j)
  PROVE  Head(wire) = Frame(awaited)[j + 1] /\ Rest(j + 1)'
<1> SUFFICES \A a \in Answers : RestOf(a, j) => /\ Head(wire) = Frame(a)[j + 1]
                                                /\ RestOf(a, j + 1)'
  BY DEF Rest, RestOf
<1> QED
  BY RestTail

LEMMA ReceiveAligned == Inv /\ Aligned /\ Receive => Aligned'
<1> SUFFICES ASSUME Inv, Aligned, Receive, awaited' # None
             PROVE  Aligned'
  BY DEF Aligned
<1>1. rx \in Rx /\ wire \in Seq(Byte) /\ wire # <<>> /\ wire' = Tail(wire)
  BY DEF Inv, TypeOK, Receive
<1>2. awaited' = awaited /\ awaited \in Answers
  BY DEF Receive, Aligned
<1>3. /\ Len(awaited) \in 1 .. MAX_SIZE - 1 /\ MAX_SIZE \in Nat
      /\ Frame(awaited)[1] = HEAD_FLAG /\ Frame(awaited)[2] = Len(awaited)
      /\ \A i \in 1 .. Len(awaited) : Frame(awaited)[i + 2] = awaited[i]
      /\ Frame(awaited)[Len(awaited) + 3] = Crc(Len(awaited), awaited)
  BY <1>2, FrameShape, CodecAssumption
<1>4. rx.data \in Seq(Byte) /\ Len(rx.data) \in Nat /\ awaited \in Seq(Byte)
  BY <1>1, <1>2, FrameTypes, LenProperties DEF Rx
<1>5. CASE rx.stat = "WAIT_RESPONSE" /\ Rest(0)
  <2>1. Head(wire) = HEAD_FLAG /\ Rest(1)'
    BY <1>1, <1>2, <1>3, <1>5, AwaitedTail
  <2>2. rx' = [rx EXCEPT !.stat = "RECV_HEAD"]
    BY <1>5, <2>1 DEF Receive, Ready, Decoded
  <2>3. rx'.stat = "RECV_HEAD"
    BY <1>1, <2>2 DEF Rx
  <2> QED
    BY <1>2, <2>1, <2>3 DEF Aligned
<1>6. CASE rx.stat = "RECV_HEAD" /\ Rest(1)
  <2>1. Head(wire) = Len(awaited) /\ Rest(2)'
    BY <1>1, <1>2, <1>3, <1>6, AwaitedTail
  <2>2. rx' = [stat |-> "RECV_SIZE", size |-> Len(awaited), data |-> <<>>]
    BY <1>3, <1>6, <2>1 DEF Receive, Ready, Decoded
  <2>3. rx'.stat = "RECV_SIZE" /\ rx'.size = Len(awaited) /\ Len(rx'.data) = 0
    BY <2>2
  <2> QED
    BY <1>2, <1>3, <2>1, <2>3 DEF Aligned
<1>7. CASE /\ rx.stat = "RECV_SIZE" /\ rx.size = Len(awaited)
           /\ Len(rx.data) < Len(awaited) /\ Rest(Len(rx.data) + 2)
           /\ \A i \in 1 .. Len(rx.data) : rx.data[i] = awaited[i]
  <2>0. PICK k \in Nat : k = Len(rx.data)
    BY <1>4
  <2>1. Head(wire) = awaited[k + 1] /\ Rest((k + 1) + 2)'
    <3>1. Head(wire) = Frame(awaited)[(k + 2) + 1] /\ Rest((k + 2) + 1)'
      BY <1>1, <1>2, <1>7, <2>0, AwaitedTail
    <3>2. (k + 2) + 1 = (k + 1) + 2 /\ k + 1 \in 1 .. Len(awaited)
      BY <1>3, <1>7, <2>0
    <3> QED
      BY <1>3, <3>1, <3>2
  <2>2. rx' = [rx EXCEPT !.data = Append(rx.data, Head(wire)),
                         !.stat = IF k + 1 >= rx.size THEN "RECV_DATA" ELSE rx.stat]
    BY <1>7, <2>0 DEF Receive, Ready, Decoded
  <2>3. /\ rx'.data = Append(rx.data, Head(wire)) /\ rx'.size = Len(awaited)
        /\ rx'.stat = IF k + 1 >= Len(awaited) THEN "RECV_DATA" ELSE "RECV_SIZE"
    BY <1>1, <1>7, <2>2 DEF Rx
  <2>4. /\ Len(rx'.data) = k + 1 /\ rx'.data \in Seq(Byte)
        /\ \A i \in 1 .. k + 1 : rx'.data[i] = awaited[i]
    <3>1. Head(wire) \in Byte
      BY <1>1, LineTypes
    <3> QED
      <4>1. /\ rx'.data \in Seq(Byte) /\ Len(rx'.data) = k + 1
            /\ \A i \in 1 .. k : rx'.data[i] = rx.data[i]
            /\ rx'.data[k + 1] = Head(wire)
        BY <1>4, <2>0, <2>3, <3>1, AppendProperties
      <4>2. \A i \in 1 .. k + 1 : i \in 1 .. k \/ i = k + 1
        OBVIOUS
      <4> QED
        BY <1>7, <2>0, <2>1, <4>1, <4>2
  <2>5. CASE k + 1 >= Len(awaited)
    <3>1. Len(awaited) = k + 1
      BY <1>3, <1>7, <2>0, <2>5
    <3>2. rx'.data = awaited
      BY <1>4, <2>4, <3>1, SeqEqual
    <3> QED
      <4>1. rx'.stat = "RECV_DATA" /\ Rest(Len(awaited) + 2)'
        BY <1>2, <2>1, <2>3, <2>5, <3>1
      <4> QED
        BY <1>2, <2>3, <3>2, <4>1 DEF Aligned
  <2>6. CASE k + 1 < Len(awaited)
    <3>1. rx'.stat = "RECV_SIZE"
      BY <1>3, <2>3, <2>6
    <3> QED
      <4>1. Rest(Len(rx.data) + 2)'
        BY <2>1, <2>4
      <4>2. Len(rx'.data) < Len(awaited') /\ rx'.size = Len(awaited')
            /\ \A i \in 1 .. Len(rx'.data) : rx'.data[i] = awaited'[i]
        BY <1>2, <2>3, <2>4, <2>6
      <4> QED
        BY <1>2, <3>1, <4>1, <4>2 DEF Aligned
  <2> QED
    BY <1>3, <2>5, <2>6
<1>8. CASE /\ rx.stat = "RECV_DATA" /\ rx.size = Len(awaited)
           /\ rx.data = awaited /\ Rest(Len(awaited) + 2)
  <2>1. Head(wire) = Crc(Len(awaited), awaited)
    <3>1. Len(awaited) + 2 \in Nat /\ (Len(awaited) + 2) + 1 = Len(awaited) + 3
      BY <1>3
    <3> QED
      BY <1>1, <1>2, <1>3, <1>8, <3>1, AwaitedTail
  <2>2. Ready(rx, Head(wire))
    BY <1>8, <2>1 DEF Ready
  <2> QED
    BY <1>2, <1>8, <2>2 DEF Receive
<1> QED
  BY <1>2, <1>5, <1>6, <1>7, <1>8 DEF Aligned

LEMMA NextAligned == Inv /\ Aligned /\ [Next]_vars => Aligned'
<1> SUFFICES ASSUME Inv, Aligned, [Next]_vars PROVE Aligned'
  OBVIOUS
<1>1. CASE Request \/ Timeout \/ Corrupt \/ Lose
  BY <1>1 DEF Request, Timeout, Corrupt, Lose, Damaged, Aligned
<1>2. ASSUME NEW data \in Answers, Answer(data) PROVE Aligned'
  <2> SUFFICES ASSUME awaited' # None PROVE Aligned'
    BY DEF Aligned
  <2>1. awaited' = data /\ wire' = Frame(data) /\ rx' = rx /\ rx.stat = "WAIT_RESPONSE"
    BY <1>2 DEF Answer
  <2>2. Rest(0)'
    BY <2>1, FrameShape DEF Rest, RestOf
  <2> QED
    BY <2>1, <2>2 DEF Aligned
<1>3. CASE UNCHANGED vars
  BY <1>3 DEF vars, Aligned, Rest, RestOf
<1> QED
  BY <1>1, <1>2, <1>3, ReceiveAligned DEF Next

\* An answer that is sent while the receiver waits for it, and that nothing disturbs,
\* is accepted by the time its last byte has been read, whatever was left in the
\* receiver by earlier frames.
THEOREM AcceptsAnswers == Spec => []AnswerAccepted
<1>1. Init => Aligned
  BY DEF Init, Aligned
<1>2. Inv /\ Aligned => AnswerAccepted
  <2> SUFFICES ASSUME Inv, Aligned, awaited # None PROVE wire # <<>>
    BY DEF AnswerAccepted
  <2>1. awaited \in Answers
    BY DEF Aligned
  <2>2. Len(awaited) \in Nat \ {0} /\ Len(Frame(awaited)) = Len(awaited) + 3
    BY <2>1, FrameShape, CodecAssumption
  <2>3. Len(rx.data) \in Nat
    BY LenProperties DEF Inv, TypeOK, Rx
  <2>4. \E j \in 0 .. Len(awaited) + 2 : Rest(j)
    <3>1. CASE rx.stat = "WAIT_RESPONSE" /\ Rest(0)
      BY <2>2, <3>1
    <3>2. CASE rx.stat = "RECV_HEAD" /\ Rest(1)
      BY <2>2, <3>2
    <3>3. CASE Len(rx.data) < Len(awaited) /\ Rest(Len(rx.data) + 2)
      BY <2>2, <2>3, <3>3
    <3>4. CASE Rest(Len(awaited) + 2)
      BY <2>2, <3>4
    <3> QED
      BY <3>1, <3>2, <3>3, <3>4 DEF Aligned
  <2>5. Len(wire) > 0
    BY <2>2, <2>4 DEF Rest, RestOf
  <2> QED
    BY <2>5
<1> QED
  BY <1>1, <1>2, Invariance, NextAligned, PTL DEF Spec
=============================================================================
