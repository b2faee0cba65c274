-------------------------- MODULE MCVirtualReceiver --------------------------
(***************************************************************************)
(* Bytes of three bits: 5 is the head flag, 4 the bit of a NACK.           *)
(***************************************************************************)
EXTENDS VirtualReceiver, Bitwise

ThreeBits == 0 .. 7
BitXor(a, b) == a ^^ b
AckAndNack == {<<1>>, <<4>>}
=============================================================================
