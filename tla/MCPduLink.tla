------------------------------ MODULE MCPduLink ------------------------------
(***************************************************************************)
(* Bytes of four bits.                                                     *)
(***************************************************************************)
EXTENDS PduLink, Bitwise

FourBits == 0 .. 15
BitXor(a, b) == a ^^ b

\* Acknowledged and not (8 is the bit of a NACK), one to three bytes; nothing keeps
\* the head flag (5) out of the data.
SomeAnswers == {<<1>>, <<9>>, <<2, 5>>, <<1, 5, 2>>}
=============================================================================
