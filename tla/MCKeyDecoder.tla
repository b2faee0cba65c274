---------------------------- MODULE MCKeyDecoder ----------------------------
(***************************************************************************)
(* KeyDecoder with two of its twelve keys, whose lines share a vector.     *)
(***************************************************************************)
EXTENDS KeyDecoderNew

CONSTANTS NE, E
TwoKeys == {NE, E}
InOrder == <<NE, E>>
Lines   == [k \in TwoKeys |-> "EXTI9_5"]
=============================================================================
