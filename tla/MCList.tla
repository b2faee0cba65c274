------------------------------- MODULE MCList -------------------------------
(***************************************************************************)
(* List with two items and three nodes: an item can be in the list twice, *)
(* nodes are freed and handed out again, and malloc runs out.              *)
(***************************************************************************)
EXTENDS List

CONSTANTS a, b
TwoItems   == {a, b}
=============================================================================
