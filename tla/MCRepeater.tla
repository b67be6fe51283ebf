----------------------------- MODULE MCRepeater -----------------------------
(***************************************************************************)
(* Instances of Repeater for TLC: a short message, like NEC's repeat, and  *)
(* a long one, and a clock that wraps soon.                                *)
(***************************************************************************)
EXTENDS Repeater

TwoMsgs == {<<1>>, <<2, -1, 1, -1, 1>>}
=============================================================================
