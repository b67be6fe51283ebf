----------------------------- MODULE MCRxSniff -----------------------------
(***************************************************************************)
(* Instances of RxSniff for TLC: one decoder and frames of up to two runs  *)
(* and a gap, so that a new frame can overtake the one being printed.      *)
(***************************************************************************)
EXTENDS RxSniff
=============================================================================
