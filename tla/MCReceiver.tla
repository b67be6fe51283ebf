----------------------------- MODULE MCReceiver -----------------------------
(***************************************************************************)
(* Instances of Receiver for TLC: time is counted in polls, a gap is three *)
(* polls of silence, durations saturate one poll later, and the buffer     *)
(* holds a dead time, a mark, a gap and one run more before it stalls.     *)
(***************************************************************************)
EXTENDS Receiver
=============================================================================
