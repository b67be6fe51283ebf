----------------------------- MODULE RxMailbox -----------------------------
(***************************************************************************)
(* What the IR receiver promises its client: a mailbox that holds one      *)
(* received frame.  A frame, once it is there, does not change until the   *)
(* client takes it, and what the client reads of it, symbol after symbol,  *)
(* is that frame.  Frames that arrive while the mailbox is full are lost.  *)
(* Receiver implements this although its interrupt handler never stops     *)
(* writing into the one buffer that both sides share.                      *)
(***************************************************************************)
EXTENDS Integers, Sequences

VARIABLES
  full,  \* is there a frame?
  frame, \* its marks and spaces, <<>> when the mailbox is empty
  got    \* the symbols of it that the client has read in this attempt

vars == <<full, frame, got>>

Frames == Seq(Int)

TypeOK ==
  /\ full \in BOOLEAN
  /\ frame \in Frames
  /\ got \in Frames

Init ==
  /\ full = FALSE
  /\ frame = <<>>
  /\ got = <<>>

\* The line went quiet: the frame is complete.
Deliver ==
  /\ ~full
  /\ full' = TRUE
  /\ frame' \in Frames
  /\ UNCHANGED got

\* The client reads the next symbol of the frame.
Read ==
  /\ full
  /\ Len(got) < Len(frame)
  /\ got' = Append(got, frame[Len(got) + 1])
  /\ UNCHANGED <<full, frame>>

\* The client gives up on one decoder and starts over with the next.
Restart ==
  /\ full
  /\ got' = <<>>
  /\ UNCHANGED <<full, frame>>

\* The client is done with the frame, recognised or not.
Take ==
  /\ full
  /\ full' = FALSE
  /\ frame' = <<>>
  /\ got' = <<>>

Next == Deliver \/ Read \/ Restart \/ Take

Spec == Init /\ [][Next]_vars
=============================================================================
