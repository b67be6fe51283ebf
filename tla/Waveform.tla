------------------------------ MODULE Waveform ------------------------------
(***************************************************************************)
(* What an IR transmitter promises: a packet that was started is put on    *)
(* the line symbol by symbol, each one once and in order, marks as carrier *)
(* and spaces as silence; then the line is silent until the next packet.   *)
(* A packet is that of a message, or, for a message that has none, the     *)
(* last one once more.                                                     *)
(***************************************************************************)
EXTENDS Integers, Sequences

VARIABLES
  busy,   \* is a packet being transmitted?
  packet, \* its symbols
  own,    \* is it that of the message it was started for?
  sent,   \* how many of them have been put on the line
  level   \* 1 while the carrier is on

vars == <<busy, packet, own, sent, level>>

Packet == Seq(Int \ {0})

TypeOK ==
  /\ busy \in BOOLEAN
  /\ packet \in Packet
  /\ own \in BOOLEAN
  /\ sent \in 0 .. Len(packet)
  /\ level \in {0, 1}

Init ==
  /\ busy = FALSE
  /\ packet = <<>>
  /\ own = FALSE
  /\ sent = 0
  /\ level = 0

Start ==
  /\ ~busy
  /\ busy' = TRUE
  /\ packet' \in Packet
  /\ own' = TRUE
  /\ UNCHANGED <<sent, level>>

StartAgain ==
  /\ ~busy
  /\ busy' = TRUE
  /\ own' = FALSE
  /\ UNCHANGED <<packet, sent, level>>

Emit ==
  /\ busy
  /\ sent < Len(packet)
  /\ sent' = sent + 1
  /\ level' = IF packet[sent + 1] > 0 THEN 1 ELSE 0
  /\ UNCHANGED <<busy, packet, own>>

Finish ==
  /\ busy
  /\ sent = Len(packet)
  /\ busy' = FALSE
  /\ sent' = 0
  /\ level' = 0
  /\ UNCHANGED <<packet, own>>

Next == Start \/ StartAgain \/ Emit \/ Finish

Spec == Init /\ [][Next]_vars
=============================================================================
