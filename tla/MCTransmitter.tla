--------------------------- MODULE MCTransmitter ---------------------------
(***************************************************************************)
(* Instances of Transmitter for TLC: packets that fill the buffer, fall    *)
(* short of it or do not fit, that end in a mark or in a space.            *)
(***************************************************************************)
EXTENDS Transmitter

SomePackets == {<<>>, <<3>>, <<2, -4>>, <<4, -2, 2>>, <<2, -3, 4, -2, 3>>}
=============================================================================
