------------------------------- MODULE MCIrHw -------------------------------
(***************************************************************************)
(* Instances of IrHw for TLC: an 8-bit timer of three bits, a 16-bit timer *)
(* of five, and three carriers of different periods, as the protocols have *)
(* them, with the default in the middle.                                   *)
(***************************************************************************)
EXTENDS IrHw

SomeCarriers == {3, 4, 5}
=============================================================================
