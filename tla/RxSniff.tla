------------------------------ MODULE RxSniff ------------------------------
(***************************************************************************)
(* The sketch ir_rx_sniff.ino on top of Receiver: after every PopMsg() it  *)
(* prints rxBuf to the serial port.  By then Reset() has put the interrupt *)
(* handler to work on the same buffer, and the serial port is slow.        *)
(***************************************************************************)
EXTENDS Receiver

VARIABLES
  at,       \* where Print() is: "test" and "emit" in its loop, or past it
  printPos, \* its index in rxBuf.symbols
  popped,   \* history: what rxBuf held when PopMsg() let go of the frame
  dumped    \* history: the slots of that frame it has sent as they were

printer == <<at, printPos, popped, dumped>>
sniffVars == <<vars, printer>>

PrintPlaces == {"test", "emit", "overrun", "end"}

-----------------------------------------------------------------------------
SniffInit ==
  /\ Init
  /\ at = "test"
  /\ printPos = 0
  /\ popped = <<>>
  /\ dumped = {}

\* What Receiver does, with the frame noted that Reset() lets go of.
Receive ==
  /\ PinChange \/ ProcessISR \/ PopStep
  /\ popped' = IF gap # 0 /\ gap' = 0
               THEN [k \in 1 .. gap + 1 |-> symbols[k - 1]] ELSE popped
  /\ UNCHANGED <<at, printPos, dumped>>

\* while (data[pos] != 0) { if (pos >= max) ...
PrintTest ==
  /\ pc = "returned"
  /\ at = "test"
  /\ \E v \in ReadSlot(printPos) :
        at' = IF v = 0 THEN "end"
              ELSE IF printPos >= PKTSYMB_MAX THEN "overrun" ELSE "emit"
  /\ UNCHANGED <<vars, printPos, popped, dumped>>

\* Mutant: the index is not advanced.
PrintEmitStays ==
  /\ pc = "returned"
  /\ at = "emit"
  /\ \E v \in ReadSlot(printPos) :
        dumped' = IF printPos < Len(popped) /\ v = popped[printPos + 1]
                  THEN dumped \cup {printPos} ELSE dumped
  /\ at' = "test"
  /\ UNCHANGED <<vars, printPos, popped>>

\* Serial.print(data[pos]) reads the element a second time.
PrintEmit ==
  /\ pc = "returned"
  /\ at = "emit"
  /\ \E v \in ReadSlot(printPos) :
        dumped' = IF printPos < Len(popped) /\ v = popped[printPos + 1]
                  THEN dumped \cup {printPos} ELSE dumped
  /\ printPos' = printPos + 1
  /\ at' = "test"
  /\ UNCHANGED <<vars, popped>>

\* The end of loop(): it is called again with fresh locals.
SniffAgain ==
  /\ at \in {"overrun", "end"}
  /\ LoopAgain
  /\ at' = "test"
  /\ printPos' = 0
  /\ popped' = <<>>
  /\ dumped' = {}

Sketch == PrintTest \/ PrintEmit \/ SniffAgain

SniffNext == Receive \/ Sketch

SniffSpec == SniffInit /\ [][SniffNext]_sniffVars

\* The serial port drains, so Print() always goes on.
FairSniffSpec == SniffSpec /\ WF_sniffVars(Sketch)

-----------------------------------------------------------------------------
SniffTypeOK ==
  /\ TypeOK
  /\ at \in PrintPlaces
  /\ printPos \in 0 .. PKTSYMB_MAX
  /\ popped \in Seq(Int16)
  /\ dumped \subseteq 0 .. PKTSYMB_MAX - 1

\* The buffer has no terminator of its own after Reset(): Print() runs on into
\* whatever earlier, longer frames have left there, but never off the array.
NeverOverruns == at # "overrun"

\* The dump holds the frame that was popped, its gap included, and possibly
\* more.  Of slot 0, the dead time, it may hold a later value; and a dead time
\* of 0 (a mark at the first poll after power-up) ends the dump at once.
DumpHoldsFrame ==
  popped # <<>> /\ popped[1] # 0 => 1 .. Len(popped) - 1 \subseteq dumped

\* As long as no mark has arrived since Reset(), the dump is right up to the
\* gap; only what follows may be left over from other frames.
SilentLinePrintsFrame == at = "end" /\ rxPos = 0 => DumpHoldsFrame

\* However fast new frames arrive, a dump comes to an end.
PrintEnds == pc = "returned" ~> pc = "loop"

\* ir_rx_sniff.ino:3: the sketch dumps the received signal, that is, the frame
\* which PopMsg() has just decoded and which the message printed next is about.
PrintsThePoppedFrame == at = "end" => DumpHoldsFrame
=============================================================================
