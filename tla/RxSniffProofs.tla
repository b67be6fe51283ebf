--------------------------- MODULE RxSniffProofs ---------------------------
(***************************************************************************)
(* What the dump of ir_rx_sniff.ino holds, for every size: it never runs   *)
(* off the array in any build, and in a build that keeps the order of the  *)
(* source it is the frame that PopMsg() let go of, as long as no mark has  *)
(* arrived since.                                                          *)
(*                                                                         *)
(* PrintBounds, with the receiver's Bounds, is inductive in every build.   *)
(* For the content there are three facts more.  No element of a complete   *)
(* frame but the first is 0 (GapStored), so the dump cannot end within it. *)
(* From the first store of Reset() until the next mark the frame stays in  *)
(* the buffer (FrameStays).  And what the dump has passed, it holds        *)
(* (PrintedSoFar); only the first slot, which the handler is about to      *)
(* write, can be read torn, and even then not as 0 (DeadTime).             *)
(***************************************************************************)
EXTENDS RxSniff, MailboxProofs

-----------------------------------------------------------------------------
(* The array.                                                              *)

PrintBounds ==
  /\ at \in {"test", "emit", "end"}
  /\ printPos \in 0 .. PKTSYMB_MAX
  /\ at = "emit" => printPos < PKTSYMB_MAX
  /\ popped \in Seq(Int16) /\ Len(popped) <= PKTSYMB_MAX
  /\ dumped \subseteq 0 .. PKTSYMB_MAX - 1

\* What a step of the sketch does to the receiver.
LEMMA SniffStep ==
  ASSUME [SniffNext]_sniffVars
  PROVE  [Next]_vars
BY DEF SniffNext, Receive, Sketch, PrintTest, PrintEmit, SniffAgain, Next,
       Main, sniffVars

\* A frame that Reset() lets go of.
LEMMA PoppedFrame ==
  ASSUME Bounds
  PROVE  LET frame == [k \in 1 .. gap + 1 |-> symbols[k - 1]]
         IN  /\ frame \in Seq(Int16)
             /\ Len(frame) = gap + 1 /\ Len(frame) <= PKTSYMB_MAX
             /\ \A k \in 1 .. gap + 1 : frame[k] = symbols[k - 1]
<1>1. /\ gap + 1 \in Nat /\ gap + 1 <= PKTSYMB_MAX
      /\ \A k \in 1 .. gap + 1 : symbols[k - 1] \in Int16
  BY ConstAssumption DEF Bounds, TypeOK
<1> DEFINE frame == [k \in 1 .. gap + 1 |-> symbols[k - 1]]
<1>2. frame \in [1 .. gap + 1 -> Int16]
  BY <1>1
<1>3. frame \in Seq(Int16) /\ Len(frame) = gap + 1
  BY <1>1, <1>2, FunctionIsSeq
<1> QED
  BY <1>1, <1>3

\* Every step keeps the printer within the buffer.
LEMMA PrintBoundsNext ==
  ASSUME Bounds, PrintBounds, [SniffNext]_sniffVars
  PROVE  PrintBounds'
<1> USE ConstAssumption DEF PrintBounds
<1>1. CASE Receive
  <2>1. popped' = popped \/ popped' = [k \in 1 .. gap + 1 |-> symbols[k - 1]]
    BY <1>1 DEF Receive
  <2>2. popped' \in Seq(Int16) /\ Len(popped') <= PKTSYMB_MAX
    BY <2>1, PoppedFrame
  <2> QED
    BY <1>1, <2>2 DEF Receive
<1>2. CASE PrintTest
  <2>1. PICK v \in ReadSlot(printPos) :
           at' = IF v = 0 THEN "end"
                 ELSE IF printPos >= PKTSYMB_MAX THEN "overrun" ELSE "emit"
    BY <1>2 DEF PrintTest
  <2>2. printPos = PKTSYMB_MAX => v = 0
    BY <2>1, ReadSlotType
  <2>3. at' \in {"emit", "end"} /\ (at' = "emit" => printPos < PKTSYMB_MAX)
    BY <2>1, <2>2
  <2> QED
    BY <1>2, <2>3 DEF PrintTest
<1>3. CASE PrintEmit
  <2>1. dumped' \in {dumped, dumped \cup {printPos}}
    BY <1>3 DEF PrintEmit
  <2>2. printPos < PKTSYMB_MAX /\ printPos' = printPos + 1 /\ at' = "test"
    BY <1>3 DEF PrintEmit
  <2> QED
    BY <1>3, <2>1, <2>2 DEF PrintEmit
<1>4. CASE SniffAgain
  BY <1>4 DEF SniffAgain
<1>5. CASE UNCHANGED sniffVars
  BY <1>5 DEF sniffVars, printer
<1> QED
  BY <1>1, <1>2, <1>3, <1>4, <1>5 DEF SniffNext, Sketch

\* The printer stays within the buffer for ever.
LEMMA PrintBoundsInvariant == SniffSpec => [](Bounds /\ PrintBounds)
<1>1. SniffInit => Bounds /\ PrintBounds
  BY BoundsInit, ConstAssumption DEF SniffInit, PrintBounds
<1>2. Bounds /\ PrintBounds /\ [SniffNext]_sniffVars => (Bounds /\ PrintBounds)'
  BY SniffStep, BoundsNext, PrintBoundsNext
<1> QED
  BY <1>1, <1>2, PTL DEF SniffSpec

\* The sketch keeps its types, the receiver's among them, in every build.
THEOREM SniffTypeCorrect == SniffSpec => []SniffTypeOK
<1>1. Bounds /\ PrintBounds => SniffTypeOK
  BY DEF Bounds, PrintBounds, SniffTypeOK, PrintPlaces
<1> QED
  BY <1>1, PrintBoundsInvariant, PTL

\* The dump stops at the last slot of the array at the latest, whatever the
\* handler stores while it goes on, in every build.
THEOREM DumpInBuffer == SniffSpec => []NeverOverruns
<1>1. Bounds /\ PrintBounds => NeverOverruns
  BY DEF PrintBounds, NeverOverruns
<1> QED
  BY <1>1, PrintBoundsInvariant, PTL

-----------------------------------------------------------------------------
(* The content.                                                            *)

\* No element of a complete frame but the first is 0, the gap included.
GapStored == \A k \in 1 .. gap : symbols[k] # 0

\* Before the first poll there is nothing in slot 0 that could be torn.
DeadTime == symbols[0] # 0 => rxAccum >= 1

\* Outside Print() its locals are fresh; a frame has been noted only once
\* Reset() has begun.
PrintPlace ==
  /\ pc # "returned" => at = "test" /\ printPos = 0
  /\ popped # <<>> => pc = "returned" \/ rxState = RXSTATE_BUSY

\* The frame stays where it is until the next mark arrives.
FrameStays ==
  /\ \A k \in 2 .. Len(popped) : popped[k] # 0
  /\ rxState = RXSTATE_BUSY \/ rxPos = 0 =>
       \A k \in 1 .. Len(popped) : popped[k] = symbols[k - 1]

\* What the dump has passed it holds, and it does not end within the frame.
PrintedSoFar ==
  rxPos = 0 /\ popped # <<>> =>
    /\ \A k \in 1 .. printPos - 1 : k < Len(popped) => k \in dumped
    /\ at = "end" /\ popped[1] # 0 => printPos >= Len(popped)

Dump == GapStored /\ DeadTime /\ PrintPlace /\ FrameStays /\ PrintedSoFar

\* A value of two bytes whose upper byte is not 0 is not 0.
LEMMA JoinNonzero ==
  ASSUME NEW hi \in BYTE .. UINT16 - 1, NEW lo \in 0 .. UINT16 - 1
  PROVE  S16((hi \div BYTE) * BYTE + (lo % BYTE)) # 0
<1> DEFINE q == hi \div BYTE
           r == lo % BYTE
<1>1. BYTE \in Nat \ {0} /\ UINT16 \in Nat /\ hi \in Nat /\ lo \in Nat /\ hi >= BYTE
  BY ConstAssumption DEF UINT16
<1>2. q \in Nat \ {0} /\ r \in 0 .. BYTE - 1 /\ q * BYTE <= hi
  BY <1>1
<1> HIDE DEF q, r
<1>3. q * BYTE >= BYTE
  BY <1>1, <1>2
<1>4. (hi \div BYTE) * BYTE + (lo % BYTE) # 0
      /\ (hi \div BYTE) * BYTE + (lo % BYTE) # UINT16
      /\ (hi \div BYTE) * BYTE + (lo % BYTE) \in Nat
  <2>1. q * BYTE + r # 0 /\ q * BYTE + r \in Nat
    BY <1>1, <1>2, <1>3
  <2>2. q * BYTE + r # UINT16
    <3>1. UINT16 = BYTE * BYTE
      BY ConstAssumption DEF UINT16
    <3>2. q <= BYTE - 1
      <4>1. q >= BYTE => q * BYTE >= BYTE * BYTE
        BY <1>1, <1>2
      <4> QED
        BY <1>1, <1>2, <3>1, <4>1
    <3>3. q * BYTE <= (BYTE - 1) * BYTE
      BY <1>1, <1>2, <3>2
    <3>4. (BYTE - 1) * BYTE = BYTE * BYTE - BYTE
      BY <1>1
    <3> QED
      BY <1>1, <1>2, <3>1, <3>3, <3>4
  <2> QED
    BY <2>1, <2>2 DEF q, r
<1> QED
  BY <1>1, <1>4, ConstAssumption DEF S16, UINT16

\* The upper byte of a negative number is not 0.
LEMMA NegativeHigh ==
  ASSUME NEW x \in Int16, x < 0
  PROVE  Unsigned(x) \in BYTE .. UINT16 - 1
<1>1. BYTE \in Nat /\ BYTE * BYTE = 2 * MAXINT16 + 2 /\ MAXINT16 \in Nat
  BY ConstAssumption
<1>2. BYTE >= 2
  <2>1. BYTE = 0 => BYTE * BYTE = 0
    BY <1>1
  <2>2. BYTE = 1 => BYTE * BYTE = 1
    BY <1>1
  <2> QED
    BY <1>1, <2>1, <2>2
<1>3. BYTE * BYTE >= 2 * BYTE
  BY <1>1, <1>2
<1>4. MAXINT16 + 1 >= BYTE
  BY <1>1, <1>3
<1> QED
  BY <1>1, <1>4 DEF Unsigned, UINT16, Int16

\* Until a mark arrives only the first slot can be read torn, and then not
\* as 0.
LEMMA SilentRead ==
  ASSUME Bounds, Recording, DeadTime, rxPos = 0,
         NEW k \in 0 .. PKTSYMB_MAX, NEW v \in ReadSlot(k)
  PROVE  /\ k # 0 => v = symbols[k]
         /\ k = 0 /\ symbols[0] # 0 => v # 0
<1>1. CASE v = symbols[k]
  BY <1>1
<1>2. CASE AboutToWrite(k) /\ v \in Torn(k)
  <2>1. k = 0 /\ rxLast = 0
    BY <1>2, ConstAssumption DEF AboutToWrite, Done, Recording, Parity
  <2>2. ASSUME symbols[0] # 0
        PROVE  v # 0
    <3>1. symbols[0] \in Int16 /\ symbols[0] < 0
      <4>1. symbols[0] \in Int16 /\ symbols[0] <= 0
        BY ConstAssumption DEF Bounds, TypeOK, Recording, RunsSigned
      <4> QED
        BY <2>2, <4>1, ConstAssumption DEF Int16
    <3>2. Span \in Int16 /\ Span < 0
      BY <2>1, <2>2, SpanValue, ConstAssumption DEF DeadTime, Bounds, TypeOK
    <3> DEFINE old == Unsigned(symbols[0])
               new == Unsigned(Span)
    <3>3. old \in BYTE .. UINT16 - 1 /\ new \in BYTE .. UINT16 - 1
      BY <3>1, <3>2, NegativeHigh
    <3>4. \/ v = S16((old \div BYTE) * BYTE + (new % BYTE))
          \/ v = S16((new \div BYTE) * BYTE + (old % BYTE))
      BY <1>2, <2>1 DEF Torn
    <3> HIDE DEF old, new
    <3>5. old \in 0 .. UINT16 - 1 /\ new \in 0 .. UINT16 - 1
      BY <3>3, ConstAssumption
    <3> QED
      BY <3>3, <3>4, <3>5, JoinNonzero
  <2> QED
    BY <2>1, <2>2
<1> QED
  BY <1>1, <1>2 DEF ReadSlot

\* A poll records nothing, or a run or a gap that is not empty.
LEMMA PollWrites ==
  ASSUME Bounds, Recording, Poll
  PROVE  /\ rxPos >= 1 => rxPos' >= 1
         /\ rxPos' = 0 => symbols' = symbols
         /\ \A k \in 1 .. rxPos : symbols'[k] # 0 \/ symbols'[k] = symbols[k]
<1> USE ConstAssumption DEF Bounds, TypeOK
<1>1. /\ Span = IF rxLast = 1 THEN rxAccum ELSE -rxAccum
      /\ Stall(rxPos) = rxPos
      /\ Stall(rxPos + 1) = IF rxPos = PKTSYMB_MAX - 1 THEN rxPos ELSE rxPos + 1
  BY SpanValue DEF Stall
<1>2. rxPos >= 1 => Span # 0
  BY <1>1 DEF Recording
<1>3. CASE Complete
  <2>1. rxPos >= 1 /\ rxPos' = rxPos
    BY <1>1, <1>3 DEF Complete, Done
  <2> QED
    BY <1>2, <1>3, <2>1 DEF Complete
<1>4. CASE Edge
  <2>1. rxPos' >= 1
    BY <1>1, <1>4 DEF Edge
  <2> QED
    BY <1>2, <1>4, <2>1 DEF Edge
<1>5. CASE Hold
  BY <1>5 DEF Hold
<1> QED
  BY <1>3, <1>4, <1>5 DEF Poll

\* The interrupt handler stores no 0 below or at the gap.
LEMMA GapStoredPoll ==
  ASSUME Bounds, Recording, BehindGap, GapStored, Poll
  PROVE  GapStored'
<1> USE ConstAssumption DEF Bounds, TypeOK
<1>1. CASE gap' = gap
  <2>1. gap # 0 => gap <= rxPos
    BY DEF BehindGap
  <2> QED
    BY <1>1, <2>1, PollWrites DEF GapStored
<1>2. CASE Complete /\ gap' = rxPos
  <2>1. /\ symbols' = [symbols EXCEPT ![rxPos] = Span, ![rxPos + 1] = 0]
        /\ rxAccum > SIGFREE_MIN
    BY <1>2 DEF Complete, Done
  <2>2. symbols'[rxPos] # 0
    BY <2>1, SpanValue
  <2>3. \A k \in 1 .. rxPos - 1 : symbols[k] # 0
    BY DEF Recording, RunsSigned
  <2> QED
    BY <1>2, <2>2, <2>3, PollWrites DEF GapStored
<1> QED
  BY <1>1, <1>2 DEF Poll, Complete, Edge, Hold

\* What has been printed is still what the buffer holds after an interrupt.
LEMMA DumpPoll ==
  ASSUME IInv, PrintBounds, Dump, ProcessISR, Poll, UNCHANGED printer
  PROVE  Dump'
<1> USE DEF IInv, Dump, printer
<1>1. rxState # RXSTATE_BUSY /\ rxState' # RXSTATE_BUSY /\ UNCHANGED pc
  BY RecordingPoll DEF Poll, ProcessISR, client
<1>2. rxPos' = 0 => rxPos = 0 /\ symbols' = symbols
  BY PollWrites, ConstAssumption DEF Bounds, TypeOK
<1>3. GapStored'
  BY GapStoredPoll
<1>4. DeadTime'
  <2>1. rxAccum' >= 1
    <3>1. \A a \in 0 .. ACCUM_THRESH : Tick(a) \in 1 .. ACCUM_THRESH
      BY TickBound
    <3>2. rxAccum \in 0 .. ACCUM_THRESH /\ 0 \in 0 .. ACCUM_THRESH
      BY ConstAssumption DEF Bounds, TypeOK
    <3> QED
      BY <3>1, <3>2, ConstAssumption DEF Poll, Complete, Edge, Hold
  <2> QED
    BY <2>1 DEF DeadTime
<1>5. PrintPlace'
  BY <1>1 DEF PrintPlace
<1>6. FrameStays'
  BY <1>1, <1>2 DEF FrameStays
<1>7. PrintedSoFar'
  BY <1>1, <1>2 DEF PrintedSoFar
<1> QED
  BY <1>3, <1>4, <1>5, <1>6, <1>7

\* A step of Reset(), the first of which lets go of the frame.
LEMMA DumpStore ==
  ASSUME ~Optimised, IInv, PrintBounds, Dump, Store, Receive
  PROVE  Dump'
<1> USE ConstAssumption DEF IInv, Dump
<1>1. PICK s \in stores : /\ MayStore(s)
                          /\ Assign(s)
                          /\ stores' = stores \ {s}
  BY DEF Store
<1>2. /\ pc = "reset" /\ stores \in Tails
      /\ pc' = IF stores' = {} THEN "returned" ELSE "reset"
  BY DEF Store, Recording, ResetProgress
<1>3. gap' = 0 /\ UNCHANGED <<at, printPos, dumped>>
  BY StoreLetsGo DEF Receive
<1>4. at = "test" /\ printPos = 0
  BY <1>2 DEF PrintPlace
<1>5. \A k \in 0 .. PKTSYMB_MAX - 1 : symbols'[k] = symbols[k]
  <2>1. /\ symbols \in [0 .. PKTSYMB_MAX -> Int16]
        /\ symbols' \in {symbols, [symbols EXCEPT ![PKTSYMB_MAX] = 0]}
    BY <1>1, Zenon DEF Assign, Bounds, TypeOK
  <2> HIDE DEF IInv, Dump
  <2> QED
    BY <2>1
<1>6. GapStored'
  BY <1>3 DEF GapStored
<1>7. DeadTime'
  BY <1>1, <1>5 DEF DeadTime, Assign
<1>8. PrintPlace'
  <2>1. Recording'
    BY RecordingNext DEF Next, Main, PopStep
  <2>2. "busy" \notin stores'
    BY <1>1, <1>2, StoreOrder
  <2>3. pc' = "returned" \/ rxState' = RXSTATE_BUSY
    BY <1>2, <2>1, <2>2 DEF Recording, ResetProgress
  <2> QED
    BY <1>3, <1>4, <2>3 DEF PrintPlace
<1>9. PrintedSoFar'
  BY <1>3, <1>4 DEF PrintedSoFar
<1>10. FrameStays'
  <2>1. CASE gap # 0
    <3>1. popped' = [k \in 1 .. gap + 1 |-> symbols[k - 1]]
      BY <1>3, <2>1 DEF Receive
    <3>2. gap \in Nat /\ gap <= PKTSYMB_MAX - 1
      BY DEF Bounds, TypeOK
    <3>3. /\ Len(popped') = gap + 1
          /\ \A k \in 1 .. gap + 1 : popped'[k] = symbols[k - 1]
      BY <3>1, PoppedFrame
    <3>4. \A k \in 1 .. gap + 1 : symbols'[k - 1] = symbols[k - 1]
      BY <1>5, <3>2
    <3>5. \A k \in 2 .. gap + 1 : symbols[k - 1] # 0
      BY <3>2 DEF GapStored
    <3> QED
      BY <3>2, <3>3, <3>4, <3>5 DEF FrameStays
  <2>2. CASE gap = 0
    <3>1. popped' = popped
      BY <2>2 DEF Receive
    <3>2. popped # <<>> => rxState = RXSTATE_BUSY
      BY <1>2 DEF PrintPlace
    <3>3. popped = <<>> => Len(popped) = 0
      OBVIOUS
    <3>4. \A k \in 1 .. Len(popped) : popped[k] = symbols[k - 1]
      BY <3>2, <3>3 DEF FrameStays, PrintBounds
    <3>5. Len(popped) \in Nat /\ Len(popped) <= PKTSYMB_MAX
      BY DEF PrintBounds
    <3>6. \A k \in 1 .. Len(popped) : symbols'[k - 1] = symbols[k - 1]
      BY <1>5, <3>5
    <3> QED
      BY <3>1, <3>4, <3>6 DEF FrameStays
  <2> QED
    BY <2>1, <2>2
<1> QED
  BY <1>6, <1>7, <1>8, <1>9, <1>10

\* What Print() reads is the frame.
LEMMA DumpPrint ==
  ASSUME Bounds, Recording, PrintBounds, Dump, PrintTest \/ PrintEmit
  PROVE  Dump'
<1> USE ConstAssumption
<1>1. UNCHANGED <<rxState, rxPos, rxAccum, symbols, pc, gap, popped>> /\ pc = "returned"
  BY DEF PrintTest, PrintEmit, vars, code, client
<1>2. GapStored' /\ DeadTime' /\ PrintPlace' /\ FrameStays'
  BY <1>1 DEF Dump, GapStored, DeadTime, PrintPlace, FrameStays
<1>3. ASSUME rxPos = 0, popped # <<>>
      PROVE  /\ \A k \in 1 .. printPos' - 1 : k < Len(popped) => k \in dumped'
             /\ at' = "end" /\ popped[1] # 0 => printPos' >= Len(popped)
  <2>1. /\ Len(popped) \in Nat \ {0} /\ Len(popped) <= PKTSYMB_MAX
        /\ printPos \in 0 .. PKTSYMB_MAX
        /\ \A k \in 1 .. printPos - 1 : k < Len(popped) => k \in dumped
    BY <1>3 DEF PrintBounds, Dump, PrintedSoFar
  <2>2. /\ \A k \in 2 .. Len(popped) : popped[k] # 0
        /\ \A k \in 1 .. Len(popped) : popped[k] = symbols[k - 1]
    BY <1>3 DEF Dump, FrameStays
  <2>3. CASE PrintTest
    <3>1. PICK v \in ReadSlot(printPos) :
             at' = IF v = 0 THEN "end"
                   ELSE IF printPos >= PKTSYMB_MAX THEN "overrun" ELSE "emit"
      BY <2>3 DEF PrintTest
    <3>2. /\ printPos # 0 => v = symbols[printPos]
          /\ printPos = 0 /\ symbols[0] # 0 => v # 0
      BY <1>3, <2>1, <3>1, SilentRead DEF Dump
    <3>3. printPos' = printPos /\ dumped' = dumped
      BY <2>3 DEF PrintTest
    <3>4. ASSUME at' = "end", popped[1] # 0, printPos < Len(popped)
          PROVE  FALSE
      <4>1. v = 0
        BY <3>1, <3>4
      <4>2. popped[printPos + 1] = symbols[printPos]
            /\ (printPos # 0 => popped[printPos + 1] # 0)
        BY <2>1, <2>2, <3>4
      <4> QED
        BY <3>2, <3>4, <4>1, <4>2
    <3> QED
      BY <2>1, <3>3, <3>4
  <2>4. CASE PrintEmit
    <3>1. /\ \E v \in ReadSlot(printPos) :
                dumped' = IF printPos < Len(popped) /\ v = popped[printPos + 1]
                          THEN dumped \cup {printPos} ELSE dumped
          /\ at' = "test" /\ printPos' = printPos + 1
      BY <2>4 DEF PrintEmit
    <3>2. PICK v \in ReadSlot(printPos) :
                dumped' = IF printPos < Len(popped) /\ v = popped[printPos + 1]
                          THEN dumped \cup {printPos} ELSE dumped
      BY <3>1
    <3>3. printPos # 0 => v = symbols[printPos]
      BY <1>3, <2>1, <3>2, SilentRead DEF Dump
    <3>4. printPos # 0 /\ printPos < Len(popped) => popped[printPos + 1] = symbols[printPos]
      BY <2>1, <2>2
    <3>5. printPos # 0 /\ printPos < Len(popped) => printPos \in dumped'
      BY <3>2, <3>3, <3>4
    <3>6. \A k \in 1 .. printPos - 1 : k < Len(popped) => k \in dumped'
      BY <2>1, <3>2
    <3>7. at' # "end"
      BY <3>1
    <3> QED
      BY <2>1, <3>1, <3>5, <3>6, <3>7
  <2> QED
    BY <2>3, <2>4
<1>4. PrintedSoFar'
  BY <1>1, <1>3 DEF PrintedSoFar
<1> QED
  BY <1>2, <1>4 DEF Dump

\* It is so after every step.
LEMMA DumpNext ==
  ASSUME ~Optimised, IInv, PrintBounds, Dump, [SniffNext]_sniffVars
  PROVE  Dump'
<1>1. ASSUME UNCHANGED <<rxState, rxPos, rxAccum, symbols, gap>>, UNCHANGED printer,
             pc' = pc \/ (popped = <<>> /\ pc # "returned")
      PROVE  Dump'
  BY <1>1 DEF Dump, GapStored, DeadTime, PrintPlace, FrameStays, PrintedSoFar,
              printer
<1>2. CASE Receive /\ PinChange
  <2>1. UNCHANGED <<rxState, rxPos, rxAccum, symbols, gap, pc>>
    BY <1>2 DEF PinChange, code, client
  <2>2. UNCHANGED printer
    BY <1>2, <2>1 DEF Receive, printer
  <2> QED
    BY <1>1, <2>1, <2>2
<1>3. CASE Receive /\ ProcessISR
  <2>1. UNCHANGED client
    BY <1>3 DEF ProcessISR
  <2>2. CASE Ignore
    <3>1. UNCHANGED <<rxState, rxPos, rxAccum, symbols, gap, pc>>
      BY <2>1, <2>2 DEF Ignore, code, client
    <3>2. UNCHANGED printer
      BY <1>3, <3>1 DEF Receive, printer
    <3> QED
      BY <1>1, <3>1, <3>2
  <2>3. CASE Poll
    <3>1. gap # 0 => gap' # 0
      BY <2>3, PollKeepsFrame DEF IInv
    <3>2. UNCHANGED printer
      BY <1>3, <3>1 DEF Receive, printer
    <3> QED
      BY <1>3, <2>3, <3>2, DumpPoll
  <2> QED
    BY <1>3, <2>2, <2>3 DEF ProcessISR
<1>4. CASE Receive /\ Store
  BY <1>4, DumpStore
<1>5. CASE Receive /\ PopStep /\ ~Store
  <2>1. UNCHANGED <<code, gap>> /\ pc \in {"loop", "call", "decode"}
    BY <1>5 DEF PopStep, PopMsg, CallDecoder, MatchSymbol, DecodeSucceeds,
                DecodeFails
  <2>2. popped = <<>>
    BY <2>1 DEF Dump, PrintPlace, IInv, Recording, ResetProgress
  <2>3. UNCHANGED printer
    BY <1>5, <2>1 DEF Receive, printer
  <2> QED
    BY <1>1, <2>1, <2>2, <2>3 DEF code
<1>6. CASE PrintTest \/ PrintEmit
  BY <1>6, DumpPrint DEF IInv
<1>7. CASE SniffAgain
  <2>1. /\ UNCHANGED <<rxState, rxPos, rxAccum, symbols, gap>>
        /\ at' = "test" /\ printPos' = 0 /\ popped' = <<>>
    BY <1>7 DEF SniffAgain, LoopAgain, code
  <2>2. Len(popped') = 0
    BY <2>1
  <2> QED
    BY <2>1, <2>2
    DEF Dump, GapStored, DeadTime, PrintPlace, FrameStays, PrintedSoFar
<1>8. CASE UNCHANGED sniffVars
  <2>1. UNCHANGED <<rxState, rxPos, rxAccum, symbols, gap, pc>> /\ UNCHANGED printer
    BY <1>8 DEF sniffVars, vars, code, client
  <2> QED
    BY <1>1, <2>1
<1> QED
  BY <1>2, <1>3, <1>4, <1>5, <1>6, <1>7, <1>8
  DEF SniffNext, Sketch, Receive

\* In a build that keeps the order of the source, a dump that ends before the
\* next mark has arrived holds the whole frame that PopMsg() let go of, its gap
\* included, unless its dead time is 0.
THEOREM SilentDump ==
  ASSUME ~Optimised
  PROVE  SniffSpec => []SilentLinePrintsFrame
<1> DEFINE Inv == IInv /\ PrintBounds /\ Dump
<1>1. SniffInit => Inv
  <2>1. SniffInit => Dump
    <3> SUFFICES ASSUME SniffInit
                 PROVE  Dump
      OBVIOUS
    <3>1. Len(popped) = 0 /\ gap = 0 /\ symbols[0] = 0
      BY ConstAssumption DEF SniffInit, Init
    <3> QED
      BY <3>1 DEF SniffInit, Init, Dump, GapStored, DeadTime, PrintPlace,
                  FrameStays, PrintedSoFar
  <2>2. SniffInit => PrintBounds
    BY ConstAssumption DEF SniffInit, PrintBounds
  <2> QED
    BY <2>1, <2>2, BoundsInit, RecordingInit, ReadingInit DEF SniffInit, IInv
<1>2. Inv /\ [SniffNext]_sniffVars => Inv'
  <2>1. IInv /\ [SniffNext]_sniffVars => IInv'
    BY SniffStep, BoundsNext, RecordingNext, ReadingNext DEF IInv
  <2> QED
    BY <2>1, PrintBoundsNext, DumpNext DEF IInv
<1>3. Inv => SilentLinePrintsFrame
  <2> SUFFICES ASSUME Inv, at = "end", rxPos = 0, popped # <<>>, popped[1] # 0,
                      NEW k \in 1 .. Len(popped) - 1
               PROVE  k \in dumped
    BY DEF SilentLinePrintsFrame, DumpHoldsFrame
  <2> QED
    BY DEF PrintBounds, Dump, PrintedSoFar
<1> QED
  BY <1>1, <1>2, <1>3, PTL DEF SniffSpec
=============================================================================
