--------------------------- MODULE ReceiverProofs ---------------------------
(***************************************************************************)
(* What Receiver's runs check on small instances, proved for every polling *)
(* interval, threshold, integer width and buffer length, and for every     *)
(* number of decoders.                                                     *)
(*                                                                         *)
(* Bounds, the conjunction of the type invariant and of the sentinel at    *)
(* the end of the buffer, is inductive in every build.  Recording, which   *)
(* adds what rxLast, rxPos and the buffer have to do with each other and   *)
(* how far Reset() has come, is inductive where Reset() performs its       *)
(* assignments in the order of the source.                                 *)
(***************************************************************************)
EXTENDS Receiver, TLAPS

Bounds == TypeOK /\ ReadsStayInBuffer

-----------------------------------------------------------------------------
(* Arithmetic.                                                             *)

\* Counting one interval keeps the accumulator positive and saturates it.
LEMMA TickBound ==
  ASSUME NEW a \in 0 .. ACCUM_THRESH
  PROVE  /\ Tick(a) \in 1 .. ACCUM_THRESH
         /\ Tick(a) <= a + POLL_INTERVAL
BY ConstAssumption DEF Tick, U16, UINT16

\* A duration fits a SymCount of either sign.
LEMMA SpanValue ==
  ASSUME rxAccum \in 0 .. ACCUM_THRESH, rxLast \in {0, 1}
  PROVE  /\ Span \in Int16
         /\ Span = IF rxLast = 1 THEN rxAccum ELSE -rxAccum
BY ConstAssumption DEF Span, S16, Unsigned, UINT16, Int16

\* The index never leaves the buffer, nor its last slot.
LEMMA StallBound ==
  ASSUME NEW p \in 0 .. PKTSYMB_MAX
  PROVE  /\ Stall(p) \in 0 .. PKTSYMB_MAX - 1
         /\ p < PKTSYMB_MAX => Stall(p) = p
BY ConstAssumption DEF Stall

\* Inverted or not, the pin reads as 0 or 1.
LEMMA SymbolValue ==
  ASSUME pin \in {0, 1}
  PROVE  Symbol \in {0, 1}
BY ConstAssumption DEF Symbol

\* Half of one 16-bit number and half of another make a 16-bit number.
LEMMA JoinBound ==
  ASSUME NEW hi \in 0 .. UINT16 - 1, NEW lo \in 0 .. UINT16 - 1
  PROVE  S16((hi \div BYTE) * BYTE + (lo % BYTE)) \in Int16
<1> DEFINE q == hi \div BYTE
           r == lo % BYTE
<1>1. /\ q \in Nat /\ r \in 0 .. BYTE - 1
      /\ q * BYTE <= hi
  BY ConstAssumption DEF UINT16
<1>2. BYTE \in Nat \ {0} /\ hi < BYTE * BYTE
  BY ConstAssumption DEF UINT16
<1> HIDE DEF q, r
<1>3. q <= BYTE - 1
  <2>1. CASE q >= BYTE
    <3>1. q * BYTE >= BYTE * BYTE
      BY <1>1, <1>2, <2>1
    <3> QED
      BY <1>1, <1>2, <3>1
  <2> QED
    BY <1>1, <1>2, <2>1
<1>4. q * BYTE <= (BYTE - 1) * BYTE
  BY <1>1, <1>2, <1>3
<1>5. (BYTE - 1) * BYTE = BYTE * BYTE - BYTE
  BY <1>2
<1>6. q * BYTE + r \in 0 .. UINT16 - 1
  BY <1>1, <1>2, <1>4, <1>5, ConstAssumption DEF UINT16
<1> QED
  BY <1>6, ConstAssumption DEF q, r, S16, UINT16, Int16

\* Whatever a read returns is a SymCount, and the last slot reads as 0.
LEMMA ReadSlotType ==
  ASSUME Bounds, NEW k \in 0 .. PKTSYMB_MAX, NEW v \in ReadSlot(k)
  PROVE  v \in Int16 /\ (k = PKTSYMB_MAX => v = 0)
<1>1. CASE v = symbols[k]
  BY <1>1, ConstAssumption DEF Bounds, TypeOK, ReadsStayInBuffer
<1>2. CASE v \in Torn(k) /\ k < PKTSYMB_MAX
  <2> DEFINE old == Unsigned(symbols[k])
             new == IF k = rxPos THEN Unsigned(Span) ELSE 0
  <2>1. old \in 0 .. UINT16 - 1
    BY ConstAssumption DEF Bounds, TypeOK, Unsigned, UINT16, Int16
  <2>2. new \in 0 .. UINT16 - 1
    <3>1. Span \in Int16
      BY SpanValue DEF Bounds, TypeOK
    <3> QED
      BY <3>1, ConstAssumption DEF Unsigned, UINT16, Int16
  <2> HIDE DEF old, new
  <2>3. \/ v = S16((old \div BYTE) * BYTE + (new % BYTE))
        \/ v = S16((new \div BYTE) * BYTE + (old % BYTE))
    BY <1>2 DEF Torn, old, new
  <2> QED
    BY <1>2, <2>1, <2>2, <2>3, JoinBound
<1> QED
  BY <1>1, <1>2 DEF ReadSlot

-----------------------------------------------------------------------------
(* Bounds is inductive.                                                    *)

\* The bounds hold at first.
LEMMA BoundsInit == Init => Bounds
BY ConstAssumption
DEF Init, Bounds, TypeOK, ReadsStayInBuffer, RxState, RXSTATE_BUSY,
    RXSTATE_READY, RXSTATE_MSGCOMPLETE, Places, Int16

\* The interrupt handler stays within the buffer and does not overflow.
LEMMA BoundsPoll ==
  ASSUME Bounds, Poll
  PROVE  /\ rxState' \in RxState
         /\ rxLast' \in {0, 1}
         /\ rxPos' \in 0 .. PKTSYMB_MAX - 1
         /\ rxAccum' \in 0 .. ACCUM_THRESH
         /\ symbols' \in [0 .. PKTSYMB_MAX -> Int16]
         /\ symbols'[PKTSYMB_MAX] = 0
         /\ gap' \in 0 .. PKTSYMB_MAX - 1
<1>0. /\ Span \in Int16 /\ 0 \in Int16
      /\ Symbol \in {0, 1}
      /\ Tick(rxAccum) \in 0 .. ACCUM_THRESH /\ Tick(0) \in 0 .. ACCUM_THRESH
      /\ Stall(rxPos) = rxPos
      /\ Stall(rxPos + 1) \in 0 .. PKTSYMB_MAX - 1
  <2>1. Span \in Int16 /\ 0 \in Int16 /\ Symbol \in {0, 1}
    BY SpanValue, SymbolValue, ConstAssumption DEF Bounds, TypeOK, Int16
  <2>2. Tick(rxAccum) \in 0 .. ACCUM_THRESH /\ Tick(0) \in 0 .. ACCUM_THRESH
    <3>1. rxAccum \in 0 .. ACCUM_THRESH /\ 0 \in 0 .. ACCUM_THRESH
      BY ConstAssumption DEF Bounds, TypeOK
    <3>2. \A a \in 0 .. ACCUM_THRESH : Tick(a) \in 1 .. ACCUM_THRESH
      BY TickBound
    <3> QED
      BY <3>1, <3>2
  <2>3. Stall(rxPos) = rxPos /\ Stall(rxPos + 1) \in 0 .. PKTSYMB_MAX - 1
    BY ConstAssumption DEF Stall, Bounds, TypeOK
  <2> QED
    BY <2>1, <2>2, <2>3
<1>1. CASE Complete
  BY <1>0, <1>1, ConstAssumption
  DEF Complete, Done, Bounds, TypeOK, ReadsStayInBuffer, RxState
<1>2. CASE Edge
  BY <1>0, <1>2, ConstAssumption
  DEF Edge, Bounds, TypeOK, ReadsStayInBuffer
<1>3. CASE Hold
  BY <1>0, <1>3 DEF Hold, Bounds, TypeOK, ReadsStayInBuffer
<1> QED
  BY <1>1, <1>2, <1>3 DEF Poll

\* So does every step.
LEMMA BoundsNext ==
  ASSUME Bounds, [Next]_vars
  PROVE  Bounds'
<1> USE ConstAssumption DEF Bounds, TypeOK, ReadsStayInBuffer
<1>1. CASE PinChange
  BY <1>1 DEF PinChange, code, client
<1>2. CASE ProcessISR
  <2>1. Ignore => Bounds'
    BY <1>2 DEF ProcessISR, Ignore, code, client
  <2>2. Poll => Bounds'
    BY <1>2, BoundsPoll DEF ProcessISR, client
  <2> QED
    BY <1>2, <2>1, <2>2 DEF ProcessISR
<1>3. CASE PopMsg
  BY <1>3 DEF PopMsg, code, Places
<1>4. CASE CallDecoder
  BY <1>4 DEF CallDecoder, code, Places
<1>5. CASE MatchSymbol
  <2>1. PICK v \in ReadSlot(pos) : Matchable(v) /\ seen' = Append(seen, v)
    BY <1>5 DEF MatchSymbol
  <2>2. v \in Int16 /\ pos # PKTSYMB_MAX
    BY <2>1, ReadSlotType DEF Matchable
  <2> QED
    BY <1>5, <2>1, <2>2 DEF MatchSymbol, code
<1>6. CASE DecodeSucceeds
  BY <1>6 DEF DecodeSucceeds, EnterReset, code, Places
<1>7. CASE DecodeFails
  BY <1>7 DEF DecodeFails, EnterReset, code, Places
<1>8. CASE Store
  <2>1. PICK s \in stores : Assign(s) /\ stores' = stores \ {s}
    BY <1>8 DEF Store
  <2>2. symbols' \in [0 .. PKTSYMB_MAX -> Int16] /\ symbols'[PKTSYMB_MAX] = 0
    BY <2>1 DEF Assign, Int16
  <2>3. rxState' \in RxState
    BY <2>1 DEF Assign, RxState
  <2>4. rxLast' \in {0, 1} /\ rxPos' \in 0 .. PKTSYMB_MAX - 1
    <3>1. rxLast' \in {rxLast, 0} /\ rxPos' \in {rxPos, 0}
      BY <2>1, ZenonT(30) DEF Assign
    <3> QED
      BY <3>1
  <2>5. rxAccum' = rxAccum
    BY <2>1 DEF Assign
  <2>6. stores' \subseteq ResetStores /\ pc' \in Places
    BY <1>8, <2>1 DEF Store, Places
  <2>7. ResetStores' = ResetStores
    BY DEF ResetStores
  <2> QED
    BY <1>8, <2>2, <2>3, <2>4, <2>5, <2>6, <2>7 DEF Store
<1>9. CASE LoopAgain
  BY <1>9 DEF LoopAgain, code, Places
<1>10. CASE CallReset
  BY <1>10 DEF CallReset, EnterReset, code, Places
<1>11. CASE UNCHANGED vars
  BY <1>11 DEF vars, code, client
<1> QED
  BY <1>1, <1>2, <1>3, <1>4, <1>5, <1>6, <1>7, <1>8, <1>9, <1>10, <1>11
  DEF Next, Main, PopStep

\* The bounds are an invariant.
LEMMA BoundsInvariant == Spec => []Bounds
BY BoundsInit, BoundsNext, PTL DEF Spec

\* The receiver keeps its types in every build: rxAccum saturates before it
\* wraps, every duration fits a SymCount and rxPos never leaves the buffer.
THEOREM TypeCorrect == Spec => []TypeOK
BY BoundsInvariant, PTL DEF Bounds

\* A decoder never reads beyond rxBuf.symbols, in any build.
THEOREM ReadsInBuffer == Spec => []ReadsStayInBuffer
BY BoundsInvariant, PTL DEF Bounds

-----------------------------------------------------------------------------
(* Recording is inductive in a build that keeps the order of the source.   *)

\* What is left of Reset() at each of its points.
Tails ==
  {{"busy", "rxLast", "rxPos", "term", "ready"},
   {"rxLast", "rxPos", "term", "ready"},
   {"rxPos", "term", "ready"}, {"term", "ready"}, {"ready"}}

\* Between its first and its last assignment Reset() keeps the handler out,
\* and has cleared what it has passed.
ResetProgress ==
  /\ IF pc = "reset" THEN stores \in Tails ELSE stores = {}
  /\ rxState = RXSTATE_BUSY <=> pc = "reset" /\ "busy" \notin stores
  /\ rxState = RXSTATE_BUSY =>
       /\ "rxLast" \notin stores => rxLast = 0
       /\ "rxPos" \notin stores => rxPos = 0

\* The recorded part of the buffer, which holds during Reset() as well.
RunsSigned ==
  /\ symbols[0] <= 0
  /\ \A k \in 1 .. rxPos - 1 :
        IF k % 2 = 1 THEN symbols[k] > 0 ELSE symbols[k] < 0

Parity == rxState # RXSTATE_BUSY => (rxPos < PKTSYMB_MAX - 1 => rxLast = rxPos % 2)

Recording ==
  /\ ResetProgress
  /\ RunsSigned
  /\ Parity
  /\ rxPos >= 1 => rxAccum >= 1
  /\ CompletesPromptly

\* The recording is well formed at first.
LEMMA RecordingInit == Init => Recording
BY ConstAssumption
DEF Init, Recording, ResetProgress, RunsSigned, Parity, CompletesPromptly,
    RXSTATE_BUSY, RXSTATE_READY

\* A poll records the run that ended with the right sign at the right index.
LEMMA RecordingPoll ==
  ASSUME Bounds, Recording, Poll
  PROVE  /\ rxState' # RXSTATE_BUSY
         /\ RunsSigned'
         /\ Parity'
         /\ rxPos' >= 1 => rxAccum' >= 1
         /\ CompletesPromptly'
<1> USE ConstAssumption DEF Bounds, TypeOK
<1>0. /\ Span = IF rxLast = 1 THEN rxAccum ELSE -rxAccum
      /\ Symbol \in {0, 1}
      /\ rxState # RXSTATE_BUSY
      /\ RXSTATE_BUSY # RXSTATE_MSGCOMPLETE /\ RXSTATE_READY # RXSTATE_MSGCOMPLETE
  <2>1. Span = IF rxLast = 1 THEN rxAccum ELSE -rxAccum
    BY SpanValue
  <2>2. Symbol \in {0, 1}
    BY SymbolValue
  <2> QED
    BY <2>1, <2>2 DEF Poll, RXSTATE_BUSY, RXSTATE_MSGCOMPLETE, RXSTATE_READY
<1>1. \A a \in 0 .. ACCUM_THRESH : /\ Tick(a) \in 1 .. ACCUM_THRESH
                                   /\ Tick(a) <= a + POLL_INTERVAL
  BY TickBound
<1>2. rxAccum' >= 1
  <2>1. Tick(rxAccum) >= 1 /\ Tick(0) >= 1
    BY <1>1
  <2> QED
    BY <2>1 DEF Poll, Complete, Edge, Hold
<1>3. CASE Complete
  <2>1. rxState' = RXSTATE_MSGCOMPLETE /\ rxPos' = rxPos /\ rxPos >= 1
        /\ rxLast' = rxLast
    BY <1>3 DEF Complete, Done, Stall
  <2>2. \A k \in 0 .. rxPos - 1 : symbols'[k] = symbols[k]
    BY <1>3 DEF Complete
  <2>3. RunsSigned'
    BY <2>1, <2>2 DEF Recording, RunsSigned
  <2> QED
    BY <1>0, <1>2, <2>1, <2>3 DEF Recording, Parity, CompletesPromptly
<1>4. CASE Edge
  <2>1. /\ rxState' = rxState /\ rxLast' = Symbol /\ Symbol # rxLast
        /\ rxAccum' = Tick(0)
        /\ symbols' = [symbols EXCEPT ![rxPos] = Span]
        /\ rxPos' = IF rxPos = PKTSYMB_MAX - 1 THEN rxPos ELSE rxPos + 1
    BY <1>4 DEF Edge, Stall
  <2>2. rxPos < PKTSYMB_MAX - 1 => rxLast = rxPos % 2
    BY <1>0 DEF Recording, Parity
  <2>3. Parity'
    <3>1. rxPos' < PKTSYMB_MAX - 1 =>
            rxPos < PKTSYMB_MAX - 1 /\ rxPos' = rxPos + 1
      BY <2>1
    <3> QED
      BY <1>0, <2>1, <2>2, <3>1 DEF Parity
  <2>4. symbols'[0] <= 0
    <3>1. rxPos = 0 => rxLast = 0
      BY <2>2
    <3> QED
      BY <1>0, <2>1, <3>1 DEF Recording, RunsSigned
  <2>5. ASSUME NEW k \in 1 .. rxPos' - 1
        PROVE  IF k % 2 = 1 THEN symbols'[k] > 0 ELSE symbols'[k] < 0
    <3>1. CASE k = rxPos
      <4>1. rxLast = k % 2 /\ rxAccum >= 1 /\ symbols'[k] = Span
        BY <2>1, <2>2, <2>5, <3>1 DEF Recording
      <4> QED
        BY <1>0, <4>1
    <3>2. CASE k # rxPos
      <4>1. k \in 1 .. rxPos - 1 /\ symbols'[k] = symbols[k]
        BY <2>1, <2>5, <3>2
      <4> QED
        BY <4>1 DEF Recording, RunsSigned
    <3> QED
      BY <3>1, <3>2
  <2>6. rxAccum' <= SIGFREE_MIN + POLL_INTERVAL
    BY <1>1, <2>1
  <2> QED
    BY <1>0, <1>2, <2>1, <2>3, <2>4, <2>5, <2>6 DEF RunsSigned, CompletesPromptly
<1>5. CASE Hold
  <2>1. /\ UNCHANGED <<rxState, rxLast, rxPos, symbols>>
        /\ rxAccum' = Tick(rxAccum)
        /\ rxLast = 0 /\ rxPos >= 1 => rxAccum <= SIGFREE_MIN
    BY <1>5 DEF Hold, Done
  <2>2. rxLast = 0 /\ rxPos >= 1 => rxAccum' <= SIGFREE_MIN + POLL_INTERVAL
    BY <1>1, <2>1
  <2> QED
    BY <1>0, <1>2, <2>1, <2>2
    DEF Recording, RunsSigned, Parity, CompletesPromptly
<1> QED
  BY <1>0, <1>2, <1>3, <1>4, <1>5 DEF Poll

\* The next assignment is the first of those that are left.
LEMMA StoreOrder ==
  ASSUME ~Optimised, stores \in Tails, NEW s \in stores, MayStore(s)
  PROVE  /\ stores \ {s} \in Tails \cup {{}}
         /\ s = "busy" <=> "busy" \in stores
         /\ s = "rxLast" <=> "rxLast" \in stores /\ "busy" \notin stores
         /\ s = "rxPos" <=> "rxPos" \in stores /\ "rxLast" \notin stores
         /\ s = "ready" <=> stores \ {s} = {}
<1>1. PICK i \in 1 .. 5 : /\ SourceOrder[i] = s
                          /\ \A j \in 1 .. (i - 1) : SourceOrder[j] \notin stores
  BY DEF MayStore, SourceOrder
<1>2. /\ SourceOrder[1] = "busy" /\ SourceOrder[2] = "rxLast"
      /\ SourceOrder[3] = "rxPos" /\ SourceOrder[4] = "term"
      /\ SourceOrder[5] = "ready"
  BY DEF SourceOrder
<1>3. CASE i = 1
  BY <1>1, <1>2, <1>3 DEF Tails
<1>4. CASE i = 2
  <2>1. SourceOrder[1] \notin stores
    BY <1>1, <1>4
  <2> QED
    BY <1>1, <1>2, <1>4, <2>1 DEF Tails
<1>5. CASE i = 3
  <2>1. SourceOrder[1] \notin stores /\ SourceOrder[2] \notin stores
    BY <1>1, <1>5
  <2> QED
    BY <1>1, <1>2, <1>5, <2>1 DEF Tails
<1>6. CASE i = 4
  <2>1. SourceOrder[1] \notin stores /\ SourceOrder[2] \notin stores
        /\ SourceOrder[3] \notin stores
    BY <1>1, <1>6
  <2> QED
    BY <1>1, <1>2, <1>6, <2>1 DEF Tails
<1>7. CASE i = 5
  <2>1. SourceOrder[1] \notin stores /\ SourceOrder[2] \notin stores
        /\ SourceOrder[3] \notin stores /\ SourceOrder[4] \notin stores
    BY <1>1, <1>7
  <2> QED
    BY <1>1, <1>2, <1>7, <2>1 DEF Tails
<1> QED
  BY <1>3, <1>4, <1>5, <1>6, <1>7

\* Every step of an unoptimised build keeps it so.
LEMMA RecordingNext ==
  ASSUME ~Optimised, Bounds, Recording, [Next]_vars
  PROVE  Recording'
<1> DEFINE Rest == RunsSigned /\ Parity /\ (rxPos >= 1 => rxAccum >= 1)
                   /\ CompletesPromptly
<1>1. ASSUME UNCHANGED <<rxState, rxLast, rxPos, rxAccum, symbols>>
      PROVE  Rest'
  BY <1>1 DEF Recording, RunsSigned, Parity, CompletesPromptly
<1>2. ASSUME UNCHANGED <<rxState, rxLast, rxPos, pc, stores>>
      PROVE  ResetProgress'
  BY <1>2 DEF Recording, ResetProgress
<1>3. CASE PinChange
  BY <1>1, <1>2, <1>3 DEF PinChange, code, client, Recording
<1>4. CASE ProcessISR
  <2>1. CASE Ignore
    BY <1>1, <1>2, <1>4, <2>1 DEF ProcessISR, Ignore, code, client, Recording
  <2>2. CASE Poll
    <3>1. Rest' /\ rxState' # RXSTATE_BUSY
      BY <2>2, RecordingPoll
    <3>2. UNCHANGED <<pc, stores>> /\ rxState # RXSTATE_BUSY
      BY <1>4, <2>2 DEF ProcessISR, Poll, client
    <3>3. ResetProgress'
      BY <3>1, <3>2 DEF Recording, ResetProgress
    <3> QED
      BY <3>1, <3>3 DEF Recording
  <2> QED
    BY <1>4, <2>1, <2>2 DEF ProcessISR
<1>5. ASSUME \/ PopMsg \/ CallDecoder \/ MatchSymbol \/ LoopAgain
             \/ DecodeFails /\ decoder < NumDecoders
      PROVE  Recording'
  <2>1. /\ UNCHANGED <<rxState, rxLast, rxPos, rxAccum, symbols, stores>>
        /\ pc # "reset" /\ pc' # "reset"
    <3>1. CASE PopMsg
      BY <3>1 DEF PopMsg, code
    <3>2. CASE CallDecoder
      BY <3>2 DEF CallDecoder, code
    <3>3. CASE MatchSymbol
      BY <3>3 DEF MatchSymbol, code
    <3>4. CASE LoopAgain
      BY <3>4 DEF LoopAgain, code
    <3>5. CASE DecodeFails /\ decoder < NumDecoders
      BY <3>5, ConstAssumption DEF DecodeFails, EnterReset, code, Bounds, TypeOK
    <3> QED
      BY <1>5, <3>1, <3>2, <3>3, <3>4, <3>5
  <2>2. ResetProgress'
    BY <2>1 DEF Recording, ResetProgress
  <2> QED
    BY <1>1, <2>1, <2>2 DEF Recording
<1>6. ASSUME \/ DecodeSucceeds \/ CallReset
             \/ DecodeFails /\ ~(decoder < NumDecoders)
      PROVE  Recording'
  <2>1. /\ UNCHANGED <<rxState, rxLast, rxPos, rxAccum, symbols>>
        /\ pc # "reset" /\ pc' = "reset" /\ stores' = ResetStores
    BY <1>6 DEF DecodeSucceeds, CallReset, DecodeFails, EnterReset, code
  <2>2. ResetStores = {"busy", "rxLast", "rxPos", "term", "ready"}
    BY DEF ResetStores
  <2>3. ResetProgress'
    BY <2>1, <2>2 DEF Recording, ResetProgress, Tails
  <2> QED
    BY <1>1, <2>1, <2>3 DEF Recording
<1>7. CASE Store
  <2>1. PICK s \in stores : /\ MayStore(s)
                            /\ Assign(s)
                            /\ stores' = stores \ {s}
    BY <1>7 DEF Store
  <2>2. /\ pc = "reset" /\ stores \in Tails
        /\ pc' = IF stores' = {} THEN "returned" ELSE "reset"
    BY <1>7 DEF Store, Recording, ResetProgress
  <2>3. /\ stores' \in Tails \cup {{}}
        /\ s = "busy" <=> "busy" \in stores
        /\ s = "rxLast" <=> "rxLast" \in stores /\ "busy" \notin stores
        /\ s = "rxPos" <=> "rxPos" \in stores /\ "rxLast" \notin stores
        /\ s = "ready" <=> stores' = {}
    BY <2>1, <2>2, StoreOrder
  <2>4. /\ rxState' = IF s = "busy" THEN RXSTATE_BUSY
                      ELSE IF s = "ready" THEN RXSTATE_READY ELSE rxState
        /\ rxLast' = IF s = "rxLast" THEN 0 ELSE rxLast
        /\ rxPos' = IF s = "rxPos" THEN 0 ELSE rxPos
        /\ rxAccum' = rxAccum
        /\ \A k \in 0 .. PKTSYMB_MAX - 1 : symbols'[k] = symbols[k]
    BY <2>1 DEF Assign, Bounds, TypeOK
  <2>5. rxState # RXSTATE_BUSY => s = "busy"
    BY <2>2, <2>3 DEF Recording, ResetProgress
  <2>6. rxState' = RXSTATE_BUSY <=> stores' # {}
    BY <2>2, <2>3, <2>4, <2>5 DEF RXSTATE_BUSY, RXSTATE_READY, Tails
  <2>7. "busy" \notin stores'
    BY <2>1, <2>3
  <2>8. /\ "rxLast" \notin stores' => rxLast' = 0
        /\ "rxPos" \notin stores' => rxPos' = 0
    BY <2>1, <2>2, <2>3, <2>4, <2>5 DEF Recording, ResetProgress, Tails
  <2>9. ResetProgress'
    BY <2>2, <2>3, <2>6, <2>7, <2>8 DEF ResetProgress
  <2>10. RunsSigned'
    <3>1. rxPos' \in 0 .. rxPos /\ rxPos \in 0 .. PKTSYMB_MAX - 1
      BY <2>4 DEF Bounds, TypeOK
    <3> QED
      BY <2>4, <3>1, ConstAssumption DEF Recording, RunsSigned
  <2>11. rxState' # RXSTATE_BUSY => rxLast' = 0 /\ rxPos' = 0
    BY <2>6, <2>8
  <2> QED
    BY <2>4, <2>9, <2>10, <2>11
    DEF Recording, Parity, CompletesPromptly, RXSTATE_BUSY, RXSTATE_READY,
        Bounds, TypeOK
<1>8. CASE UNCHANGED vars
  BY <1>1, <1>2, <1>8 DEF vars, code, client, Recording
<1> QED
  BY <1>3, <1>4, <1>5, <1>6, <1>7, <1>8 DEF Next, Main, PopStep

\* The recording of an unoptimised build is well formed for ever.
LEMMA RecordingInvariant ==
  ASSUME ~Optimised
  PROVE  Spec => [](Bounds /\ Recording)
<1>1. Init => Bounds /\ Recording
  BY BoundsInit, RecordingInit
<1>2. Bounds /\ Recording /\ [Next]_vars => (Bounds /\ Recording)'
  BY BoundsNext, RecordingNext
<1> QED
  BY <1>1, <1>2, PTL DEF Spec

\* In a build that keeps the order of the source, marks and spaces alternate
\* in the buffer with the marks at the odd indices, whatever Reset() and the
\* handler do to each other.
THEOREM AlternatingRuns ==
  ASSUME ~Optimised
  PROVE  Spec => []RunsAlternate
<1>1. Bounds /\ Recording => RunsAlternate
  BY DEF Recording, RunsSigned, Parity, RunsAlternate
<1> QED
  BY <1>1, RecordingInvariant, PTL

\* In such a build a frame that can be completed is completed at once.
THEOREM PromptCompletion ==
  ASSUME ~Optimised
  PROVE  Spec => []CompletesPromptly
<1>1. Bounds /\ Recording => CompletesPromptly
  BY DEF Recording
<1> QED
  BY <1>1, RecordingInvariant, PTL

-----------------------------------------------------------------------------
(* Silence before completion.                                              *)

\* The accumulator of a space counts no more polls than have seen no signal.
Silence ==
  rxState = RXSTATE_READY /\ rxPos >= 1 /\ rxLast = 0
    => rxAccum <= quiet * POLL_INTERVAL \/ quiet = QuietCap

\* What the handler adds to quiet when it finds the line silent.
LEMMA QuietStep ==
  ASSUME Bounds, ProcessISR, Symbol = 0
  PROVE  \/ quiet' = QuietCap
         \/ /\ quiet' = quiet + 1
            /\ quiet' * POLL_INTERVAL = quiet * POLL_INTERVAL + POLL_INTERVAL
            /\ quiet * POLL_INTERVAL \in Nat
<1>1. quiet \in Nat /\ POLL_INTERVAL \in Nat
  BY ConstAssumption DEF Bounds, TypeOK
<1>2. /\ (quiet + 1) * POLL_INTERVAL = quiet * POLL_INTERVAL + POLL_INTERVAL
      /\ quiet * POLL_INTERVAL \in Nat
  BY <1>1
<1>3. quiet' = quiet + 1 \/ quiet' = QuietCap
  BY DEF ProcessISR
<1> QED
  BY <1>2, <1>3

\* A poll counts in quiet what it adds to rxAccum.
LEMMA SilencePoll ==
  ASSUME Bounds, Recording, Silence, Poll, ProcessISR
  PROVE  Silence'
<1>1. /\ Symbol \in {0, 1} /\ rxLast \in {0, 1} /\ quiet \in Nat
      /\ rxAccum \in 0 .. ACCUM_THRESH /\ 0 \in 0 .. ACCUM_THRESH
      /\ POLL_INTERVAL \in Nat
  BY SymbolValue, ConstAssumption DEF Bounds, TypeOK
<1>2. Tick(rxAccum) <= rxAccum + POLL_INTERVAL /\ Tick(0) <= POLL_INTERVAL
      /\ Tick(rxAccum) \in Nat /\ Tick(0) \in Nat
  BY <1>1, TickBound, ConstAssumption
<1>3. CASE Complete
  BY <1>3 DEF Complete, Silence, RXSTATE_READY, RXSTATE_MSGCOMPLETE
<1>4. CASE Edge /\ Symbol = 1
  BY <1>4 DEF Edge, Silence
<1>5. CASE Edge /\ Symbol = 0
  BY <1>1, <1>2, <1>5, QuietStep DEF Edge, Silence
<1>6. CASE Hold /\ Symbol = 1
  BY <1>6 DEF Hold, Silence
<1>7. CASE Hold /\ Symbol = 0
  <2>1. /\ UNCHANGED <<rxState, rxLast, rxPos>>
        /\ rxAccum' = Tick(rxAccum)
    BY <1>7 DEF Hold
  <2>2. \/ quiet' = QuietCap
        \/ /\ quiet' = quiet + 1
           /\ quiet' * POLL_INTERVAL = quiet * POLL_INTERVAL + POLL_INTERVAL
           /\ quiet * POLL_INTERVAL \in Nat
    BY <1>7, QuietStep
  <2>3. quiet = QuietCap => quiet' = QuietCap
    BY <1>7, <1>1 DEF ProcessISR
  <2> QED
    BY <1>1, <1>2, <2>1, <2>2, <2>3 DEF Silence
<1> QED
  BY <1>1, <1>3, <1>4, <1>5, <1>6, <1>7 DEF Poll

\* Every step keeps rxAccum from running ahead of the silence.
LEMMA SilenceNext ==
  ASSUME ~Optimised, Bounds, Recording, Silence, [Next]_vars
  PROVE  Silence'
<1>1. CASE UNCHANGED <<rxState, rxLast, rxPos, rxAccum, quiet>>
  BY <1>1 DEF Silence
<1>2. CASE ProcessISR /\ Ignore
  BY <1>2 DEF Ignore, code, Silence, RXSTATE_BUSY, RXSTATE_READY
<1>3. CASE ProcessISR /\ Poll
  BY <1>3, SilencePoll
<1>4. CASE Store
  <2>1. Recording'
    BY <1>4, RecordingNext DEF Next, Main, PopStep
  <2>2. PICK s \in stores : /\ MayStore(s)
                            /\ Assign(s)
                            /\ stores' = stores \ {s}
    BY <1>4 DEF Store
  <2>3. pc = "reset" /\ stores \in Tails
    BY <1>4 DEF Store, Recording, ResetProgress
  <2>4. s = "ready" <=> stores' = {}
    BY <2>2, <2>3, StoreOrder
  <2>5. CASE s = "ready"
    <3>1. "rxPos" \notin stores /\ "busy" \notin stores
      BY <2>2, <2>3, <2>4, <2>5 DEF Tails
    <3>2. rxPos = 0
      BY <2>3, <3>1 DEF Recording, ResetProgress
    <3> QED
      BY <2>2, <2>5, <3>2 DEF Assign, Silence
  <2>6. CASE s # "ready"
    <3>1. rxState' # RXSTATE_READY
      <4>1. CASE "busy" \in stores
        <5>1. s = "busy"
          BY <2>2, <2>3, <4>1, StoreOrder
        <5> QED
          BY <2>2, <5>1 DEF Assign, RXSTATE_BUSY, RXSTATE_READY
      <4>2. CASE "busy" \notin stores
        BY <2>2, <2>3, <2>6, <4>2
        DEF Assign, Recording, ResetProgress, RXSTATE_BUSY, RXSTATE_READY
      <4> QED
        BY <4>1, <4>2
    <3> QED
      BY <3>1 DEF Silence
  <2> QED
    BY <2>5, <2>6
<1> QED
  BY <1>1, <1>2, <1>3, <1>4
  DEF Next, Main, PopStep, PinChange, ProcessISR, PopMsg, CallDecoder,
      MatchSymbol, DecodeSucceeds, DecodeFails, LoopAgain, CallReset, vars, code

\* In a build that keeps the order of the source, a frame that ends in a space
\* completes only after more than SIGFREE_MIN of real silence, although Reset()
\* leaves rxAccum as it is and the handler skips polls while it runs.
THEOREM SilentCompletion ==
  ASSUME ~Optimised
  PROVE  Spec => SpaceBeforeComplete
<1> DEFINE Inv == Bounds /\ Recording /\ Silence
<1>1. Init => Inv
  BY BoundsInit, RecordingInit DEF Init, Silence
<1>2. Inv /\ [Next]_vars => Inv'
  BY BoundsNext, RecordingNext, SilenceNext
<1>3. ASSUME Inv, [Next]_vars, rxState = RXSTATE_READY,
             rxState' = RXSTATE_MSGCOMPLETE, rxLast = 0
      PROVE  (quiet' - 1) * POLL_INTERVAL > SIGFREE_MIN
  <2>1. CASE ProcessISR /\ Complete
    <3>1. Symbol = 0 /\ rxPos >= 1 /\ rxAccum > SIGFREE_MIN
      BY <2>1 DEF Complete, Done
    <3>2. CASE quiet' = QuietCap
      BY <3>2, ConstAssumption
    <3>3. CASE quiet' # QuietCap
      <4>1. quiet' = quiet + 1 /\ quiet # QuietCap
        BY <1>3, <2>1, <3>1, <3>3, QuietStep, ConstAssumption
        DEF ProcessISR, Bounds, TypeOK
      <4>2. quiet * POLL_INTERVAL >= rxAccum
        BY <1>3, <3>1, <4>1 DEF Silence
      <4>3. quiet' - 1 = quiet
        BY <1>3, <4>1 DEF Bounds, TypeOK
      <4>4. quiet * POLL_INTERVAL > SIGFREE_MIN
        BY <1>3, <3>1, <4>2, ConstAssumption DEF Bounds, TypeOK
      <4> QED
        BY <4>3, <4>4
    <3> QED
      BY <3>2, <3>3
  <2>2. CASE ~(ProcessISR /\ Complete)
    <3>1. rxState' # RXSTATE_MSGCOMPLETE
      <4>1. CASE ProcessISR /\ (Edge \/ Hold \/ Ignore)
        BY <1>3, <4>1
        DEF Edge, Hold, Ignore, code, RXSTATE_READY, RXSTATE_MSGCOMPLETE
      <4>2. CASE Store
        BY <1>3, <4>2
        DEF Store, Assign, RXSTATE_BUSY, RXSTATE_READY, RXSTATE_MSGCOMPLETE
      <4>3. CASE UNCHANGED rxState
        BY <1>3, <4>3 DEF RXSTATE_READY, RXSTATE_MSGCOMPLETE
      <4> QED
        BY <1>3, <2>2, <4>1, <4>2, <4>3
        DEF Next, Main, PopStep, PinChange, ProcessISR, Poll, PopMsg,
            CallDecoder, MatchSymbol, DecodeSucceeds, DecodeFails, LoopAgain,
            CallReset, vars, code
    <3> QED
      BY <1>3, <3>1
  <2> QED
    BY <2>1, <2>2
<1> HIDE DEF Inv
<1>4. Inv /\ [Next]_vars =>
        [rxState = RXSTATE_READY /\ rxState' = RXSTATE_MSGCOMPLETE /\ rxLast = 0
           => (quiet' - 1) * POLL_INTERVAL > SIGFREE_MIN]_vars
  BY <1>3
<1> QED
  BY <1>1, <1>2, <1>4, PTL DEF Spec, SpaceBeforeComplete
=============================================================================
