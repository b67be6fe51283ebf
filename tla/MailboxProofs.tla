--------------------------- MODULE MailboxProofs ---------------------------
(***************************************************************************)
(* Receiver implements RxMailbox, whatever the sizes, in a build that      *)
(* keeps the order of the source: the frame a decoder reads is the frame   *)
(* that completed, although the handler goes on writing behind its gap.    *)
(*                                                                         *)
(* The argument rests on three facts about a complete frame.  The index    *)
(* never moves back below the gap, so what lies before the gap is never    *)
(* written.  Once the index has moved on, the gap itself is frozen and is  *)
(* too long a space for any decoder to match.  While it has not, a decoder *)
(* that does match the gap has gone beyond the length it was given, so it  *)
(* cannot succeed.                                                         *)
(***************************************************************************)
EXTENDS ReceiverProofs, SequenceTheorems

\* Where the index is, relative to the gap of a complete frame.
BehindGap ==
  /\ gap # 0 <=> MsgAvailable
  /\ gap # 0 =>
       /\ gap <= rxPos
       /\ rxPos = gap /\ gap < PKTSYMB_MAX - 1 => rxAccum > SIGFREE_MIN
       /\ rxPos > gap => symbols[gap] < -SIGFREE_MIN

\* How far the decoder is, relative to the gap and to the handler's index.
Reading ==
  /\ pc \in {"call", "decode"} => MsgAvailable
  /\ pc = "decode" =>
       /\ validLen <= rxPos
       /\ Len(seen) = pos - 1
       /\ pos <= gap \/ pos > validLen
  /\ gap = 0 => seen = <<>>
  /\ \A k \in 1 .. Len(seen) : k < gap => seen[k] = symbols[k]

IInv == Bounds /\ Recording /\ BehindGap /\ Reading

-----------------------------------------------------------------------------
\* Nothing is read at first.
LEMMA ReadingInit == Init => BehindGap /\ Reading
BY DEF Init, BehindGap, Reading, MsgAvailable, RXSTATE_READY,
       RXSTATE_MSGCOMPLETE

\* The handler leaves everything before the gap as it is.
LEMMA PollKeepsFrame ==
  ASSUME IInv, Poll, gap # 0
  PROVE  /\ gap' = gap
         /\ rxPos' >= rxPos
         /\ \A k \in 0 .. gap - 1 : symbols'[k] = symbols[k]
<1> USE ConstAssumption DEF IInv, Bounds, TypeOK, BehindGap
<1>1. CASE Complete
  BY <1>1 DEF Complete, Stall
<1>2. CASE Edge
  BY <1>2 DEF Edge, Stall
<1>3. CASE Hold
  BY <1>3 DEF Hold
<1> QED
  BY <1>1, <1>2, <1>3 DEF Poll

\* The interrupt handler never writes below the gap of a complete frame.
LEMMA BehindGapPoll ==
  ASSUME IInv, Poll
  PROVE  BehindGap'
<1> USE ConstAssumption DEF IInv, Bounds, TypeOK, BehindGap
<1>1. \A a \in 0 .. ACCUM_THRESH : a > SIGFREE_MIN => Tick(a) > SIGFREE_MIN
  BY DEF Tick, U16, UINT16
<1>2. Span = (IF rxLast = 1 THEN rxAccum ELSE -rxAccum) /\ Symbol \in {0, 1}
  BY SpanValue, SymbolValue
<1>3. CASE Complete
  <2>1. /\ rxAccum > SIGFREE_MIN /\ rxPos >= 1 /\ rxPos' = rxPos
        /\ rxAccum' = Tick(rxAccum)
        /\ gap' = IF MsgAvailable THEN gap ELSE rxPos
        /\ MsgAvailable'
        /\ \A k \in 0 .. rxPos - 1 : symbols'[k] = symbols[k]
    BY <1>3 DEF Complete, Done, Stall, MsgAvailable
  <2>2. rxAccum' > SIGFREE_MIN
    BY <1>1, <2>1
  <2>3. gap' # 0 /\ gap' <= rxPos'
    BY <2>1
  <2>4. rxPos' > gap' => symbols'[gap'] < -SIGFREE_MIN
    BY <2>1
  <2> QED
    BY <2>1, <2>2, <2>3, <2>4
<1>4. CASE Edge
  <2>1. /\ ~Done /\ Symbol # rxLast /\ gap' = gap /\ rxState' = rxState
        /\ symbols' = [symbols EXCEPT ![rxPos] = Span]
        /\ rxPos' = IF rxPos = PKTSYMB_MAX - 1 THEN rxPos ELSE rxPos + 1
    BY <1>4 DEF Edge, Stall
  <2>2. CASE gap = 0
    BY <2>1, <2>2 DEF MsgAvailable
  <2>3. CASE gap # 0 /\ rxPos = PKTSYMB_MAX - 1
    BY <2>1, <2>3 DEF MsgAvailable
  <2>4. CASE gap # 0 /\ rxPos = gap /\ rxPos # PKTSYMB_MAX - 1
    <3>1. rxAccum > SIGFREE_MIN /\ rxPos >= 1
      BY <2>4
    <3>2. rxLast = 0
      BY <1>2, <2>1, <3>1 DEF Done
    <3>3. symbols'[gap] < -SIGFREE_MIN
      BY <1>2, <2>1, <2>4, <3>1, <3>2
    <3> QED
      BY <2>1, <2>4, <3>3 DEF MsgAvailable
  <2>5. CASE gap # 0 /\ rxPos > gap /\ rxPos # PKTSYMB_MAX - 1
    BY <2>1, <2>5 DEF MsgAvailable
  <2> QED
    BY <2>2, <2>3, <2>4, <2>5
<1>5. CASE Hold
  <2>1. /\ UNCHANGED <<rxState, rxPos, symbols, gap>>
        /\ rxAccum' = Tick(rxAccum)
    BY <1>5 DEF Hold
  <2>2. rxAccum > SIGFREE_MIN => rxAccum' > SIGFREE_MIN
    BY <1>1, <2>1
  <2> QED
    BY <2>1, <2>2 DEF MsgAvailable
<1> QED
  BY <1>3, <1>4, <1>5 DEF Poll

\* Appending adds one element behind the others.
LEMMA AppendElements ==
  ASSUME NEW s \in Seq(Int16), NEW v \in Int16
  PROVE  /\ Len(Append(s, v)) = Len(s) + 1
         /\ Append(s, v)[Len(s) + 1] = v
         /\ \A k \in 1 .. Len(s) : Append(s, v)[k] = s[k]
OBVIOUS

\* What the decoder matches below the gap is what the frame holds there, and
\* a decoder that matches the gap itself has gone too far.
LEMMA ReadingMatch ==
  ASSUME IInv, MatchSymbol
  PROVE  Reading'
<1> USE ConstAssumption DEF IInv, Bounds, TypeOK
<1>1. PICK v \in ReadSlot(pos) : Matchable(v) /\ seen' = Append(seen, v)
  BY DEF MatchSymbol
<1>2. /\ pc = "decode" /\ pos' = pos + 1 /\ gap # 0
      /\ UNCHANGED <<rxState, rxPos, symbols, gap, pc, validLen>>
  BY DEF MatchSymbol, code, Reading, BehindGap
<1>3. /\ Len(seen) = pos - 1 /\ Len(seen') = pos
      /\ seen'[pos] = v
      /\ \A k \in 1 .. pos - 1 : seen'[k] = seen[k]
  <2>1. Len(seen) = pos - 1 /\ v \in Int16 /\ seen \in Seq(Int16)
    BY <1>1, <1>2, ReadSlotType DEF Reading
  <2>2. pos \in Nat \ {0}
    OBVIOUS
  <2> HIDE DEF IInv, Bounds, TypeOK
  <2>3. /\ Len(Append(seen, v)) = Len(seen) + 1
        /\ Append(seen, v)[Len(seen) + 1] = v
        /\ \A k \in 1 .. Len(seen) : Append(seen, v)[k] = seen[k]
    BY <2>1, AppendElements
  <2> QED
    BY <1>1, <2>1, <2>2, <2>3
<1>4. pos < rxPos => v = symbols[pos]
  BY <1>1 DEF ReadSlot, AboutToWrite
<1>5. pos < gap => v = symbols[pos]
  BY <1>2, <1>4 DEF BehindGap
<1>6. pos' <= gap \/ pos' > validLen
  <2>1. CASE pos = gap /\ rxPos > gap
    <3>1. v = symbols[gap] /\ symbols[gap] < -SIGFREE_MIN
      BY <1>2, <1>4, <2>1 DEF BehindGap
    <3>2. v > -SIGFREE_MIN /\ symbols[gap] \in Int
      BY <1>1, <2>1 DEF Matchable, Int16
    <3> QED
      BY <3>1, <3>2
  <2>2. CASE pos = gap /\ rxPos = gap
    <3>1. validLen <= rxPos
      BY <1>2 DEF Reading
    <3> QED
      BY <1>2, <2>2, <3>1
  <2>3. CASE pos # gap
    BY <1>2, <2>3 DEF Reading
  <2> QED
    BY <1>2, <2>1, <2>2, <2>3 DEF BehindGap
<1>7. \A k \in 1 .. Len(seen') : k < gap' => seen'[k] = symbols'[k]
  BY <1>2, <1>3, <1>5 DEF Reading
<1> QED
  BY <1>2, <1>3, <1>6, <1>7 DEF Reading, MsgAvailable

\* So it does not change what the decoder has read.
LEMMA ReadingPoll ==
  ASSUME IInv, Poll, UNCHANGED <<client, seen>>
  PROVE  Reading'
<1> USE ConstAssumption DEF IInv, Bounds, TypeOK
<1>1. MsgAvailable => MsgAvailable'
  BY DEF Poll, Complete, Edge, Hold, MsgAvailable
<1>2. UNCHANGED <<pc, validLen, pos, seen>>
  BY DEF client
<1>3. CASE gap # 0
  <2>1. /\ gap' = gap /\ rxPos' >= rxPos /\ rxPos' \in Nat
        /\ \A k \in 0 .. gap - 1 : symbols'[k] = symbols[k]
    BY <1>3, PollKeepsFrame, BoundsPoll
  <2>2. \A k \in 1 .. Len(seen) : k < gap => seen[k] = symbols'[k]
    BY <2>1 DEF Reading
  <2>3. pc = "decode" => validLen <= rxPos' /\ (pos <= gap' \/ pos > validLen)
    BY <2>1 DEF Reading
  <2> QED
    BY <1>1, <1>2, <1>3, <2>1, <2>2, <2>3 DEF Reading
<1>4. CASE gap = 0
  BY <1>1, <1>2, <1>4 DEF Reading, BehindGap
<1> QED
  BY <1>3, <1>4

\* Reset() lets go of the frame with its first assignment.
LEMMA StoreLetsGo ==
  ASSUME ~Optimised, IInv, Store
  PROVE  gap' = 0 /\ ~MsgAvailable'
<1>1. PICK s \in stores : /\ MayStore(s)
                          /\ Assign(s)
                          /\ stores' = stores \ {s}
  BY DEF Store
<1>2. pc = "reset" /\ stores \in Tails
  BY DEF Store, IInv, Recording, ResetProgress
<1>3. ResetStores = {"busy", "rxLast", "rxPos", "term", "ready"}
  BY DEF ResetStores
<1>4. "busy" \in stores <=> stores = ResetStores
  BY <1>2, <1>3 DEF Tails
<1>5. "busy" \notin stores => rxState = RXSTATE_BUSY /\ gap = 0
  BY <1>2 DEF IInv, Recording, ResetProgress, BehindGap, MsgAvailable,
              RXSTATE_BUSY, RXSTATE_MSGCOMPLETE
<1>6. "busy" \in stores => s = "busy"
  BY <1>1, <1>2, StoreOrder
<1>7. gap' = 0
  BY <1>4, <1>5 DEF Store
<1>8. ~MsgAvailable'
  BY <1>1, <1>5, <1>6
  DEF Assign, MsgAvailable, RXSTATE_BUSY, RXSTATE_READY, RXSTATE_MSGCOMPLETE
<1> QED
  BY <1>7, <1>8

\* Every step keeps what was read equal to what is stored.
LEMMA ReadingNext ==
  ASSUME ~Optimised, IInv, [Next]_vars
  PROVE  BehindGap' /\ Reading'
<1> USE ConstAssumption DEF IInv, Bounds, TypeOK
<1>1. ASSUME UNCHANGED <<rxState, rxPos, rxAccum, symbols, gap>>
      PROVE  BehindGap' /\ (MsgAvailable' <=> MsgAvailable)
  BY <1>1 DEF BehindGap, MsgAvailable
<1>2. CASE PinChange \/ UNCHANGED vars
  BY <1>1, <1>2 DEF PinChange, vars, code, client, Reading
<1>3. CASE ProcessISR
  <2>1. CASE Ignore
    BY <1>1, <1>3, <2>1 DEF ProcessISR, Ignore, code, client, Reading
  <2>2. CASE Poll
    BY <1>3, <2>2, BehindGapPoll, ReadingPoll DEF ProcessISR
  <2> QED
    BY <1>3, <2>1, <2>2 DEF ProcessISR
<1>4. CASE PopMsg
  BY <1>1, <1>4 DEF PopMsg, code, Reading
<1>5. CASE CallDecoder
  <2>1. /\ UNCHANGED <<rxState, rxPos, rxAccum, symbols, gap>>
        /\ pc = "call" /\ pc' = "decode"
        /\ validLen' = rxPos /\ pos' = 1 /\ seen' = <<>>
    BY <1>5 DEF CallDecoder, code
  <2>2. MsgAvailable /\ gap # 0
    BY <2>1 DEF Reading, BehindGap
  <2> QED
    BY <1>1, <2>1, <2>2 DEF Reading
<1>6. CASE MatchSymbol
  BY <1>1, <1>6, ReadingMatch DEF MatchSymbol, code
<1>7. CASE DecodeSucceeds \/ CallReset
  <2>1. UNCHANGED <<code, gap, seen>> /\ pc' = "reset"
    BY <1>7 DEF DecodeSucceeds, CallReset, EnterReset
  <2> QED
    BY <1>1, <2>1 DEF code, Reading
<1>8. CASE DecodeFails
  <2>1. UNCHANGED <<code, gap, seen>> /\ pc = "decode" /\ pc' \in {"call", "reset"}
    BY <1>8 DEF DecodeFails, EnterReset
  <2> QED
    BY <1>1, <2>1 DEF code, Reading
<1>9. CASE Store
  <2>1. gap' = 0 /\ ~MsgAvailable' /\ seen' = <<>>
        /\ pc' \in {"returned", "reset"}
    BY <1>9, StoreLetsGo DEF Store
  <2> QED
    BY <2>1 DEF BehindGap, Reading
<1>10. CASE LoopAgain
  BY <1>1, <1>10 DEF LoopAgain, code, Reading
<1> QED
  BY <1>2, <1>3, <1>4, <1>5, <1>6, <1>7, <1>8, <1>9, <1>10
  DEF Next, Main, PopStep

\* The inductive invariant is an invariant of an unoptimised build.
LEMMA Invariance ==
  ASSUME ~Optimised
  PROVE  Spec => []IInv
<1>1. Init => IInv
  BY BoundsInit, RecordingInit, ReadingInit DEF IInv
<1>2. IInv /\ [Next]_vars => IInv'
  BY BoundsNext, RecordingNext, ReadingNext DEF IInv
<1> QED
  BY <1>1, <1>2, PTL DEF Spec

\* In a build that keeps the order of the source, a decoder that reports
\* success has read one frame: the one that completed, and nothing the handler
\* has recorded behind it.
THEOREM SuccessfulDecode ==
  ASSUME ~Optimised
  PROVE  Spec => []SuccessIsOneFrame
<1>1. IInv => SuccessIsOneFrame
  BY DEF IInv, Bounds, TypeOK, Reading, SuccessIsOneFrame
<1> QED
  BY <1>1, Invariance, PTL

-----------------------------------------------------------------------------
(* The refinement.                                                         *)

\* The mapping, by name.
Full == gap # 0
Frame == [k \in 1 .. gap - 1 |-> symbols[k]]
Got == [k \in 1 .. (IF Len(seen) < gap THEN Len(seen) ELSE gap - 1)
          |-> seen[k]]

\* A function over 1 .. n is a sequence of length n.
LEMMA FunctionIsSeq ==
  ASSUME NEW S, NEW n \in Nat, NEW f \in [1 .. n -> S]
  PROVE  f \in Seq(S) /\ Len(f) = n
OBVIOUS

\* Over an empty domain it is the empty sequence.
LEMMA EmptyFunction ==
  ASSUME NEW n \in Int, n < 1, NEW f
  PROVE  [k \in 1 .. n |-> f[k]] = <<>>
<1>1. 1 .. n = {}
  OBVIOUS
<1>2. <<>> = [k \in {} |-> f[k]]
  OBVIOUS
<1> QED
  BY <1>1, <1>2

\* What is read of an empty sequence is empty.
LEMMA NothingRead ==
  ASSUME NEW g \in Nat, NEW s, s = <<>>
  PROVE  [k \in 1 .. (IF Len(s) < g THEN Len(s) ELSE g - 1) |-> s[k]] = <<>>
<1>1. Len(s) = 0
  OBVIOUS
<1>2. CASE 0 < g
  BY <1>1, <1>2, EmptyFunction
<1>3. CASE g = 0
  BY <1>1, <1>3, EmptyFunction
<1> QED
  BY <1>2, <1>3

\* The symbols below the gap are a sequence of integers.
LEMMA FrameIsSeq ==
  ASSUME NEW g \in Nat, g # 0, g <= PKTSYMB_MAX,
         NEW s \in [0 .. PKTSYMB_MAX -> Int16]
  PROVE  [k \in 1 .. g - 1 |-> s[k]] \in Seq(Int)
<1>1. \A x \in Int16 : x \in Int
  BY ConstAssumption DEF Int16
<1>2. \A k \in 1 .. g - 1 : k \in 0 .. PKTSYMB_MAX
  BY ConstAssumption
<1>3. [k \in 1 .. g - 1 |-> s[k]] \in [1 .. g - 1 -> Int] /\ g - 1 \in Nat
  BY <1>1, <1>2
<1> QED
  BY <1>3, FunctionIsSeq

\* The first state of the receiver is one of the mailbox.
LEMMA MailboxInit == Init => Mailbox!Init
BY DEF Init, Mailbox!Init

\* Every poll either delivers a frame or does not show.
LEMMA MailboxPoll ==
  ASSUME IInv, Poll, UNCHANGED seen
  PROVE  Mailbox!Deliver \/ UNCHANGED <<Full, Frame, Got>>
<1> USE ConstAssumption DEF IInv, Bounds, TypeOK
<1>1. CASE gap # 0
  <2>1. gap' = gap /\ \A k \in 1 .. gap - 1 : symbols'[k] = symbols[k]
    BY <1>1, PollKeepsFrame
  <2> QED
    BY <1>1, <2>1 DEF Full, Frame, Got
<1>2. CASE gap = 0
  <2>1. seen = <<>> /\ seen' = <<>>
    BY <1>2 DEF Reading
  <2>2. gap' \in Nat /\ symbols' \in [0 .. PKTSYMB_MAX -> Int16]
        /\ gap' <= PKTSYMB_MAX
    BY BoundsPoll
  <2>3. Got = <<>> /\ Got' = <<>> /\ Frame = <<>>
    <3>1. gap \in Nat /\ gap' \in Nat /\ gap - 1 \in Int /\ gap - 1 < 1
      BY <1>2, <2>2
    <3> HIDE DEF IInv, Bounds, TypeOK
    <3>2. Got = <<>>
      BY <2>1, <3>1, NothingRead DEF Got
    <3>3. Got' = <<>>
      BY <2>1, <3>1, NothingRead DEF Got
    <3>4. Frame = <<>>
      BY <3>1, EmptyFunction DEF Frame
    <3> QED
      BY <3>2, <3>3, <3>4
  <2>4. CASE gap' = 0
    BY <1>2, <2>2, <2>3, <2>4 DEF Full, Frame
  <2>5. CASE gap' # 0
    <3>1. Frame' \in Seq(Int)
      BY <2>2, <2>5, FrameIsSeq DEF Frame
    <3> QED
      BY <1>2, <2>3, <2>5, <3>1
      DEF Mailbox!Deliver, Mailbox!Frames, Full, Frame, Got
  <2> QED
    BY <2>4, <2>5
<1> QED
  BY <1>1, <1>2

\* A symbol matched below the gap is a read; one matched behind it is not.
LEMMA MailboxMatch ==
  ASSUME IInv, MatchSymbol
  PROVE  Mailbox!Read \/ UNCHANGED <<Full, Frame, Got>>
<1> USE ConstAssumption DEF IInv, Bounds, TypeOK
<1>1. PICK v \in ReadSlot(pos) : Matchable(v) /\ seen' = Append(seen, v)
  BY DEF MatchSymbol
<1>2. /\ pc = "decode" /\ gap # 0 /\ Len(seen) = pos - 1
      /\ UNCHANGED <<symbols, gap>>
  BY DEF MatchSymbol, code, Reading, BehindGap
<1>3. /\ Len(seen') = pos /\ seen'[pos] = v
      /\ \A k \in 1 .. pos - 1 : seen'[k] = seen[k]
  <2>1. v \in Int16 /\ seen \in Seq(Int16) /\ pos \in Nat \ {0}
    BY <1>1, ReadSlotType
  <2> HIDE DEF IInv, Bounds, TypeOK
  <2>2. /\ Len(Append(seen, v)) = Len(seen) + 1
        /\ Append(seen, v)[Len(seen) + 1] = v
        /\ \A k \in 1 .. Len(seen) : Append(seen, v)[k] = seen[k]
    BY <2>1, AppendElements
  <2> QED
    BY <1>1, <1>2, <2>1, <2>2
<1>4. CASE pos < gap
  <2>1. v = symbols[pos] /\ v \in Int
    BY <1>1, <1>2, <1>4 DEF ReadSlot, AboutToWrite, BehindGap, Int16
  <2>2. /\ Got = [k \in 1 .. pos - 1 |-> seen[k]]
        /\ Got' = [k \in 1 .. pos |-> seen'[k]]
        /\ Frame[pos] = v
    BY <1>2, <1>3, <1>4, <2>1 DEF Got, Frame
  <2>3. Got \in Seq(Int) /\ Len(Got) = pos - 1 /\ Len(Frame) = gap - 1
    <3>1. \A k \in 1 .. Len(seen) : seen[k] \in Int
      BY ElementOfSeq DEF Int16
    <3>2. Got \in [1 .. pos - 1 -> Int] /\ pos - 1 \in Nat
      BY <1>2, <2>2, <3>1
    <3>3. Frame \in [1 .. gap - 1 -> Int] /\ gap - 1 \in Nat
      BY <1>2, <1>4 DEF Frame, Int16
    <3> QED
      BY <3>2, <3>3, FunctionIsSeq
  <2>4. Got' = Append(Got, v)
    BY <1>3, <2>1, <2>2, <2>3
  <2>5. Len(Got) < Len(Frame) /\ Got' = Append(Got, Frame[Len(Got) + 1])
    BY <1>2, <1>4, <2>2, <2>3, <2>4
  <2>6. gap # 0 /\ UNCHANGED <<Full, Frame>>
    BY <1>2 DEF Full, Frame
  <2> QED
    BY <2>5, <2>6 DEF Mailbox!Read, Full, Frame, Got
<1>5. CASE pos >= gap
  <2>1. Got' = Got
    BY <1>2, <1>3, <1>5 DEF Got
  <2> QED
    BY <1>2, <2>1 DEF Full, Frame
<1> QED
  BY <1>4, <1>5

\* Every step of the receiver is one of the mailbox or none.
LEMMA MailboxNext ==
  ASSUME ~Optimised, IInv, [Next]_vars
  PROVE  [Mailbox!Next]_(Mailbox!vars)
<1> DEFINE Same == UNCHANGED <<Full, Frame, Got>>
<1>0. Same => UNCHANGED Mailbox!vars
  BY DEF Mailbox!vars, Full, Frame, Got
<1>1. CASE UNCHANGED <<symbols, gap, seen>>
  BY <1>0, <1>1 DEF Full, Frame, Got
<1>2. CASE ProcessISR
  <2>1. CASE Ignore
    BY <1>1, <1>2, <2>1 DEF ProcessISR, Ignore, code
  <2>2. CASE Poll
    BY <1>0, <1>2, <2>2, MailboxPoll DEF ProcessISR, Mailbox!Next
  <2> QED
    BY <1>2, <2>1, <2>2 DEF ProcessISR
<1>3. CASE CallDecoder
  <2>1. gap # 0 /\ gap \in Nat /\ seen' = <<>> /\ UNCHANGED <<symbols, gap>>
    BY <1>3
    DEF CallDecoder, code, IInv, Bounds, TypeOK, Reading, BehindGap
  <2>2. Got' = <<>> /\ Frame' = Frame
    BY <2>1 DEF Got, Frame
  <2> QED
    BY <2>1, <2>2 DEF Mailbox!Next, Mailbox!Restart, Frame, Got
<1>4. CASE MatchSymbol
  BY <1>0, <1>4, MailboxMatch DEF Mailbox!Next
<1>5. CASE Store
  <2>1. gap' = 0 /\ seen' = <<>> /\ gap \in Nat
    BY <1>5, StoreLetsGo DEF Store, IInv, Bounds, TypeOK
  <2>2. Frame' = <<>> /\ Got' = <<>>
    BY <2>1 DEF Frame, Got
  <2>3. CASE gap # 0
    BY <2>1, <2>2, <2>3 DEF Mailbox!Next, Mailbox!Take, Frame, Got
  <2>4. CASE gap = 0
    <3>1. seen = <<>>
      BY <2>4 DEF IInv, Reading
    <3>2. Frame = <<>> /\ Got = <<>>
      BY <2>4, <3>1 DEF Frame, Got
    <3> QED
      BY <1>0, <2>1, <2>2, <2>4, <3>2 DEF Full
  <2> QED
    BY <2>3, <2>4
<1> QED
  BY <1>1, <1>2, <1>3, <1>4, <1>5
  DEF Next, Main, PopStep, PinChange, PopMsg, DecodeSucceeds, DecodeFails,
      LoopAgain, CallReset, vars, code

\* In a build that keeps the order of the source, the receiver is a mailbox:
\* the frame it holds does not change until PopMsg() or Reset() takes it.
THEOREM Refinement ==
  ASSUME ~Optimised
  PROVE  Spec => ImplementsMailbox
<1>1. Init => Mailbox!Init
  BY MailboxInit
<1>2. IInv /\ [Next]_vars => [Mailbox!Next]_(Mailbox!vars)
  BY MailboxNext
<1> QED
  BY <1>1, <1>2, Invariance, PTL DEF Spec, ImplementsMailbox, Mailbox!Spec
=============================================================================
