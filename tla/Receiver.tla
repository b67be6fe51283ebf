------------------------------ MODULE Receiver ------------------------------
(***************************************************************************)
(* IRCtrl::Receiver (ir_receiver.cpp): a timer interrupt samples the IR    *)
(* pin every POLL_INTERVAL and records the durations of marks and spaces   *)
(* in rxBuf.symbols; the sketch's loop() polls PopMsg(), which decodes the *)
(* recorded frame in place and resets the state machine.                   *)
(*                                                                         *)
(* The two share rxState, rxLast, rxPos and rxBuf without a lock.  The     *)
(* interrupt handler runs to completion, so it is one action; PopMsg() can *)
(* be interrupted anywhere, so each of its accesses to a shared field is   *)
(* an action of its own.                                                   *)
(***************************************************************************)
EXTENDS Integers, Sequences

CONSTANTS
  POLL_INTERVAL, \* time between two interrupts
  SIGFREE_MIN,   \* silence that completes a frame
  ACCUM_THRESH,  \* value at which rxAccum saturates
  MAXINT16,      \* largest int16_t; scaled down for model checking
  BYTE,          \* number of values of a byte; scaled down likewise
  PKTSYMB_MAX,   \* last index of rxBuf.symbols
  NumDecoders,   \* how many entries of pktInfo[] have rxDecode set
  invSig,        \* is the receiver module's output inverted?
  Optimised,     \* was the library compiled with optimisation?
  QuietCap       \* bound of the history variable quiet

ASSUME ConstAssumption ==
  /\ POLL_INTERVAL \in Nat \ {0}
  /\ SIGFREE_MIN \in Nat \ {0}
  /\ ACCUM_THRESH \in Nat
  /\ MAXINT16 \in Nat
  /\ BYTE \in Nat \ {0} /\ BYTE * BYTE = 2 * MAXINT16 + 2
  /\ SIGFREE_MIN < ACCUM_THRESH
  /\ ACCUM_THRESH + 2 * POLL_INTERVAL <= MAXINT16
  /\ PKTSYMB_MAX \in Nat /\ PKTSYMB_MAX >= 2 /\ PKTSYMB_MAX % 2 = 0
  /\ NumDecoders \in Nat \ {0}
  /\ invSig \in BOOLEAN
  /\ Optimised \in BOOLEAN
  /\ QuietCap \in Nat \ {0} /\ (QuietCap - 1) * POLL_INTERVAL > SIGFREE_MIN

VARIABLES
  pin,      \* level on rxHw.ioPin, driven by the outside world
  rxState,  \* one of the RxState values
  rxLast,   \* symbol sampled last
  rxPos,    \* index in symbols of the duration being measured
  rxAccum,  \* duration of the current symbol so far
  symbols,  \* rxBuf.symbols
  pc,       \* where the sketch is: see Places
  decoder,  \* PopMsg: number of the decoder being tried
  validLen, \* Decode: rxPos when the decoder was called
  pos,      \* Decode: index of the next symbol to match
  stores,   \* Reset: the assignments it has not performed yet
  quiet,    \* history: polls in a row, up to QuietCap, that saw no signal
  gap,      \* history: rxPos when the frame completed, 0 if there is none
  seen      \* history: the symbols the current decoder has matched

code == <<rxState, rxLast, rxPos, rxAccum, symbols>>
client == <<pc, decoder, validLen, pos, stores>>
vars == <<pin, code, client, quiet, gap, seen>>

RXSTATE_BUSY == "busy"
RXSTATE_READY == "ready"
RXSTATE_MSGCOMPLETE == "msgcomplete"
RxState == {RXSTATE_BUSY, RXSTATE_READY, RXSTATE_MSGCOMPLETE}

\* loop() before PopMsg(), about to call a decoder, in a decoder, in Reset(),
\* and after PopMsg() has returned.
Places == {"loop", "call", "decode", "reset", "returned"}

MsgAvailable == rxState = RXSTATE_MSGCOMPLETE

-----------------------------------------------------------------------------
(* 16-bit arithmetic.  usec_u16t wraps; SymCount and usec_s16t are signed. *)

UINT16 == 2 * MAXINT16 + 2

U16(x) == IF x < UINT16 THEN x ELSE x - UINT16

Int16 == -MAXINT16 - 1 .. MAXINT16

S16(x) == IF x <= MAXINT16 THEN x ELSE x - UINT16

Unsigned(x) == IF x < 0 THEN x + UINT16 ELSE x

-----------------------------------------------------------------------------
(* The interrupt handler ProcessISR().                                     *)

\* Mutant: the accumulator does not saturate.
TickUnsaturated(a) == U16(a + POLL_INTERVAL)

\* "Handle passage of time": count the interval and saturate.
Tick(a) ==
  LET sum == U16(a + POLL_INTERVAL)
  IN  IF sum > ACCUM_THRESH THEN ACCUM_THRESH ELSE sum

\* Mutants: the index stalls one slot late; the buffer is made circular.
StallLate(p) == IF p > PKTSYMB_MAX THEN PKTSYMB_MAX - 1 ELSE p

StallWraps(p) == IF p >= PKTSYMB_MAX THEN 0 ELSE p

\* A full buffer keeps overwriting its last measured slot.
Stall(p) == IF p >= PKTSYMB_MAX THEN PKTSYMB_MAX - 1 ELSE p

\* rxSymMap[digitalRead(ioPin)&0x1]
Symbol == IF invSig THEN 1 - pin ELSE pin

\* Marks are stored as positive durations, spaces as negative ones.
Span == IF rxLast > 0 THEN S16(rxAccum) ELSE S16(Unsigned(-rxAccum))

\* Mutant: only the edge that ends a mark can complete a frame.
DoneOnEdge == rxAccum > SIGFREE_MIN /\ Symbol = 0 /\ rxPos >= 1 /\ rxLast = 1

Done == rxAccum > SIGFREE_MIN /\ Symbol = 0 /\ rxPos >= 1

\* The end of a frame: store the gap and terminate the sequence behind it.
\* The handler does so again at every later poll that finds the line silent.
Complete ==
  /\ Done
  /\ symbols' = [symbols EXCEPT ![rxPos] = Span, ![rxPos + 1] = 0]
  /\ rxState' = RXSTATE_MSGCOMPLETE
  /\ rxPos' = Stall(rxPos)
  /\ rxAccum' = Tick(rxAccum)
  /\ gap' = IF MsgAvailable THEN gap ELSE rxPos
  /\ UNCHANGED rxLast

\* Mutant: the accumulator runs on from one symbol to the next.
EdgeKeepsAccum ==
  /\ ~Done
  /\ Symbol # rxLast
  /\ symbols' = [symbols EXCEPT ![rxPos] = Span]
  /\ rxLast' = Symbol
  /\ rxPos' = Stall(rxPos + 1)
  /\ rxAccum' = Tick(rxAccum)
  /\ UNCHANGED <<rxState, gap>>

\* The line changed level: store the run that ended and start the next one.
Edge ==
  /\ ~Done
  /\ Symbol # rxLast
  /\ symbols' = [symbols EXCEPT ![rxPos] = Span]
  /\ rxLast' = Symbol
  /\ rxPos' = Stall(rxPos + 1)
  /\ rxAccum' = Tick(0)
  /\ UNCHANGED <<rxState, gap>>

\* The level has not changed.
Hold ==
  /\ ~Done
  /\ Symbol = rxLast
  /\ rxAccum' = Tick(rxAccum)
  /\ UNCHANGED <<rxState, rxLast, rxPos, symbols, gap>>

\* RXSTATE_BUSY: the handler returns before it reads the pin.
Ignore ==
  /\ rxState = RXSTATE_BUSY
  /\ UNCHANGED <<code, gap>>

Poll == rxState # RXSTATE_BUSY /\ (Complete \/ Edge \/ Hold)

ProcessISR ==
  /\ Ignore \/ Poll
  /\ quiet' = IF Symbol = 1 THEN 0
              ELSE IF quiet < QuietCap THEN quiet + 1 ELSE QuietCap
  /\ UNCHANGED <<pin, client, seen>>

-----------------------------------------------------------------------------
(* PopMsg(), as the sketch's loop() calls it over and over.                *)

\* A frame is there: PopMsg() goes on to its first decoder.  (When there is
\* none it returns at once and nothing changes.)
PopMsg ==
  /\ pc = "loop"
  /\ MsgAvailable
  /\ pc' = "call"
  /\ decoder' = 1
  /\ UNCHANGED <<pin, code, validLen, pos, stores, quiet, gap, seen>>

\* pktInfo.Decode(rxBuf, rxPos, result): rxPos is passed by value, the buffer
\* by reference; every decoder starts at index 1.
CallDecoder ==
  /\ pc = "call"
  /\ pc' = "decode"
  /\ validLen' = rxPos
  /\ pos' = 1
  /\ seen' = <<>>
  /\ UNCHANGED <<pin, code, decoder, stores, quiet, gap>>

\* Would the handler, if it ran now, write to symbols[k]?
AboutToWrite(k) ==
  /\ rxState # RXSTATE_BUSY
  /\ IF Done THEN k \in {rxPos, rxPos + 1} ELSE k = rxPos /\ Symbol # rxLast

\* What a read of symbols[k] returns if the handler writes the element between
\* the two halves of the read: one byte of the old value, one of the new.
Torn(k) ==
  LET old == Unsigned(symbols[k])
      new == IF k = rxPos THEN Unsigned(Span) ELSE 0
      Join(hi, lo) == S16((hi \div BYTE) * BYTE + (lo % BYTE))
  IN  {Join(old, new), Join(new, old)}

\* symbols[k] as the sketch reads it, on a processor of eight bits.  The
\* handler never writes anything but 0 to the last element.
ReadSlot(k) ==
  {symbols[k]} \cup (IF AboutToWrite(k) /\ k < PKTSYMB_MAX THEN Torn(k) ELSE {})

\* Mutant: the length of the gap is not looked at.
MatchableIgnoringGap(v) == v # 0

\* No protocol has a symbol of duration 0 or a space as long as the gap, so
\* neither MatchSymbols nor GetBitSeq gets past such a value.
Matchable(v) == v # 0 /\ v > -SIGFREE_MIN

\* The decoder matches one more symbol of the buffer it shares with the
\* interrupt handler.  Which values match is up to the protocol.
MatchSymbol ==
  /\ pc = "decode"
  /\ \E v \in ReadSlot(pos) : Matchable(v) /\ seen' = Append(seen, v)
  /\ pos' = pos + 1
  /\ UNCHANGED <<pin, code, pc, decoder, validLen, stores, quiet, gap>>

\* Mutant: Reset() does not lock the handler out.
ResetStoresWithoutBusy == {"rxLast", "rxPos", "term", "ready"}

\* The assignments of Reset().  rxState is not volatile and nothing reads it
\* between its two assignments, so an optimising compiler drops the first.
ResetStores ==
  {"rxLast", "rxPos", "term", "ready"} \cup (IF Optimised THEN {} ELSE {"busy"})

\* Control passes to Reset(); the locals of PopMsg() and Decode() are dead.
EnterReset ==
  /\ pc' = "reset"
  /\ stores' = ResetStores
  /\ decoder' = 1
  /\ validLen' = 0
  /\ pos' = 1

\* Decode() returned true: everything it matched lies within validLen.
DecodeSucceeds ==
  /\ pc = "decode"
  /\ validLen >= pos
  /\ EnterReset
  /\ UNCHANGED <<pin, code, quiet, gap, seen>>

\* Mutant: a frame that no decoder recognises is left where it is.
DecodeFailsWithoutReset ==
  /\ pc = "decode"
  /\ pc' = IF decoder < NumDecoders THEN "call" ELSE "loop"
  /\ decoder' = IF decoder < NumDecoders THEN decoder + 1 ELSE 1
  /\ UNCHANGED <<pin, code, validLen, pos, stores, quiet, gap, seen>>

\* Decode() returned false: try the next protocol, or give the frame up as
\* corrupt or unrecognised.
DecodeFails ==
  /\ pc = "decode"
  /\ \/ /\ decoder < NumDecoders
        /\ pc' = "call"
        /\ decoder' = decoder + 1
        /\ UNCHANGED <<validLen, pos, stores>>
     \/ decoder >= NumDecoders /\ EnterReset
  /\ UNCHANGED <<pin, code, quiet, gap, seen>>

-----------------------------------------------------------------------------
(* Reset(), one assignment at a time.                                      *)

SourceOrder == <<"busy", "rxLast", "rxPos", "term", "ready">>

\* An unoptimised build performs the assignments in the order of the source;
\* in an optimised one any of those that are left may come next.
MayStore(s) ==
  /\ s \in stores
  /\ ~Optimised =>
       \E i \in 1 .. Len(SourceOrder) :
          /\ SourceOrder[i] = s
          /\ \A j \in 1 .. (i - 1) : SourceOrder[j] \notin stores

\* Mutant: the buffer is cleared at its start and not terminated at its end.
AssignClearsFrame(s) ==
  /\ rxState' = CASE s = "busy" -> RXSTATE_BUSY
                  [] s = "ready" -> RXSTATE_READY
                  [] OTHER -> rxState
  /\ rxLast' = IF s = "rxLast" THEN 0 ELSE rxLast
  /\ rxPos' = IF s = "rxPos" THEN 0 ELSE rxPos
  /\ symbols' = IF s = "term" THEN [symbols EXCEPT ![1] = 0] ELSE symbols
  /\ UNCHANGED rxAccum

Assign(s) ==
  /\ rxState' = CASE s = "busy" -> RXSTATE_BUSY
                  [] s = "ready" -> RXSTATE_READY
                  [] OTHER -> rxState
  /\ rxLast' = IF s = "rxLast" THEN 0 ELSE rxLast
  /\ rxPos' = IF s = "rxPos" THEN 0 ELSE rxPos
  /\ symbols' = IF s = "term" THEN [symbols EXCEPT ![PKTSYMB_MAX] = 0]
                              ELSE symbols
  /\ UNCHANGED rxAccum

\* With its first assignment Reset() lets go of the frame.
Store ==
  /\ pc = "reset"
  /\ \E s \in stores :
        /\ MayStore(s)
        /\ Assign(s)
        /\ stores' = stores \ {s}
  /\ pc' = IF stores' = {} THEN "returned" ELSE "reset"
  /\ gap' = IF stores = ResetStores THEN 0 ELSE gap
  /\ seen' = <<>>
  /\ UNCHANGED <<pin, decoder, validLen, pos, quiet>>

\* Reset() is public: a sketch may call it at any time to start afresh.
CallReset ==
  /\ pc = "loop"
  /\ EnterReset
  /\ UNCHANGED <<pin, code, quiet, gap, seen>>

\* The rest of loop() touches nothing of the receiver.
LoopAgain ==
  /\ pc = "returned"
  /\ pc' = "loop"
  /\ UNCHANGED <<pin, code, decoder, validLen, pos, stores, quiet, gap, seen>>

-----------------------------------------------------------------------------
(* The state after the constructor and Configure(), and the next-state     *)
(* relation.                                                               *)

Init ==
  /\ pin \in {0, 1}
  /\ rxState = RXSTATE_READY
  /\ rxLast = 0
  /\ rxPos = 0
  /\ rxAccum = 0
  /\ symbols = [i \in 0 .. PKTSYMB_MAX |-> 0]
  /\ pc = "loop"
  /\ decoder = 1
  /\ validLen = 0
  /\ pos = 1
  /\ stores = {}
  /\ quiet = 0
  /\ gap = 0
  /\ seen = <<>>

\* The remote control, or another light source, changes the level on the pin.
PinChange ==
  /\ pin' = 1 - pin
  /\ UNCHANGED <<code, client, quiet, gap, seen>>

\* What PopMsg() does on its own once it is called.
PopStep ==
  PopMsg \/ CallDecoder \/ MatchSymbol \/ DecodeSucceeds \/ DecodeFails \/ Store

Main == PopStep \/ LoopAgain

Next == PinChange \/ ProcessISR \/ Main \/ CallReset

Spec == Init /\ [][Next]_vars

\* The timer never stops and loop() is called for ever; nothing is assumed of
\* the line or of a sketch that calls Reset().
FairSpec == Spec /\ WF_vars(ProcessISR) /\ WF_vars(Main)

-----------------------------------------------------------------------------
(* Properties.                                                             *)

\* Every variable has its type: in particular the accumulator never wraps and
\* every stored duration fits a SymCount.
TypeOK ==
  /\ pin \in {0, 1}
  /\ rxState \in RxState
  /\ rxLast \in {0, 1}
  /\ rxPos \in 0 .. PKTSYMB_MAX - 1
  /\ rxAccum \in 0 .. ACCUM_THRESH
  /\ symbols \in [0 .. PKTSYMB_MAX -> Int16]
  /\ pc \in Places
  /\ decoder \in 1 .. NumDecoders
  /\ validLen \in 0 .. PKTSYMB_MAX - 1
  /\ pos \in 1 .. PKTSYMB_MAX
  /\ stores \subseteq ResetStores
  /\ quiet \in 0 .. QuietCap
  /\ gap \in 0 .. PKTSYMB_MAX - 1
  /\ seen \in Seq(Int16)

\* The handler leaves the last slot at 0 whatever it records and however long
\* it stalls, so that a decoder that runs past the frame ("we might read beyond
\* the data") stops at the end of the array at the latest.
ReadsStayInBuffer ==
  /\ symbols[PKTSYMB_MAX] = 0
  /\ pos <= PKTSYMB_MAX

\* While the buffer is not full, spaces and marks alternate, marks at the odd
\* indices where the decoders look for them, no recorded run is empty, and
\* rxLast agrees with the index, whatever Reset() interrupted.
RunsAlternate ==
  rxState # RXSTATE_BUSY =>
    /\ rxPos < PKTSYMB_MAX - 1 => rxLast = rxPos % 2
    /\ symbols[0] <= 0
    /\ \A k \in 1 .. rxPos - 1 :
          IF k % 2 = 1 THEN symbols[k] > 0 ELSE symbols[k] < 0

\* A frame that ends in a space completes only when the pin really has been
\* silent for longer than SIGFREE_MIN, counted in polls and not in rxAccum,
\* which Reset() does not clear and BUSY polls do not advance.
SpaceBeforeComplete ==
  [][rxState = RXSTATE_READY /\ rxState' = RXSTATE_MSGCOMPLETE /\ rxLast = 0
       => (quiet' - 1) * POLL_INTERVAL > SIGFREE_MIN]_vars

\* The handler notices the gap at the first poll that can: a frame never waits
\* for its completion longer than SIGFREE_MIN and one interval.
CompletesPromptly ==
  rxState = RXSTATE_READY /\ rxPos >= 1 /\ rxLast = 0
    => rxAccum <= SIGFREE_MIN + POLL_INTERVAL

\* A decoder that may report success has matched only symbols of the frame
\* that completed, with the values they have had since, although the handler
\* kept appending to the buffer and moving rxPos while it read.
SuccessIsOneFrame ==
  pc = "decode" /\ validLen >= pos /\ gap # 0 =>
    /\ pos <= gap
    /\ \A k \in 1 .. pos - 1 : seen[k] = symbols[k]

\* A recorded mark leads to a complete frame, unless the line becomes active
\* again or the sketch resets the receiver.
FrameCompletes ==
  rxPos >= 1 ~> (MsgAvailable \/ Symbol = 1 \/ pc = "reset")

\* PopMsg() takes every complete frame, recognised or not: the receiver never
\* stays full.
FrameIsTaken == MsgAvailable ~> rxState = RXSTATE_READY

\* The receiver implements the mailbox: the frame is what lies below the gap.
Mailbox ==
  INSTANCE RxMailbox WITH
    full <- gap # 0,
    frame <- [k \in 1 .. gap - 1 |-> symbols[k]],
    got <- [k \in 1 .. (IF Len(seen) < gap THEN Len(seen) ELSE gap - 1)
              |-> seen[k]]

ImplementsMailbox == Mailbox!Spec

-----------------------------------------------------------------------------
(* A property that a comment of the code claims and the code does not have. *)

\* ir_receiver.h:27: while the state machine is being edited, the recording
\* part of the interrupt handler is disabled.
IsrDisabledWhileEditing ==
  [][stores \notin {{}, ResetStores} /\ ProcessISR => UNCHANGED code]_vars
=============================================================================
