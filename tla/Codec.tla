------------------------------- MODULE Codec -------------------------------
(***************************************************************************)
(* How a message becomes marks and spaces and how it is recovered:         *)
(* ir_signalling, ir_packet and ir_protocol.  Durations are the            *)
(* microseconds of the source; a run of the line is a signed duration,     *)
(* positive for a mark and negative for a space.  A uint32_t is the        *)
(* sequence of its 32 bits, the most significant one first.                *)
(***************************************************************************)
EXTENDS Integers, Sequences, FiniteSetsExt, SequencesExt

CONSTANTS
  POLL_INTERVAL, \* microseconds between two samples of the receiver
  SIGFREE_MIN    \* silence that ends a frame

ASSUME CodecAssumption ==
  /\ POLL_INTERVAL \in Nat \ {0}
  /\ SIGFREE_MIN \in Nat \ {0}

MSGBITS_MAX == 32
TX_SYMBOLS == 74 \* PktRaw::PKTSYMB_MAX
RX_SYMBOLS == 76 \* RxBuffer::PKTSYMB_MAX

-----------------------------------------------------------------------------
(* Bits.                                                                   *)

Bit == {0, 1}
Uint32 == [1 .. MSGBITS_MAX -> Bit]

\* A symbol in a buffer: its duration in an int16_t.
SymCount == -32768 .. 32767

Abs(x) == IF x < 0 THEN -x ELSE x

\* The low 32 bits of a sequence of bits: what is left of it in a uint32_t
\* into which it has been shifted.
Shifted(bits) ==
  [i \in 1 .. MSGBITS_MAX |->
     LET k == Len(bits) - MSGBITS_MAX + i IN IF k >= 1 THEN bits[k] ELSE 0]

\* The n highest bits of a uint32_t.
HighBits(data, n) == SubSeq(data, 1, n)

-----------------------------------------------------------------------------
(* The protocols: IRProtocol::pktInfo[].                                   *)

NEC_UNIT == 563
SONY_UNIT == 600
RC5_UNIT == 889
RCMM_UNIT == 28

NEC == "NEC"
NEC_RPT == "NEC_RPT"
SONY == "SONY"
RCMM == "RCMM"
RC5 == "RC5"

\* The order of pktInfo[], in which PopMsg() tries the decoders.
Protocols == <<NEC, NEC_RPT, SONY, RCMM, RC5>>

\* bits[b + 1] is the pattern of the symbol b; perSymb the two low bits of the
\* encoding, which are 0 for ENC_MANCHESTER.
PktInfo(p) ==
  CASE p \in {NEC, NEC_RPT} ->
         [preamble  |-> <<16 * NEC_UNIT, -(IF p = NEC THEN 8 ELSE 4) * NEC_UNIT>>,
          postamble |-> <<NEC_UNIT>>,
          bits      |-> << <<NEC_UNIT, -NEC_UNIT>>, <<NEC_UNIT, -3 * NEC_UNIT>>,
                           <<>>, <<>> >>,
          perSymb   |-> 1,
          rxDecode  |-> TRUE]
    [] p = SONY ->
         [preamble  |-> <<4 * SONY_UNIT>>,
          postamble |-> <<>>,
          bits      |-> << <<-SONY_UNIT, SONY_UNIT>>,
                           <<-SONY_UNIT, 2 * SONY_UNIT>>, <<>>, <<>> >>,
          perSymb   |-> 1,
          rxDecode  |-> TRUE]
    [] p = RCMM ->
         [preamble  |-> <<15 * RCMM_UNIT, -10 * RCMM_UNIT>>,
          postamble |-> <<6 * RCMM_UNIT>>,
          bits      |-> << <<6 * RCMM_UNIT, -10 * RCMM_UNIT>>,
                           <<6 * RCMM_UNIT, -16 * RCMM_UNIT>>,
                           <<6 * RCMM_UNIT, -22 * RCMM_UNIT>>,
                           <<6 * RCMM_UNIT, -28 * RCMM_UNIT>> >>,
          perSymb   |-> 2,
          rxDecode  |-> FALSE]
    [] p = RC5 ->
         [preamble  |-> <<>>,
          postamble |-> <<>>,
          bits      |-> << <<-RC5_UNIT, RC5_UNIT>>, <<RC5_UNIT, -RC5_UNIT>>,
                           <<>>, <<>> >>,
          perSymb   |-> 0,
          rxDecode  |-> TRUE]

-----------------------------------------------------------------------------
(* Building a packet: BuildRawDefault().                                   *)

\* Mutant: the symbols of every protocol carry one bit.
BitsPerSymbOne(p) == 1

\* "encoding & ENC_MASK_BITS_PER_SYMB != ENC_2BITS_PER_SYMB" compares first:
\* what it tests is the lowest bit of the encoding.
BitsPerSymb(p) == IF PktInfo(p).perSymb % 2 = 1 THEN 1 ELSE 2

\* Mutant: the lowest bits are sent first.
SymbolAtLowFirst(p, data, i) ==
  LET at(k) == IF k <= MSGBITS_MAX THEN data[MSGBITS_MAX + 1 - k] ELSE 0
  IN  IF BitsPerSymb(p) = 1 THEN at(i) ELSE 2 * at(2 * i) + at(2 * i - 1)

\* The i-th symbol of the message: the highest bits are sent first, and zeros
\* have been shifted in behind the last.
SymbolAt(p, data, i) ==
  LET at(k) == IF k <= MSGBITS_MAX THEN data[k] ELSE 0
  IN  IF BitsPerSymb(p) = 1 THEN at(i) ELSE 2 * at(2 * i - 1) + at(2 * i)

\* Mutant: the loop runs once more.
NumSymbolsOneMore(p, nbits) == nbits \div BitsPerSymb(p) + 1

\* How often the loop runs: nbits wraps below 0 if it is odd and two bits are
\* taken at a time, and then only a full buffer ends the loop.
NumSymbols(p, nbits) ==
  IF nbits % BitsPerSymb(p) = 0 THEN nbits \div BitsPerSymb(p)
  ELSE MSGBITS_MAX + TX_SYMBOLS

\* IRMsg::BuildRaw(): the symbols before the terminating 0.
BuildRaw(msg) ==
  LET info == PktInfo(msg.protocol)
      n == NumSymbols(msg.protocol, msg.nbits)
      all == info.preamble
             \o FlattenSeq([i \in 1 .. n |->
                  info.bits[SymbolAt(msg.protocol, msg.data, i) + 1]])
             \o info.postamble
  IN  IF Len(all) > TX_SYMBOLS THEN SubSeq(all, 1, TX_SYMBOLS) ELSE all

-----------------------------------------------------------------------------
(* Decoding.                                                               *)

\* Mutant: shifted by two bits too few.
ToleranceWide(duration) == (Abs(duration) * 3) \div 4

\* How much a run may differ from the nominal duration: 3/16 of it.
Tolerance(duration) == (Abs(duration) * 3) \div 16

\* Sampling changes a run by less than the shortest tolerance, and a gap is
\* longer than every space of a protocol that is received.
ASSUME SamplingAssumption ==
  /\ POLL_INTERVAL <= Tolerance(NEC_UNIT)
  /\ 8 * NEC_UNIT + Tolerance(8 * NEC_UNIT) < SIGFREE_MIN
  /\ SIGFREE_MIN + POLL_INTERVAL <= 32767

\* MatchSymbols(): does the pattern match from index pos on?  (Signs agree and
\* durations are similar.)
MatchSymbols(pat, msg, pos) ==
  \A i \in 1 .. Len(pat) :
     /\ pos + i - 1 <= RX_SYMBOLS
     /\ (pat[i] < 0) = (msg[pos + i - 1] < 0)
     /\ Abs(pat[i] - msg[pos + i - 1]) <= Tolerance(pat[i])

\* A decoder's answer: whether it accepts the frame, and the bits it returns.
Rejected == [ok |-> FALSE, bits |-> <<>>]
Accepted(bits) == [ok |-> TRUE, bits |-> bits]

\* DecodePktDefault(), for the protocols of one bit per symbol, whose bits have
\* two elements each: read bits for as long as a pattern matches, the pattern
\* of 0 first, and accept them if the postamble follows and nothing was read
\* beyond validLen.
DecodePktDefault(p, msg, validLen) ==
  LET info == PktInfo(p)
      start(k) == 1 + Len(info.preamble) + 2 * k
      bit(k) == IF MatchSymbols(info.bits[1], msg, start(k)) THEN 0
                ELSE IF MatchSymbols(info.bits[2], msg, start(k)) THEN 1
                ELSE -1
      stops(k) == start(k) >= RX_SYMBOLS \/ bit(k) = -1
      nbits == Min({n \in 0 .. RX_SYMBOLS \div 2 : stops(n)})
  IN  IF /\ MatchSymbols(info.preamble, msg, 1)
         /\ MatchSymbols(info.postamble, msg, start(nbits))
         /\ validLen >= start(nbits) + Len(info.postamble)
      THEN Accepted([k \in 1 .. nbits |-> bit(k - 1)])
      ELSE Rejected

\* DecodePkt_Sony(): only two lengths are supported.
DecodePktSony(p, msg, validLen) ==
  LET answer == DecodePktDefault(p, msg, validLen)
  IN  IF Len(answer.bits) \in {12, 24} THEN answer ELSE Rejected

\* How many half-bits of RC5 a run lasts, 0 if neither one nor two.
HalfBits(run) ==
  IF Abs(RC5_UNIT - Abs(run)) <= Tolerance(RC5_UNIT) THEN 1
  ELSE IF Abs(2 * RC5_UNIT - Abs(run)) <= Tolerance(2 * RC5_UNIT) THEN 2
  ELSE 0

\* GetBitSeq() with tolTbl_RC5: the levels of the line, one per half-bit, up to
\* the first run that is none.
GetBitSeq(msg) ==
  LET stops(k) == k = RX_SYMBOLS \/ msg[k] <= -SIGFREE_MIN \/ HalfBits(msg[k]) = 0
      end == Min({n \in 1 .. RX_SYMBOLS : stops(n)})
      level(k) == IF msg[k] > 0 THEN 1 ELSE 0
  IN  [levels |-> FlattenSeq([k \in 1 .. end - 1 |->
                                [i \in 1 .. HalfBits(msg[k]) |-> level(k)]]),
       pos    |-> end]

\* DecodePkt_RC5(): the frame starts in the middle of its first bit, and a bit
\* is 1 if its second half is a mark.  The check of the start bits, written
\* "data & 0x3000 != 0x3000", compares first and never rejects a frame.
DecodePktRC5(p, msg, validLen) ==
  LET seq == GetBitSeq(msg)
      padded == <<0>> \o seq.levels
                \o (IF Len(seq.levels) % 2 = 0 THEN <<0>> ELSE <<>>)
      n == Len(padded) \div 2
  IN  IF /\ validLen >= seq.pos
         /\ msg[seq.pos] <= -SIGFREE_MIN
         /\ Len(padded) <= MSGBITS_MAX
         /\ \A i \in 1 .. n : padded[2 * i - 1] # padded[2 * i]
         /\ n = 14
      THEN Accepted([i \in 1 .. n |-> padded[2 * i]])
      ELSE Rejected

\* PktInfo::Decode().
Decode(p, msg, validLen) ==
  CASE p = SONY -> DecodePktSony(p, msg, validLen)
    [] p = RC5 -> DecodePktRC5(p, msg, validLen)
    [] OTHER -> DecodePktDefault(p, msg, validLen)

-----------------------------------------------------------------------------
(* What the receiver records of a transmission.                            *)

\* The line is silent before and after, so only what lies between the first
\* and the last mark counts, and neighbours of the same sign are one run.
Runs(tx) ==
  LET marks == {i \in 1 .. Len(tx) : tx[i] > 0}
      heard == Min(marks) .. Max(marks)
      runs[i \in 0 .. Len(tx)] ==
        IF i = 0 THEN <<>>
        ELSE LET before == runs[i - 1]
                 n == Len(before)
             IN  IF i \notin heard THEN before
                 ELSE IF n > 0 /\ (before[n] > 0) = (tx[i] > 0)
                 THEN [before EXCEPT ![n] = @ + tx[i]] ELSE Append(before, tx[i])
  IN  IF marks = {} THEN <<>> ELSE runs[Len(tx)]

\* When the runs begin, and when the last one ends.
Edges(runs, phase) ==
  LET upTo[i \in 0 .. Len(runs)] ==
        IF i = 0 THEN <<phase>>
        ELSE LET before == upTo[i - 1] IN Append(before, before[i] + Abs(runs[i]))
  IN  upTo[Len(runs)]

\* Mutant: the gap that ended the frame is not stored behind it.
RecordedWithoutGap(old, runs, phase) ==
  LET edges == Edges(runs, phase)
      polls(i) == edges[i + 1] \div POLL_INTERVAL - edges[i] \div POLL_INTERVAL
  IN  [i \in 0 .. RX_SYMBOLS |->
         IF i \in 1 .. Len(runs)
         THEN polls(i) * (IF runs[i] > 0 THEN POLL_INTERVAL ELSE -POLL_INTERVAL)
         ELSE IF i = Len(runs) + 2 THEN 0 ELSE old[i]]

\* rxBuf.symbols when runs are sampled every POLL_INTERVAL, the first sample
\* being phase before the first edge: every duration is a number of samples.
\* Behind the gap there is a 0, and behind that still what was there before.
Recorded(old, runs, phase) ==
  LET edges == Edges(runs, phase)
      polls(i) == edges[i + 1] \div POLL_INTERVAL - edges[i] \div POLL_INTERVAL
      gap == (SIGFREE_MIN \div POLL_INTERVAL + 1) * POLL_INTERVAL
  IN  [i \in 0 .. RX_SYMBOLS |->
         IF i \in 1 .. Len(runs)
         THEN polls(i) * (IF runs[i] > 0 THEN POLL_INTERVAL ELSE -POLL_INTERVAL)
         ELSE IF i \in {0, Len(runs) + 1} THEN -gap
         ELSE IF i = Len(runs) + 2 THEN 0 ELSE old[i]]

\* rxPos at that moment: the index of the gap.
ValidLen(runs) == Len(runs) + 1
=============================================================================
