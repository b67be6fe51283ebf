-------------------------------- MODULE Link --------------------------------
(***************************************************************************)
(* The way of a message from one Arduino or remote control to the next:    *)
(* IRMsg::BuildRaw(), the infrared line, the receiver's recording of it,   *)
(* the decoders as Receiver::PopMsg() tries them, and the sketch           *)
(* ir_repeater, which sends every message it receives.                     *)
(***************************************************************************)
EXTENDS PktTable

CONSTANTS
  Messages, \* what a sketch passes to Send()
  Frames,   \* what remote controls send: records of protocol and bits
  Phases,   \* when the receiver's first sample is, before the first edge
  Lost,     \* how many runs may be lost at the end of a frame
  Earlier,  \* frames the receiver may have recorded before
  MaxHops   \* how often a message is repeated

ASSUME LinkAssumption ==
  /\ \A m \in Messages : /\ m.protocol \in Range(Protocols)
                         /\ m.data \in Uint32
                         /\ m.nbits \in 0 .. MSGBITS_MAX
  /\ \A f \in Frames \cup Earlier : /\ f.protocol \in Range(Protocols)
                                  /\ f.bits \in Seq(Bit)
                                  /\ Len(f.bits) <= MSGBITS_MAX
  /\ Phases \subseteq 0 .. POLL_INTERVAL - 1
  /\ Lost \subseteq Nat
  /\ MaxHops \in Nat

VARIABLES
  stage,   \* "idle", "air", "decode" or "done"
  sent,    \* the frame that is meant: its protocol and its bits
  tx,      \* the symbols on the line
  cut,     \* how many runs of it were lost
  symbols, \* rxBuf.symbols
  validLen, \* rxPos
  decoder, \* PopMsg: index of the protocol being tried
  answer,  \* what the last decoder said
  heard,   \* what the repeater received and passed on
  hops     \* how often it did so

vars == <<stage, sent, tx, cut, symbols, validLen, decoder, answer, heard, hops>>
buffer == <<cut, symbols, validLen>>

Nobody == [protocol |-> "none", ok |-> FALSE, bits |-> <<>>]

-----------------------------------------------------------------------------
\* A frame as the protocol's definition has it: every bit sent, high bit
\* first; in RC5, whose first half-bit is silent, a 1 ends in a mark.
RemoteFrame(frame) ==
  LET info == PktInfo(frame.protocol)
      bits == frame.bits
      singles == [i \in 1 .. Len(bits) |->
                     IF frame.protocol = RC5
                     THEN <<RC5_UNIT * (1 - 2 * bits[i]), RC5_UNIT * (2 * bits[i] - 1)>>
                     ELSE info.bits[bits[i] + 1]]
      pairs == [i \in 1 .. Len(bits) \div 2 |->
                     info.bits[2 * bits[2 * i - 1] + bits[2 * i] + 1]]
  IN  info.preamble
      \o FlattenSeq(IF frame.protocol = RCMM THEN pairs ELSE singles)
      \o info.postamble

\* What IRMsg means: data holds nbits active bits.  They are the ones that are
\* sent first.
Meant(msg) ==
  [protocol |-> msg.protocol, bits |-> HighBits(msg.data, msg.nbits)]

\* The IRMsg a decoder fills in: the bits are shifted in from below.
Result(a) ==
  [protocol |-> a.protocol, data |-> Shifted(a.bits), nbits |-> Len(a.bits)]

-----------------------------------------------------------------------------
EmptyBuffer == [i \in 0 .. RX_SYMBOLS |-> 0]

\* Nothing has been received yet, or the buffer still holds an earlier frame.
Init ==
  /\ stage = "idle"
  /\ sent = [protocol |-> "none", bits |-> <<>>]
  /\ tx = <<>>
  /\ cut = 0
  /\ symbols \in {EmptyBuffer} \cup
                 {Recorded(EmptyBuffer, Runs(RemoteFrame(f)), 0) : f \in Earlier}
  /\ validLen = 0
  /\ decoder = 1
  /\ answer = Nobody
  /\ heard = Nobody
  /\ hops = 0

\* Something is put on the line.
Transmit(frame, raw) ==
  /\ sent' = frame
  /\ tx' = raw
  /\ stage' = "air"
  /\ UNCHANGED <<buffer, decoder, answer, heard, hops>>

\* Another sketch sends a message.
Send ==
  /\ stage = "idle"
  /\ \E m \in Messages : Transmit(Meant(m), BuildRaw(m))

\* A remote control sends a frame.
Press ==
  /\ stage = "idle"
  /\ \E f \in Frames : Transmit(f, RemoteFrame(f))

\* The receiver records the frame; of its runs, the last two, four, ... may be
\* lost because somebody steps into the beam.
Arrive ==
  /\ stage = "air"
  /\ LET whole == Runs(tx)
     IN  \E phase \in Phases, lost \in Lost \cup {0} :
           LET runs == SubSeq(whole, 1, Len(whole) - 2 * lost)
           IN  /\ runs # <<>>
               /\ cut' = 2 * lost
               /\ symbols' = Recorded(symbols, runs, phase)
               /\ validLen' = ValidLen(runs)
  /\ stage' = "decode"
  /\ decoder' = 1
  /\ UNCHANGED <<sent, tx, answer, heard, hops>>

\* Mutant: the index runs off the table of protocols.
TryDecoderKeepsGoing ==
  LET p == Protocols[decoder]
      a == IF PktInfo(p).rxDecode THEN Decode(p, symbols, validLen) ELSE Rejected
  IN  /\ stage = "decode"
      /\ answer' = IF a.ok THEN [protocol |-> p, ok |-> TRUE, bits |-> a.bits]
                   ELSE Nobody
      /\ stage' = IF a.ok \/ decoder = Len(Protocols) THEN "done" ELSE "decode"
      /\ decoder' = IF a.ok THEN decoder ELSE decoder + 1
      /\ UNCHANGED <<sent, tx, buffer, heard, hops>>

\* PopMsg() tries the next protocol: those without rxDecode are passed over.
TryDecoder ==
  LET p == Protocols[decoder]
      a == IF PktInfo(p).rxDecode THEN Decode(p, symbols, validLen) ELSE Rejected
      last == decoder = Len(Protocols)
  IN  /\ stage = "decode"
      /\ answer' = IF a.ok THEN [protocol |-> p, ok |-> TRUE, bits |-> a.bits]
                   ELSE Nobody
      /\ stage' = IF a.ok \/ last THEN "done" ELSE "decode"
      /\ decoder' = IF a.ok \/ last THEN decoder ELSE decoder + 1
      /\ UNCHANGED <<sent, tx, buffer, heard, hops>>

\* ir_repeater: if (irRx.PopMsg(&msg)) irTx.Send(msg);
Repeat ==
  /\ stage = "done"
  /\ answer.ok
  /\ hops < MaxHops
  /\ tx' = BuildRaw(Result(answer))
  /\ heard' = answer
  /\ hops' = hops + 1
  /\ stage' = "air"
  /\ UNCHANGED <<sent, buffer, decoder, answer>>

Next == Send \/ Press \/ Arrive \/ TryDecoder \/ Repeat

Spec == Init /\ [][Next]_vars

-----------------------------------------------------------------------------
(* Properties.                                                             *)

TypeOK ==
  /\ stage \in {"idle", "air", "decode", "done"}
  /\ symbols \in [0 .. RX_SYMBOLS -> SymCount]
  /\ Len(tx) <= TX_SYMBOLS
  /\ validLen \in 0 .. RX_SYMBOLS
  /\ decoder \in 1 .. Len(Protocols)
  /\ hops \in 0 .. MaxHops

\* Behind every list of the table but RC5's bits[3] (ir_protocol.cpp:69) there is
\* another that ends, within two elements; behind that one, if it is the last in
\* memory, there is a 0 within the length of a member, or there is not.
EndsInTime(layout, p, k) ==
  \/ <<p, k>> # <<RC5, Len(Sizes)>>
  \/ layout[1] = "backward"
  \/ \E i \in 1 .. BIT_MAX + 1 : i <= Len(layout[2]) /\ layout[2][i] = 0

\* The entry of pktInfo[] that a message is built from holds the lists of the
\* source, each with a 0 behind it, whatever lies behind the table in memory: no
\* constructor writes that 0, and the copy of an empty list runs on into what is
\* behind it (ir_signalling.h:43: "no checks").  It leaves its member in one case
\* only: the last list of the table, and no 0 among the first three elements of the
\* data behind it.
TableAsWritten ==
  stage = "air" /\ hops = 0 =>
    \A layout \in Layouts :
      /\ AsWritten(layout, sent.protocol)
      /\ \A k \in 1 .. Len(Sizes) :
           StaysInMember(layout, sent.protocol, k) <=> EndsInTime(layout, sent.protocol, k)

\* What BuildRaw() puts on the line for a message is the frame that a remote
\* control of that protocol would send: each of its active bits once, the highest
\* first, although one loop serves protocols of one and of two bits per symbol.
SentAsMeant ==
  stage = "air" /\ hops = 0 /\ (sent.protocol = RCMM => Len(sent.bits) % 2 = 0) =>
    tx = RemoteFrame(sent)

\* A complete frame is received as what it means, whenever the receiver samples
\* it: the same protocol and the same bits.  One of a protocol that is not to be
\* received is not taken for another.
ReceivedAsMeant ==
  stage = "done" /\ hops = 0 /\ cut = 0 =>
    IF PktInfo(sent.protocol).rxDecode
    THEN answer = [protocol |-> sent.protocol, ok |-> TRUE, bits |-> sent.bits]
    ELSE ~answer.ok

\* Whatever frame arrives, whole or cut short, at most one decoder accepts it:
\* the order in which PopMsg() tries them does not matter.
OneDecoder ==
  stage = "decode" /\ decoder = 1 =>
    Cardinality({p \in Range(Protocols) :
                   PktInfo(p).rxDecode /\ Decode(p, symbols, validLen).ok}) <= 1

\* No decoder invents bits: what is received of a frame that was cut short are
\* the first bits of that frame.
OnlyBitsSent ==
  stage = "done" /\ answer.ok /\ hops = 0 =>
    /\ answer.protocol = sent.protocol
    /\ Len(answer.bits) <= Len(sent.bits)
    /\ answer.bits = SubSeq(sent.bits, 1, Len(answer.bits))

\* The repeater passes on what it received if that fills the register, or has
\* no bits at all: its receivers get the same protocol and the same bits.
FullMessagesRepeat ==
  stage = "done" /\ hops > 0 /\ cut = 0 /\ Len(heard.bits) \in {0, MSGBITS_MAX} =>
    answer = heard

-----------------------------------------------------------------------------
(* Properties that comments and documents of the code claim and the code   *)
(* does not have.                                                          *)

\* samples/README.md:8: the repeater re-transmits valid incoming messages: who
\* receives the repeated message receives what the repeater received.
RepeatedAsReceived ==
  stage = "done" /\ hops > 0 /\ cut = 0 => answer = heard

\* ir_protocol.cpp:179: an RC5 message "must match protocol", that is, its two
\* start bits must be 1.
RC5StartBits ==
  answer.ok /\ answer.protocol = RC5 => answer.bits[1] = 1 /\ answer.bits[2] = 1
=============================================================================
