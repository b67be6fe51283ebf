------------------------------- MODULE MCLink -------------------------------
(***************************************************************************)
(* Instances of Link for TLC: real durations, messages of 32 bits made of  *)
(* a repeated word of four, and a few sampling phases.                     *)
(***************************************************************************)
EXTENDS Link

Words == [1 .. 4 -> Bit]

\* n bits: the word over and over.
Repeated(w, n) == [i \in 1 .. n |-> w[((i - 1) % 4) + 1]]

\* n active bits, the rest of the register being the complement of the last.
Register(bits) ==
  [i \in 1 .. 32 |-> IF i <= Len(bits) THEN bits[i]
                     ELSE IF bits = <<>> THEN 0 ELSE 1 - bits[Len(bits)]]

FramesOf(p, n) == {[protocol |-> p, bits |-> Repeated(w, n)] : w \in Words}

MessagesOf(p, n) ==
  {[protocol |-> p, data |-> Register(Repeated(w, n)), nbits |-> n] : w \in Words}

NECMessages == MessagesOf(NEC, 32) \cup MessagesOf(NEC, 5) \cup MessagesOf(NEC_RPT, 0)
SonyMessages == MessagesOf(SONY, 12) \cup MessagesOf(SONY, 24)
\* Of an odd number of bits the last symbol of RCMM would take one too many.
RCMMMessages == MessagesOf(RCMM, 12) \cup MessagesOf(RCMM, 32) \cup MessagesOf(RCMM, 5)

NECFrames == FramesOf(NEC, 32) \cup FramesOf(NEC_RPT, 0)
SonyFrames == FramesOf(SONY, 12) \cup FramesOf(SONY, 24)
\* RC5 frames start with a 1.
RC5Frames == {f \in FramesOf(RC5, 14) : f.bits[1] = 1}

GoodMessages == NECMessages \cup SonyMessages \cup RCMMMessages
AllFrames == NECFrames \cup SonyFrames \cup RC5Frames
None == {}

\* Long frames, so that much of them is left behind a shorter one.
Long ==
  {[protocol |-> NEC, bits |-> Repeated(<<0, 1, 1, 1>>, 32)],
   [protocol |-> SONY, bits |-> Repeated(<<1, 0, 1, 1>>, 24)]}

\* The first 0 behind the literals comes at once, or after the end of bits[3].
Anything == {<<0>>, <<7, 0>>, <<7, 7, 0>>, <<7, 7, 7, 0>>, <<7, 7, 7, 7, 0, 7>>}

Fine == {0, 26, 49}
Coarse == {0, 26}
Tails == {1, 12}
=============================================================================
