----------------------------- MODULE IrHwProofs -----------------------------
(***************************************************************************)
(* What IrHw's run checks on small instances, proved for every reference   *)
(* clock, counter width and set of carriers: the carrier is right while    *)
(* the pin is connected, and the receiver is polled on time.               *)
(*                                                                         *)
(* The stores that an operation has not performed yet are the control      *)
(* state of the program.  TxStage and RxStage list what these are in turn, *)
(* with what the registers hold by then.  They settle the 16-bit carrier,  *)
(* whose top is not buffered, and give the modes.  The 8-bit carrier has   *)
(* to wait until the counter has taken over the new compare values and has *)
(* come back below the new top: Settling bounds how long that can take by  *)
(* what is left of SETUPTIME, wherever the counter was when it began.      *)
(* Punctual relates the counter of the receiver to the time since the last *)
(* poll and to how late the next one is.                                   *)
(***************************************************************************)
EXTENDS IrHw, TimersProofs, SequenceTheorems

-----------------------------------------------------------------------------
(* The numbers and the sequences of stores.                                *)

\* What the configurations amount to in the two bytes.
FreeByte == IF hw = "tx8b" THEN 1 ELSE 2
DrivenByte == IF hw = "tx8b" THEN 33 ELSE 130
ClockByte == IF hw = "tx8b" THEN 9 ELSE 17

\* The two bytes that CfgCarrier() computes, with the pin free and driven.
LEMMA CarrierBytes ==
  ASSUME hw \in {"tx8b", "tx16b"}
  PROVE  /\ CfgCarrier(0).TCCRnA = FreeByte /\ CfgCarrier(0).TCCRnB = ClockByte
         /\ CfgCarrier(1).TCCRnA = DrivenByte /\ CfgCarrier(1).TCCRnB = ClockByte
<1>1. CASE hw = "tx8b"
  BY <1>1, SMT
  DEF CfgCarrier, FreeByte, DrivenByte, ClockByte, SetCOMnB, SetMode8b,
      WriteField, ReadField, WGM10, WGM22, CS10, COM1B0, Mode8b, Presc, CmpOMode
<1>2. CASE hw = "tx16b"
  BY <1>2, SMT
  DEF CfgCarrier, FreeByte, DrivenByte, ClockByte, SetCOMnA, SetMode16b,
      WriteField, ReadField, WGM10, WGM12, CS10, COM1A0, Mode16b, Presc, CmpOMode
<1> QED
  BY <1>1, <1>2

\* The two bytes of the modes that the stages of a configuration select.
LEMMA PollingBytes ==
  /\ SetMode16b(Mode16b.CTC_OCRnA, Presc.Div1) = [TCCRnA |-> 0, TCCRnB |-> 9]
  /\ SetMode16b(Mode16b.PhaseCorrectPWM_8bit, Presc.Div64) = [TCCRnA |-> 1, TCCRnB |-> 3]
  /\ SetMode8b(Mode8b.PWM_PhaseCorrectPWM_8bit, Presc.Div64) = [TCCRnA |-> 1, TCCRnB |-> 3]
BY SMT DEF SetMode16b, SetMode8b, WriteField, ReadField, WGM10, WGM12, WGM22, CS10,
           Mode16b, Mode8b, Presc

\* What the timer makes of the bytes that occur.
LEMMA ModesOf8b ==
  ASSUME hw = "tx8b", regs.TCCRnA \in {1, 33}, regs.TCCRnB \in {3, 9}
  PROVE  /\ PWM
         /\ Connected <=> regs.TCCRnA = 33
         /\ regs.TCCRnB = 9 => /\ Mode = Mode8b.PhaseCorrectPWM_OCR
                               /\ PrescOf(regs) = Presc.Div1
BY SMT DEF PWM, Mode, Connected, COM, ModeOf8b, PrescOf, ReadField, WGM10, WGM22,
           CS10, COM1B0, Mode8b, Presc, CmpOMode

\* The same for the 16-bit timer of the transmitter.
LEMMA ModesOf16b ==
  ASSUME hw = "tx16b", regs.TCCRnA \in {1, 2, 130}, regs.TCCRnB \in {3, 17}
  PROVE  /\ Connected <=> regs.TCCRnA = 130
         /\ regs.TCCRnA # 1 /\ regs.TCCRnB = 17 =>
              /\ Mode = Mode16b.PhaseCorrectPWM_ICR
              /\ PrescOf(regs) = Presc.Div1
BY SMT DEF Mode, Connected, COM, ModeOf16b, PrescOf, ReadField, WGM10, WGM12,
           CS10, COM1A0, Mode16b, Presc, CmpOMode

\* The same for the timer of the receiver, whose pin is never connected.
LEMMA ModesOfRx ==
  ASSUME hw = "rx", regs.TCCRnA \in {0, 1}, regs.TCCRnB \in {3, 9}
  PROVE  /\ ~Connected
         /\ regs.TCCRnA = 0 /\ regs.TCCRnB = 9 =>
              /\ ~PWM
              /\ Mode = Mode16b.CTC_OCRnA
              /\ PrescOf(regs) = Presc.Div1
BY SMT DEF PWM, Mode, Connected, COM, ModeOf16b, PrescOf, ReadField, WGM10, WGM12,
           CS10, COM1A0, Mode16b, Presc, CmpOMode

\* Sequences of known length joined, for SMT.
LEMMA ConcatTwoTwo ==
  ASSUME NEW a, NEW b, NEW c, NEW d
  PROVE  <<a, b>> \o <<c, d>> = <<a, b, c, d>>
<1> DEFINE S == {a, b, c, d}
           s == <<a, b>> \o <<c, d>>
<1>1. /\ <<a, b>> \in Seq(S) /\ <<c, d>> \in Seq(S) /\ <<a, b, c, d>> \in Seq(S)
      /\ Len(<<a, b>>) = 2 /\ Len(<<c, d>>) = 2 /\ Len(<<a, b, c, d>>) = 4
  OBVIOUS
<1> HIDE DEF S
<1>2. s \in Seq(S) /\ Len(s) = 4 /\ s[1] = a /\ s[2] = b /\ s[3] = c /\ s[4] = d
  BY <1>1, ConcatProperties
<1> HIDE DEF s
<1>3. s = <<a, b, c, d>>
  BY <1>1, <1>2, SeqEqual
<1> QED
  BY <1>3 DEF s

\* The same for one and two.
LEMMA ConcatOneTwo ==
  ASSUME NEW a, NEW b, NEW c
  PROVE  <<a>> \o <<b, c>> = <<a, b, c>>
<1> DEFINE S == {a, b, c}
           s == <<a>> \o <<b, c>>
<1>1. /\ <<a>> \in Seq(S) /\ <<b, c>> \in Seq(S) /\ <<a, b, c>> \in Seq(S)
      /\ Len(<<a>>) = 1 /\ Len(<<b, c>>) = 2 /\ Len(<<a, b, c>>) = 3
  OBVIOUS
<1> HIDE DEF S
<1>2. s \in Seq(S) /\ Len(s) = 3 /\ s[1] = a /\ s[2] = b /\ s[3] = c
  BY <1>1, ConcatProperties
<1> HIDE DEF s
<1>3. s = <<a, b, c>>
  BY <1>1, <1>2, SeqEqual
<1> QED
  BY <1>3 DEF s

\* The same for three and two.
LEMMA ConcatThreeTwo ==
  ASSUME NEW a, NEW b, NEW c, NEW d, NEW e
  PROVE  <<a, b, c>> \o <<d, e>> = <<a, b, c, d, e>>
<1> DEFINE S == {a, b, c, d, e}
           s == <<a, b, c>> \o <<d, e>>
<1>1. /\ <<a, b, c>> \in Seq(S) /\ <<d, e>> \in Seq(S)
      /\ <<a, b, c, d, e>> \in Seq(S)
      /\ Len(<<a, b, c>>) = 3 /\ Len(<<d, e>>) = 2 /\ Len(<<a, b, c, d, e>>) = 5
  OBVIOUS
<1> HIDE DEF S
<1>2. /\ s \in Seq(S) /\ Len(s) = 5
      /\ s[1] = a /\ s[2] = b /\ s[3] = c /\ s[4] = d /\ s[5] = e
  BY <1>1, ConcatProperties
<1> HIDE DEF s
<1>3. s = <<a, b, c, d, e>>
  BY <1>1, <1>2, SeqEqual
<1> QED
  BY <1>3 DEF s

\* The same for three and four.
LEMMA ConcatThreeFour ==
  ASSUME NEW a, NEW b, NEW c, NEW d, NEW e, NEW f, NEW g
  PROVE  <<a, b, c>> \o <<d, e, f, g>> = <<a, b, c, d, e, f, g>>
<1> DEFINE S == {a, b, c, d, e, f, g}
           s == <<a, b, c>> \o <<d, e, f, g>>
<1>1. /\ <<a, b, c>> \in Seq(S) /\ <<d, e, f, g>> \in Seq(S)
      /\ <<a, b, c, d, e, f, g>> \in Seq(S)
      /\ Len(<<a, b, c>>) = 3 /\ Len(<<d, e, f, g>>) = 4
      /\ Len(<<a, b, c, d, e, f, g>>) = 7
  OBVIOUS
<1> HIDE DEF S
<1>2. /\ s \in Seq(S) /\ Len(s) = 7
      /\ s[1] = a /\ s[2] = b /\ s[3] = c /\ s[4] = d
      /\ s[5] = e /\ s[6] = f /\ s[7] = g
  BY <1>1, ConcatProperties
<1> HIDE DEF s
<1>3. s = <<a, b, c, d, e, f, g>>
  BY <1>1, <1>2, SeqEqual
<1> QED
  BY <1>3 DEF s

-----------------------------------------------------------------------------
(* The invariant.                                                          *)

\* The registers that hold the top and the duty cycle of the carrier.
TopReg == IF hw = "tx8b" THEN "OCRnA" ELSE "ICRn"
DutyReg == IF hw = "tx8b" THEN "OCRnB" ELSE "OCRnA"

\* The stores of the operations of a transmitter.
SetTop == W(TopReg, Cycles(asked))
SetDuty == W(DutyReg, Cycles(asked) \div 3)
OutputByte(v) == IF v = 0 THEN FreeByte ELSE DrivenByte
SetBits(v) == W("TCCRnA", OutputByte(v))
SetClock == W("TCCRnB", ClockByte)

CarrierStored ==
  regs[TopReg] = Cycles(asked) /\ regs[DutyReg] = Cycles(asked) \div 3

\* Every register but the two configuration bytes, which the stages give.
Typed ==
  /\ hw \in Hardware
  /\ regs \in [Registers -> Nat]
  /\ regs.TCNTn < Size /\ regs.ICRn < Size
  /\ regs.OCRnA < Size /\ regs.OCRnB < Size
  /\ regs.TIMSKn \in {0, 2} /\ regs.I \in {0, 1}
  /\ active \in [Compare -> 0 .. Size - 1]
  /\ up \in BOOLEAN /\ ocf \in BOOLEAN
  /\ waited \in 0 .. SetupClocks
  /\ asked \in Carriers \cup {DefaultCarrier}
  /\ late \in 0 .. PollLatency /\ age \in 0 .. 2 * WORD /\ polls \in 0 .. 2

BeforeConfigure ==
  /\ pc = "setup" /\ todo = <<>> /\ asked = DefaultCarrier
  /\ regs.TCCRnA = 1 /\ regs.TCCRnB = 3

TxConfiguring ==
  /\ pc = "off" /\ regs.TCCRnB = 3
  /\ \/ /\ todo = <<W("TCCRnA", 1), SetTop, SetDuty, SetBits(0), SetClock>>
        /\ regs.TCCRnA = 1
     \/ /\ todo = <<SetTop, SetDuty, SetBits(0), SetClock>>
        /\ regs.TCCRnA = 1
     \/ /\ todo = <<SetDuty, SetBits(0), SetClock>>
        /\ regs.TCCRnA = 1 /\ regs[TopReg] = Cycles(asked)
     \/ /\ todo = <<SetBits(0), SetClock>>
        /\ regs.TCCRnA = 1 /\ CarrierStored
     \/ /\ todo = <<SetClock>>
        /\ regs.TCCRnA = FreeByte /\ CarrierStored

\* The carrier of the next packet, the pin being free.
TxRetuning ==
  /\ pc = "setuptime"
  /\ regs.TCCRnA = FreeByte /\ regs.TCCRnB = ClockByte
  /\ \/ todo = <<SetTop, SetDuty>>
     \/ todo = <<SetDuty>> /\ regs[TopReg] = Cycles(asked)
     \/ todo = <<>> /\ CarrierStored

\* A mark, a space, or the end of the packet, with which the pin is free.
TxOutput ==
  /\ regs.TCCRnB = ClockByte /\ CarrierStored
  /\ \E v \in {0, 1} :
        /\ pc = "on" \/ (pc = "off" /\ v = 0)
        /\ \/ /\ todo = <<SetBits(v), SetClock>>
              /\ regs.TCCRnA \in {FreeByte, DrivenByte}
           \/ /\ todo \in {<<SetClock>>, <<>>}
              /\ regs.TCCRnA = OutputByte(v)

TxStage ==
  hw # "rx" => BeforeConfigure \/ TxConfiguring \/ TxRetuning \/ TxOutput

\* The counter runs from 0 to PollCycles.
Counting ==
  /\ regs.OCRnA = PollCycles /\ active.OCRnA = PollCycles
  /\ regs.TCNTn <= PollCycles

\* The interrupt is enabled by the last two stores and by nothing else.
RxConfiguring ==
  LET bitsA == W("TCCRnA", 0)
      bitsB == W("TCCRnB", 9)
      period == W("OCRnA", PollCycles)
      restart == W("TCNTn", 0)
      enable == W("TIMSKn", 2)
      sei == W("I", 1)
  IN  \/ /\ regs.TCCRnA = 1 /\ regs.TCCRnB = 3 /\ regs.TIMSKn = 0
         /\ \/ todo = <<W("I", 0), bitsA, bitsB, period, restart, enable, sei>>
            \/ todo = <<bitsA, bitsB, period, restart, enable, sei>> /\ regs.I = 0
      \/ /\ regs.TCCRnA = 0 /\ regs.TCCRnB = 3 /\ regs.TIMSKn = 0 /\ regs.I = 0
         /\ todo = <<bitsB, period, restart, enable, sei>>
      \/ /\ regs.TCCRnA = 0 /\ regs.TCCRnB = 9 /\ regs.TIMSKn = 0 /\ regs.I = 0
         /\ \/ todo = <<period, restart, enable, sei>>
            \/ /\ todo = <<restart, enable, sei>>
               /\ regs.OCRnA = PollCycles /\ active.OCRnA = PollCycles
            \/ todo = <<enable, sei>> /\ Counting
      \/ /\ regs.TCCRnA = 0 /\ regs.TCCRnB = 9 /\ regs.TIMSKn = 2 /\ Counting
         /\ \/ todo = <<sei>> /\ regs.I = 0
            \/ todo = <<>> /\ regs.I = 1

RxStage ==
  hw = "rx" => \/ BeforeConfigure /\ regs.TIMSKn = 0
               \/ pc = "off" /\ RxConfiguring

\* The 8-bit counter compares with what has been stored, below its top.
Loaded == active.OCRnA = regs.OCRnA /\ active.OCRnB = regs.OCRnB
Settled == Loaded /\ regs.TCNTn <= active.OCRnA

\* What is left of SETUPTIME is enough for the counter to go to the old top,
\* where the new values are loaded, and from there below the new one.
Settling ==
  LET left == SetupClocks - waited
      n == regs.TCNTn
      top == active.OCRnA
  IN  \/ Settled
      \/ Loaded /\ ~up /\ n <= left
      \/ Loaded /\ up /\ 2 * BYTE - n <= left
      \/ ~up /\ n + top + 2 + BYTE <= left
      \/ up /\ n <= top /\ top - n + 1 + BYTE <= left
      \/ up /\ n > top /\ 3 * BYTE - n + top <= left

CarrierSettles ==
  hw = "tx8b" =>
    /\ pc = "setuptime" /\ todo # <<>> => waited = 0
    /\ pc = "setuptime" /\ todo = <<>> => Settling
    /\ pc = "on" \/ Connected => Settled

IInv == Typed /\ TxStage /\ RxStage /\ CarrierSettles

-----------------------------------------------------------------------------
(* Numbers.                                                                *)

\* What IrHwAssumption says, fact by fact.
LEMMA ConstantFacts ==
  /\ BYTE \in Nat \ {0} /\ WORD \in Nat \ {0} /\ REFCLK \in Nat \ {0}
  /\ PollCycles \in Nat \ {0} /\ SetupClocks \in Nat \ {0}
  /\ DefaultCarrier \in Nat \ {0}
  /\ \A kHz \in Carriers : kHz \in Nat \ {0}
  /\ 2 * BYTE < WORD /\ PollCycles < WORD
  /\ PollLatency \in Nat /\ PollLatency < PollCycles
  /\ SetupClocks >= 4 * BYTE /\ SetupClocks < WORD
BY IrHwAssumption

\* The period of a carrier fits a byte, and so does a third of it.
LEMMA CyclesBound ==
  ASSUME NEW kHz \in Carriers \cup {DefaultCarrier}
  PROVE  /\ Cycles(kHz) \in 0 .. BYTE - 1
         /\ Cycles(kHz) \div 3 \in 0 .. BYTE - 1
<1>1. kHz \in Nat \ {0} /\ BYTE \in Nat \ {0} /\ REFCLK \in Nat
  BY ConstantFacts
<1>2. REFCLK \div kHz \in Nat
  BY <1>1
<1>3. Cycles(kHz) \in 0 .. BYTE - 1
  BY <1>1, <1>2 DEF Cycles
<1> QED
  BY <1>1, <1>3

\* It is what the carrier has, nothing cut off.
LEMMA CyclesWhole ==
  ASSUME NEW kHz \in Carriers \cup {DefaultCarrier}
  PROVE  Cycles(kHz) = REFCLK \div kHz
<1>1. kHz \in Nat \ {0} /\ BYTE \in Nat \ {0} /\ REFCLK \in Nat
  BY ConstantFacts
<1>2. REFCLK \div kHz \in Nat /\ REFCLK \div kHz < BYTE
  BY <1>1, IrHwAssumption
<1> QED
  BY <1>1, <1>2 DEF Cycles

\* Every timer has at least the values of a byte, at most those of a word.
LEMMA SizeBound == Size \in Nat \ {0} /\ BYTE <= Size /\ Size <= WORD
BY ConstantFacts DEF Size

\* The configuration bytes that occur.
LEMMA BytesOf ==
  ASSUME Typed, TxStage, RxStage
  PROVE  /\ hw = "tx8b" => regs.TCCRnA \in {1, 33} /\ regs.TCCRnB \in {3, 9}
         /\ hw = "tx16b" => regs.TCCRnA \in {1, 2, 130} /\ regs.TCCRnB \in {3, 17}
         /\ hw = "rx" => regs.TCCRnA \in {0, 1} /\ regs.TCCRnB \in {3, 9}
<1>1. CASE hw = "tx8b"
  BY <1>1 DEF TxStage, BeforeConfigure, TxConfiguring, TxRetuning, TxOutput,
              OutputByte, FreeByte, DrivenByte, ClockByte
<1>2. CASE hw = "tx16b"
  BY <1>2 DEF TxStage, BeforeConfigure, TxConfiguring, TxRetuning, TxOutput,
              OutputByte, FreeByte, DrivenByte, ClockByte
<1>3. CASE hw = "rx"
  BY <1>3 DEF RxStage, BeforeConfigure, RxConfiguring
<1> QED
  BY <1>1, <1>2, <1>3

-----------------------------------------------------------------------------
(* A clock.                                                                *)

\* A count moves the counter, within its size, and nothing else of the
\* registers; the buffers it loads hold what the registers hold.
LEMMA CountEffect ==
  ASSUME Typed, (PWM /\ CountPWM) \/ (~PWM /\ hw # "tx8b" /\ CountUp)
  PROVE  /\ regs' \in [Registers -> Nat]
         /\ \A r \in Registers \ {"TCNTn"} : regs'[r] = regs[r]
         /\ regs'.TCNTn < Size
         /\ active' \in [Compare -> 0 .. Size - 1]
         /\ up' \in BOOLEAN
<1> USE SizeBound, ConstantFacts
<1>1. /\ regs \in [Registers -> Nat] /\ "TCNTn" \in Registers
      /\ regs.TCNTn \in Nat /\ regs.TCNTn < Size
      /\ up \in BOOLEAN /\ active \in [Compare -> 0 .. Size - 1]
  BY DEF Typed, Registers
<1>2. /\ regs.OCRnA \in 0 .. Size - 1 /\ regs.OCRnB \in 0 .. Size - 1
      /\ Compare = {"OCRnA", "OCRnB"}
  BY DEF Typed, Registers, Compare
<1>3. [r \in Compare |-> regs[r]] \in [Compare -> 0 .. Size - 1]
  BY <1>2
<1>4. \E n \in Nat : n < Size /\ CountTo(n)
  <2>1. CASE CountPWM
    <3>1. Descend => \E n \in Nat : n < Size /\ CountTo(n)
      <4>1. (IF regs.TCNTn = 0 THEN 0 ELSE regs.TCNTn - 1) \in Nat
            /\ (IF regs.TCNTn = 0 THEN 0 ELSE regs.TCNTn - 1) < Size
        BY <1>1
      <4> QED
        BY <4>1 DEF Descend
    <3>2. CountTo((regs.TCNTn + 1) % Size) => \E n \in Nat : n < Size /\ CountTo(n)
      <4>1. (regs.TCNTn + 1) % Size \in Nat /\ (regs.TCNTn + 1) % Size < Size
        BY <1>1
      <4> QED
        BY <4>1
    <3> QED
      BY <2>1, <3>1, <3>2 DEF CountPWM
  <2>2. CASE hw # "tx8b" /\ CountUp
    <3>1. Size = WORD
      BY <2>2 DEF Size
    <3> DEFINE n == IF regs.TCNTn = CounterTop THEN 0 ELSE (regs.TCNTn + 1) % WORD
    <3>2. n \in Nat /\ n < Size
      BY <1>1, <3>1
    <3>3. CountTo(n)
      BY <2>2 DEF CountUp
    <3> QED
      BY <3>2, <3>3
  <2> QED
    BY <2>1, <2>2
<1>5. PICK n \in Nat : n < Size /\ regs' = [regs EXCEPT !.TCNTn = n]
  BY <1>4 DEF CountTo
<1>6. active' = active \/ active' = [r \in Compare |-> regs[r]]
  BY DEF CountPWM, CountUp
<1>7. up' \in BOOLEAN
  <2>1. Descend => up' \in BOOLEAN
    BY DEF Descend
  <2> QED
    BY <1>1, <2>1 DEF CountPWM, CountUp
<1> QED
  BY <1>1, <1>3, <1>5, <1>6, <1>7

\* What a clock leaves alone.
LEMMA ClockEffect ==
  ASSUME Typed, TxStage, RxStage, Clock
  PROVE  /\ UNCHANGED <<hw, todo, pc, asked>>
         /\ \A r \in Registers \ {"TCNTn"} : regs'[r] = regs[r]
         /\ Typed'
<1>1. UNCHANGED <<hw, todo, pc, asked>>
  BY DEF Clock
<1>2. \/ (PWM /\ CountPWM) \/ (~PWM /\ hw # "tx8b" /\ CountUp)
      \/ UNCHANGED <<regs, active, up>>
  BY BytesOf, ModesOf8b DEF Clock
<1>3. /\ regs' \in [Registers -> Nat]
      /\ \A r \in Registers \ {"TCNTn"} : regs'[r] = regs[r]
      /\ regs'.TCNTn < Size
      /\ active' \in [Compare -> 0 .. Size - 1]
      /\ up' \in BOOLEAN
  BY <1>2, CountEffect DEF Typed
<1>4. ocf' \in BOOLEAN
  BY DEF Clock, Typed
<1>5. waited' \in 0 .. SetupClocks
  BY ConstantFacts DEF Clock, Typed
<1>9. late' \in 0 .. PollLatency /\ age' \in 0 .. 2 * WORD /\ polls' \in 0 .. 2
  BY ConstantFacts DEF Clock, Typed
<1>6. Size' = Size
  BY <1>1 DEF Size
<1>7. /\ "TIMSKn" \in Registers \ {"TCNTn"} /\ "I" \in Registers \ {"TCNTn"}
      /\ "ICRn" \in Registers \ {"TCNTn"}
      /\ "OCRnA" \in Registers \ {"TCNTn"} /\ "OCRnB" \in Registers \ {"TCNTn"}
  BY DEF Registers
<1>8. Typed'
  BY <1>1, <1>3, <1>4, <1>5, <1>6, <1>7, <1>9 DEF Typed
<1> QED
  BY <1>1, <1>3, <1>8

\* A clock cycle does not change what the transmitter has still to store.
LEMMA TxStageClock ==
  ASSUME Typed, TxStage, RxStage, Clock
  PROVE  TxStage'
<1>1. UNCHANGED <<hw, todo, pc, asked>>
  BY ClockEffect
<1>2. /\ regs'.TCCRnA = regs.TCCRnA /\ regs'.TCCRnB = regs.TCCRnB
      /\ regs'[TopReg] = regs[TopReg] /\ regs'[DutyReg] = regs[DutyReg]
  BY ClockEffect DEF Registers, TopReg, DutyReg
<1>3. /\ FreeByte' = FreeByte /\ DrivenByte' = DrivenByte /\ ClockByte' = ClockByte
      /\ TopReg' = TopReg /\ DutyReg' = DutyReg /\ Cycles(asked)' = Cycles(asked)
  BY <1>1 DEF FreeByte, DrivenByte, ClockByte, TopReg, DutyReg, Cycles
<1>4. /\ SetTop' = SetTop /\ SetDuty' = SetDuty /\ SetClock' = SetClock
      /\ CarrierStored' = CarrierStored
      /\ \A v : SetBits(v)' = SetBits(v) /\ OutputByte(v)' = OutputByte(v)
  BY <1>2, <1>3 DEF SetTop, SetDuty, SetClock, CarrierStored, SetBits, OutputByte
<1> QED
  BY <1>1, <1>2, <1>3, <1>4
  DEF TxStage, BeforeConfigure, TxConfiguring, TxRetuning, TxOutput

-----------------------------------------------------------------------------
(* The 8-bit carrier settles.                                              *)

\* One count of the 8-bit carrier, in numbers.
LEMMA CountOfCarrier ==
  ASSUME Typed, TxStage, RxStage, Clock, hw = "tx8b", regs.TCCRnB = 9
  PROVE  LET n == regs.TCNTn
             top == active.OCRnA
             down == regs'.TCNTn = (IF n = 0 THEN 0 ELSE n - 1)
                     /\ (n <= 1 => up') /\ (n > 1 => ~up')
         IN  /\ regs'.OCRnA = regs.OCRnA /\ regs'.OCRnB = regs.OCRnB
             /\ \/ up /\ n = top /\ down /\ Loaded'
                \/ /\ up /\ n # top
                   /\ \/ regs'.TCNTn = (n + 1) % BYTE /\ up'
                      \/ n = BYTE - 1 /\ down
                   /\ UNCHANGED active
                \/ ~up /\ down /\ UNCHANGED active
<1>1. /\ regs \in [Registers -> Nat] /\ "TCNTn" \in Registers
      /\ Compare = {"OCRnA", "OCRnB"}
      /\ regs.TCNTn \in Nat
  BY DEF Typed, Registers, Compare
<1>2. regs'.OCRnA = regs.OCRnA /\ regs'.OCRnB = regs.OCRnB
  BY ClockEffect DEF Registers
<1>3. PWM /\ Mode = Mode8b.PhaseCorrectPWM_OCR /\ PrescOf(regs) = Presc.Div1
  BY BytesOf, ModesOf8b
<1>4. CounterTop = active.OCRnA /\ Size = BYTE
  BY <1>3 DEF CounterTop, Size
<1>5. CountPWM
  BY <1>3 DEF Clock
<1>6. \A n \in Nat : CountTo(n) => regs'.TCNTn = n
  BY <1>1 DEF CountTo
<1>7. Descend => /\ regs'.TCNTn = (IF regs.TCNTn = 0 THEN 0 ELSE regs.TCNTn - 1)
                 /\ (regs.TCNTn <= 1 => up') /\ (regs.TCNTn > 1 => ~up')
  <2>1. (IF regs.TCNTn = 0 THEN 0 ELSE regs.TCNTn - 1) \in Nat
    BY <1>1
  <2>2. Descend => regs'.TCNTn = (IF regs.TCNTn = 0 THEN 0 ELSE regs.TCNTn - 1)
    BY <1>6, <2>1 DEF Descend
  <2>3. Descend => (regs.TCNTn <= 1 <=> up')
    BY Zenon DEF Descend
  <2> QED
    BY <1>1, <2>2, <2>3
<1>8. CountTo((regs.TCNTn + 1) % BYTE) => regs'.TCNTn = (regs.TCNTn + 1) % BYTE
  <2>1. (regs.TCNTn + 1) % BYTE \in Nat
    BY <1>1, ConstantFacts
  <2> QED
    BY <1>6, <2>1
<1>9. active' = [r \in Compare |-> regs[r]] => Loaded'
  BY <1>1, <1>2 DEF Loaded
<1>10. UNCHANGED up => (up => up')
  OBVIOUS
<1>11. CASE /\ up
            /\ regs.TCNTn = CounterTop
            /\ Descend
            /\ active' = [r \in Compare |-> regs[r]]
  BY <1>2, <1>4, <1>7, <1>9, <1>11
<1>12. CASE /\ up
            /\ regs.TCNTn # CounterTop
            /\ \/ CountTo((regs.TCNTn + 1) % Size) /\ UNCHANGED up
               \/ regs.TCNTn = Size - 1 /\ Descend
            /\ UNCHANGED active
  BY <1>2, <1>4, <1>7, <1>8, <1>10, <1>12
<1>13. CASE ~up /\ Descend /\ UNCHANGED active
  BY <1>2, <1>7, <1>13
<1> QED
  BY <1>5, <1>11, <1>12, <1>13 DEF CountPWM

\* The 8-bit timer and its compare registers hold bytes.
LEMMA CountIsInRange ==
  ASSUME Typed, hw = "tx8b"
  PROVE  /\ regs.TCNTn \in 0 .. BYTE - 1
         /\ active.OCRnA \in 0 .. BYTE - 1
         /\ regs.OCRnA \in 0 .. BYTE - 1
         /\ waited \in 0 .. SetupClocks
         /\ up \in BOOLEAN
BY ConstantFacts DEF Typed, Registers, Compare, Size

\* Once settled the counter stays below its top.
LEMMA SettledClock ==
  ASSUME Typed, TxStage, RxStage, Clock, hw = "tx8b", regs.TCCRnB = 9, Settled
  PROVE  Settled'
<1> DEFINE n == regs.TCNTn
           m == regs'.TCNTn
           top == active.OCRnA
<1>1. n \in 0 .. BYTE - 1 /\ top \in 0 .. BYTE - 1 /\ BYTE \in Nat \ {0} /\ n <= top
  BY CountIsInRange, ConstantFacts DEF Settled
<1>2. Loaded' /\ active'.OCRnA = top
  BY CountOfCarrier DEF Settled, Loaded
<1>3. \/ n = top /\ m = (IF n = 0 THEN 0 ELSE n - 1)
      \/ m = (IF n = 0 THEN 0 ELSE n - 1)
      \/ n # top /\ m = (n + 1) % BYTE
  BY CountOfCarrier
<1> HIDE DEF n, m, top
<1>4. m <= top
  <2>1. n # top => n + 1 < BYTE /\ (n + 1) % BYTE = n + 1
    BY <1>1
  <2> QED
    BY <1>1, <1>3, <2>1
<1> QED
  BY <1>2, <1>4 DEF Settled, m, top

\* In SETUPTIME every clock brings the counter nearer.
LEMMA SettlingClock ==
  ASSUME Typed, TxStage, RxStage, Clock, hw = "tx8b",
         pc = "setuptime", todo = <<>>, Settling
  PROVE  Settling'
<1> DEFINE left == SetupClocks - waited
           n == regs.TCNTn
           m == regs'.TCNTn
           top == active.OCRnA
<1>1. /\ n \in 0 .. BYTE - 1 /\ top \in 0 .. BYTE - 1 /\ BYTE \in Nat \ {0}
      /\ waited \in 0 .. SetupClocks /\ SetupClocks \in Nat /\ left \in Nat
      /\ up \in BOOLEAN
  BY CountIsInRange, ConstantFacts
<1>2. regs.TCCRnB = 9
  BY DEF TxStage, BeforeConfigure, TxConfiguring, TxRetuning, TxOutput, ClockByte
<1>3. Typed' /\ hw' = hw
  BY ClockEffect
<1>4. /\ m \in 0 .. BYTE - 1 /\ active'.OCRnA \in 0 .. BYTE - 1
      /\ up' \in BOOLEAN
  <2>1. Size' = BYTE
    BY <1>3 DEF Size
  <2>2. /\ regs' \in [Registers -> Nat] /\ regs'.TCNTn < BYTE
        /\ active' \in [Compare -> 0 .. BYTE - 1]
        /\ up' \in BOOLEAN
    BY <1>3, <2>1 DEF Typed
  <2>3. "TCNTn" \in Registers /\ "OCRnA" \in Compare
    BY DEF Registers, Compare
  <2> QED
    BY <1>1, <2>2, <2>3
<1>5. waited' = IF left = 0 THEN waited ELSE waited + 1
  BY <1>1 DEF Clock
<1>6. CASE Settled
  BY <1>2, <1>6, SettledClock DEF Settling
<1>7. CASE ~Settled
  <2>1. \/ Loaded /\ ~up /\ n <= left
        \/ Loaded /\ up /\ 2 * BYTE - n <= left
        \/ ~up /\ n + top + 2 + BYTE <= left
        \/ up /\ n <= top /\ top - n + 1 + BYTE <= left
        \/ up /\ n > top /\ 3 * BYTE - n + top <= left
    BY <1>7 DEF Settling
  <2>2. Loaded => n > top
    BY <1>1, <1>7 DEF Settled
  <2>3. left # 0
    BY <1>1, <2>1, <2>2
  <2>4. SetupClocks - waited' = left - 1
    BY <1>1, <1>5, <2>3
  <2> DEFINE down == /\ m = (IF n = 0 THEN 0 ELSE n - 1)
                     /\ (n <= 1 => up') /\ (n > 1 => ~up')
  <2>5. \/ up /\ n = top /\ down /\ Loaded'
        \/ /\ up /\ n # top
           /\ (m = (n + 1) % BYTE /\ up') \/ (n = BYTE - 1 /\ down)
           /\ active'.OCRnA = top /\ (Loaded => Loaded')
        \/ ~up /\ down /\ active'.OCRnA = top /\ (Loaded => Loaded')
    BY <1>2, CountOfCarrier DEF Loaded
  <2>6. /\ m <= active'.OCRnA /\ Loaded' => Settled'
        /\ Settled' => Settling'
        /\ Loaded' /\ ~up' /\ m <= left - 1 => Settling'
        /\ Loaded' /\ up' /\ 2 * BYTE - m <= left - 1 => Settling'
        /\ ~up' /\ m + active'.OCRnA + 2 + BYTE <= left - 1 => Settling'
        /\ (up' /\ m <= active'.OCRnA /\ active'.OCRnA - m + 1 + BYTE <= left - 1) => Settling'
        /\ (up' /\ m > active'.OCRnA /\ 3 * BYTE - m + active'.OCRnA <= left - 1) => Settling'
    BY <2>4, SMT DEF Settling, Settled
  <2> HIDE DEF n, m, top, left
  <2>7. CASE up /\ n = top /\ down /\ Loaded'
    <3>1. BYTE <= left - 1
      BY <1>1, <2>1, <2>2, <2>7
    <3>2. m <= left - 1 /\ (up' => m = 0)
      BY <1>1, <1>4, <2>7, <3>1
    <3> QED
      BY <1>1, <1>4, <2>6, <2>7, <3>2
  <2>8. CASE up /\ n # top /\ m = (n + 1) % BYTE /\ up' /\ active'.OCRnA = top
             /\ (Loaded => Loaded')
    <3>1. (n = BYTE - 1 /\ m = 0) \/ (n < BYTE - 1 /\ m = n + 1)
      BY <1>1, <2>8
    <3> QED
      BY <1>1, <1>4, <2>1, <2>2, <2>6, <2>8, <3>1
  <2>9. CASE up /\ n # top /\ n = BYTE - 1 /\ down /\ active'.OCRnA = top
             /\ (Loaded => Loaded')
    <3>1. n > top /\ n >= 1 /\ m = n - 1
      BY <1>1, <2>9
    <3> QED
      BY <1>1, <1>4, <2>1, <2>6, <2>9, <3>1
  <2>10. CASE ~up /\ down /\ active'.OCRnA = top /\ (Loaded => Loaded')
    BY <1>1, <1>4, <2>1, <2>2, <2>6, <2>10
  <2> QED
    BY <2>5, <2>7, <2>8, <2>9, <2>10
<1> QED
  BY <1>6, <1>7

\* A clock cycle brings the 8-bit carrier nearer to its new period.
LEMMA CarrierSettlesClock ==
  ASSUME Typed, TxStage, RxStage, CarrierSettles, Clock
  PROVE  CarrierSettles'
<1> SUFFICES ASSUME hw = "tx8b"
             PROVE  /\ pc' = "setuptime" /\ todo' # <<>> => waited' = 0
                    /\ pc' = "setuptime" /\ todo' = <<>> => Settling'
                    /\ pc' = "on" \/ Connected' => Settled'
  BY ClockEffect DEF CarrierSettles
<1>1. UNCHANGED <<hw, todo, pc>> /\ regs'.TCCRnA = regs.TCCRnA
  BY ClockEffect DEF Registers
<1>2. Connected' <=> Connected
  BY <1>1 DEF Connected, COM
<1>3. pc = "on" \/ Connected => regs.TCCRnB = 9
  <2>1. Connected => regs.TCCRnA = 33
    BY BytesOf, ModesOf8b
  <2> QED
    BY <2>1 DEF TxStage, BeforeConfigure, TxConfiguring, TxRetuning, TxOutput,
                ClockByte, FreeByte
<1>4. pc = "on" \/ Connected => Settled'
  BY <1>3, SettledClock DEF CarrierSettles
<1>5. pc = "setuptime" /\ todo = <<>> => Settling'
  BY SettlingClock DEF CarrierSettles
<1>6. pc = "setuptime" /\ todo # <<>> => waited' = 0
  BY DEF CarrierSettles, Clock
<1> QED
  BY <1>1, <1>2, <1>4, <1>5, <1>6

-----------------------------------------------------------------------------
(* The counter that polls.                                                 *)

\* One count of the timer in its polling mode.
LEMMA CountOfPolling ==
  ASSUME Typed, TxStage, RxStage, Clock, hw = "rx",
         regs.TCCRnA = 0, regs.TCCRnB = 9
  PROVE  /\ UNCHANGED active
         /\ regs'.TCNTn = IF regs.TCNTn = active.OCRnA THEN 0
                          ELSE (regs.TCNTn + 1) % WORD
<1>1. ~PWM /\ Mode = Mode16b.CTC_OCRnA /\ PrescOf(regs) = Presc.Div1
  BY BytesOf, ModesOfRx
<1>2. CounterTop = active.OCRnA
  BY <1>1 DEF CounterTop, Mode16b
<1>3. CountUp
  BY <1>1 DEF Clock
<1>4. regs \in [Registers -> Nat] /\ "TCNTn" \in Registers
  BY DEF Typed, Registers
<1> QED
  BY <1>2, <1>3, <1>4 DEF CountUp, CountTo

\* A clock cycle keeps the counter of the receiver below its top.
LEMMA CountingClock ==
  ASSUME Typed, TxStage, RxStage, Clock, hw = "rx",
         regs.TCCRnA = 0, regs.TCCRnB = 9, Counting
  PROVE  /\ Counting'
         /\ regs'.TCNTn = IF regs.TCNTn = PollCycles THEN 0 ELSE regs.TCNTn + 1
<1>1. /\ regs.TCNTn \in 0 .. PollCycles
      /\ active.OCRnA = PollCycles /\ regs.OCRnA = PollCycles
      /\ PollCycles \in Nat /\ WORD \in Nat \ {0} /\ PollCycles < WORD
  BY ConstantFacts DEF Counting, Typed, Registers
<1>2. /\ active' = active /\ regs'.OCRnA = regs.OCRnA
      /\ regs'.TCNTn = IF regs.TCNTn = PollCycles THEN 0
                       ELSE (regs.TCNTn + 1) % WORD
  BY <1>1, CountOfPolling, ClockEffect DEF Registers
<1>3. regs.TCNTn # PollCycles => (regs.TCNTn + 1) % WORD = regs.TCNTn + 1
  BY <1>1
<1>4. regs'.TCNTn = IF regs.TCNTn = PollCycles THEN 0 ELSE regs.TCNTn + 1
  BY <1>2, <1>3
<1> QED
  BY <1>1, <1>2, <1>4 DEF Counting

\* A clock cycle does not change what the receiver has still to store, and
\* keeps its counter below its top.
LEMMA RxStageClock ==
  ASSUME Typed, TxStage, RxStage, Clock
  PROVE  RxStage'
<1> SUFFICES ASSUME hw = "rx"
             PROVE  RxStage'
  BY ClockEffect DEF RxStage
<1>1. /\ UNCHANGED <<hw, todo, pc, asked>>
      /\ regs'.TCCRnA = regs.TCCRnA /\ regs'.TCCRnB = regs.TCCRnB
      /\ regs'.OCRnA = regs.OCRnA
      /\ regs'.TIMSKn = regs.TIMSKn /\ regs'.I = regs.I
  BY ClockEffect DEF Registers
<1>2. CASE BeforeConfigure /\ regs.TIMSKn = 0
  BY <1>1, <1>2 DEF RxStage, BeforeConfigure
<1>3. CASE pc = "off" /\ RxConfiguring /\ ~(regs.TCCRnA = 0 /\ regs.TCCRnB = 9)
  BY <1>1, <1>3 DEF RxStage, RxConfiguring
<1>4. CASE pc = "off" /\ RxConfiguring /\ regs.TCCRnA = 0 /\ regs.TCCRnB = 9
  <2>1. active' = active
    BY <1>4, CountOfPolling
  <2>2. Counting => Counting'
    BY <1>4, CountingClock
  <2> HIDE DEF Counting
  <2> QED
    BY <1>1, <1>4, <2>1, <2>2 DEF RxStage, RxConfiguring
<1> QED
  BY <1>2, <1>3, <1>4 DEF RxStage

-----------------------------------------------------------------------------
(* The operations.                                                         *)

\* A step that leaves the timer alone keeps the types of its registers.
LEMMA SameTimer ==
  ASSUME Typed, UNCHANGED <<hw, regs, active, up, ocf, timing>>,
         waited' \in 0 .. SetupClocks, asked' \in Carriers \cup {DefaultCarrier}
  PROVE  Typed'
BY DEF Typed, Size, timing

\* The names of registers and of bytes depend on the hardware alone.
LEMMA SameNames ==
  ASSUME UNCHANGED hw
  PROVE  /\ FreeByte' = FreeByte /\ DrivenByte' = DrivenByte
         /\ ClockByte' = ClockByte
         /\ TopReg' = TopReg /\ DutyReg' = DutyReg
         /\ SetClock' = SetClock
         /\ \A v : OutputByte(v)' = OutputByte(v) /\ SetBits(v)' = SetBits(v)
         /\ asked' = asked => SetTop' = SetTop /\ SetDuty' = SetDuty
         /\ Connected' <=> ReadField(regs'.TCCRnA, COM) # CmpOMode.Normal
BY DEF FreeByte, DrivenByte, ClockByte, TopReg, DutyReg, SetClock, OutputByte,
       SetBits, SetTop, SetDuty, Connected, COM

\* The stores of SetOutput() and SetCarrier().
LEMMA OutputStores ==
  ASSUME hw \in {"tx8b", "tx16b"}, NEW v \in {0, 1}
  PROVE  SetOutput(v) = <<SetBits(v), SetClock>>
<1>1. v % 2 = v
  OBVIOUS
<1>2. /\ CfgCarrier(v).TCCRnA = OutputByte(v)
      /\ CfgCarrier(v).TCCRnB = ClockByte
  BY CarrierBytes DEF OutputByte
<1> QED
  BY <1>1, <1>2 DEF SetOutput, SetConfig, SetBits, SetClock

\* The two stores of SetCarrier().
LEMMA CarrierStores ==
  ASSUME NEW kHz
  PROVE  SetCarrier(kHz) = <<W(TopReg, Cycles(kHz)), W(DutyReg, Cycles(kHz) \div 3)>>
BY DEF SetCarrier, TopReg, DutyReg

\* The stores of either Configure().
LEMMA ConfigureStores ==
  ASSUME Typed, BeforeConfigure
  PROVE  /\ hw = "rx" =>
              ConfigureRx = <<W("I", 0), W("TCCRnA", 0), W("TCCRnB", 9),
                              W("OCRnA", PollCycles), W("TCNTn", 0),
                              W("TIMSKn", 2), W("I", 1)>>
         /\ hw # "rx" =>
              ConfigureTx = <<W("TCCRnA", 1), SetTop, SetDuty, SetBits(0), SetClock>>
<1>1. ASSUME hw = "rx"
      PROVE  ConfigureRx = <<W("I", 0), W("TCCRnA", 0), W("TCCRnB", 9),
                             W("OCRnA", PollCycles), W("TCNTn", 0),
                             W("TIMSKn", 2), W("I", 1)>>
  <2>1. SetConfig(SetMode16b(Mode16b.CTC_OCRnA, Presc.Div1))
          = <<W("TCCRnA", 0), W("TCCRnB", 9)>>
    BY PollingBytes DEF SetConfig
  <2>2. WriteField(regs.TIMSKn, OCIE1A, 1) = 2
    BY SMT DEF Typed, WriteField, ReadField, OCIE1A
  <2>3. ConfigureRx = (<<W("I", 0)>> \o <<W("TCCRnA", 0), W("TCCRnB", 9)>>)
                        \o <<W("OCRnA", PollCycles), W("TCNTn", 0),
                             W("TIMSKn", 2), W("I", 1)>>
    BY <2>1, <2>2 DEF ConfigureRx
  <2> QED
    <3>1. <<W("I", 0)>> \o <<W("TCCRnA", 0), W("TCCRnB", 9)>>
            = <<W("I", 0), W("TCCRnA", 0), W("TCCRnB", 9)>>
      BY ConcatOneTwo
    <3>2. <<W("I", 0), W("TCCRnA", 0), W("TCCRnB", 9)>>
            \o <<W("OCRnA", PollCycles), W("TCNTn", 0), W("TIMSKn", 2), W("I", 1)>>
            = <<W("I", 0), W("TCCRnA", 0), W("TCCRnB", 9),
                W("OCRnA", PollCycles), W("TCNTn", 0), W("TIMSKn", 2), W("I", 1)>>
      BY ConcatThreeFour
    <3> QED
      BY <2>3, <3>1, <3>2, Zenon
<1>2. ASSUME hw # "rx"
      PROVE  ConfigureTx
               = <<W("TCCRnA", 1), SetTop, SetDuty, SetBits(0), SetClock>>
  <2>1. hw \in {"tx8b", "tx16b"}
    BY <1>2 DEF Typed, Hardware
  <2>2. WriteField(regs.TCCRnA, COM, CmpOMode.Normal) = 1
    <3>1. COM \in {COM1A0, COM1B0} /\ regs.TCCRnA = 1
      BY DEF COM, BeforeConfigure
    <3>2. WriteField(1, COM1A0, 0) = 1 /\ WriteField(1, COM1B0, 0) = 1
      BY SMT DEF WriteField, ReadField, COM1A0, COM1B0
    <3> QED
      BY <3>1, <3>2 DEF CmpOMode
  <2>3. SetCarrier(DefaultCarrier) = <<SetTop, SetDuty>>
    BY CarrierStores DEF BeforeConfigure, SetTop, SetDuty
  <2>4. ConfigureTx = (<<W("TCCRnA", 1)>> \o <<SetTop, SetDuty>>)
                        \o <<SetBits(0), SetClock>>
    BY <2>1, <2>2, <2>3, OutputStores DEF ConfigureTx
  <2> QED
    <3>1. <<W("TCCRnA", 1)>> \o <<SetTop, SetDuty>>
            = <<W("TCCRnA", 1), SetTop, SetDuty>>
      BY ConcatOneTwo
    <3>2. <<W("TCCRnA", 1), SetTop, SetDuty>> \o <<SetBits(0), SetClock>>
            = <<W("TCCRnA", 1), SetTop, SetDuty, SetBits(0), SetClock>>
      BY ConcatThreeTwo
    <3> QED
      BY <2>4, <3>1, <3>2, Zenon
<1> QED
  BY <1>1, <1>2

\* Configure() preserves the invariant.
LEMMA ConfigureNext ==
  ASSUME IInv, Configure
  PROVE  IInv'
<1>1. /\ UNCHANGED <<hw, regs, active, up, ocf, waited, asked, timing>>
      /\ pc = "setup" /\ pc' = "off"
      /\ todo' = IF hw = "rx" THEN ConfigureRx ELSE ConfigureTx
  BY DEF Configure
<1>2. BeforeConfigure
  BY <1>1 DEF IInv, Typed, Hardware, TxStage, RxStage, TxConfiguring, TxRetuning, TxOutput
<1>3. Typed'
  BY <1>1, SameTimer DEF IInv, Typed
<1>4. TxStage'
  <2>1. hw # "rx" => TxConfiguring'
    BY <1>1, <1>2, ConfigureStores, SameNames
    DEF IInv, TxConfiguring, BeforeConfigure
  <2> QED
    BY <1>1, <2>1 DEF TxStage
<1>5. RxStage'
  <2>1. hw = "rx" => regs.TIMSKn = 0
    BY <1>1 DEF IInv, RxStage
  <2>2. hw = "rx" => RxConfiguring'
    BY <1>1, <1>2, <2>1, ConfigureStores DEF IInv, RxConfiguring, BeforeConfigure
  <2> QED
    BY <1>1, <2>2 DEF RxStage
<1>6. CarrierSettles'
  <2>1. hw = "tx8b" => ~Connected
    BY <1>2, BytesOf, ModesOf8b DEF IInv, BeforeConfigure
  <2>2. Connected' <=> Connected
    BY <1>1 DEF Connected, COM
  <2> QED
    BY <1>1, <2>1, <2>2 DEF CarrierSettles
<1> QED
  BY <1>3, <1>4, <1>5, <1>6 DEF IInv

\* So does Send(), whatever carrier it asks for.
LEMMA SendNext ==
  ASSUME IInv, Send
  PROVE  IInv'
<1>1. PICK kHz \in Carriers : todo' = SetCarrier(kHz) /\ asked' = kHz
  BY DEF Send
<1>2. /\ UNCHANGED <<hw, regs, active, up, ocf, timing>>
      /\ hw # "rx" /\ pc = "off" /\ todo = <<>>
      /\ pc' = "setuptime" /\ waited' = 0
  BY DEF Send
<1>3. regs.TCCRnA = FreeByte /\ regs.TCCRnB = ClockByte
  BY <1>2 DEF IInv, TxStage, BeforeConfigure, TxConfiguring, TxRetuning,
              TxOutput, OutputByte
<1>4. Typed'
  BY <1>1, <1>2, SameTimer, ConstantFacts DEF IInv
<1>5. todo' = <<SetTop', SetDuty'>>
  BY <1>1, <1>2, CarrierStores, SameNames DEF SetTop, SetDuty, W, Cycles
<1>6. TxStage' /\ RxStage'
  BY <1>2, <1>3, <1>5, SameNames DEF TxStage, TxRetuning, RxStage
<1>7. CarrierSettles'
  <2>1. hw = "tx8b" => ~Connected
    BY <1>3, BytesOf, ModesOf8b DEF IInv, FreeByte
  <2>2. Connected' <=> Connected
    BY <1>2 DEF Connected, COM
  <2>3. todo' # <<>>
    BY <1>5
  <2> QED
    BY <1>2, <2>1, <2>2, <2>3 DEF CarrierSettles
<1> QED
  BY <1>4, <1>6, <1>7 DEF IInv

\* When ProcessISR() may come the carrier has been stored and has settled.
LEMMA FetchingSettled ==
  ASSUME IInv, Fetching
  PROVE  /\ hw \in {"tx8b", "tx16b"}
         /\ regs.TCCRnA \in {FreeByte, DrivenByte} /\ regs.TCCRnB = ClockByte
         /\ CarrierStored
         /\ hw = "tx8b" => Settled
<1>1. hw \in {"tx8b", "tx16b"}
  BY DEF IInv, Fetching, RxStage, BeforeConfigure, Typed, Hardware
<1>2. /\ regs.TCCRnA \in {FreeByte, DrivenByte} /\ regs.TCCRnB = ClockByte
      /\ CarrierStored
  BY <1>1 DEF IInv, Fetching, TxStage, BeforeConfigure, TxConfiguring,
              TxRetuning, TxOutput, OutputByte
<1>3. ASSUME hw = "tx8b"
      PROVE  Settled
  <2>1. CASE pc = "on"
    BY <1>3, <2>1 DEF IInv, CarrierSettles
  <2>2. CASE pc = "setuptime" /\ waited = SetupClocks
    <3>1. Settling
      BY <1>3, <2>2 DEF IInv, CarrierSettles, Fetching
    <3>2. /\ regs.TCNTn \in 0 .. BYTE - 1 /\ active.OCRnA \in 0 .. BYTE - 1
          /\ BYTE \in Nat \ {0} /\ SetupClocks - waited = 0
      BY <1>3, <2>2, CountIsInRange, ConstantFacts DEF IInv
    <3> QED
      BY <3>1, <3>2 DEF Settling, Settled
  <2> QED
    BY <1>3, <2>1, <2>2 DEF Fetching
<1> QED
  BY <1>1, <1>2, <1>3

\* So do EmitSymbol() and the end of a packet, which switch the output.
LEMMA OutputNext ==
  ASSUME IInv, Symbol \/ Disable
  PROVE  IInv'
<1>1. /\ Fetching
      /\ UNCHANGED <<hw, regs, active, up, ocf, asked, timing>>
      /\ waited' \in {0, waited}
  BY DEF Symbol, Disable
<1>2. PICK v \in {0, 1} : /\ todo' = SetOutput(v)
                          /\ pc' = "on" \/ (pc' = "off" /\ v = 0)
  BY DEF Symbol, Disable
<1>3. Typed'
  BY <1>1, SameTimer, ConstantFacts DEF IInv, Typed
<1>4. todo' = <<SetBits(v), SetClock>>
  BY <1>1, <1>2, FetchingSettled, OutputStores
<1>5. /\ SetBits(v)' = SetBits(v) /\ SetClock' = SetClock
      /\ FreeByte' = FreeByte /\ DrivenByte' = DrivenByte /\ ClockByte' = ClockByte
      /\ CarrierStored' = CarrierStored
  BY <1>1, SameNames DEF CarrierStored, Cycles
<1>6. TxStage' /\ RxStage'
  <2>1. TxOutput'
    BY <1>1, <1>2, <1>4, <1>5, FetchingSettled DEF TxOutput
  <2> QED
    BY <1>1, <2>1, FetchingSettled DEF TxStage, RxStage
<1>7. CarrierSettles'
  <2>1. hw = "tx8b" => Settled
    BY <1>1, FetchingSettled
  <2>2. Settled' <=> Settled
    BY <1>1 DEF Settled, Loaded
  <2>3. todo' # <<>>
    BY <1>4
  <2> QED
    BY <1>1, <1>2, <2>1, <2>2, <2>3 DEF CarrierSettles
<1> QED
  BY <1>3, <1>6, <1>7 DEF IInv

\* What does not touch the timer or the program keeps the rest.
LEMMA SameProgram ==
  ASSUME IInv, UNCHANGED <<hw, regs, active, up, todo, pc, waited, asked>>,
         ocf' \in BOOLEAN, late' \in 0 .. PollLatency, age' \in 0 .. 2 * WORD,
         polls' \in 0 .. 2
  PROVE  IInv'
<1>1. Typed'
  BY DEF IInv, Typed, Size
<1>2. TxStage'
  BY SameNames
  DEF IInv, TxStage, BeforeConfigure, TxConfiguring, TxRetuning, TxOutput,
      CarrierStored, Cycles
<1>3. RxStage'
  BY DEF IInv, RxStage, BeforeConfigure, RxConfiguring, Counting
<1>4. CarrierSettles'
  BY DEF IInv, CarrierSettles, Settled, Settling, Loaded, Connected, COM
<1> QED
  BY <1>1, <1>2, <1>3, <1>4 DEF IInv

-----------------------------------------------------------------------------
(* A store.                                                                *)

\* Values that fit their register.
Fits(r, v) ==
  /\ r \in {"TCNTn", "ICRn", "OCRnA", "OCRnB"} => v < Size
  /\ r = "TIMSKn" => v \in {0, 2}
  /\ r = "I" => v \in {0, 1}

\* What one store does to the registers, and what it leaves alone.
LEMMA StoreEffect ==
  ASSUME Typed, Store, NEW r \in Registers, NEW v \in Nat, Head(todo) = W(r, v),
         Fits(r, v)
  PROVE  /\ regs' \in [Registers -> Nat]
         /\ regs'[r] = v /\ \A q \in Registers \ {r} : regs'[q] = regs[q]
         /\ todo' = Tail(todo) /\ todo # <<>>
         /\ UNCHANGED <<hw, up, ocf, pc, waited, asked, timing>>
         /\ r \notin Compare \/ PWM => UNCHANGED active
         /\ r \in Compare /\ ~PWM => active' = [active EXCEPT ![r] = v]
         /\ Typed'
<1>1. /\ regs \in [Registers -> Nat] /\ active \in [Compare -> 0 .. Size - 1]
      /\ Size \in Nat /\ WORD \in Nat
  BY SizeBound, ConstantFacts DEF Typed
<1>2. Head(todo).reg = r /\ Head(todo).val = v
  BY DEF W
<1>3. /\ regs' = [regs EXCEPT ![r] = v]
      /\ active' = IF r \in Compare /\ ~PWM THEN [active EXCEPT ![r] = v] ELSE active
      /\ todo' = Tail(todo) /\ todo # <<>>
      /\ UNCHANGED <<hw, up, ocf, pc, waited, asked, timing>>
  BY <1>2 DEF Store
<1>4. /\ regs' \in [Registers -> Nat]
      /\ regs'[r] = v /\ \A q \in Registers \ {r} : regs'[q] = regs[q]
  BY <1>1, <1>3
<1>5. r \in Compare => v \in 0 .. Size - 1
  BY <1>1 DEF Compare, Fits
<1>6. active' \in [Compare -> 0 .. Size - 1]
  BY <1>1, <1>3, <1>5
<1>7. Size' = Size
  BY <1>3 DEF Size
<1>8. /\ regs'.TCNTn < Size /\ regs'.ICRn < Size
      /\ regs'.OCRnA < Size /\ regs'.OCRnB < Size
      /\ regs'.TIMSKn \in {0, 2} /\ regs'.I \in {0, 1}
  BY <1>4 DEF Typed, Fits, Registers
<1>9. late' \in 0 .. PollLatency /\ age' \in 0 .. 2 * WORD /\ polls' \in 0 .. 2
  BY <1>3 DEF Typed, timing
<1>10. Typed'
  BY <1>3, <1>4, <1>6, <1>7, <1>8, <1>9 DEF Typed
<1> QED
  BY <1>3, <1>4, <1>10

\* The values that a transmitter stores fit, and its registers are distinct.
LEMMA TxStores ==
  ASSUME Typed, hw \in {"tx8b", "tx16b"}
  PROVE  /\ {TopReg, DutyReg, "TCCRnA", "TCCRnB"} \subseteq Registers
         /\ TopReg # DutyReg
         /\ TopReg \notin {"TCCRnA", "TCCRnB", "TCNTn"}
         /\ DutyReg \notin {"TCCRnA", "TCCRnB", "TCNTn"}
         /\ Cycles(asked) \in Nat /\ Fits(TopReg, Cycles(asked))
         /\ Cycles(asked) \div 3 \in Nat /\ Fits(DutyReg, Cycles(asked) \div 3)
         /\ \A v : OutputByte(v) \in Nat /\ Fits("TCCRnA", OutputByte(v))
         /\ ClockByte \in Nat /\ Fits("TCCRnB", ClockByte)
         /\ 1 \in Nat /\ Fits("TCCRnA", 1)
<1>1. Cycles(asked) \in 0 .. BYTE - 1 /\ Cycles(asked) \div 3 \in 0 .. BYTE - 1
  BY CyclesBound DEF Typed
<1>2. BYTE \in Nat /\ Size \in Nat /\ BYTE <= Size
  BY ConstantFacts, SizeBound
<1>3. TopReg \in {"OCRnA", "ICRn"} /\ DutyReg \in {"OCRnB", "OCRnA"} /\ TopReg # DutyReg
  BY DEF TopReg, DutyReg
<1>4. /\ Cycles(asked) \in Nat /\ Cycles(asked) < Size
      /\ Cycles(asked) \div 3 \in Nat /\ Cycles(asked) \div 3 < Size
  BY <1>1, <1>2
<1>5. Fits(TopReg, Cycles(asked)) /\ Fits(DutyReg, Cycles(asked) \div 3)
  BY <1>3, <1>4 DEF Fits
<1>6. \A v : OutputByte(v) \in Nat
  BY DEF OutputByte, FreeByte, DrivenByte
<1>7. ClockByte \in Nat
  BY DEF ClockByte
<1>8. \A v : Fits("TCCRnA", v) /\ Fits("TCCRnB", v)
  BY DEF Fits
<1> QED
  BY <1>3, <1>4, <1>5, <1>6, <1>7, <1>8 DEF Registers

\* What each store of a transmitter does to the registers the stages name.
LEMMA TxStoreEffect ==
  ASSUME Typed, Store, hw \in {"tx8b", "tx16b"}
  PROVE  /\ todo' = Tail(todo) /\ UNCHANGED <<hw, pc, asked>>
         /\ Head(todo) = SetTop =>
              /\ Typed' /\ UNCHANGED <<regs.TCCRnA, regs.TCCRnB>>
              /\ regs'[TopReg] = Cycles(asked)
         /\ Head(todo) = SetDuty =>
              /\ Typed' /\ UNCHANGED <<regs.TCCRnA, regs.TCCRnB>>
              /\ regs'[TopReg] = regs[TopReg]
              /\ regs'[DutyReg] = Cycles(asked) \div 3
         /\ Head(todo) = SetClock =>
              /\ Typed' /\ regs'.TCCRnA = regs.TCCRnA /\ regs'.TCCRnB = ClockByte
              /\ regs'[TopReg] = regs[TopReg] /\ regs'[DutyReg] = regs[DutyReg]
         /\ \A b : Head(todo) = W("TCCRnA", b) /\ (b = 1 \/ \E v : b = OutputByte(v)) =>
              /\ Typed' /\ regs'.TCCRnA = b /\ regs'.TCCRnB = regs.TCCRnB
              /\ regs'[TopReg] = regs[TopReg] /\ regs'[DutyReg] = regs[DutyReg]
<1>1. todo' = Tail(todo) /\ UNCHANGED <<hw, pc, asked>>
  BY DEF Store
<1>2. ASSUME Head(todo) = SetTop
      PROVE  /\ Typed' /\ UNCHANGED <<regs.TCCRnA, regs.TCCRnB>>
             /\ regs'[TopReg] = Cycles(asked)
  BY <1>2, TxStores, StoreEffect DEF SetTop
<1>3. ASSUME Head(todo) = SetDuty
      PROVE  /\ Typed' /\ UNCHANGED <<regs.TCCRnA, regs.TCCRnB>>
             /\ regs'[TopReg] = regs[TopReg]
             /\ regs'[DutyReg] = Cycles(asked) \div 3
  BY <1>3, TxStores, StoreEffect DEF SetDuty
<1>4. ASSUME Head(todo) = SetClock
      PROVE  /\ Typed' /\ regs'.TCCRnA = regs.TCCRnA /\ regs'.TCCRnB = ClockByte
             /\ regs'[TopReg] = regs[TopReg] /\ regs'[DutyReg] = regs[DutyReg]
  BY <1>4, TxStores, StoreEffect DEF SetClock
<1>5. ASSUME NEW b, Head(todo) = W("TCCRnA", b), b = 1 \/ \E v : b = OutputByte(v)
      PROVE  /\ Typed' /\ regs'.TCCRnA = b /\ regs'.TCCRnB = regs.TCCRnB
             /\ regs'[TopReg] = regs[TopReg] /\ regs'[DutyReg] = regs[DutyReg]
  <2>1. b \in Nat /\ Fits("TCCRnA", b)
    BY <1>5, TxStores
  <2> QED
    BY <1>5, <2>1, TxStores, StoreEffect
<1> QED
  BY <1>1, <1>2, <1>3, <1>4, <1>5

\* A store of the transmitter leads from one stage to the next.
LEMMA TxStageStore ==
  ASSUME Typed, TxStage, Store, hw # "rx"
  PROVE  TxStage' /\ Typed'
<1>1. hw \in {"tx8b", "tx16b"} /\ todo # <<>>
  BY DEF Typed, Hardware, Store
<1>2. /\ todo' = Tail(todo) /\ UNCHANGED <<hw, pc, asked>>
  BY <1>1, TxStoreEffect
<1>3. /\ SetDuty' = SetDuty /\ SetTop' = SetTop /\ SetClock' = SetClock
      /\ \A v : SetBits(v)' = SetBits(v) /\ OutputByte(v)' = OutputByte(v)
      /\ TopReg' = TopReg /\ DutyReg' = DutyReg /\ Cycles(asked)' = Cycles(asked)
      /\ FreeByte' = FreeByte /\ DrivenByte' = DrivenByte /\ ClockByte' = ClockByte
  BY <1>2, SameNames DEF Cycles
<1>4. ~BeforeConfigure
  BY <1>1 DEF BeforeConfigure
<1>5. CASE TxConfiguring
  <2> DEFINE A == regs.TCCRnA
             B == regs.TCCRnB
  <2>1. CASE todo = <<W("TCCRnA", 1), SetTop, SetDuty, SetBits(0), SetClock>>
    <3>1. Head(todo) = W("TCCRnA", 1)
          /\ Tail(todo) = <<SetTop, SetDuty, SetBits(0), SetClock>>
      BY <2>1
    <3>2. Typed' /\ A' = 1 /\ B' = B
      BY <1>1, <3>1, TxStoreEffect
    <3> QED
      BY <1>2, <1>3, <1>5, <3>1, <3>2 DEF TxConfiguring, TxStage
  <2>2. CASE todo = <<SetTop, SetDuty, SetBits(0), SetClock>> /\ A = 1
    <3>1. Head(todo) = SetTop /\ Tail(todo) = <<SetDuty, SetBits(0), SetClock>>
      BY <2>2
    <3>2. Typed' /\ A' = 1 /\ B' = B /\ regs'[TopReg] = Cycles(asked)
      BY <1>1, <2>2, <3>1, TxStoreEffect
    <3> QED
      BY <1>2, <1>3, <1>5, <3>1, <3>2 DEF TxConfiguring, TxStage
  <2>3. CASE /\ todo = <<SetDuty, SetBits(0), SetClock>>
             /\ A = 1 /\ regs[TopReg] = Cycles(asked)
    <3>1. Head(todo) = SetDuty /\ Tail(todo) = <<SetBits(0), SetClock>>
      BY <2>3
    <3>2. /\ Typed' /\ A' = 1 /\ B' = B /\ regs'[TopReg] = Cycles(asked)
          /\ regs'[DutyReg] = Cycles(asked) \div 3
      BY <1>1, <2>3, <3>1, TxStoreEffect
    <3> QED
      BY <1>2, <1>3, <1>5, <3>1, <3>2 DEF TxConfiguring, TxStage, CarrierStored
  <2>4. CASE todo = <<SetBits(0), SetClock>> /\ CarrierStored
    <3>1. Head(todo) = W("TCCRnA", OutputByte(0)) /\ Tail(todo) = <<SetClock>>
      BY <2>4 DEF SetBits
    <3>2. /\ Typed' /\ A' = OutputByte(0) /\ B' = B
          /\ regs'[TopReg] = regs[TopReg] /\ regs'[DutyReg] = regs[DutyReg]
      BY <1>1, <3>1, TxStoreEffect
    <3>3. A' = FreeByte
      BY <3>2 DEF OutputByte
    <3> QED
      BY <1>2, <1>3, <1>5, <2>4, <3>1, <3>2, <3>3
      DEF TxConfiguring, TxStage, CarrierStored
  <2>5. CASE todo = <<SetClock>> /\ A = FreeByte /\ CarrierStored
    <3>1. Head(todo) = SetClock /\ Tail(todo) = <<>>
      BY <2>5
    <3>2. /\ Typed' /\ A' = OutputByte(0) /\ B' = ClockByte
          /\ regs'[TopReg] = regs[TopReg] /\ regs'[DutyReg] = regs[DutyReg]
      BY <1>1, <2>5, <3>1, TxStoreEffect DEF OutputByte
    <3>3. TxOutput'
      BY <1>2, <1>3, <1>5, <2>5, <3>1, <3>2 DEF TxConfiguring, TxOutput, CarrierStored
    <3> QED
      BY <1>2, <3>2, <3>3 DEF TxStage
  <2> QED
    BY <1>5, <2>1, <2>2, <2>3, <2>4, <2>5 DEF TxConfiguring
<1>6. CASE TxRetuning
  <2>1. CASE todo = <<SetTop, SetDuty>>
    <3>1. Head(todo) = SetTop /\ Tail(todo) = <<SetDuty>>
      BY <2>1
    <3>2. /\ Typed' /\ UNCHANGED <<regs.TCCRnA, regs.TCCRnB>>
          /\ regs'[TopReg] = Cycles(asked)
      BY <1>1, <3>1, TxStoreEffect
    <3> QED
      BY <1>2, <1>3, <1>6, <3>1, <3>2 DEF TxRetuning, TxStage
  <2>2. CASE todo = <<SetDuty>> /\ regs[TopReg] = Cycles(asked)
    <3>1. Head(todo) = SetDuty /\ Tail(todo) = <<>>
      BY <2>2
    <3>2. /\ Typed' /\ UNCHANGED <<regs.TCCRnA, regs.TCCRnB>>
          /\ regs'[TopReg] = Cycles(asked)
          /\ regs'[DutyReg] = Cycles(asked) \div 3
      BY <1>1, <2>2, <3>1, TxStoreEffect
    <3> QED
      BY <1>2, <1>3, <1>6, <3>1, <3>2 DEF TxRetuning, TxStage, CarrierStored
  <2> QED
    BY <1>1, <1>6, <2>1, <2>2 DEF TxRetuning
<1>7. CASE TxOutput
  <2>1. PICK v \in {0, 1} :
           /\ pc = "on" \/ (pc = "off" /\ v = 0)
           /\ \/ /\ todo = <<SetBits(v), SetClock>>
                 /\ regs.TCCRnA \in {FreeByte, DrivenByte}
              \/ /\ todo \in {<<SetClock>>, <<>>}
                 /\ regs.TCCRnA = OutputByte(v)
    BY <1>7 DEF TxOutput
  <2>2. CASE todo = <<SetBits(v), SetClock>>
    <3>1. Head(todo) = W("TCCRnA", OutputByte(v)) /\ Tail(todo) = <<SetClock>>
      BY <2>2 DEF SetBits
    <3>2. /\ Typed' /\ regs'.TCCRnA = OutputByte(v) /\ regs'.TCCRnB = regs.TCCRnB
          /\ regs'[TopReg] = regs[TopReg] /\ regs'[DutyReg] = regs[DutyReg]
      BY <1>1, <3>1, TxStoreEffect
    <3>3. TxOutput'
      BY <1>2, <1>3, <1>7, <2>1, <3>1, <3>2 DEF TxOutput, CarrierStored
    <3> QED
      BY <3>2, <3>3 DEF TxStage
  <2>3. CASE todo = <<SetClock>> /\ regs.TCCRnA = OutputByte(v)
    <3>1. Head(todo) = SetClock /\ Tail(todo) = <<>>
      BY <2>3
    <3>2. /\ Typed' /\ regs'.TCCRnA = OutputByte(v) /\ regs'.TCCRnB = ClockByte
          /\ regs'[TopReg] = regs[TopReg] /\ regs'[DutyReg] = regs[DutyReg]
      BY <1>1, <2>3, <3>1, TxStoreEffect
    <3>3. TxOutput'
      BY <1>2, <1>3, <1>7, <2>1, <3>1, <3>2 DEF TxOutput, CarrierStored
    <3> QED
      BY <3>2, <3>3 DEF TxStage
  <2> QED
    BY <1>1, <2>1, <2>2, <2>3
<1> QED
  BY <1>4, <1>5, <1>6, <1>7 DEF TxStage

\* A store starts the wait for the carrier or leaves it alone.
LEMMA CarrierSettlesStore ==
  ASSUME IInv, Store, hw = "tx8b"
  PROVE  CarrierSettles'
<1>1. hw \in {"tx8b", "tx16b"} /\ todo # <<>> /\ hw # "rx"
  BY DEF Store
<1>2. /\ todo' = Tail(todo) /\ UNCHANGED <<hw, up, pc, waited, asked>>
      /\ TxStage' /\ Typed'
  BY <1>1, TxStoreEffect, TxStageStore DEF IInv, Store
<1>3. Connected' => regs'.TCCRnA = 33
  BY <1>2, SMT
  DEF TxStage, BeforeConfigure, TxConfiguring, TxRetuning, TxOutput, OutputByte,
      FreeByte, DrivenByte, Connected, COM, COM1B0, ReadField, CmpOMode
<1>4. pc = "setuptime" => waited = 0
  BY <1>1 DEF IInv, CarrierSettles
<1>5. pc = "setuptime" => Settling'
  <2>1. /\ regs'.TCNTn \in 0 .. BYTE - 1 /\ active'.OCRnA \in 0 .. BYTE - 1
        /\ up' \in BOOLEAN
    <3>1. Size' = BYTE
      BY <1>2 DEF Size
    <3>2. /\ regs' \in [Registers -> Nat] /\ regs'.TCNTn < BYTE
          /\ active' \in [Compare -> 0 .. BYTE - 1]
          /\ up' \in BOOLEAN
      BY <1>2, <3>1 DEF Typed
    <3>3. "TCNTn" \in Registers /\ "OCRnA" \in Compare /\ BYTE \in Nat
      BY ConstantFacts DEF Registers, Compare
    <3> QED
      BY <3>2, <3>3
  <2> DEFINE n == regs'.TCNTn
             top == active'.OCRnA
  <2>2. /\ n + top + 2 + BYTE <= 4 * BYTE
        /\ n <= top => top - n + 1 + BYTE <= 4 * BYTE
        /\ n > top => 3 * BYTE - n + top <= 4 * BYTE
        /\ n <= top \/ n > top
    BY <2>1, ConstantFacts
  <2>3. pc = "setuptime" => SetupClocks - waited' >= 4 * BYTE
    BY <1>2, <1>4, ConstantFacts
  <2>4. /\ n \in Nat /\ top \in Nat /\ BYTE \in Nat /\ SetupClocks - waited' \in Int
    BY <1>2, <2>1, ConstantFacts DEF Typed
  <2>5. ~up' \/ up'
    OBVIOUS
  <2> QED
    BY <2>2, <2>3, <2>4, <2>5, SMT DEF Settling
<1>6. CASE TxOutput
  <2>1. PICK v \in {0, 1} :
           /\ pc = "on" \/ (pc = "off" /\ v = 0)
           /\ \/ todo = <<SetBits(v), SetClock>>
              \/ todo \in {<<SetClock>>, <<>>} /\ regs.TCCRnA = OutputByte(v)
    BY <1>6 DEF TxOutput
  <2>2. \/ Head(todo) = W("TCCRnA", OutputByte(v))
        \/ Head(todo) = W("TCCRnB", ClockByte) /\ regs.TCCRnA = OutputByte(v)
    BY <1>1, <2>1 DEF SetBits, SetClock
  <2>3. /\ UNCHANGED active
        /\ regs'.TCNTn = regs.TCNTn
        /\ regs'.OCRnA = regs.OCRnA /\ regs'.OCRnB = regs.OCRnB
        /\ regs'.TCCRnA = OutputByte(v)
    <3>1. /\ {"TCCRnA", "TCCRnB", "TCNTn", "OCRnA", "OCRnB"} \subseteq Registers
          /\ "TCCRnA" \notin Compare /\ "TCCRnB" \notin Compare
      BY DEF Registers, Compare
    <3>2. CASE Head(todo) = W("TCCRnA", OutputByte(v))
      BY <1>1, <3>1, <3>2, TxStores, StoreEffect DEF IInv
    <3>3. CASE Head(todo) = W("TCCRnB", ClockByte) /\ regs.TCCRnA = OutputByte(v)
      BY <1>1, <3>1, <3>3, TxStores, StoreEffect DEF IInv
    <3> QED
      BY <2>2, <3>2, <3>3
  <2>4. Settled => Settled'
    BY <2>3 DEF Settled, Loaded
  <2>5. pc = "on" => Settled'
    BY <1>1, <2>4 DEF IInv, CarrierSettles
  <2>6. pc = "off" => ~Connected'
    BY <1>3, <2>1, <2>3 DEF OutputByte, FreeByte
  <2> QED
    BY <1>2, <2>1, <2>5, <2>6 DEF CarrierSettles
<1>7. CASE ~TxOutput
  <2>1. TxConfiguring \/ TxRetuning
    BY <1>1, <1>7 DEF IInv, TxStage, BeforeConfigure
  <2>2. ~Connected' /\ pc # "on"
    <3>1. regs.TCCRnA = 1
      BY <1>1, <2>1 DEF TxConfiguring, TxRetuning, FreeByte
    <3>2. regs'.TCCRnA = 1
      <4>1. CASE TxConfiguring
        <5>1. \/ Head(todo) \in {SetTop, SetDuty, SetClock}
              \/ Head(todo) = W("TCCRnA", 1)
              \/ Head(todo) = W("TCCRnA", OutputByte(0))
          BY <1>1, <4>1 DEF TxConfiguring, SetBits
        <5>2. OutputByte(0) = 1
          BY DEF OutputByte, FreeByte
        <5> QED
          BY <1>1, <3>1, <5>1, <5>2, TxStoreEffect DEF IInv
      <4>2. CASE TxRetuning
        <5>1. Head(todo) \in {SetTop, SetDuty}
          BY <1>1, <4>2 DEF TxRetuning
        <5> QED
          BY <1>1, <3>1, <5>1, TxStoreEffect DEF IInv
      <4> QED
        BY <2>1, <4>1, <4>2
    <3> QED
      BY <1>3, <2>1, <3>2 DEF TxConfiguring, TxRetuning
  <2> QED
    BY <1>2, <1>4, <1>5, <2>2 DEF CarrierSettles
<1> QED
  BY <1>6, <1>7

\* The stores that start polling.
LEMMA RxStageStore ==
  ASSUME Typed, RxStage, Store, hw = "rx"
  PROVE  RxStage' /\ Typed'
<1> DEFINE A == regs.TCCRnA
           B == regs.TCCRnB
           mask == regs.TIMSKn
           flag == regs.I
           bitsA == W("TCCRnA", 0)
           bitsB == W("TCCRnB", 9)
           period == W("OCRnA", PollCycles)
           restart == W("TCNTn", 0)
           enable == W("TIMSKn", 2)
           sei == W("I", 1)
<1>1. /\ pc = "off" /\ RxConfiguring /\ todo # <<>>
      /\ todo' = Tail(todo) /\ UNCHANGED <<hw, pc>>
  BY DEF RxStage, BeforeConfigure, Store
<1>2. /\ {"TCCRnA", "TCCRnB", "OCRnA", "TCNTn", "TIMSKn", "I"} \subseteq Registers
      /\ "OCRnA" \in Compare
      /\ {"TCCRnA", "TCCRnB", "TCNTn", "TIMSKn", "I"} \cap Compare = {}
  BY DEF Registers, Compare
<1>3. /\ PollCycles \in Nat /\ Fits("OCRnA", PollCycles) /\ Fits("TCNTn", 0)
      /\ Fits("TCCRnA", 0) /\ Fits("TCCRnB", 9) /\ Fits("TIMSKn", 2)
      /\ Fits("I", 0) /\ Fits("I", 1)
  BY ConstantFacts DEF Fits, Size
<1>4. CASE todo = <<W("I", 0), bitsA, bitsB, period, restart, enable, sei>>
  <2>1. /\ Head(todo) = W("I", 0)
        /\ Tail(todo) = <<bitsA, bitsB, period, restart, enable, sei>>
    BY <1>4
  <2>2. Typed' /\ A' = A /\ B' = B /\ mask' = mask /\ flag' = 0
    BY <1>2, <1>3, <2>1, StoreEffect
  <2>3. A = 1 /\ B = 3 /\ mask = 0
    BY <1>1, <1>4 DEF RxConfiguring
  <2> QED
    BY <1>1, <2>1, <2>2, <2>3 DEF RxStage, RxConfiguring
<1>5. CASE todo = <<bitsA, bitsB, period, restart, enable, sei>>
  <2>1. Head(todo) = bitsA /\ Tail(todo) = <<bitsB, period, restart, enable, sei>>
    BY <1>5
  <2>2. Typed' /\ A' = 0 /\ B' = B /\ mask' = mask /\ flag' = flag
    BY <1>2, <1>3, <2>1, StoreEffect
  <2>3. B = 3 /\ mask = 0 /\ flag = 0
    BY <1>1, <1>5 DEF RxConfiguring
  <2> QED
    BY <1>1, <2>1, <2>2, <2>3 DEF RxStage, RxConfiguring
<1>6. CASE todo = <<bitsB, period, restart, enable, sei>>
  <2>1. Head(todo) = bitsB /\ Tail(todo) = <<period, restart, enable, sei>>
    BY <1>6
  <2>2. Typed' /\ A' = A /\ B' = 9 /\ mask' = mask /\ flag' = flag
    BY <1>2, <1>3, <2>1, StoreEffect
  <2>3. A = 0 /\ mask = 0 /\ flag = 0
    BY <1>1, <1>6 DEF RxConfiguring
  <2> QED
    BY <1>1, <2>1, <2>2, <2>3 DEF RxStage, RxConfiguring
<1>7. CASE todo = <<period, restart, enable, sei>>
  <2>1. Head(todo) = period /\ Tail(todo) = <<restart, enable, sei>>
    BY <1>7
  <2>2. A = 0 /\ B = 9 /\ mask = 0 /\ flag = 0
    BY <1>1, <1>7 DEF RxConfiguring
  <2>3. ~PWM
    BY <2>2, ModesOfRx
  <2>4. /\ Typed' /\ A' = A /\ B' = B /\ mask' = mask /\ flag' = flag
        /\ regs'.OCRnA = PollCycles
        /\ active' = [active EXCEPT !["OCRnA"] = PollCycles]
    BY <1>2, <1>3, <2>1, <2>3, StoreEffect
  <2>5. active'.OCRnA = PollCycles
    BY <1>2, <2>4 DEF Typed
  <2> QED
    BY <1>1, <2>1, <2>2, <2>4, <2>5 DEF RxStage, RxConfiguring
<1>8. CASE todo = <<restart, enable, sei>>
  <2>1. Head(todo) = restart /\ Tail(todo) = <<enable, sei>>
    BY <1>8
  <2>2. /\ A = 0 /\ B = 9 /\ mask = 0 /\ flag = 0
        /\ regs.OCRnA = PollCycles /\ active.OCRnA = PollCycles
    BY <1>1, <1>8 DEF RxConfiguring
  <2>3. /\ Typed' /\ A' = A /\ B' = B /\ mask' = mask /\ flag' = flag
        /\ regs'.OCRnA = PollCycles /\ regs'.TCNTn = 0 /\ UNCHANGED active
    <3>1. /\ Typed' /\ regs'.TCNTn = 0 /\ UNCHANGED active
          /\ \A q \in Registers \ {"TCNTn"} : regs'[q] = regs[q]
      BY <1>2, <1>3, <2>1, StoreEffect
    <3>2. {"TCCRnA", "TCCRnB", "OCRnA", "TIMSKn", "I"} \subseteq Registers \ {"TCNTn"}
      BY DEF Registers
    <3> QED
      BY <2>2, <3>1, <3>2
  <2>4. Counting'
    BY <1>3, <2>2, <2>3 DEF Counting
  <2> QED
    BY <1>1, <2>1, <2>2, <2>3, <2>4 DEF RxStage, RxConfiguring
<1>9. CASE todo = <<enable, sei>>
  <2>1. Head(todo) = enable /\ Tail(todo) = <<sei>>
    BY <1>9
  <2>2. A = 0 /\ B = 9 /\ flag = 0 /\ Counting
    BY <1>1, <1>9 DEF RxConfiguring
  <2>3. /\ Typed' /\ A' = A /\ B' = B /\ mask' = 2 /\ flag' = flag
        /\ regs'.OCRnA = regs.OCRnA /\ regs'.TCNTn = regs.TCNTn /\ UNCHANGED active
    BY <1>2, <1>3, <2>1, StoreEffect
  <2>4. Counting'
    BY <2>2, <2>3 DEF Counting
  <2> QED
    BY <1>1, <2>1, <2>2, <2>3, <2>4 DEF RxStage, RxConfiguring
<1>10. CASE todo = <<sei>>
  <2>1. Head(todo) = sei /\ Tail(todo) = <<>>
    BY <1>10
  <2>2. A = 0 /\ B = 9 /\ mask = 2 /\ Counting
    BY <1>1, <1>10 DEF RxConfiguring
  <2>3. /\ Typed' /\ A' = A /\ B' = B /\ mask' = mask /\ flag' = 1
        /\ regs'.OCRnA = regs.OCRnA /\ regs'.TCNTn = regs.TCNTn /\ UNCHANGED active
    BY <1>2, <1>3, <2>1, StoreEffect
  <2>4. Counting'
    BY <2>2, <2>3 DEF Counting
  <2> QED
    BY <1>1, <2>1, <2>2, <2>3, <2>4 DEF RxStage, RxConfiguring
<1> QED
  BY <1>1, <1>4, <1>5, <1>6, <1>7, <1>8, <1>9, <1>10 DEF RxConfiguring

-----------------------------------------------------------------------------
(* The invariant holds.                                                    *)

\* The invariant holds after the reset of the processor.
LEMMA InvInit == Init => IInv
<1> SUFFICES ASSUME Init
             PROVE  IInv
  OBVIOUS
<1>1. PICK n \in 0 .. BYTE - 1 :
         regs = [TCCRnA |-> 1, TCCRnB |-> 3, TCNTn |-> n, ICRn |-> 0,
                 OCRnA |-> 0, OCRnB |-> 0, TIMSKn |-> 0, I |-> 1]
  BY PollingBytes DEF Init
<1>2. /\ n \in Nat /\ n < Size /\ 0 < Size /\ 0 \in 0 .. Size - 1
      /\ 0 \in 0 .. SetupClocks /\ 0 \in 0 .. PollLatency /\ 0 \in 0 .. 2 * WORD
  BY SizeBound, ConstantFacts
<1>3. regs \in [Registers -> Nat]
  <2>1. ASSUME NEW m \in Nat
        PROVE  [TCCRnA |-> 1, TCCRnB |-> 3, TCNTn |-> m, ICRn |-> 0,
                OCRnA |-> 0, OCRnB |-> 0, TIMSKn |-> 0, I |-> 1]
                 \in [Registers -> Nat]
    BY DEF Registers
  <2> QED
    BY <1>1, <1>2, <2>1
<1>4. /\ regs.TCCRnA = 1 /\ regs.TCCRnB = 3 /\ regs.TCNTn = n /\ regs.ICRn = 0
      /\ regs.OCRnA = 0 /\ regs.OCRnB = 0 /\ regs.TIMSKn = 0 /\ regs.I = 1
  BY <1>1
<1>5. active \in [Compare -> 0 .. Size - 1]
  BY <1>2 DEF Init
<1>6. Typed
  BY <1>2, <1>3, <1>4, <1>5 DEF Init, Typed
<1>7. BeforeConfigure
  BY <1>4 DEF Init, BeforeConfigure
<1>8. CarrierSettles
  <2>1. hw = "tx8b" => ~Connected
    BY <1>4, ModesOf8b
  <2> QED
    BY <1>7, <2>1 DEF CarrierSettles, BeforeConfigure
<1> QED
  BY <1>4, <1>6, <1>7, <1>8 DEF IInv, TxStage, RxStage

\* Every step preserves the invariant.
LEMMA InvNext == IInv /\ [Next]_vars => IInv'
<1> SUFFICES ASSUME IInv, [Next]_vars
             PROVE  IInv'
  OBVIOUS
<1>1. CASE Clock
  BY <1>1, ClockEffect, TxStageClock, RxStageClock, CarrierSettlesClock DEF IInv
<1>2. CASE Configure
  BY <1>2, ConfigureNext
<1>3. CASE Store
  <2>1. CASE hw = "rx"
    <3>1. hw' = hw
      BY <1>3 DEF Store
    <3> QED
      BY <1>3, <2>1, <3>1, RxStageStore DEF IInv, TxStage, CarrierSettles
  <2>2. CASE hw # "rx"
    <3>1. hw' = hw
      BY <1>3 DEF Store
    <3>2. CarrierSettles'
      BY <1>3, <3>1, CarrierSettlesStore DEF CarrierSettles
    <3> QED
      BY <1>3, <2>2, <3>1, <3>2, TxStageStore DEF IInv, RxStage
  <2> QED
    BY <2>1, <2>2
<1>4. CASE Send
  BY <1>4, SendNext
<1>5. CASE Symbol \/ Disable
  BY <1>5, OutputNext
<1>6. CASE Poll
  <2>1. /\ UNCHANGED <<hw, regs, active, up, todo, pc, waited, asked>>
        /\ late' = 0 /\ age' = 0
        /\ polls' = IF polls < 2 THEN polls + 1 ELSE polls
    BY <1>6 DEF Poll, program
  <2>2. ocf' \in BOOLEAN
    BY <1>6 DEF Poll
  <2>3. late' \in 0 .. PollLatency /\ age' \in 0 .. 2 * WORD /\ polls' \in 0 .. 2
    BY <2>1, ConstantFacts DEF IInv, Typed
  <2> QED
    BY <2>1, <2>2, <2>3, SameProgram
<1>7. CASE UNCHANGED vars
  BY <1>7, SameProgram DEF vars, program, timing, IInv, Typed
<1> QED
  BY <1>1, <1>2, <1>3, <1>4, <1>5, <1>6, <1>7 DEF Next

\* The inductive invariant is an invariant.
LEMMA Invariance == Spec => []IInv
BY InvInit, InvNext, PTL DEF Spec

-----------------------------------------------------------------------------
(* The theorems.                                                           *)

\* Every register keeps to its width, whatever the operations store and
\* however long the timer counts.
THEOREM HwTypeCorrect == Spec => []HwTypeOK
<1>1. IInv => HwTypeOK
  <2> SUFFICES ASSUME IInv
               PROVE  HwTypeOK
    OBVIOUS
  <2>1. Typed /\ TxStage /\ RxStage
    BY DEF IInv
  <2>2. [TCCRnA |-> regs.TCCRnA, TCCRnB |-> regs.TCCRnB] \in Configuration
    <3>1. regs.TCCRnA \in 0 .. 255 /\ regs.TCCRnB \in 0 .. 255
      BY <2>1, BytesOf DEF Typed, Hardware
    <3> QED
      BY <3>1 DEF Configuration
  <2>3. /\ DOMAIN regs = Registers
        /\ regs.TCNTn \in 0 .. Size - 1 /\ regs.ICRn \in 0 .. Size - 1
        /\ regs.OCRnA \in 0 .. Size - 1 /\ regs.OCRnB \in 0 .. Size - 1
        /\ regs.TIMSKn \in 0 .. 255
    BY <2>1, SizeBound DEF Typed, Registers
  <2>4. \A i \in DOMAIN todo : todo[i].reg \in Registers
    <3>1. CASE hw = "rx"
      BY <2>1, <3>1 DEF RxStage, BeforeConfigure, RxConfiguring, W, Registers
    <3>2. CASE hw # "rx"
      BY <2>1, <3>2
      DEF TxStage, BeforeConfigure, TxConfiguring, TxRetuning, TxOutput, W,
          SetTop, SetDuty, SetBits, SetClock, TopReg, DutyReg, Registers
    <3> QED
      BY <3>1, <3>2
  <2>5. pc \in {"setup", "off", "setuptime", "on"}
    BY <2>1 DEF TxStage, RxStage, BeforeConfigure, TxConfiguring, TxRetuning,
                TxOutput
  <2>6. {up, ocf} \subseteq BOOLEAN
    BY <2>1, Zenon DEF Typed
  <2> QED
    BY <2>1, <2>2, <2>3, <2>4, <2>5, <2>6 DEF Typed, HwTypeOK
<1> QED
  BY <1>1, Invariance, PTL

\* While the pin is connected, at the end of SETUPTIME and between any two
\* stores, the 8-bit timer counts the carrier that the packet asked for, wherever
\* the counter was when the carrier was stored, and the registers of the 16-bit
\* timer hold it: for every carrier whose period fits a byte.
THEOREM CarrierOnMark == Spec => []MarkHasCarrier
<1>1. IInv => MarkHasCarrier
  <2> SUFFICES ASSUME IInv, Connected
               PROVE  /\ PrescOf(regs) = Presc.Div1
                      /\ CounterTop = Cycles(asked)
                      /\ hw = "tx8b" => /\ Mode = Mode8b.PhaseCorrectPWM_OCR
                                        /\ active.OCRnB = Cycles(asked) \div 3
                                        /\ regs.TCNTn <= CounterTop
                      /\ hw = "tx16b" => /\ Mode = Mode16b.PhaseCorrectPWM_ICR
                                         /\ regs.OCRnA = Cycles(asked) \div 3
    <3>1. IInv => Cycles(asked) = REFCLK \div asked
      BY CyclesWhole DEF IInv, Typed
    <3> QED
      BY <3>1 DEF MarkHasCarrier
  <2>1. Typed /\ TxStage /\ RxStage
    BY DEF IInv
  <2>2. hw \in {"tx8b", "tx16b"} /\ regs.TCCRnA = DrivenByte
    BY <2>1, BytesOf, ModesOf8b, ModesOf16b, ModesOfRx
    DEF Typed, Hardware, DrivenByte
  <2>3. regs.TCCRnB = ClockByte /\ CarrierStored
    BY <2>1, <2>2
    DEF TxStage, BeforeConfigure, TxConfiguring, TxRetuning, TxOutput,
        FreeByte, DrivenByte
  <2>4. CASE hw = "tx8b"
    <3>1. Mode = Mode8b.PhaseCorrectPWM_OCR /\ PrescOf(regs) = Presc.Div1
      BY <2>1, <2>3, <2>4, BytesOf, ModesOf8b DEF ClockByte
    <3>2. CounterTop = active.OCRnA
      BY <2>4, <3>1 DEF CounterTop
    <3>3. Settled /\ regs.OCRnA = Cycles(asked) /\ regs.OCRnB = Cycles(asked) \div 3
      BY <2>3, <2>4 DEF IInv, CarrierSettles, CarrierStored, TopReg, DutyReg
    <3> QED
      BY <2>4, <3>1, <3>2, <3>3 DEF Settled, Loaded
  <2>5. CASE hw = "tx16b"
    <3>1. Mode = Mode16b.PhaseCorrectPWM_ICR /\ PrescOf(regs) = Presc.Div1
      BY <2>1, <2>2, <2>3, <2>5, BytesOf, ModesOf16b DEF ClockByte, DrivenByte
    <3>2. CounterTop = regs.ICRn
      BY <2>5, <3>1 DEF CounterTop, Mode16b
    <3> QED
      BY <2>3, <2>5, <3>1, <3>2 DEF CarrierStored, TopReg, DutyReg
  <2> QED
    BY <2>2, <2>4, <2>5
<1> QED
  BY <1>1, Invariance, PTL

-----------------------------------------------------------------------------
(* The time between two polls.                                             *)

\* From Configure() on the age keeps step with the counter, until the compare
\* match requests the interrupt, and from then on with how late it is.  Both
\* ends of an interval are known from the second poll on, since the first match
\* may be one of long ago.
Punctual ==
  LET n == regs.TCNTn
  IN  /\ ~Configured => late = 0 /\ age = 0 /\ polls = 0
      /\ ~Due => late = 0
      /\ Configured /\ ~ocf => age <= n
      /\ ocf => age <= PollCycles + 1 + late
      /\ polls >= 1 /\ ocf => n = late
      /\ polls = 2 => IF ocf THEN age >= PollCycles + 1 - PollLatency
                             ELSE age >= n - PollLatency

\* What a configured receiver is like.
LEMMA ConfiguredReceiver ==
  ASSUME IInv, Configured
  PROVE  /\ hw = "rx" /\ regs.TCCRnA = 0 /\ regs.TCCRnB = 9
         /\ regs.TIMSKn = 2 /\ ReadField(regs.TIMSKn, OCIE1A) = 1 /\ regs.I = 1
         /\ Counting
         /\ Due <=> ocf
<1>1. /\ hw = "rx" /\ regs.TCCRnA = 0 /\ regs.TCCRnB = 9
      /\ regs.TIMSKn = 2 /\ regs.I = 1 /\ Counting
  BY DEF IInv, RxStage, BeforeConfigure, RxConfiguring, Configured
<1>2. ReadField(2, OCIE1A) = 1
  BY SMT DEF ReadField, OCIE1A
<1> QED
  BY <1>1, <1>2 DEF Due

\* Before that its interrupt is not enabled.
LEMMA DueIsConfigured ==
  ASSUME IInv, Due
  PROVE  Configured
<1>1. hw = "rx" /\ regs.I = 1 /\ ReadField(regs.TIMSKn, OCIE1A) = 1
  BY DEF Due
<1>2. ReadField(0, OCIE1A) = 0
  BY SMT DEF ReadField, OCIE1A
<1>3. regs.TIMSKn # 0
  BY <1>1, <1>2
<1> QED
  BY <1>1, <1>3 DEF IInv, RxStage, RxConfiguring, Configured

\* A clock cycle.
LEMMA PunctualClock ==
  ASSUME IInv, Punctual, Clock
  PROVE  Punctual'
<1>1. /\ UNCHANGED <<hw, todo, pc, polls>>
      /\ late' = IF Due THEN late + 1 ELSE 0
      /\ Due => late < PollLatency
      /\ age' = IF Configured /\ age < 2 * WORD THEN age + 1 ELSE age
  BY DEF Clock
<1>2. /\ late \in 0 .. PollLatency /\ age \in 0 .. 2 * WORD /\ polls \in 0 .. 2
      /\ ocf \in BOOLEAN
      /\ PollCycles \in Nat /\ WORD \in Nat /\ PollLatency \in Nat
      /\ PollLatency < PollCycles /\ PollCycles < WORD
  BY ConstantFacts DEF IInv, Typed
<1>3. IInv' /\ (Configured' <=> Configured)
  BY <1>1, InvNext DEF Configured, Next
<1>4. CASE ~Configured
  <2>1. ~Due
    BY <1>4, DueIsConfigured
  <2>2. late' = 0 /\ age' = 0 /\ polls' = 0
    BY <1>1, <1>4, <2>1 DEF Punctual
  <2> QED
    BY <1>2, <1>3, <1>4, <2>2 DEF Punctual
<1>5. CASE Configured
  <2> DEFINE n == regs.TCNTn
             m == regs'.TCNTn
  <2>1. (Due <=> ocf) /\ (Due' <=> ocf')
    <3>1. regs'.I = regs.I /\ regs'.TIMSKn = regs.TIMSKn
      BY ClockEffect DEF IInv, Registers
    <3> QED
      BY <1>1, <1>5, <3>1, ConfiguredReceiver DEF Due
  <2>2. /\ hw = "rx" /\ regs.TCCRnA = 0 /\ regs.TCCRnB = 9 /\ Counting
        /\ Typed /\ TxStage /\ RxStage
    BY <1>5, ConfiguredReceiver DEF IInv
  <2>3. m = (IF n = PollCycles THEN 0 ELSE n + 1)
    BY <2>2, CountingClock
  <2>4. n \in 0 .. PollCycles /\ active.OCRnA = PollCycles
    BY <2>2 DEF Counting, Typed, Registers
  <2>5. PrescOf(regs) = Presc.Div1
    BY <2>2, ModesOfRx
  <2>6. ocf' <=> (ocf \/ n = PollCycles)
    BY <2>4, <2>5, Zenon DEF Clock
  <2>7. /\ ~ocf => late = 0 /\ age <= n
        /\ ocf => age <= PollCycles + 1 + late
        /\ polls >= 1 /\ ocf => n = late
        /\ polls = 2 /\ ocf => age >= PollCycles + 1 - PollLatency
        /\ polls = 2 /\ ~ocf => age >= n - PollLatency
    BY <1>5, <2>1 DEF Punctual
  <2> HIDE DEF n, m
  <2>8. age' = age + 1
    BY <1>1, <1>2, <1>5, <2>4, <2>7, <2>1
  <2>9. CASE ocf
    <3>1. ocf' /\ late' = late + 1 /\ late < PollLatency
      BY <1>1, <2>1, <2>6, <2>9
    <3>2. age' <= PollCycles + 1 + late'
      BY <1>2, <2>7, <2>8, <2>9, <3>1
    <3>3. polls >= 1 => m = late'
      BY <1>2, <2>3, <2>4, <2>7, <2>9, <3>1
    <3>4. polls = 2 => age' >= PollCycles + 1 - PollLatency
      BY <1>2, <2>7, <2>8, <2>9
    <3> QED
      BY <1>1, <1>3, <1>5, <2>1, <3>1, <3>2, <3>3, <3>4 DEF Punctual, m
  <2>10. CASE ~ocf /\ n = PollCycles
    <3>1. ocf' /\ late' = 0 /\ m = 0
      <4>1. ~Due
        BY <2>1, <2>10
      <4> QED
        BY <1>1, <2>3, <2>6, <2>10, <4>1
    <3>2. age' <= PollCycles + 1 + late'
      BY <1>2, <2>7, <2>8, <2>10, <3>1
    <3>3. polls = 2 => age' >= PollCycles + 1 - PollLatency
      BY <1>2, <2>7, <2>8, <2>10
    <3> QED
      BY <1>1, <1>3, <1>5, <2>1, <3>1, <3>2, <3>3 DEF Punctual, m
  <2>11. CASE ~ocf /\ n # PollCycles
    <3>1. ~ocf' /\ late' = 0 /\ m = n + 1
      BY <1>1, <2>1, <2>3, <2>6, <2>11
    <3>2. age' <= m /\ (polls = 2 => age' >= m - PollLatency)
      BY <1>2, <2>4, <2>7, <2>8, <2>11, <3>1
    <3> QED
      BY <1>1, <1>3, <1>5, <2>1, <3>1, <3>2 DEF Punctual, m
  <2> QED
    BY <2>9, <2>10, <2>11
<1> QED
  BY <1>4, <1>5

\* A poll.
LEMMA PunctualPoll ==
  ASSUME IInv, Punctual, Poll
  PROVE  Punctual'
<1>1. /\ UNCHANGED <<hw, regs, todo, pc>>
      /\ ~ocf' /\ late' = 0 /\ age' = 0
      /\ polls' = IF polls < 2 THEN polls + 1 ELSE polls
      /\ Due
  BY DEF Poll, program
<1>2. Configured /\ Configured' /\ ~Due'
  BY <1>1, DueIsConfigured DEF Configured, Due
<1>3. /\ hw = "rx" /\ ocf /\ regs.TCNTn \in Nat
      /\ late \in 0 .. PollLatency /\ polls \in 0 .. 2 /\ PollLatency \in Nat
  BY <1>1, ConstantFacts DEF IInv, Typed, Registers, Due
<1>4. polls' = 2 => regs.TCNTn = late
  BY <1>1, <1>3 DEF Punctual
<1>5. polls' = 2 => 0 >= regs.TCNTn - PollLatency
  BY <1>3, <1>4
<1> QED
  BY <1>1, <1>2, <1>3, <1>5 DEF Punctual

\* The intervals are what Punctual says, whatever happens.
LEMMA PunctualNext == IInv /\ Punctual /\ [Next]_vars => Punctual'
<1> SUFFICES ASSUME IInv, Punctual, [Next]_vars
             PROVE  Punctual'
  OBVIOUS
<1>1. CASE Clock
  BY <1>1, PunctualClock
<1>2. CASE Poll
  BY <1>2, PunctualPoll
<1>3. CASE Store
  <2>1. /\ ~Configured /\ UNCHANGED <<ocf, late, age, polls>>
    BY <1>3 DEF Store, Configured, timing
  <2>2. late' = 0 /\ age' = 0 /\ polls' = 0
    BY <2>1 DEF Punctual
  <2>3. IInv'
    BY InvNext
  <2>4. hw' = "rx" => regs'.TCNTn \in Nat
    BY <2>3 DEF IInv, Typed, Registers
  <2>5. Configured' => regs'.TCNTn \in Nat
    BY <2>4 DEF Configured
  <2> QED
    BY <2>2, <2>5, ConstantFacts DEF Punctual
<1>4. CASE Configure \/ Send \/ Symbol \/ Disable
  <2>1. ~Configured /\ UNCHANGED <<late, age, polls>>
    <3>1. Fetching => ~Configured
      BY DEF Fetching, Configured
    <3> QED
      BY <1>4, <3>1 DEF Configure, Send, Symbol, Disable, Configured, timing
  <2>2. late' = 0 /\ age' = 0 /\ polls' = 0
    BY <2>1 DEF Punctual
  <2>3. IInv'
    BY InvNext
  <2>4. Configured' => regs'.TCNTn \in Nat
    BY <2>3 DEF IInv, Typed, Registers
  <2> QED
    BY <2>2, <2>4, ConstantFacts DEF Punctual
<1>5. CASE UNCHANGED vars
  BY <1>5 DEF Punctual, Configured, Due, vars, program, timing
<1> QED
  BY <1>1, <1>2, <1>3, <1>4, <1>5 DEF Next

\* The interrupt of the receiver stays enabled, no poll is later than
\* PollCycles + 1 clocks and the time an interrupt is held up, and none but the
\* first two is earlier than that, less the same time: for every interval that
\* the counter can hold and every delay shorter than the interval.
THEOREM PolledOnTime == Spec => PollsOnTime
<1> DEFINE Good == /\ Configured => /\ ReadField(regs.TIMSKn, OCIE1A) = 1
                                    /\ regs.I = 1
                                    /\ age <= PollCycles + 1 + PollLatency
                   /\ Poll /\ polls = 2 => age >= PollCycles + 1 - PollLatency
<1>1. Init => Punctual
  <2> SUFFICES ASSUME Init
               PROVE  Punctual
    OBVIOUS
  <2>1. late = 0 /\ age = 0 /\ polls = 0
    BY DEF Init
  <2>2. ~Configured
    BY DEF Init, Configured
  <2> QED
    BY <2>1, <2>2, ConstantFacts DEF Punctual
<1>2. ASSUME IInv, Punctual
      PROVE  Good
  <2>1. /\ late \in 0 .. PollLatency /\ age \in 0 .. 2 * WORD
        /\ PollCycles \in Nat /\ PollLatency \in Nat
    BY <1>2, ConstantFacts DEF IInv, Typed
  <2>2. ASSUME Configured
        PROVE  age <= PollCycles + 1 + PollLatency
    <3>1. regs.TCNTn \in 0 .. PollCycles
      BY <1>2, <2>2, ConfiguredReceiver DEF IInv, Typed, Registers, Counting
    <3>2. age <= regs.TCNTn \/ age <= PollCycles + 1 + late
      BY <1>2, <2>2 DEF Punctual
    <3> QED
      BY <2>1, <3>1, <3>2
  <2>3. Poll /\ polls = 2 => age >= PollCycles + 1 - PollLatency
    BY <1>2 DEF Punctual, Poll, Due
  <2> QED
    BY <1>2, <2>2, <2>3, ConfiguredReceiver
<1>3. IInv /\ Punctual => [Good]_vars
  BY <1>2
<1> HIDE DEF Good
<1>4. Spec => [][Good]_vars
  BY <1>1, <1>3, PunctualNext, Invariance, PTL DEF Spec
<1> QED
  BY <1>4 DEF Good, PollsOnTime
=============================================================================
