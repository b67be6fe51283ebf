-------------------------------- MODULE IrHw --------------------------------
(***************************************************************************)
(* The register level of irhw.cpp: what Configure(), SetCarrier(),         *)
(* SetOutput() and Disable() store to one timer, store after store, while  *)
(* the timer goes on counting.  The timer is the carrier generator of      *)
(* either TxHw, or the timer that polls for RxHw.  (The modulator of       *)
(* Timer16b::TxHw is in Transmitter.)                                      *)
(*                                                                         *)
(* A carrier is a phase-correct PWM: the counter goes up to its top and    *)
(* down again, and the pin is high while it is below the compare register, *)
(* if the pin is connected.  In such a mode compare registers are double   *)
(* buffered: what is stored takes effect at the next top.  The input       *)
(* compare register, which is the top of the 16-bit carrier, is not.       *)
(***************************************************************************)
EXTENDS Timers, Sequences

CONSTANTS
  REFCLK,      \* refclk/2000; scaled down for model checking, as are:
  BYTE,        \* number of values of a uint8_t and of the 8-bit counter
  WORD,        \* number of values of the 16-bit counter
  DefaultCarrier, \* 38
  Carriers,    \* the carriers, in kHz, of the messages the sketch sends
  PollCycles,  \* refclk*POLL_INTERVAL/USEC_PER_SEC
  PollLatency, \* most clocks an enabled interrupt waits for another, or for cli()
  SetupClocks  \* clocks that SETUPTIME lasts

\* The time that TxHw allows before the first symbol is enough for the counter
\* to overflow once and then to go through a whole period of the carrier, and
\* through half of the next.  The period of every carrier fits a byte: the
\* protocols ask for 36 to 40 kHz.  A poll is never held up until the next is due.
ASSUME IrHwAssumption ==
  /\ {REFCLK, BYTE, WORD, PollCycles, SetupClocks} \subseteq Nat \ {0}
  /\ Carriers \cup {DefaultCarrier} \subseteq Nat \ {0}
  /\ \A kHz \in Carriers \cup {DefaultCarrier} : REFCLK \div kHz < BYTE
  /\ 2 * BYTE < WORD /\ PollCycles < WORD
  /\ PollLatency \in 0 .. PollCycles - 1
  /\ SetupClocks >= 4 * BYTE /\ SetupClocks < WORD

VARIABLES
  hw,      \* which hardware the timer belongs to
  regs,    \* its registers, and the processor's interrupt flag I
  active,  \* the compare registers that the counter is compared with
  up,      \* does the counter count up?
  ocf,     \* the flag of compare match A
  todo,    \* the stores that the current operation has not performed yet
  pc,      \* "setup", then "off"; "setuptime" and "on" while transmitting
  waited,  \* clocks spent in SETUPTIME, up to SetupClocks
  asked,   \* history: the carrier asked for last
  late,    \* clocks that the interrupt that polls has been held up
  age,     \* history: clocks since the last poll, or since RxHw was configured
  polls    \* history: how many times RxHw has polled, up to two

program == <<todo, pc, waited, asked>>
timing == <<late, age, polls>>
vars == <<hw, regs, active, up, ocf, program, timing>>

Hardware == {"tx8b", "tx16b", "rx"}
Registers == {"TCCRnA", "TCCRnB", "TCNTn", "ICRn", "OCRnA", "OCRnB", "TIMSKn", "I"}
Compare == {"OCRnA", "OCRnB"}

-----------------------------------------------------------------------------
(* What the timer does.                                                    *)

Mode == IF hw = "tx8b" THEN ModeOf8b(regs) ELSE ModeOf16b(regs)

PWM ==
  IF hw = "tx8b"
  THEN Mode \in {Mode8b.PWM_PhaseCorrectPWM_8bit, Mode8b.PhaseCorrectPWM_OCR}
  ELSE Mode \in {Mode16b.PhaseCorrectPWM_8bit, Mode16b.PhaseCorrectPWM_9bit,
                 Mode16b.PhaseCorrectPWM_ICR}

Size == IF hw = "tx8b" THEN BYTE ELSE WORD

\* The value at which the counter turns, for the modes that occur.
CounterTop ==
  IF hw = "tx8b"
  THEN IF Mode = Mode8b.PhaseCorrectPWM_OCR THEN active.OCRnA ELSE BYTE - 1
  ELSE CASE Mode = Mode16b.PhaseCorrectPWM_ICR -> regs.ICRn
         [] Mode = Mode16b.CTC_OCRnA -> active.OCRnA
         [] Mode = Mode16b.PhaseCorrectPWM_8bit -> BYTE - 1
         [] Mode = Mode16b.PhaseCorrectPWM_9bit -> 2 * BYTE - 1
         [] OTHER -> WORD - 1

COM == IF hw = "tx8b" THEN COM1B0 ELSE COM1A0

\* Is the pin under the control of the timer?
Connected == ReadField(regs.TCCRnA, COM) # CmpOMode.Normal

CountTo(n) == regs' = [regs EXCEPT !.TCNTn = n]

\* One count down; at the bottom the counter turns.
Descend ==
  /\ CountTo(IF regs.TCNTn = 0 THEN 0 ELSE regs.TCNTn - 1)
  /\ up' = (regs.TCNTn <= 1)

\* One count of a phase-correct PWM.  A counter that was beyond its top when it
\* turned up goes on to its end, and there wraps or turns.
CountPWM ==
  \/ /\ up
     /\ regs.TCNTn = CounterTop
     /\ Descend
     /\ active' = [r \in Compare |-> regs[r]]
  \/ /\ up
     /\ regs.TCNTn # CounterTop
     /\ \/ CountTo((regs.TCNTn + 1) % Size) /\ UNCHANGED up
        \/ regs.TCNTn = Size - 1 /\ Descend
     /\ UNCHANGED active
  \/ ~up /\ Descend /\ UNCHANGED active

\* One count of a mode that counts up only.
CountUp ==
  /\ CountTo(IF regs.TCNTn = CounterTop THEN 0 ELSE (regs.TCNTn + 1) % WORD)
  /\ UNCHANGED <<up, active>>

\* RxHw::Configure() has returned.
Configured == hw = "rx" /\ pc = "off" /\ todo = <<>>

\* The interrupt of the compare match is requested.
Due == hw = "rx" /\ ocf /\ regs.I = 1 /\ ReadField(regs.TIMSKn, OCIE1A) = 1

\* A clock of the processor.  With a prescaler it may not be one of the timer.
Clock ==
  /\ Due => late < PollLatency
  /\ \/ /\ (PWM /\ CountPWM) \/ (~PWM /\ CountUp)
        /\ ocf' = (ocf \/ regs.TCNTn = active.OCRnA)
     \/ PrescOf(regs) # Presc.Div1 /\ UNCHANGED <<regs, active, up, ocf>>
  /\ waited' = IF pc = "setuptime" /\ todo = <<>> /\ waited < SetupClocks
               THEN waited + 1 ELSE waited
  /\ late' = IF Due THEN late + 1 ELSE 0
  /\ age' = IF Configured /\ age < 2 * WORD THEN age + 1 ELSE age
  /\ UNCHANGED <<hw, todo, pc, asked, polls>>

-----------------------------------------------------------------------------
(* The stores of an operation, in the order of the source.                 *)

W(reg, val) == [reg |-> reg, val |-> val]

\* Mutant: the period of a counter that does not turn at its top, in 16 bits.
CyclesOfFastPWM(kHz) == (2 * REFCLK) \div kHz

\* refclk/2000/value_kHz, cut to a byte.
Cycles(kHz) == (REFCLK \div kHz) % BYTE

\* Timer::SetConfig()
SetConfig(cfg) == <<W("TCCRnA", cfg.TCCRnA), W("TCCRnB", cfg.TCCRnB)>>

\* The hard-coded duty cycle is a third.
SetCarrier(kHz) ==
  LET nCycles == Cycles(kHz)
  IN  IF hw = "tx8b" THEN <<W("OCRnA", nCycles), W("OCRnB", nCycles \div 3)>>
                     ELSE <<W("ICRn", nCycles), W("OCRnA", nCycles \div 3)>>

\* cfgCarrier[], as the two constructors fill it in.
CfgCarrier(v) ==
  LET oMode == IF v = 0 THEN CmpOMode.Normal ELSE CmpOMode.ClearOnMatch_SetOnBottom
  IN  IF hw = "tx8b"
      THEN SetCOMnB(SetMode8b(Mode8b.PhaseCorrectPWM_OCR, Presc.Div1), oMode)
      ELSE SetCOMnA(SetMode16b(Mode16b.PhaseCorrectPWM_ICR, Presc.Div1), oMode)

SetOutput(v) == SetConfig(CfgCarrier(v % 2))

\* TxHw::Configure().  digitalWrite() disconnects the pin from the timer.
ConfigureTx ==
  <<W("TCCRnA", WriteField(regs.TCCRnA, COM, CmpOMode.Normal))>>
    \o SetCarrier(DefaultCarrier) \o SetOutput(0)

\* Mutant: the counter is left where it is when polling begins.
ConfigureRxKeepsCount ==
  <<W("I", 0)>>
    \o SetConfig(SetMode16b(Mode16b.CTC_OCRnA, Presc.Div1))
    \o <<W("OCRnA", PollCycles),
         W("TIMSKn", WriteField(regs.TIMSKn, OCIE1A, 1)), W("I", 1)>>

\* RxHw::Configure(), from cli() to sei().
ConfigureRx ==
  <<W("I", 0)>>
    \o SetConfig(SetMode16b(Mode16b.CTC_OCRnA, Presc.Div1))
    \o <<W("OCRnA", PollCycles), W("TCNTn", 0),
         W("TIMSKn", WriteField(regs.TIMSKn, OCIE1A, 1)), W("I", 1)>>

-----------------------------------------------------------------------------
(* The program.                                                            *)

Configure ==
  /\ pc = "setup"
  /\ todo' = IF hw = "rx" THEN ConfigureRx ELSE ConfigureTx
  /\ pc' = "off"
  /\ UNCHANGED <<hw, regs, active, up, ocf, waited, asked, timing>>

\* The next store.  Outside the PWM modes compare registers are not buffered.
Store ==
  /\ todo # <<>>
  /\ LET w == Head(todo)
     IN  /\ regs' = [regs EXCEPT ![w.reg] = w.val]
         /\ active' = IF w.reg \in Compare /\ ~PWM
                      THEN [active EXCEPT ![w.reg] = w.val] ELSE active
  /\ todo' = Tail(todo)
  /\ UNCHANGED <<hw, up, ocf, pc, waited, asked, timing>>

\* Send(): the carrier is set and the setup time begins.
Send ==
  /\ hw # "rx" /\ pc = "off" /\ todo = <<>>
  /\ \E kHz \in Carriers : todo' = SetCarrier(kHz) /\ asked' = kHz
  /\ pc' = "setuptime"
  /\ waited' = 0
  /\ UNCHANGED <<hw, regs, active, up, ocf, timing>>

\* Mutant: transmission starts at once.
FetchingAtOnce == todo = <<>> /\ pc \in {"on", "setuptime"}

\* ProcessISR() may come: SETUPTIME has passed, of which the interrupt of
\* Timer16b::TxHw may cheat the transmitter (see Transmitter).
Fetching ==
  /\ todo = <<>>
  /\ \/ pc = "on"
     \/ pc = "setuptime" /\ (waited = SetupClocks \/ hw = "tx16b")

\* A mark or a space begins.
Symbol ==
  /\ Fetching
  /\ \E v \in {0, 1} : todo' = SetOutput(v)
  /\ pc' = "on"
  /\ UNCHANGED <<hw, regs, active, up, ocf, waited, asked, timing>>

\* Mutant: the carrier is left as the last symbol set it.
DisableKeepsOutput ==
  /\ Fetching
  /\ pc' = "off"
  /\ waited' = 0
  /\ UNCHANGED <<hw, regs, active, up, ocf, todo, asked, timing>>

\* The packet has ended.
Disable ==
  /\ Fetching
  /\ todo' = SetOutput(0)
  /\ pc' = "off"
  /\ waited' = 0
  /\ UNCHANGED <<hw, regs, active, up, ocf, asked, timing>>

\* The interrupt of the compare match calls Receiver::ProcessISR().
Poll ==
  /\ Due
  /\ ocf' = FALSE
  /\ late' = 0
  /\ age' = 0
  /\ polls' = IF polls < 2 THEN polls + 1 ELSE polls
  /\ UNCHANGED <<hw, regs, active, up, program>>

-----------------------------------------------------------------------------
\* Before Configure(): the Arduino core has put every timer in its 8-bit
\* phase-correct mode, with a prescaler of 64, for analogWrite().
Init ==
  /\ hw \in Hardware
  /\ \E n \in 0 .. BYTE - 1 :
        LET cfg == IF hw = "tx8b"
                   THEN SetMode8b(Mode8b.PWM_PhaseCorrectPWM_8bit, Presc.Div64)
                   ELSE SetMode16b(Mode16b.PhaseCorrectPWM_8bit, Presc.Div64)
        IN  regs = [TCCRnA |-> cfg.TCCRnA, TCCRnB |-> cfg.TCCRnB, TCNTn |-> n,
                    ICRn |-> 0, OCRnA |-> 0, OCRnB |-> 0, TIMSKn |-> 0, I |-> 1]
  /\ active = [r \in Compare |-> 0]
  /\ up \in BOOLEAN
  /\ ocf \in BOOLEAN
  /\ todo = <<>>
  /\ pc = "setup"
  /\ waited = 0
  /\ asked = DefaultCarrier
  /\ late = 0 /\ age = 0 /\ polls = 0

Next == Clock \/ Configure \/ Store \/ Send \/ Symbol \/ Disable \/ Poll

Spec == Init /\ [][Next]_vars
-----------------------------------------------------------------------------
(* Properties.                                                             *)

\* Every register holds a value of its width, and only the fields that exist
\* are set.
HwTypeOK ==
  /\ hw \in Hardware
  /\ DOMAIN regs = Registers
  /\ [TCCRnA |-> regs.TCCRnA, TCCRnB |-> regs.TCCRnB] \in Configuration
  /\ regs.TCNTn \in 0 .. Size - 1
  /\ {regs.ICRn, regs.OCRnA, regs.OCRnB} \subseteq 0 .. Size - 1
  /\ regs.TIMSKn \in 0 .. 255
  /\ regs.I \in {0, 1}
  /\ active \in [Compare -> 0 .. Size - 1]
  /\ {up, ocf} \subseteq BOOLEAN
  /\ \A i \in DOMAIN todo : todo[i].reg \in Registers
  /\ pc \in {"setup", "off", "setuptime", "on"}
  /\ waited \in 0 .. SetupClocks
  /\ asked \in Carriers \cup {DefaultCarrier}
  /\ late \in 0 .. PollLatency
  /\ age \in 0 .. 2 * WORD
  /\ polls \in 0 .. 2

\* While the pin is connected, between any two stores of SetOutput() and however
\* late they come, the timer runs in its carrier mode without a prescaler, and
\* the carrier is the one this packet asked for.  Of the 8-bit timer that is said
\* of the counter: it is not above its top, and the top and the duty cycle it is
\* compared with are a period and a third of it, as SETUPTIME has let the double
\* buffers take effect.  Of the 16-bit timer it is said only of the registers
\* that hold the two: there SETUPTIME may be cut short, and the counter of the
\* first marks may still be above its top.  The period is the one that the
\* carrier has, before it is stored in a byte.  irhw_iface.h:40 says when
\* SetCarrier() is called; arduino_timers.h:154 asks whether SetConfig() stores
\* in the right order.
MarkHasCarrier ==
  LET period == REFCLK \div asked
  IN  Connected =>
        /\ PrescOf(regs) = Presc.Div1
        /\ CounterTop = period
        /\ hw = "tx8b" => /\ Mode = Mode8b.PhaseCorrectPWM_OCR
                          /\ active.OCRnB = period \div 3
                          /\ regs.TCNTn <= CounterTop
        /\ hw = "tx16b" => /\ Mode = Mode16b.PhaseCorrectPWM_ICR
                           /\ regs.OCRnA = period \div 3

\* Once RxHw is configured its interrupt stays enabled and the receiver is polled
\* for ever: never later than PollCycles + 1 clocks after the last time or after
\* Configure(), but for the time an interrupt is held up, wherever the Arduino
\* core had left the counter; and never earlier either, but for that time.  The
\* first poll may be early, because Configure() does not clear a compare match
\* that came before, and so may the one that follows it.
PollsOnTime ==
  [][/\ Configured => /\ ReadField(regs.TIMSKn, OCIE1A) = 1
                      /\ regs.I = 1
                      /\ age <= PollCycles + 1 + PollLatency
     /\ Poll /\ polls = 2 => age >= PollCycles + 1 - PollLatency]_vars
=============================================================================
