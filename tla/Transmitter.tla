---------------------------- MODULE Transmitter ----------------------------
(***************************************************************************)
(* IRCtrl::Transmitter (ir_transmitter.cpp) on either of its two pieces of *)
(* hardware (irhw.cpp).  Send() builds the packet in txBuf, starts the     *)
(* hardware and waits for it; ProcessISR() puts one symbol on the line and *)
(* tells the hardware when to come back for the next.                      *)
(*                                                                         *)
(* Timer16b::TxHw lets a free-running counter interrupt the program, which *)
(* reprograms the counter's top while it runs.  Timer8bSysClk::TxHw calls  *)
(* ProcessISR() from a loop that watches micros().  Time passes in ticks:  *)
(* a count of the timer of the one, a microsecond of the other.  Whatever  *)
(* is due may be held up by other interrupts, for MaxLatency ticks.        *)
(***************************************************************************)
EXTENDS Integers, Sequences, FiniteSetsExt

CONSTANTS
  PKTSYMB_MAX, \* last index of txBuf.symbols
  Packets,     \* the symbols of the messages the sketch sends
  SETUPTIME,   \* microseconds before the first symbol
  COUNTER,     \* number of values of the timer's counter; 2^16, scaled down
  CLOCK,       \* number of values of micros(); 2^32, scaled down
  MaxLatency,  \* how many ticks an interrupt or the loop may be held up
  AgeCap       \* bound of the history variable age

Abs(x) == IF x < 0 THEN -x ELSE x

\* The comment on SETUPTIME: whatever the hardware is told to wait for must be
\* long enough for it to be told what comes next.
ASSUME TransmitterAssumption ==
  /\ PKTSYMB_MAX \in Nat \ {0}
  /\ {SETUPTIME, COUNTER, CLOCK, MaxLatency, AgeCap} \subseteq Nat
  /\ \A p \in Packets : p \in Seq(Int \ {0, 1})
  /\ \A d \in {SETUPTIME} \cup UNION {{Abs(p[i]) : i \in DOMAIN p} : p \in Packets} :
        /\ d > MaxLatency
        /\ 2 * d < COUNTER
        /\ d + 2 * MaxLatency < CLOCK
        /\ 2 * d + 2 * MaxLatency + 1 < AgeCap

VARIABLES
  hw,        \* which hardware the transmitter was created with
  txState,   \* one of the TxState values
  txPos,     \* index in txBuf of the next symbol
  txSymbols, \* txBuf.symbols
  level,     \* 1 while the carrier is on
  pc,        \* where Send() is: see Places
  tcnt, icr, tov, toie, \* the timer: counter, top, overflow flag and enable
  now, tstart, nextEvent, done, \* micros(); wait_usec() and Enable()
  late,      \* for how many ticks what is due has been held up
  asked,     \* history: the packet of the last message that has one
  known,     \* history: has the message that is sent one?
  age,       \* history: ticks since the last symbol, or since Enable()
  lag        \* history: by how much the symbols so far took too long

machine == <<txState, txPos, txSymbols, asked, known>>
timer == <<tcnt, icr, tov, toie>>
sysclk == <<now, tstart, nextEvent, done>>
history == <<late, age, lag>>
vars == <<hw, machine, level, pc, timer, sysclk, history>>

Hardware == {"timer16b", "sysclk"}

TXSTATE_TRANSMITTING == "transmitting"
TXSTATE_IDLE == "idle"

\* The rest of the sketch, the steps of either Enable(), and the loop of Send()
\* that waits for TxIdle().
Places == {"loop", "enable", "icr", "toie", "begin", "spin", "wait"}

-----------------------------------------------------------------------------
(* Building a packet.                                                      *)

\* Mutant: the sequence is not terminated.
BuildRawUnterminated(p) ==
  txSymbols' = [i \in 0 .. PKTSYMB_MAX |->
                  IF i = PKTSYMB_MAX THEN 0
                  ELSE IF i < Len(p) THEN p[i + 1] ELSE txSymbols[i]]

\* What BuildRawDefault() and SendTxPacket() leave in txBuf: as much of the
\* packet as fits, a 0 behind it and a 0 at the end.
BuildRaw(p) ==
  txSymbols' = [i \in 0 .. PKTSYMB_MAX |->
                  IF i \in {PKTSYMB_MAX, Len(p)} THEN 0
                  ELSE IF i < Len(p) THEN p[i + 1] ELSE txSymbols[i]]

\* Send() up to Enable().  No interrupt can come in between: the hardware is
\* off.  For a message of an unknown protocol nothing is built: what is started
\* is what an earlier message left in txBuf.
Send ==
  /\ pc = "loop"
  /\ \/ \E p \in Packets :
          /\ BuildRaw(p)
          /\ asked' = IF Len(p) > PKTSYMB_MAX THEN SubSeq(p, 1, PKTSYMB_MAX) ELSE p
          /\ known' = TRUE
     \/ /\ UNCHANGED <<txSymbols, asked>>
        /\ known' = FALSE
  /\ txPos' = 0
  /\ txState' = TXSTATE_TRANSMITTING
  /\ pc' = "enable"
  /\ UNCHANGED <<hw, level, timer, sysclk, history>>

\* while (!TxIdle()) ;
Return ==
  /\ pc = "wait"
  /\ txState = TXSTATE_IDLE
  /\ pc' = "loop"
  /\ UNCHANGED <<hw, machine, level, timer, sysclk, history>>

-----------------------------------------------------------------------------
(* ProcessISR().  The hardware conjoins what SetModEventTime() and         *)
(* Disable() mean to it.                                                   *)

symbol == txSymbols[txPos]

\* Mutant: only the end of the buffer ends a packet.
EndOfPacketAtEnd == txPos > PKTSYMB_MAX

EndOfPacket == symbol = 0

\* A duration in ticks: SetModEventTime() shifts it for the timer.
Ticks(usec) == IF hw = "timer16b" THEN 2 * usec ELSE usec

\* The bookkeeping of the histories when a symbol or the last one has ended.
SymbolEnds ==
  /\ age' = 0
  /\ late' = 0
  /\ lag' = IF txPos = 0 THEN 0
            ELSE lag + age - Ticks(Abs(txSymbols[txPos - 1]))

EmitSymbol ==
  /\ ~EndOfPacket
  /\ level' = IF symbol > 1 THEN 1 ELSE 0
  /\ txPos' = txPos + 1
  /\ UNCHANGED <<txState, txSymbols, asked, known>>
  /\ SymbolEnds

\* Mutant: the output is left as the last symbol set it.
FinishKeepsOutput ==
  /\ EndOfPacket
  /\ UNCHANGED level
  /\ txPos' = 0
  /\ txState' = TXSTATE_IDLE
  /\ UNCHANGED <<txSymbols, asked, known>>
  /\ SymbolEnds

\* Disable() and ResetTx().
FinishPacket ==
  /\ EndOfPacket
  /\ level' = 0
  /\ txPos' = 0
  /\ txState' = TXSTATE_IDLE
  /\ UNCHANGED <<txSymbols, asked, known>>
  /\ SymbolEnds

-----------------------------------------------------------------------------
(* Timer16b::TxHw.                                                         *)

\* Mutant: microseconds are taken for counts.
CountsUnshifted(usec) == usec % COUNTER

\* nextEvent<<USEC2CNT_SHIFT, in 16 bits.
Counts(usec) == (2 * usec) % COUNTER

\* Enable() stores to three registers of a counter that never stops.
EnableTCNT ==
  /\ hw = "timer16b" /\ pc = "enable"
  /\ tcnt' = 0
  /\ pc' = "icr"
  /\ late' = 0 /\ age' = 0 /\ lag' = 0
  /\ UNCHANGED <<hw, machine, level, icr, tov, toie, sysclk>>

EnableICR ==
  /\ pc = "icr"
  /\ icr' = Counts(SETUPTIME)
  /\ pc' = "toie"
  /\ UNCHANGED <<hw, machine, level, tcnt, tov, toie, sysclk, history>>

EnableTOIE ==
  /\ pc = "toie"
  /\ toie' = TRUE
  /\ pc' = "wait"
  /\ late' = 0
  /\ UNCHANGED <<hw, machine, level, tcnt, icr, tov, sysclk, age, lag>>

\* Mutant: the counter starts anew at every symbol.
SetModEventTimeRestarts(usec) == tcnt' = 0 /\ icr' = Counts(usec)

\* The top of the counter is changed while it counts; only the interrupt's
\* latency is lost, and not added up.
SetModEventTime(usec) == icr' = Counts(usec) /\ UNCHANGED tcnt

\* The overflow interrupt; the processor clears the flag.
Interrupt ==
  /\ tov /\ toie
  /\ tov' = FALSE
  /\ IF txState # TXSTATE_TRANSMITTING
     THEN late' = 0 /\ UNCHANGED <<machine, level, tcnt, icr, toie, age, lag>>
     ELSE \/ EmitSymbol /\ SetModEventTime(Abs(symbol)) /\ UNCHANGED toie
          \/ FinishPacket /\ toie' = FALSE /\ UNCHANGED <<tcnt, icr>>
  /\ UNCHANGED <<hw, pc, sysclk>>

-----------------------------------------------------------------------------
(* Timer8bSysClk::TxHw.                                                    *)

EnableLoop ==
  /\ hw = "sysclk" /\ pc = "enable"
  /\ done' = FALSE
  /\ nextEvent' = SETUPTIME
  /\ pc' = "begin"
  /\ late' = 0 /\ age' = 0 /\ lag' = 0
  /\ UNCHANGED <<hw, machine, level, timer, now, tstart>>

\* wait_usec(): tstart = now_usec()
BeginWait ==
  /\ pc = "begin"
  /\ tstart' = now
  /\ pc' = "spin"
  /\ late' = 0
  /\ UNCHANGED <<hw, machine, level, timer, now, nextEvent, done, age, lag>>

\* Mutant: the clock is compared with the end of the wait.
ExpiredByDeadline == now >= tstart + nextEvent

\* while (now_usec()-tstart < wTime), in unsigned arithmetic.
Expired == (now - tstart) % CLOCK >= nextEvent

\* (*fetchSymbol)(), and around the loop while (!done).
Fetch ==
  /\ pc = "spin"
  /\ Expired
  /\ \/ EmitSymbol /\ nextEvent' = Abs(symbol) /\ pc' = "begin" /\ UNCHANGED done
     \/ FinishPacket /\ done' = TRUE /\ pc' = "wait" /\ UNCHANGED nextEvent
  /\ UNCHANGED <<hw, timer, now, tstart>>

-----------------------------------------------------------------------------
(* The passage of time.                                                    *)

\* Something is due and other interrupts may hold it up.
Urgent ==
  \/ pc \in {"icr", "toie", "begin"}
  \/ pc = "spin" /\ Expired
  \/ tov /\ toie

\* The counter in fast PWM mode: it goes back to 0 after ICRn, and then the
\* flag is set; having missed ICRn, it counts to its end.
CountUp ==
  /\ hw = "timer16b"
  /\ tcnt' = IF tcnt = icr THEN 0 ELSE (tcnt + 1) % COUNTER
  /\ tov' = (tov \/ tcnt = icr)
  /\ UNCHANGED <<icr, toie, sysclk>>

ClockUp ==
  /\ hw = "sysclk"
  /\ now' = (now + 1) % CLOCK
  /\ UNCHANGED <<timer, tstart, nextEvent, done>>

Tick ==
  /\ Urgent => late < MaxLatency
  /\ CountUp \/ ClockUp
  /\ late' = IF Urgent THEN late + 1 ELSE 0
  /\ age' = IF txState = TXSTATE_IDLE THEN 0 ELSE Min({age + 1, AgeCap})
  /\ UNCHANGED <<hw, machine, level, pc, lag>>

-----------------------------------------------------------------------------
\* After the constructors and Configure(): the timer runs already.
Init ==
  /\ hw \in Hardware
  /\ txState = TXSTATE_IDLE
  /\ txPos = 0
  /\ txSymbols = [i \in 0 .. PKTSYMB_MAX |-> 0]
  /\ level = 0
  /\ pc = "loop"
  /\ tcnt = 0 /\ icr = 0 /\ tov = FALSE /\ toie = FALSE
  /\ now = 0 /\ tstart = 0 /\ nextEvent = SETUPTIME /\ done = TRUE
  /\ late = 0
  /\ asked = <<>> /\ known = FALSE
  /\ age = 0
  /\ lag = 0

Main ==
  Return \/ EnableTCNT \/ EnableICR \/ EnableTOIE \/ EnableLoop \/ BeginWait \/ Fetch

Next == Send \/ Main \/ Interrupt \/ Tick

Spec == Init /\ [][Next]_vars

\* Time passes, interrupts are served and the program runs; nobody has to send.
FairSpec == Spec /\ WF_vars(Tick) /\ WF_vars(Interrupt) /\ WF_vars(Main)

-----------------------------------------------------------------------------
(* Properties.                                                             *)

\* Every variable has its type; in particular the index stays in the buffer.
TypeOK ==
  /\ hw \in Hardware
  /\ txState \in {TXSTATE_TRANSMITTING, TXSTATE_IDLE}
  /\ txPos \in 0 .. PKTSYMB_MAX
  /\ txSymbols \in [0 .. PKTSYMB_MAX -> Int]
  /\ level \in {0, 1}
  /\ pc \in Places
  /\ tcnt \in 0 .. COUNTER - 1 /\ icr \in 0 .. COUNTER - 1
  /\ tov \in BOOLEAN /\ toie \in BOOLEAN /\ done \in BOOLEAN
  /\ now \in 0 .. CLOCK - 1 /\ tstart \in 0 .. CLOCK - 1
  /\ nextEvent \in 0 .. CLOCK - 1
  /\ late \in 0 .. MaxLatency
  /\ asked \in Seq(Int) /\ known \in BOOLEAN
  /\ age \in 0 .. AgeCap
  /\ lag \in Int

\* Both kinds of hardware put the packet of the message on the line that Send()
\* was given, and nothing of the packets that were in txBuf before, unless the
\* message is of an unknown protocol (ir_message.cpp:18): then, and only then,
\* the packet before is on the line once more, as a whole.
Line ==
  INSTANCE Waveform WITH
    busy <- txState = TXSTATE_TRANSMITTING,
    packet <- asked,
    own <- known,
    sent <- txPos

ImplementsWaveform == Line!Spec

\* When Send() has returned, the carrier is off, and no interrupt is enabled
\* that could find an idle transmitter ("should not happen").
OffWhenReturned == pc = "loop" => level = 0 /\ ~toie

\* How long a symbol lasts.  The loop never ends one early, and may be held up
\* before it looks at the clock and when the wait is over.  The timer ends one a
\* count after its top, or later by the latency of one interrupt; the latency of
\* the interrupt that began the symbol is taken off, and, if a flag from before
\* Enable() began the first one, what held up the stores of Enable() as well.
\* A top that the counter missed would make a symbol last a whole round.
SymbolLasts ==
  [][txPos >= 1 /\ txPos' # txPos =>
       LET nominal == Ticks(Abs(txSymbols[txPos - 1]))
           heldUp == IF txPos = 1 THEN 2 * MaxLatency ELSE MaxLatency
       IN  IF hw = "timer16b"
           THEN nominal + 1 - heldUp <= age /\ age <= nominal + 1 + MaxLatency
           ELSE nominal <= age /\ age <= nominal + 2 * MaxLatency]_vars

\* With the timer, delays do not add up over a packet: every edge is where the
\* durations so far put it, within the latency and the one count per symbol that
\* the counter spends beyond ICRn.
NoDrift ==
  hw = "timer16b" /\ pc = "wait" /\ txState = TXSTATE_TRANSMITTING =>
    -2 * MaxLatency <= lag /\ lag <= MaxLatency + txPos

\* Send() returns.
SendReturns == pc = "enable" ~> pc = "loop"

-----------------------------------------------------------------------------
(* A property that a comment of the code claims and the code does not have. *)

\* irhw.cpp:14: there is a SETUPTIME delay before transmission.
SetupDelay == [][txPos = 0 /\ txPos' = 1 => age >= Ticks(SETUPTIME)]_vars
=============================================================================
