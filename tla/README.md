# ArduinoCIR in TLA+

ArduinoCIR sends and receives the infrared messages of remote controls with an
Arduino. These modules specify its receiver, its transmitter, its codec, the
timer registers below them and three of its sample sketches. TLC checks them on
small instances; TLAPS proves the safety properties for every size and every
constant that the assumptions allow.

All paths below are relative to `src/`; `ir/` stands for `libraries/ir_messaging/`.

## 1. The system

| Component | Source | State | Operations |
|---|---|---|---|
| Receiver | `ir/ir_receiver.cpp`, `.h` | `rxState`, `rxLast`, `rxPos`, `rxAccum`, `rxBuf` | `ProcessISR` (timer interrupt, every 50 us), `PopMsg`, `Reset`, `Configure` |
| Receiver hardware | `ir/irhw.*` (`RxHw`) | timer and pin registers | periodic interrupt, `Configure` |
| Codec | `ir/ir_packet.*`, `ir_protocol.*`, `ir_signalling.h` | none (`pktInfo[]` is a constant table) | `BuildRaw`, `Decode` per protocol, `MatchSymbols`, `GetBitSeq` |
| IRMsg | `ir/ir_message.*` | protocol, data, number of bits | `BuildRaw`, comparison, accessors |
| Transmitter | `ir/ir_transmitter.*` | `txState`, `txPos`, `txBuf` | `Send`, `SendTxPacket`, `TxIdle`, `ProcessISR` |
| Transmitter hardware | `ir/irhw.*` (two `TxHw`) | counter, top, flag, enable / clock and loop variables | `Enable`, `Disable`, `SetOutput`, `SetModEventTime`, `SetCarrier`, `Configure` |
| Arduino tools | `libraries/arduino_tools/` | none | `wait_usec`, bit-field macros |
| Timer abstraction | `libraries/arduino_timers/` | timer registers | `SetMode`, `SetCOMnx`, `SetConfig`, register and pin tables |
| `ir_rx_sniff`, `ir_repeater`, `ir_tx_onbutton`, `sparkfun_remote_test` | `ir/samples/` | locals of `loop()`, button state | what a user runs |
| Serial and debug output, build checks | `ir/ir_serialtools.*`, `ir_debug.*`, ... | none | formatting, preprocessor |

**How they interact.** The receiver's interrupt handler and `loop()` share five
variables and one buffer without a lock. The handler samples the pin, appends
the durations of marks (positive) and spaces (negative) to `rxBuf` and, when a
silence exceeds `SIGFREE_MIN`, sets `RXSTATE_MSGCOMPLETE`. `loop()` polls
`PopMsg()`, which hands `rxBuf` by reference to one decoder after another and
then calls `Reset()`. The handler does not stop for that, except between the
two stores of `rxState` in `Reset()`. The transmitter goes the other way:
`Send()` fills `txBuf`, enables the hardware and spins until the handler has met
the terminating 0. The handler is called back by an overflow interrupt
(`Timer16b::TxHw`) or by a loop inside `Enable()` (`Timer8bSysClk::TxHw`), and
tells the hardware each time when to call next. The sketches put the two together.

**What is hard here.**

* *Interleaving and atomicity*: decoders read a buffer that is being written;
  `Reset()` is several stores; an `int16_t` takes two loads on an 8-bit AVR.
* *Compilation*: `rxState` is not volatile (`ir_receiver.h:33`). Compiled at
  `-O1` and above, g++ drops the store of `RXSTATE_BUSY` and at `-Os`, which the
  Arduino IDE uses, moves the store of `RXSTATE_READY` to the front.
* *Stale data*: nothing clears `rxBuf`, so that behind a short frame there is
  the tail of a longer one, and `rxAccum` survives `Reset()`.
* *Boundaries*: a full buffer, a 16-bit accumulator stored as a signed value,
  counters and clocks that wrap, sampling that rounds each run to 50 us.
* *Time*: the counter's top is changed while it runs; a symbol that is missed
  would last a whole round of the counter. Some registers are double buffered
  and some are not; the Arduino core leaves every timer running before `setup()`.
* *Blocking*: `Send()` keeps `loop()` from looking at the button or at the
  receiver, whose handler goes on recording into its only buffer.
* *Luck*: `CopyNTA()` never copies the 0 that ends a list, and copies beyond
  the end of an empty one until it happens on a 0.
* *Termination*: `Send()` blocks; `Print()` runs to a 0 that moves.

`PROJECT.json` lists every hazard with its line and the properties that cover it.

**What makes each component correct.** Receiver: a frame is delivered at most once, whole,
unchanged, after a real silence, or not at all; the receiver never stays full
and never leaves its buffer. Codec: a whole frame is received as what it means,
at every sampling phase; no two decoders accept the same frame; no bits are
invented. Transmitter: the line carries the packet that was sent, each symbol
for its time, and is off afterwards; `Send()` returns. Hardware: a mark is the
carrier that was asked for, and once polling has begun it is periodic. Sketches:
what is printed or repeated is what was received, a button is debounced, and no
message is lost while another one is being sent.

## 2. The modules

| Module | Models | Extends / instantiates |
|---|---|---|
| `RxMailbox` | what the receiver promises: a mailbox for one frame | |
| `Receiver` | `Receiver` and its interrupt handler, `loop()` calling `PopMsg()` | refines `RxMailbox` |
| `RxSniff` | `ir_rx_sniff`: `Print(rxBuf)` after every `PopMsg()` | extends `Receiver` |
| `Codec` | protocol table, `BuildRawDefault`, all decoders, the recording of a waveform | |
| `PktTable` | how the constructors of `PktInfo` fill in that table | extends `Codec` |
| `Link` | a message from `Send()` or a remote control through the air to `PopMsg()` and, with `ir_repeater`, on | extends `PktTable` |
| `Waveform` | what the transmitter promises: the packet, symbol by symbol | |
| `Transmitter` | `Transmitter` on both kinds of hardware, with time | refines `Waveform` |
| `Timers` | configuration objects and bit fields of the timer abstraction | |
| `IrHw` | the register stores of `irhw.cpp` on a carrier or polling timer that counts | extends `Timers` |
| `ButtonTx` | `ir_tx_onbutton` | |
| `Repeater` | `ir_tx_onbutton` sending to `ir_repeater` | extends `Receiver`, instantiates `ButtonTx` |
| `ReceiverProofs`, `MailboxProofs` | theorems about `Receiver` | extend `Receiver` |
| `RxSniffProofs` | theorems about `RxSniff` | extends `RxSniff`, `MailboxProofs` |
| `LinkProofs` | theorems about `Codec` and `Link` | extends `Link` |
| `TransmitterProofs` | theorems about `Transmitter` | extends `Transmitter` |
| `RepeaterProofs` | theorems about `Repeater` | extends `Repeater`, `ReceiverProofs` |
| `TimersProofs`, `IrHwProofs` | theorems about `Timers` and `IrHw` | extend `Timers`, `IrHw` |
| `MC*` | instances for TLC | |

### Receiver

Variables and actions carry the names of the source. `ProcessISR` is one action,
because the handler cannot be interrupted; its alternatives `Complete`, `Edge`,
`Hold` and `Ignore` are the branches of the code, each with the trailing
stall of the index and saturation of the accumulator. `PopMsg()` is split at
every access to a shared field: test `rxState` (`PopMsg`), pass `rxPos` by value
(`CallDecoder`), read one element (`MatchSymbol`), return (`DecodeSucceeds`,
`DecodeFails`), perform one assignment of `Reset()` (`Store`). `PinChange` is the
outside world; it may flip the level at any time. `CallReset` is a sketch that
calls the public `Reset()`.

* *Which values match* a protocol is left open: a decoder may match any element
  but 0 and a gap, and may give up anywhere. No protocol has such a symbol, so
  every decoder of `Codec` is among those.
* *Torn reads*: when the handler is about to write the element that is read,
  the reader may also get one byte of the old and one of the new value.
* *`Optimised`*: if FALSE, `Reset()` performs its stores in the order of the
  source; if TRUE, without the first one and in any order.
* *History variables*: `quiet` counts silent polls, `gap` is the index of the gap
  of the completed frame (0 when there is none), `seen` is what the decoder has
  matched. The code does not depend on them.

### RxSniff

`Print(RxBuffer)` tests an element and reads it again to print it: two actions,
since the handler may run in between. `popped` and `dumped` remember the frame
and which of its slots were printed as they were. The first slot is the dead
time; if it is 0, which takes a mark at the very first poll after power-up, the
dump is empty.

### Codec and Link

`Codec` computes with the real durations. `Recorded` is what the handler leaves
in a buffer when a waveform is sampled every 50 us from a given phase on: the
runs, a gap, a 0, and behind them what was there before. `TryDecoder` is one
round of the loop of `PopMsg()`. A frame reaches the line from the library
(`BuildRaw`) or from a remote control that follows the protocol (`RemoteFrame`,
external). Runs may be missing at the end of a frame (`Lost`). C's
precedence in `result->data & 0x3000 != 0x3000` and in `BuildRawDefault`'s
test for RC5 is modelled as C evaluates it.

`PktTable` constructs the entries of `pktInfo[]` element by element. The
literals lie side by side in read-only memory, in the order of the source
(g++ `-O0`) or in the reverse (`-Os`); `Layouts` has both. What lies behind the
very last literal is unknown: the constant `Behind` is a set of such data, and all
that is assumed of it is that somewhere in it there is a 0, at which the copy ends.
`TableAsWritten` says that `Codec`'s use of the lists as sequences is right, whatever
that data is, and exactly when a copy leaves its member (`EndsInTime`; see section 5).

### Transmitter

`hw` chooses the hardware at the start, so that one module and one run cover
both. The three stores of `Timer16b::TxHw::Enable()` are three actions, because
the counter runs on. `Interrupt` and `Fetch` are `ProcessISR()` under the two
drivers. `Tick` advances the counter (fast PWM: back to 0 after `ICRn`, to the
end if `ICRn` was missed) or `micros()`, both modulo their widths. What is due
may be held up for `MaxLatency` ticks: the constant stands for the other
interrupts of an Arduino and for the instructions of the handler itself. The
assumption about it restates the comment on `SETUPTIME`: every symbol is long
enough for the handler to tell the hardware about the next. `asked`, `known`, `age`
and `lag` are history variables: `asked` is the packet of the last message that has
one, and `known` says whether the message being sent does. If it does not, its
protocol being unknown, `Send()` transmits what `txBuf` still holds
(`ir_message.cpp:18`). `Waveform` has an action of its own for that, `StartAgain`, so
that it is not taken for the transmission of the message that was asked for.

### Timers and IrHw

`Timers` translates `SetMode()`, `SetCOMnx()` and the macros that write a bit
field into a register, with registers as numbers. In `IrHw` an operation puts
its register writes into `todo`, in the order of the source, and `Store` performs
one at a time while `Clock` advances the counter: the carrier timer of either
`TxHw`, or the timer that polls for `RxHw`. `hw` chooses at the start. What an
ATmega timer does is external: phase-correct PWM goes up and down, its compare
registers are buffered until the top, `ICRn` is not; in CTC mode nothing is.
`Init` is what the Arduino core leaves: an 8-bit PWM with a prescaler of 64, the
counter anywhere, and perhaps a compare match flagged. With a prescaler a `Clock` may
leave the counter alone. `Due` is an interrupt request of the receiver's timer; it may
be held up for `PollLatency` clocks (variable `late`), by other handlers or while
interrupts are off, and `Poll` serves it. `age` and `polls` are history: the clocks
since the last poll or since `Configure()`, and the number of polls, up to two.
`Fetching` allows the first symbol when `SETUPTIME` has passed, or at once on the
16-bit hardware, whose interrupt may come too early (`MCSetup`). The constants
are scaled: `SetupClocks` against `BYTE` stands for 1600 clocks against 256.

### ButtonTx and Repeater

`ButtonTx` counts milliseconds. `SendMsg` is the branch that finds the button
down; from then on `sending` is what `Send()` has still to put on the line, and
`loop()` does not run. `Push` may come at any time, as often as it likes: that
is the bounce. `Validate` compares `now - buttonInvalidStart` modulo `CLOCK`.

`Repeater` puts a second Arduino into the same room. Its receiver is `Receiver`,
polled every interval (`Elapse`); `Relay` is `loop()`: `PopMsg()` in one piece,
since it is short against an interval, and the begin of `Send()`, which blocks
for `relaying` intervals. `owed` remembers what was sent and has not been
relayed. `RoomAssumption` restates what the sketch's constant is good for: a
message and its gap (68 and 10 ms) are over within `BUTTONINVALID_PERIOD`
(100 ms); marks are not longer than `SIGFREE_MIN`; a message ends in a mark and leaves
room for its gap and a terminator in `rxBuf` (74 symbols and 2). Without either of the
last two a message is not recorded as it was sent: a space at its end is heard as
part of the gap, and an index that has stalled overwrites the last run.
The light of the repeater does not fall on its own receiver: if it does, it
hears itself, as every such repeater would.

## 3. The runs

| Run | Question | Bounds |
|---|---|---|
| `MCReceiver` | Is the receiver, compiled without optimisation, a mailbox for frames? | `PKTSYMB_MAX` 4, gap 2 polls, saturation at 4, 4-bit integers of two 2-bit bytes, two decoders |
| `MCReceiverOptimised` | What is left when the compiler drops and reorders the stores of `Reset()`? Indices stay in the buffer, and no frame is stuck. | as above, one decoder, gap 1 poll |
| `MCRxSniff` | Does `Print()` end, stay in the buffer, and print the frame if the line stays silent? | as above |
| `MCLink` | Is the table of protocols as written, every message sent as what it means, every frame received so by exactly one decoder, and are full messages repeated? | all words of 4 bits, repeated to the length of the protocol; sampling phases 0, 26, 49 us; whole frames and frames that lack their last 2 or 24 runs; an empty buffer or one with a long NEC or Sony frame; two repeaters in a row; both orders of the literals, and a 0 in the first to the fifth element behind them |
| `MCTransmitter` | Does either hardware put the packet on the line, in time, and return? | buffer of 4 symbols and the terminator, five packets (empty, short, full, too long; ending in a mark or a space), 4-bit counter, 3-bit clock, latency 1 |
| `MCIrHw` | Is a mark the carrier that was asked for, whatever the registers held, and is polling on time? | 8-bit timer of 8 values, 16-bit timer of 40, three carriers, periods of 4, 5 and 6 counts; symbols at any time; polls every 10 clocks, held up for 3 at most |
| `MCRepeater` | Are all messages of a bouncing, held button relayed, in order? | a message of one mark and one of five runs, 8 slots, `BUTTONINVALID_PERIOD` 10, clock of 13 values |
| `MCEditing`, `MCRxSniffRace`, `MCRepeat`, `MCStartBits`, `MCSetup` | Five statements of the documentation that the code does not keep; see section 5. | |

**Why the bounds are enough.** The receiver's behaviour depends on comparisons
only: accumulator against gap and threshold, index against buffer end. The
instances let every comparison go either way and every boundary be reached:
four slots hold the dead time, a mark, a gap and one more run, so that frames
end before the end of the buffer, at it, and stall; integers are as narrow as the
constants' assumption allows, so an accumulator that did not saturate would wrap;
two decoders let one fail and the next succeed. What
this says about larger sizes is proved (section 4). The transmitter's clocks
wrap several times in every behaviour, in the middle of a wait as well. The
codec's protocols treat each bit alike, so that words of four bits give each
pair of neighbouring bits; the phases are the two ends and the middle of the
interval. `SIGFREE_MIN`, `POLL_INTERVAL`, tolerances and durations of `MCLink`
are those of the source. `MCIrHw` reaches every value of every counter before
`setup()` and in every later phase, with carriers that rise and fall between
packets. In `MCRepeater` relaying the five-run message takes so long that a short
one is recorded, gap included, while `Send()` blocks: the case of NEC's repeat
frame in `ir/samples/README.md`.

**What they show.**

* `SuccessIsOneFrame`, `ImplementsMailbox`: a decoder that reports success has
  read only elements of the one completed frame, although the handler may have
  written to the buffer throughout and `rxPos` may have moved before it was
  read. Gap and terminator behind the frame are what protects it: the handler
  writes at or behind them, or the same gap with a longer duration.
* `SpaceBeforeComplete`, `CompletesPromptly`, `FrameCompletes`: `rxAccum` is not
  cleared by `Reset()`, but a frame that has its first mark has had an edge that
  cleared it. A frame may also complete when a *mark* longer than `SIGFREE_MIN`
  ends: the code tests the duration and the new level and not what ended.
* `RunsAlternate`: whatever `Reset()` interrupts, marks are at odd indices.
* `ReadsStayInBuffer`: decoders read past the frame, never past the array.
* `FrameIsTaken`: an unknown frame is discarded, so the receiver is never stuck.
* `NeverOverruns`, `SilentLinePrintsFrame`, `PrintEnds`: see `RxSniff`.
* `ReceivedAsMeant`, `OneDecoder`, `OnlyBitsSent`: the tolerances of the
  five protocols absorb the sampling and do not overlap; the order in
  `pktInfo[]` does not matter; stale symbols are not decoded.
* `FullMessagesRepeat`: a message of 32 bits, or of none, survives the repeater.
* `ImplementsWaveform`: what is on the line is the packet of the message, and the last
  packet once more if and only if the message is of an unknown protocol.
* `SymbolLasts`, `NoDrift`: how long symbols last. The loop of the 8-bit hardware never
  ends one early, and is late by two latencies at most; the timer counts one more than
  it is told, and is early or late by the latency of the interrupt at either end.
  Delays of the timer do not add up because the counter never stops; those of the
  loop do, and `NoDrift` claims nothing there.
* `OffWhenReturned`, `SendReturns`: see `Transmitter`.
* `TableAsWritten`: every list of the table is ended by a 0 that static storage
  provides, and a copy leaves its member in one case only: it is that of the last
  literal of the table, no other literal lies behind it, and the first three elements
  of what does are not 0. `Anything` has data of both kinds.
* `SentAsMeant`: one loop sends one or two bits per symbol as the protocol has
  them. It excepts RCMM messages of an odd length, which fill the buffer.
* `MarkHasCarrier`: between any two stores of `SetConfig()` the pin is connected only
  while the timer is set to the carrier of this packet, of a period that is not cut to
  a byte; the counter of the 8-bit timer is within that period by then. (Of the
  counter of the 16-bit timer that cannot be said; see section 5.) The doubts of
  `arduino_timers.h:154` about the order are unfounded, because mode and
  prescaler of the two configurations agree, and because `Configure()` comes first.
* `PollsOnTime`: the polling period is `OCRnA` + 1 clocks (801 and not 800, 50.06 us).
  No poll is later than that, but for the time an interrupt is held up, from
  `Configure()` on, because `Configure()` sets `OCRnA` and then clears the counter; nor is
  it earlier, except that the first poll may answer a compare match from before
  `Configure()`, which does not clear the flag, and that the second then follows sooner.
* `MessagesSeparated`, `ButtonAnswers`: a held button repeats the message with a
  gap that the receiver notices, and unsigned subtraction survives the wrap of
  `millis()`.
* `RelayedInOrder`, `NothingLost`, `EveryMessageRelayed`: the one buffer is
  enough, since by the time the next frame is complete the repeater has sent the last.
  `ir/samples/README.md:9-17` describes this case; how soon the repeated message may
  follow is not a property here.

**Deadlock** is checked except in `Link`, whose behaviours follow one
message to its end.

**Fairness.** `Receiver`: the timer interrupt recurs for ever and `loop()` is
called for ever, so `ProcessISR` and `Main` are weakly fair; nothing is assumed
of the line or of calls to `Reset()`. `RxSniff`: the sketch's steps as well, since
the serial port drains. `Transmitter`: time passes, enabled interrupts are
served, `Send()` goes on; nobody has to call it. `Repeater`: time passes, light
travels and both `loop()`s run; nobody has to push or let go of the button.
`IrHw` has safety properties only.

## 4. The proofs

Each theorem holds for every value of the constants that the module's assumption
allows, and each one that names a property says of `Spec` (of `SniffSpec` for
`RxSniff`, of `RoomSpec` for `Repeater`) what a run checks on one instance.

| Module | Theorem | Property | Holds for |
|---|---|---|---|
| `ReceiverProofs` | `TypeCorrect` | `TypeOK`: no index leaves the buffer, no duration wraps | all builds |
| | `ReadsInBuffer` | `ReadsStayInBuffer` | all builds |
| | `AlternatingRuns` | `RunsAlternate` | unoptimised builds |
| | `PromptCompletion` | `CompletesPromptly` | unoptimised builds |
| | `SilentCompletion` | `SpaceBeforeComplete` | unoptimised builds |
| `MailboxProofs` | `SuccessfulDecode` | `SuccessIsOneFrame` | unoptimised builds |
| | `Refinement` | `ImplementsMailbox` | unoptimised builds |
| `RxSniffProofs` | `SniffTypeCorrect` | `SniffTypeOK` | all builds |
| | `DumpInBuffer` | `NeverOverruns` | all builds |
| | `SilentDump` | `SilentLinePrintsFrame` | unoptimised builds |
| `LinkProofs` | `AnyOrder` | `OneDecoder` | everything |
| | `MessagesAsMeant` | `SentAsMeant` | messages other than RC5 |
| | `WholeFramesReceived` | `ReceivedAsMeant` | standard frames and messages |
| | `NoBitsInvented` | `OnlyBitsSent` | standard frames and messages |
| | `FullMessagesPassOn` | `FullMessagesRepeat` | everything |
| | `LinkTypeCorrect` | `TypeOK`: no recorded duration wraps | everything |
| | `TableIsWritten` | `TableAsWritten` | both orders of the literals and any data behind them |
| `TransmitterProofs` | `TransmitterTypeCorrect` | `TypeOK` | both hardwares |
| | `OffAfterSend` | `OffWhenReturned` | both hardwares |
| | `PacketOnLine` | `ImplementsWaveform` | both hardwares |
| | `EdgesOnTime` | `NoDrift` | the 16-bit timer, of which it speaks |
| | `SymbolsLast` | `SymbolLasts` | both hardwares |
| `TimersProofs` | `Mode16bAsAsked`, `Mode8bAsAsked`, `OutputAsAsked` | | every mode, prescaler and byte |
| `IrHwProofs` | `HwTypeCorrect` | `HwTypeOK` | both timers |
| | `CarrierOnMark` | `MarkHasCarrier` | both timers |
| | `PolledOnTime` | `PollsOnTime` | the polling timer |
| `RepeaterProofs` | `RoomTyped` | `RoomTypeOK` | every set of messages and clock |
| | `SilenceBetween` | `MessagesSeparated` | every set of messages and clock |
| | `RelaysOldest` | `RelayedInOrder` | every set of messages and clock |
| | `NeverOwesMore` | `NothingLost` | every set of messages and clock |

### Assumptions

* `ConstAssumption` (`Receiver`): two bytes make an `int16_t`, the threshold lies
  above the gap and more than two polls below the largest `int16_t`, the buffer's
  last index is even and at least 2. The code has 50, 10000, 32000, 32767, 256, 76.
* `TransmitterAssumption`: packets fit, and every symbol leaves the handler time
  to tell the hardware about the next. `IrHw`'s assumption: `SETUPTIME` lasts four
  rounds of an 8-bit counter (1600 clocks against 4 * 256), the period of a carrier fits
  a byte (those of `pktInfo[]`, 36 to 40 kHz, have 200 to 222 counts), and a poll is
  held up for less than a polling period. That is about interrupts only: nothing
  in the library turns them off for longer.
* `BehindAssumption` (`PktTable`): somewhere in the memory behind the literals there is a 0.
* `SamplingAssumption` (`Codec`): the interval between two samples is at most the
  tolerance of the shortest symbol (50 against 105 us), a gap is longer than
  every space of a protocol that is received, and it fits an `int16_t`.
* `RoomAssumption` (`Repeater`): messages are over, and their gap has been seen, within
  `BUTTONINVALID_PERIOD`, they end in a mark and fit in the buffer, no symbol is
  longer than `SIGFREE_MIN`, and the clock does not go round within a period.
* `LinkAssumption`: messages and frames have a protocol of `pktInfo[]` and at most 32 bits.
* *Standard frames and messages*: a Sony frame has 12 or 24 bits, which is all
  `DecodePkt_Sony()` takes; an RC5 frame has 14, and the first one is 1, because the
  first half-bit of an RC5 frame cannot be heard and a 0 would begin with a mark
  where its decoder takes a space for granted. Sketches do not send RC5: `BuildRawDefault` tests its
  encoding wrongly and cannot build it (section 5). The frames and messages of
  `MCLink` are all of this kind. `OneDecoder` and `FullMessagesRepeat` need none of it.

### Why the properties are invariant

*Receiver.* `TypeOK` is not inductive on its own: that `pos` stays in range needs
that the last element is always 0; `Bounds` says both. `RunsAlternate` depends on
how far `Reset()` is. `Recording` says what has been cleared at each of its points
(`ResetProgress`), that runs below `rxPos` have the sign of their index
(`RunsSigned`), that `rxLast` is the parity of `rxPos` (`Parity`), and
`CompletesPromptly`. `SpaceBeforeComplete` needs `Silence` as well: the accumulator
of a space counts no more polls than `quiet`.
For the mailbox two parts are added. `BehindGap`: while a frame is complete,
`rxPos` is at the gap or behind it, and once it has moved on, the gap holds a
value that no symbol matches. `Reading`: what the decoder has seen below the gap
are the elements of the frame, and `pos` passes the gap only where it can no
longer succeed. The inductive invariant is
`IInv == Bounds /\ Recording /\ BehindGap /\ Reading`. Each lemma treats the
actions one by one, and `Refinement` maps each step to a step of `RxMailbox` or
to a stutter. Torn reads need an argument of their own: only the gap and what is
behind it are ever about to be written, so below the gap a read is not torn.

*RxSniff* builds on the same `IInv`. That `Print()` stays in the buffer needs
only the 0 in the last element. That it prints the frame if the line stays silent
needs to know where the gap is and what is behind it while the handler goes on
storing it (`GapStored`), that the first slot is not 0 (`DeadTime`), where in
`Print()` the sketch is (`PrintPlace`), and that what has been printed and what is
still to be printed are the frame that was there when `PopMsg()` returned
(`FrameStays`, `PrintedSoFar`).

*Transmitter.* `Control` says where `Send()` can be in which state of transmitter
and hardware, `Buffer` that `txBuf` holds the packet that was asked for; the two give
type correctness, `OffWhenReturned` and the refinement. Durations need the clock:
`TimerRuns` relates the 16-bit counter and its top to the age of the current
symbol and to how late the last interrupt was, `ClockRuns` does so for `micros()`
and the loop of the 8-bit hardware. Both count modulo the width of the clock.

*IrHw.* A list of register stores is in progress while the counter runs.
`TxStage` and `RxStage` say, for each point between two stores, what each register
holds, so that the pin is connected only when mode, top and compare value are
those of the carrier; `Settling` bounds how long a counter that starts anywhere can
stay beyond its new top, which is why `SETUPTIME` is long enough for the 8-bit timer;
`Counting` keeps the counter of the receiver's timer within its period. `Punctual` says
that the age is at most the counter until the compare match comes, and at most the
period and the delay until it is served; and, once two polls have gone by, that it is
not less than that but for the delay of the poll before.

*Codec and Link.* The operators come first. `Edges`, `Runs` and `FlattenSeq` are
recursive functions; they are unfolded by induction over a set of indices, which
is first order: a set of natural numbers that is not empty has a least element.
A packet is preamble, pairs of symbols and postamble (`PacketShape`), and what
`BuildRaw()` and a remote control make of the same bits is the same packet
(`RawPacket`, `RemotePacket`). Except in RC5 marks and spaces alternate, so that the
runs that are heard are the symbols (`AlternatingRuns`); of RC5 it is proved that
the half-bits of the runs are the levels of the frame, up to the last mark
(`RC5Runs`). Every run is recorded with an error of less than an interval
(`RecordedNear`), whatever the phase, and behind the last one there is a gap
(`RecordedGap`); so each decoder reads a bit as that bit and stops where it should
(`NECFrame`, `SonyFrame`, `RC5Frame`). Two decoders never agree, since their
preambles exclude each other (`DecodersDisjoint`). A frame that is cut short is a
frame of its first bits (`CutPacket`), or only a preamble, or, in RC5, too short.
The invariants are then simple: `Popped` (the buffer holds a recording of the line
without its last runs, the decoders before the current one have rejected it, and the
answer is that of the first that accepts it), `Sourced` (before the first repeater, the
line carries what was meant), and `Relayed` (after it, the line is what `BuildRaw()`
makes of the last answer).

Two more invariants are about what fits. `Link`'s `TypeOK` needs `OnAir` of the line:
no symbol is longer than NEC's first mark, and from some index on marks and spaces
come in pairs, whichever is first in a pair. Both hold of every packet, also of
the RC5 packets that are built wrongly, and of one that is cut off at a full buffer.
Hence no three symbols are heard as one, no run is longer than twice that mark
(`ShortRuns`), and its samples fit an `int16_t` (`RecordedFits`). `TableAsWritten`
is about constants, and its state only names the protocol; the proof follows the
constructor. The lists lie in memory with their zeros, in either order
(`MemoryValue`), so each copy takes the list or, of an empty one, the 0 and what
follows it up to the next 0 (`CopiesValue`): at most two elements, since no list is
longer than two, or behind the last literal as many as there are. No member takes
less than three, so a copy leaves the members filled before it as they were and those
to come at 0 (`FilledTo`), and each reads as its list (`ReadValue`). The copy of the
last literal of the table may be as long as it likes: `bits[3]` of RC5 is the last
member of the last entry, begins with the 0 of the list, and there is nothing behind it
in the entry to be spoilt. `FromList` tells when it is longer than the member.

*Repeater.* What has to be shown is a relation of phases: where in its message the
sender is, how much of it the receiver has recorded, and how long the repeater will
still be relaying the message before. All three are functions of the age, the time
since the button was pushed. `Remains` says so of the sender (symbol i begins when
the symbols before it are over, a sum that `TimesFacts` unfolds by induction),
`Tracks` of the receiver, which ends a symbol one poll after the sender does, and
`Underway` bounds the age plus what is left of the earlier message by
`BUTTONINVALID_PERIOD`: both count the same intervals, one up and one down. So the
buffer is emptied before the button is valid again, or, at the latest, in the same
interval (`Waits`, `Overlap`), and never is a third message owed. That no other
message can be read out of the buffer (`RecordedOnce`) is because the gap matches
no symbol. Neither part holds without the others: without the age the receiver
might still be recording when the next message begins.

### Only model-checked

* Liveness: `FrameCompletes`, `FrameIsTaken`, `PrintEnds`, `SendReturns`,
  `EveryMessageRelayed`, `ButtonAnswers`. TLAPS does not reason about fairness and ENABLED.

Every invariant that a passing run checks is proved, and so is every action property.
When stores are reordered, only the first two of the receiver's properties are
claimed: there `RunsAlternate`, `SuccessIsOneFrame` and `SpaceBeforeComplete` fail
(`MCEditing` shows why).

## 5. Where code and documentation differ

* `MCEditing`: in an optimised build `RXSTATE_BUSY` does not keep the handler
  out of `Reset()` (`ir_receiver.h:27`).
* `MCRxSniffRace`: the sniffer prints a buffer that is already being overwritten.
* `MCRepeat`: a Sony message of 12 or 24 bits is repeated as other bits: decoders
  align them low, `BuildRawDefault` sends from the high end.
* `MCStartBits`: the check of RC5's start bits never rejects anything, because `!=` binds
  tighter than `&`. (The same slip in `BuildRawDefault` gives RC5 packets two bits
  per symbol; `README.md:24-27` lists RC-5 as untested.)
* `MCSetup`: the first symbol may start without the setup time, because the
  overflow flag of the running counter is not cleared before its interrupt is enabled.

Four more, without a run. `CopyNTA()` tests for the end after it has copied, and never
the first element. Of a list that is only its 0 it copies what lies behind as well, up to
the next 0. That stays in the member for every list but RC5's last (`ir_protocol.cpp:69`):
when the literals lie in the order of the source, other data follows that one, and three
elements of it without a 0 leave `pktInfo[]`. `ir_packet.h:91` and `:100` ask for nothing
but the 0 that the list has. `TableAsWritten` says that this is the only case.
For a message of an unknown protocol `Send()` transmits the
last packet once more (`ImplementsWaveform` allows it there and nowhere else); no
document says what it should do. The handler goes on recording behind a completed frame,
although `ir_receiver.h:15` says that the receiver must be reset to listen again; the
mailbox holds all the same. And `SetCarrier()` of `Timer16b::TxHw` lowers `ICRn` while
the counter runs: if the counter is beyond the new top while it goes up, it misses it and
runs to 0xFFFF, 4 ms, which `SETUPTIME` (100 us) does not cover, so that the
first marks have no carrier. It happens after boot, when the core's PWM has
counted to 255, and when a packet at 38 or 40 kHz follows one at 36 kHz.
`MarkHasCarrier` therefore says of the 16-bit timer only which carrier its registers
hold, and of the 8-bit timer that its counter is within the period as well.

## 6. Not modelled

Not modelled are the unused RC6 unit; formatting of serial and debug output;
preprocessor checks; the tables that bind registers and pins of a board to
timers; a third compare channel; the SparkFun sketch, which only names messages.
`PktInfo::IsValid`, `ClearAllInt` and the classes for sequences of messages in
`ir_message.h` are never used. A message of protocol `NONE` calls an unset
pointer (`ir_packet.cpp:13`); no sketch sends one.
