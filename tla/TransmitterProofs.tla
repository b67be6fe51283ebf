------------------------- MODULE TransmitterProofs -------------------------
(***************************************************************************)
(* What Transmitter's runs check on small instances, proved for every      *)
(* buffer length, counter width, clock width and latency, and for every    *)
(* set of packets that TransmitterAssumption allows.                       *)
(*                                                                         *)
(* Control says where Send() can be in which state of the transmitter and  *)
(* of its hardware; Buffer, that txBuf holds the packet that was asked     *)
(* for.  Both are about order only and carry the refinement.  TimerRuns    *)
(* and ClockRuns relate the counter and the clock to the history variable  *)
(* age and to lag, and carry the properties about durations.               *)
(***************************************************************************)
EXTENDS Transmitter, SequenceTheorems, TLAPS

\* A duration that either hardware can be told to wait for.
Waitable(d) ==
  /\ d \in Nat
  /\ d > MaxLatency
  /\ 2 * d < COUNTER
  /\ d + 2 * MaxLatency < CLOCK
  /\ 2 * d + 2 * MaxLatency + 1 < AgeCap

\* Where Send() is while the transmitter and its hardware are in which state.
Control ==
  /\ pc = "loop" => txState = TXSTATE_IDLE
  /\ pc \notin {"loop", "wait"} => txState = TXSTATE_TRANSMITTING
  /\ txState = TXSTATE_IDLE => txPos = 0 /\ level = 0
  /\ pc \in {"enable", "icr", "toie"} => txPos = 0
  /\ toie = (pc = "wait" /\ txState = TXSTATE_TRANSMITTING)
  /\ pc \in {"icr", "toie"} \/ toie => hw = "timer16b"
  /\ pc \in {"begin", "spin"} => hw = "sysclk"

\* txBuf begins with what was asked for and a 0.
Buffer ==
  /\ asked \in Seq(Int \ {0, 1})
  /\ Len(asked) <= PKTSYMB_MAX
  /\ txSymbols[Len(asked)] = 0
  /\ \A i \in 1 .. Len(asked) :
        txSymbols[i - 1] = asked[i] /\ Waitable(Abs(asked[i]))
  /\ txPos <= Len(asked)

\* What the hardware has been told to wait for.
Awaited == IF txPos = 0 THEN SETUPTIME ELSE Abs(txSymbols[txPos - 1])

\* The count at which the current symbol began; below 0 if it began before
\* the counter was last at 0.
Begun == tcnt - age + (IF tov THEN icr + 1 ELSE 0)

\* The counter does not run past its top, and what the symbols so far took too
\* long is one count each and the difference between the latency of the last
\* interrupt and that of the first.
TimerRuns ==
  /\ pc \in {"icr", "toie"} => tcnt <= late /\ lag = 0
  /\ pc = "toie" => icr = 2 * SETUPTIME
  /\ toie =>
       /\ icr = 2 * Awaited
       /\ IF tov THEN tcnt <= late + (IF txPos = 0 THEN MaxLatency ELSE 0)
                 ELSE late = 0 /\ tcnt <= icr
       /\ txPos <= 1 => lag = 0
       /\ txPos >= 1 =>
            /\ Begun \in 0 .. 2 * MaxLatency
            /\ txPos >= 2 => Begun <= MaxLatency
            /\ lag - (txPos - 1) - Begun \in -2 * MaxLatency .. 0

\* How long wait_usec() has been waiting.
Elapsed == (now - tstart) % CLOCK

\* wait_usec() began no later than MaxLatency after the symbol, and it has not
\* overslept by more than MaxLatency, so the clock has not gone round.
ClockRuns ==
  /\ pc \in {"begin", "spin"} => nextEvent = Awaited
  /\ pc = "begin" => age = late
  /\ pc = "spin" =>
       /\ age - Elapsed \in 0 .. MaxLatency
       /\ Elapsed >= nextEvent => late = Elapsed - nextEvent

IInv == TypeOK /\ Control /\ Buffer /\ TimerRuns /\ ClockRuns

-----------------------------------------------------------------------------
(* Arithmetic.                                                             *)

\* A number below the modulus is its own remainder.
LEMMA ModSmall ==
  ASSUME NEW n \in Nat, NEW x \in 0 .. n - 1
  PROVE  x % n = x
OBVIOUS

\* The difference of two readings of a clock of n values.
LEMMA ModDifference ==
  ASSUME NEW n \in Nat, NEW a \in 0 .. n - 1, NEW b \in 0 .. n - 1
  PROVE  (a - b) % n = IF a >= b THEN a - b ELSE a - b + n
OBVIOUS

\* The absolute value of an integer.
LEMMA AbsValue ==
  ASSUME NEW x \in Int
  PROVE  Abs(x) \in Nat /\ (Abs(x) = 0 => x = 0)
BY DEF Abs

\* The minimum of two, without CHOOSE.
LEMMA MinOfTwo ==
  ASSUME NEW a \in Int, NEW b \in Int
  PROVE  Min({a, b}) = IF a <= b THEN a ELSE b
BY DEF Min

\* The types that TransmitterAssumption gives the constants.
LEMMA ConstantTypes ==
  /\ PKTSYMB_MAX \in Nat \ {0}
  /\ SETUPTIME \in Nat /\ COUNTER \in Nat \ {0} /\ CLOCK \in Nat \ {0}
  /\ MaxLatency \in Nat /\ AgeCap \in Nat
<1>1. SETUPTIME \in Nat /\ 2 * SETUPTIME < COUNTER /\ SETUPTIME + 2 * MaxLatency < CLOCK
  BY TransmitterAssumption
<1> QED
  BY <1>1, TransmitterAssumption

\* What the source says of SETUPTIME, and what the durations of every packet
\* have to satisfy as well.
LEMMA DurationsAreWaitable ==
  /\ Waitable(SETUPTIME)
  /\ \A p \in Packets :
       p \in Seq(Int \ {0, 1}) /\ \A i \in 1 .. Len(p) : Waitable(Abs(p[i]))
<1> DEFINE D == {SETUPTIME} \cup UNION {{Abs(p[i]) : i \in DOMAIN p} : p \in Packets}
<1>1. \A d \in D : d \in Nat => Waitable(d)
  BY TransmitterAssumption DEF Waitable
<1>2. SETUPTIME \in D /\ SETUPTIME \in Nat
  BY TransmitterAssumption
<1>3. ASSUME NEW p \in Packets, NEW i \in 1 .. Len(p)
      PROVE  Abs(p[i]) \in D /\ Abs(p[i]) \in Nat
  <2>1. p \in Seq(Int \ {0, 1})
    BY TransmitterAssumption
  <2>2. DOMAIN p = 1 .. Len(p) /\ p[i] \in Int
    BY <2>1
  <2> QED
    BY <2>2, AbsValue
<1> QED
  BY <1>1, <1>2, <1>3, TransmitterAssumption

-----------------------------------------------------------------------------
(* The order of things: TypeOK, Control and Buffer are inductive.          *)

Order == TypeOK /\ Control /\ Buffer

\* The order holds at first.
LEMMA OrderInit == Init => Order
<1> SUFFICES ASSUME Init PROVE Order
  OBVIOUS
<1>1. Waitable(SETUPTIME)
  BY DurationsAreWaitable
<1>2. /\ 0 \in 0 .. PKTSYMB_MAX /\ 0 \in 0 .. COUNTER - 1 /\ 0 \in 0 .. CLOCK - 1
      /\ SETUPTIME \in 0 .. CLOCK - 1
      /\ 0 \in 0 .. MaxLatency /\ 0 \in 0 .. AgeCap
  BY <1>1, ConstantTypes DEF Waitable
<1>3. txSymbols \in [0 .. PKTSYMB_MAX -> Int]
  BY DEF Init
<1>4. TypeOK
  BY <1>2, <1>3, EmptySeq
  DEF Init, TypeOK, Places, TXSTATE_IDLE, TXSTATE_TRANSMITTING
<1>5. Control
  BY DEF Init, Control, TXSTATE_IDLE, TXSTATE_TRANSMITTING
<1>6. Buffer
  BY ConstantTypes DEF Init, Buffer
<1> QED
  BY <1>4, <1>5, <1>6 DEF Order

\* Before the terminator there is a symbol that either hardware can wait for,
\* and behind it the packet goes on.
LEMMA SymbolWaitable ==
  ASSUME Order
  PROVE  /\ txPos \in 0 .. Len(asked) /\ Len(asked) \in 0 .. PKTSYMB_MAX
         /\ symbol \in Int
         /\ EndOfPacket <=> txPos = Len(asked)
         /\ ~EndOfPacket => /\ symbol = asked[txPos + 1]
                            /\ symbol # 1
                            /\ Waitable(Abs(symbol))
<1>1. /\ Len(asked) \in Nat /\ txPos \in 0 .. Len(asked)
      /\ Len(asked) \in 0 .. PKTSYMB_MAX /\ symbol \in Int
  BY ConstantTypes DEF Order, TypeOK, Buffer, symbol
<1>2. CASE txPos = Len(asked)
  BY <1>1, <1>2 DEF Order, Buffer, EndOfPacket, symbol
<1>3. CASE txPos # Len(asked)
  <2>1. txPos + 1 \in 1 .. Len(asked)
    BY <1>1, <1>3
  <2>2. asked[txPos + 1] \in Int \ {0, 1}
    BY <2>1, ElementOfSeq DEF Order, Buffer
  <2>3. symbol = asked[txPos + 1] /\ Waitable(Abs(symbol))
    BY <1>1, <2>1 DEF Order, Buffer, symbol
  <2> QED
    BY <1>1, <1>3, <2>2, <2>3 DEF EndOfPacket
<1> QED
  BY <1>2, <1>3

\* Send() finds or makes its packet in txBuf, terminated.
LEMMA BufferSend ==
  ASSUME Order, Send
  PROVE  Buffer' /\ txSymbols' \in [0 .. PKTSYMB_MAX -> Int] /\ asked' \in Seq(Int)
<1>1. CASE UNCHANGED <<txSymbols, asked>>
  BY <1>1 DEF Order, Buffer, TypeOK, Send
<1>2. ASSUME NEW p \in Packets, BuildRaw(p),
             asked' = IF Len(p) > PKTSYMB_MAX THEN SubSeq(p, 1, PKTSYMB_MAX) ELSE p
      PROVE  Buffer' /\ txSymbols' \in [0 .. PKTSYMB_MAX -> Int] /\ asked' \in Seq(Int)
  <2> DEFINE n == IF Len(p) > PKTSYMB_MAX THEN PKTSYMB_MAX ELSE Len(p)
  <2>1. /\ p \in Seq(Int \ {0, 1}) /\ Len(p) \in Nat
        /\ \A i \in 1 .. Len(p) : p[i] \in Int \ {0, 1} /\ Waitable(Abs(p[i]))
    BY DurationsAreWaitable, ElementOfSeq
  <2>2. n \in 0 .. PKTSYMB_MAX /\ n <= Len(p)
    BY <2>1, ConstantTypes
  <2>3. /\ asked' \in Seq(Int \ {0, 1})
        /\ Len(asked') = n
        /\ \A i \in 1 .. n : asked'[i] = p[i]
    <3>1. CASE Len(p) > PKTSYMB_MAX
      BY <1>2, <2>1, <3>1, ConstantTypes
    <3>2. CASE ~(Len(p) > PKTSYMB_MAX)
      BY <1>2, <2>1, <3>2
    <3> QED
      BY <3>1, <3>2
  <2>4. /\ txSymbols' \in [0 .. PKTSYMB_MAX -> Int]
        /\ txSymbols'[n] = 0
        /\ \A i \in 1 .. n : txSymbols'[i - 1] = p[i]
    <3>1. \A i \in 0 .. PKTSYMB_MAX :
            txSymbols'[i] = IF i \in {PKTSYMB_MAX, Len(p)} THEN 0
                            ELSE IF i < Len(p) THEN p[i + 1] ELSE txSymbols[i]
      BY <1>2 DEF BuildRaw
    <3>2. txSymbols' \in [0 .. PKTSYMB_MAX -> Int]
      <4>1. \A i \in 0 .. PKTSYMB_MAX : i < Len(p) => p[i + 1] \in Int
        BY <2>1, ConstantTypes
      <4>2. \A i \in 0 .. PKTSYMB_MAX : txSymbols[i] \in Int
        BY DEF Order, TypeOK
      <4> QED
        BY <1>2, <4>1, <4>2 DEF BuildRaw
    <3>3. txSymbols'[n] = 0
      BY <2>1, <2>2, <3>1
    <3>4. ASSUME NEW i \in 1 .. n
          PROVE  txSymbols'[i - 1] = p[i]
      BY <2>1, <2>2, <3>1, ConstantTypes
    <3> QED
      BY <3>2, <3>3, <3>4
  <2>5. txPos' = 0
    BY DEF Send
  <2> QED
    BY <2>1, <2>2, <2>3, <2>4, <2>5 DEF Buffer
<1> QED
  BY <1>1, <1>2 DEF Send

\* The types of the history variables when a symbol ends.
LEMMA SymbolEndsType ==
  ASSUME Order, SymbolEnds
  PROVE  age' = 0 /\ late' = 0 /\ lag' \in Int
<1>1. CASE txPos = 0
  BY <1>1 DEF SymbolEnds
<1>2. CASE txPos # 0
  <2>1. txSymbols[txPos - 1] \in Int /\ lag \in Int /\ age \in Int
    BY <1>2, ConstantTypes DEF Order, TypeOK
  <2>2. Abs(txSymbols[txPos - 1]) \in Int
    BY <2>1, AbsValue
  <2>3. Ticks(Abs(txSymbols[txPos - 1])) \in Int
    BY <2>2 DEF Ticks
  <2> QED
    BY <1>2, <2>1, <2>3 DEF SymbolEnds
<1> QED
  BY <1>1, <1>2

\* The part of the state that both kinds of hardware leave to ProcessISR().
LEMMA EmitSymbolOrder ==
  ASSUME Order, EmitSymbol
  PROVE  /\ Buffer'
         /\ txPos' = txPos + 1 /\ txPos' \in 1 .. PKTSYMB_MAX
         /\ UNCHANGED <<txState, txSymbols, asked>>
         /\ level' \in {0, 1}
         /\ Waitable(Abs(symbol))
         /\ age' = 0 /\ late' = 0 /\ lag' \in Int
<1>1. /\ txPos \in 0 .. Len(asked) /\ Len(asked) \in 0 .. PKTSYMB_MAX
      /\ txPos # Len(asked) /\ Waitable(Abs(symbol))
  BY SymbolWaitable DEF EmitSymbol
<1>2. age' = 0 /\ late' = 0 /\ lag' \in Int
  BY SymbolEndsType DEF EmitSymbol
<1>3. Buffer'
  BY <1>1 DEF Order, Buffer, EmitSymbol
<1> QED
  BY <1>1, <1>2, <1>3, ConstantTypes DEF EmitSymbol

\* At the terminator the transmitter falls idle and leaves txBuf as it is.
LEMMA FinishPacketOrder ==
  ASSUME Order, FinishPacket
  PROVE  /\ Buffer'
         /\ txPos' = 0 /\ level' = 0 /\ txState' = TXSTATE_IDLE
         /\ UNCHANGED <<txSymbols, asked>>
         /\ age' = 0 /\ late' = 0 /\ lag' \in Int
<1>1. age' = 0 /\ late' = 0 /\ lag' \in Int
  BY SymbolEndsType DEF FinishPacket
<1>2. Buffer'
  BY SymbolWaitable DEF Order, Buffer, FinishPacket
<1> QED
  BY <1>1, <1>2 DEF FinishPacket

\* The remainder of a division by a positive number.
LEMMA ModBound ==
  ASSUME NEW n \in Nat \ {0}, NEW x \in Int
  PROVE  x % n \in 0 .. n - 1
OBVIOUS

\* The counts of a duration that can be waited for fit the counter.
LEMMA CountsType ==
  ASSUME NEW d, Waitable(d)
  PROVE  Counts(d) = 2 * d /\ Counts(d) \in 0 .. COUNTER - 1
<1>1. 2 * d \in 0 .. COUNTER - 1 /\ COUNTER \in Nat
  BY ConstantTypes DEF Waitable
<1> QED
  BY <1>1, ModSmall DEF Counts

\* A duration that can be waited for fits the clock.
LEMMA NextEventType ==
  ASSUME NEW d, Waitable(d)
  PROVE  d \in 0 .. CLOCK - 1
BY ConstantTypes DEF Waitable

\* The interrupt handler keeps the order.
LEMMA OrderInterrupt ==
  ASSUME Order, Interrupt
  PROVE  Order'
<1>1. txState = TXSTATE_TRANSMITTING /\ pc = "wait" /\ toie /\ hw = "timer16b"
  BY DEF Interrupt, Order, Control
<1>2. CASE EmitSymbol /\ SetModEventTime(Abs(symbol)) /\ UNCHANGED toie
  <2>1. icr' \in 0 .. COUNTER - 1 /\ tcnt' = tcnt
    BY <1>2, EmitSymbolOrder, CountsType DEF SetModEventTime
  <2>2. /\ tov' \in BOOLEAN /\ toie' \in BOOLEAN /\ done' \in BOOLEAN
        /\ known' \in BOOLEAN
    BY <1>2 DEF Interrupt, sysclk, EmitSymbol, Order, TypeOK
  <2>3. TypeOK'
    BY <1>2, <2>1, <2>2, EmitSymbolOrder, ConstantTypes
    DEF Interrupt, sysclk, Order, TypeOK
  <2>4. Control'
    BY <1>1, <1>2, EmitSymbolOrder
    DEF Interrupt, Order, Control, TXSTATE_IDLE, TXSTATE_TRANSMITTING
  <2> QED
    BY <1>2, <2>3, <2>4, EmitSymbolOrder DEF Order
<1>3. CASE FinishPacket /\ toie' = FALSE /\ UNCHANGED <<tcnt, icr>>
  <2>1. /\ tov' \in BOOLEAN /\ toie' \in BOOLEAN /\ done' \in BOOLEAN
        /\ known' \in BOOLEAN
    BY <1>3 DEF Interrupt, sysclk, FinishPacket, Order, TypeOK
  <2>2. TypeOK'
    BY <1>3, <2>1, FinishPacketOrder, ConstantTypes
    DEF Interrupt, sysclk, Order, TypeOK
  <2>3. Control'
    BY <1>1, <1>3, FinishPacketOrder
    DEF Interrupt, Order, Control, TXSTATE_IDLE, TXSTATE_TRANSMITTING
  <2> QED
    BY <1>3, <2>2, <2>3, FinishPacketOrder DEF Order
<1> QED
  BY <1>1, <1>2, <1>3 DEF Interrupt

\* So does the loop that polls the clock.
LEMMA OrderFetch ==
  ASSUME Order, Fetch
  PROVE  Order'
<1>1. txState = TXSTATE_TRANSMITTING /\ pc = "spin" /\ ~toie /\ hw = "sysclk"
  BY DEF Fetch, Order, Control
<1>2. CASE EmitSymbol /\ nextEvent' = Abs(symbol) /\ pc' = "begin" /\ UNCHANGED done
  <2>1. nextEvent' \in 0 .. CLOCK - 1
    BY <1>2, EmitSymbolOrder, NextEventType
  <2>2. /\ tov' \in BOOLEAN /\ toie' \in BOOLEAN /\ done' \in BOOLEAN
        /\ known' \in BOOLEAN
    BY <1>2 DEF Fetch, timer, EmitSymbol, Order, TypeOK
  <2>3. TypeOK'
    BY <1>2, <2>1, <2>2, EmitSymbolOrder, ConstantTypes
    DEF Fetch, timer, Places, Order, TypeOK
  <2>4. Control'
    BY <1>1, <1>2, EmitSymbolOrder
    DEF Fetch, timer, Order, Control, TXSTATE_IDLE, TXSTATE_TRANSMITTING
  <2> QED
    BY <1>2, <2>3, <2>4, EmitSymbolOrder DEF Order
<1>3. CASE FinishPacket /\ done' = TRUE /\ pc' = "wait" /\ UNCHANGED nextEvent
  <2>1. /\ tov' \in BOOLEAN /\ toie' \in BOOLEAN /\ done' \in BOOLEAN
        /\ known' \in BOOLEAN
    BY <1>3 DEF Fetch, timer, FinishPacket, Order, TypeOK
  <2>2. TypeOK'
    BY <1>3, <2>1, FinishPacketOrder, ConstantTypes
    DEF Fetch, timer, Places, Order, TypeOK
  <2>3. Control'
    BY <1>1, <1>3, FinishPacketOrder
    DEF Fetch, timer, Order, Control, TXSTATE_IDLE, TXSTATE_TRANSMITTING
  <2> QED
    BY <1>3, <2>2, <2>3, FinishPacketOrder DEF Order
<1> QED
  BY <1>2, <1>3 DEF Fetch

\* So does the passage of time.
LEMMA OrderTick ==
  ASSUME Order, Tick
  PROVE  Order'
<1>1. COUNTER \in Nat \ {0} /\ CLOCK \in Nat \ {0} /\ AgeCap \in Nat
  BY ConstantTypes
<1>2. tcnt' \in 0 .. COUNTER - 1 /\ now' \in 0 .. CLOCK - 1
  <2>1. \A x \in Nat : x % COUNTER \in 0 .. COUNTER - 1 /\ x % CLOCK \in 0 .. CLOCK - 1
    BY <1>1, ModBound
  <2>2. /\ tcnt + 1 \in Nat /\ now + 1 \in Nat /\ 0 \in 0 .. COUNTER - 1
        /\ tcnt \in 0 .. COUNTER - 1 /\ now \in 0 .. CLOCK - 1
    BY <1>1 DEF Order, TypeOK
  <2>3. CASE CountUp
    BY <2>1, <2>2, <2>3 DEF CountUp, sysclk
  <2>4. CASE ClockUp
    BY <2>1, <2>2, <2>4 DEF ClockUp, timer
  <2> QED
    BY <2>3, <2>4 DEF Tick
<1>3. late' \in 0 .. MaxLatency
  BY ConstantTypes DEF Tick, Order, TypeOK
<1>4. age' \in 0 .. AgeCap
  <2>1. age + 1 \in Int /\ age \in Nat
    BY <1>1 DEF Order, TypeOK
  <2> QED
    BY <1>1, <2>1, MinOfTwo DEF Tick
<1>5. TypeOK'
  <2>1. tov' \in BOOLEAN /\ toie' \in BOOLEAN /\ done' \in BOOLEAN
    BY DEF Tick, CountUp, ClockUp, timer, sysclk, Order, TypeOK
  <2> QED
    BY <1>2, <1>3, <1>4, <2>1
    DEF Tick, CountUp, ClockUp, timer, sysclk, machine, Order, TypeOK
<1>6. Control' /\ Buffer'
  BY DEF Tick, CountUp, ClockUp, timer, sysclk, machine, Order, Control, Buffer
<1> QED
  BY <1>5, <1>6 DEF Order

\* So does every step.
LEMMA OrderNext ==
  ASSUME Order, [Next]_vars
  PROVE  Order'
<1> USE DEF TypeOK, Control, Places, machine, timer, sysclk, history,
            TXSTATE_IDLE, TXSTATE_TRANSMITTING
<1>1. CASE Send
  <2>1. TypeOK' /\ Control'
    BY <1>1, BufferSend, ConstantTypes DEF Send, Order
  <2> QED
    BY <1>1, <2>1, BufferSend DEF Order
<1>2. CASE Return
  BY <1>2 DEF Return, Order, Buffer
<1>3. CASE EnableTCNT
  BY <1>3, DurationsAreWaitable, ConstantTypes
  DEF EnableTCNT, Order, Buffer, Waitable
<1>4. CASE EnableICR
  BY <1>4, DurationsAreWaitable, CountsType DEF EnableICR, Order, Buffer
<1>5. CASE EnableTOIE
  <2>1. TypeOK' /\ Buffer'
    BY <1>5, ConstantTypes DEF EnableTOIE, Order, Buffer
  <2>2. Control'
    BY <1>5 DEF EnableTOIE, Order
  <2> QED
    BY <2>1, <2>2 DEF Order
<1>6. CASE EnableLoop
  <2>1. Buffer' /\ Control'
    BY <1>6 DEF EnableLoop, Order, Buffer
  <2>2. nextEvent' \in 0 .. CLOCK - 1
    BY <1>6, DurationsAreWaitable, NextEventType DEF EnableLoop
  <2>3. done' \in BOOLEAN /\ UNCHANGED <<hw, machine, level, timer, now, tstart>>
    BY <1>6 DEF EnableLoop
  <2>4. late' \in 0 .. MaxLatency /\ age' \in 0 .. AgeCap /\ lag' \in Int /\ pc' \in Places
    BY <1>6, ConstantTypes DEF EnableLoop
  <2>5. TypeOK'
    BY <2>2, <2>3, <2>4 DEF Order
  <2> QED
    BY <2>1, <2>5 DEF Order
<1>7. CASE BeginWait
  BY <1>7, ConstantTypes DEF BeginWait, Order, Buffer
<1>8. CASE UNCHANGED vars
  BY <1>8 DEF vars, Order, Buffer
<1> QED
  BY <1>1, <1>2, <1>3, <1>4, <1>5, <1>6, <1>7, <1>8,
     OrderFetch, OrderInterrupt, OrderTick
  DEF Next, Main

\* The order is an invariant.
LEMMA OrderAlways == Spec => []Order
<1>1. Init => Order
  BY OrderInit
<1>2. Order /\ [Next]_vars => Order'
  BY OrderNext
<1> QED
  BY <1>1, <1>2, PTL DEF Spec

\* No index leaves txBuf, and nothing is asked of counter or clock that does not
\* fit their width, on either hardware.
THEOREM TransmitterTypeCorrect == Spec => []TypeOK
<1>1. Order => TypeOK
  BY DEF Order
<1> QED
  BY <1>1, OrderAlways, PTL

\* When Send() has returned, the carrier is off and the timer's interrupt
\* disabled, whichever way the packet ended.
THEOREM OffAfterSend == Spec => []OffWhenReturned
<1>1. Order => OffWhenReturned
  BY DEF Order, Control, OffWhenReturned
<1> QED
  BY <1>1, OrderAlways, PTL

-----------------------------------------------------------------------------
(* The transmitter implements Waveform.                                    *)

\* The first state of the transmitter is one of the line.
LEMMA LineInit == Init => Line!Init
BY DEF Init, Line!Init, TXSTATE_IDLE, TXSTATE_TRANSMITTING

\* Emitting a symbol is the same step of the line.
LEMMA LineEmit ==
  ASSUME Order, EmitSymbol, txState = TXSTATE_TRANSMITTING
  PROVE  Line!Emit
<1>1. /\ txPos \in 0 .. Len(asked) /\ Len(asked) \in Int /\ txPos # Len(asked)
      /\ symbol = asked[txPos + 1] /\ symbol \in Int /\ symbol # 1
  BY SymbolWaitable, ConstantTypes DEF EmitSymbol
<1>2. symbol > 1 <=> asked[txPos + 1] > 0
  BY <1>1
<1>3. txPos < Len(asked)
  BY <1>1
<1>4. /\ level' = IF asked[txPos + 1] > 0 THEN 1 ELSE 0
      /\ txPos' = txPos + 1
      /\ UNCHANGED <<txState, asked, known>>
  BY <1>2 DEF EmitSymbol
<1> QED
  BY <1>3, <1>4 DEF Line!Emit

\* So is the end of a packet.
LEMMA LineFinish ==
  ASSUME Order, FinishPacket, txState = TXSTATE_TRANSMITTING
  PROVE  Line!Finish
<1>1. txPos = Len(asked)
  BY SymbolWaitable DEF FinishPacket
<1> QED
  BY <1>1 DEF Line!Finish, FinishPacket, TXSTATE_IDLE, TXSTATE_TRANSMITTING

\* Every step of the transmitter is one of the line or none.
LEMMA LineNext ==
  ASSUME Order, [Next]_vars
  PROVE  [Line!Next]_(Line!vars)
<1>1. CASE UNCHANGED <<txState, asked, known, txPos, level>>
  BY <1>1 DEF Line!vars
<1>2. CASE Send
  <2>1. txState = TXSTATE_IDLE /\ txPos = 0
    BY <1>2 DEF Send, Order, Control
  <2>2. asked' \in Line!Packet
    <3>1. asked' \in Seq(Int \ {0, 1})
      BY <1>2, BufferSend DEF Buffer
    <3> QED
      BY <3>1, SeqMonotonic DEF Line!Packet
  <2>3. CASE known' = TRUE
    BY <1>2, <2>1, <2>2, <2>3
    DEF Send, Line!Next, Line!Start, TXSTATE_IDLE, TXSTATE_TRANSMITTING
  <2>4. CASE known' = FALSE /\ UNCHANGED asked
    BY <1>2, <2>1, <2>4
    DEF Send, Line!Next, Line!StartAgain, TXSTATE_IDLE, TXSTATE_TRANSMITTING
  <2> QED
    BY <1>2, <2>3, <2>4 DEF Send
<1>3. CASE Interrupt
  <2>1. txState = TXSTATE_TRANSMITTING
    BY <1>3 DEF Interrupt, Order, Control
  <2> QED
    BY <1>3, <2>1, LineEmit, LineFinish DEF Interrupt, Line!Next
<1>4. CASE Fetch
  <2>1. txState = TXSTATE_TRANSMITTING
    BY <1>4 DEF Fetch, Order, Control
  <2> QED
    BY <1>4, <2>1, LineEmit, LineFinish DEF Fetch, Line!Next
<1> QED
  BY <1>1, <1>2, <1>3, <1>4
  DEF Next, Main, Return, EnableTCNT, EnableICR, EnableTOIE, EnableLoop,
      BeginWait, Tick, vars, machine

\* On either hardware the line carries the packet of the message that Send() was
\* given, symbol by symbol, and nothing of the packets that were in txBuf before,
\* except for a message of an unknown protocol, which repeats the last packet.
THEOREM PacketOnLine == Spec => ImplementsWaveform
<1>1. Init => Line!Init
  BY LineInit
<1>2. Order /\ [Next]_vars => [Line!Next]_(Line!vars)
  BY LineNext
<1> QED
  BY <1>1, <1>2, OrderAlways, PTL DEF Spec, ImplementsWaveform, Line!Spec

-----------------------------------------------------------------------------
(* Durations: TimerRuns and ClockRuns are inductive as well.               *)

\* Whatever symbol is on the line, its duration can be waited for.
LEMMA AwaitedWaitable ==
  ASSUME Order
  PROVE  Waitable(Awaited)
<1>1. CASE txPos = 0
  BY <1>1, DurationsAreWaitable DEF Awaited
<1>2. CASE txPos # 0
  <2>1. txPos \in 1 .. Len(asked)
    BY <1>2, SymbolWaitable
  <2> QED
    BY <1>2, <2>1 DEF Order, Buffer, Awaited
<1> QED
  BY <1>1, <1>2

\* The numbers that the lemmas below compute with.
LEMMA OrderNumbers ==
  ASSUME Order
  PROVE  /\ MaxLatency \in Nat /\ AgeCap \in Nat /\ COUNTER \in Nat /\ CLOCK \in Nat
         /\ txPos \in Nat /\ tcnt \in Nat /\ icr \in Nat /\ nextEvent \in Nat
         /\ tcnt < COUNTER /\ icr < COUNTER
         /\ late \in Nat /\ late <= MaxLatency
         /\ age \in Nat /\ age <= AgeCap /\ lag \in Int
         /\ Awaited \in Nat /\ Awaited > MaxLatency
         /\ 2 * Awaited < COUNTER /\ Awaited + 2 * MaxLatency < CLOCK
         /\ 2 * Awaited + 2 * MaxLatency + 1 < AgeCap
         /\ tov \in BOOLEAN
<1>1. Waitable(Awaited)
  BY AwaitedWaitable
<1>2. MaxLatency \in Nat /\ AgeCap \in Nat /\ COUNTER \in Nat /\ CLOCK \in Nat
  BY ConstantTypes
<1>3. /\ txPos \in Nat /\ tcnt \in Nat /\ icr \in Nat /\ nextEvent \in Nat
      /\ tcnt < COUNTER /\ icr < COUNTER
      /\ late \in Nat /\ late <= MaxLatency
      /\ age \in Nat /\ age <= AgeCap /\ lag \in Int /\ tov \in BOOLEAN
  BY <1>2 DEF Order, TypeOK
<1> QED
  BY <1>1, <1>2, <1>3 DEF Waitable

\* How age goes on while a packet is being transmitted.
LEMMA AgeTick ==
  ASSUME Order, Tick, txState = TXSTATE_TRANSMITTING, age < AgeCap
  PROVE  age' = age + 1
<1>1. age + 1 \in Int /\ AgeCap \in Int /\ age + 1 <= AgeCap
  BY OrderNumbers
<1> QED
  BY <1>1, MinOfTwo DEF Tick, TXSTATE_IDLE, TXSTATE_TRANSMITTING

\* After ProcessISR() the hardware awaits the end of the symbol it has emitted.
LEMMA AwaitedEmit ==
  ASSUME Order, EmitSymbol
  PROVE  Awaited' = Abs(symbol)
<1>1. txPos' = txPos + 1 /\ txPos \in Nat /\ txSymbols' = txSymbols
  BY EmitSymbolOrder, OrderNumbers
<1> QED
  BY <1>1 DEF Awaited, symbol

\* The clock never shows more than CLOCK - 1 units of waiting.
LEMMA ElapsedType ==
  ASSUME Order
  PROVE  Elapsed \in 0 .. CLOCK - 1
<1>1. now - tstart \in Int /\ CLOCK \in Nat \ {0}
  BY ConstantTypes DEF Order, TypeOK
<1> QED
  BY <1>1, ModBound DEF Elapsed

\* The difference of wrapping clocks counts on, up to a whole round.
LEMMA ElapsedTick ==
  ASSUME Order, ClockUp, Elapsed < CLOCK - 1
  PROVE  Elapsed' = Elapsed + 1
<1>1. CLOCK \in Nat \ {0} /\ now \in 0 .. CLOCK - 1 /\ tstart \in 0 .. CLOCK - 1
  BY ConstantTypes DEF Order, TypeOK
<1>2. now' = (IF now = CLOCK - 1 THEN 0 ELSE now + 1) /\ tstart' = tstart
  <2>1. CASE now = CLOCK - 1
    BY <1>1, <2>1 DEF ClockUp
  <2>2. CASE now # CLOCK - 1
    <3>1. now + 1 \in 0 .. CLOCK - 1
      BY <1>1, <2>2
    <3> QED
      BY <1>1, <2>2, <3>1, ModSmall DEF ClockUp
  <2> QED
    BY <2>1, <2>2
<1>3. Elapsed = IF now >= tstart THEN now - tstart ELSE now - tstart + CLOCK
  BY <1>1, ModDifference DEF Elapsed
<1>4. Elapsed' = IF now' >= tstart THEN now' - tstart ELSE now' - tstart + CLOCK
  <2>1. now' \in 0 .. CLOCK - 1
    BY <1>1, <1>2
  <2> QED
    BY <1>1, <1>2, <2>1, ModDifference DEF Elapsed
<1> QED
  BY <1>1, <1>2, <1>3, <1>4

\* At first nothing waits for the clock.
LEMMA ClockRunsInit == Init => ClockRuns
BY DEF Init, ClockRuns

\* Time passes for the clock and for the history variables alike.
LEMMA ClockRunsTick ==
  ASSUME Order, ClockRuns, Tick, pc \in {"begin", "spin"}
  PROVE  ClockRuns'
<1>1. /\ hw = "sysclk" /\ txState = TXSTATE_TRANSMITTING /\ ~toie
      /\ nextEvent = Awaited
  BY DEF Order, Control, ClockRuns
<1>2. ClockUp /\ UNCHANGED <<pc, nextEvent, txPos, txSymbols>>
  BY <1>1 DEF Tick, CountUp, ClockUp, machine
<1>3. nextEvent' = Awaited'
  BY <1>1, <1>2 DEF Awaited
<1>4. CASE pc = "begin"
  <2>1. Urgent /\ age = late
    BY <1>4 DEF Urgent, ClockRuns
  <2>2. late < MaxLatency /\ late' = late + 1
    BY <2>1 DEF Tick
  <2>3. age' = age + 1
    BY <1>1, <2>1, <2>2, AgeTick, OrderNumbers
  <2> QED
    BY <1>2, <1>3, <1>4, <2>1, <2>2, <2>3 DEF ClockRuns
<1>5. CASE pc = "spin"
  <2>1. /\ Urgent <=> Elapsed >= nextEvent
        /\ age - Elapsed \in 0 .. MaxLatency
        /\ Elapsed >= nextEvent => late = Elapsed - nextEvent
    BY <1>1, <1>5 DEF Urgent, ClockRuns, Expired, Elapsed
  <2>2. /\ Elapsed \in Nat /\ nextEvent \in Nat /\ MaxLatency \in Nat
        /\ CLOCK \in Nat /\ age \in Nat /\ AgeCap \in Nat /\ late \in Nat
        /\ nextEvent + 2 * MaxLatency < CLOCK
        /\ nextEvent > MaxLatency
        /\ 2 * nextEvent + 2 * MaxLatency + 1 < AgeCap
    BY <1>1, ElapsedType, OrderNumbers, ConstantTypes
  <2>3. Urgent => late < MaxLatency
    BY DEF Tick
  <2>4. late' = IF Urgent THEN late + 1 ELSE 0
    BY DEF Tick
  <2>5. Elapsed < nextEvent + MaxLatency /\ Elapsed < CLOCK - 1 /\ age < AgeCap
    BY <2>1, <2>2, <2>3
  <2>6. Elapsed' = Elapsed + 1 /\ age' = age + 1
    BY <1>1, <1>2, <2>5, AgeTick, ElapsedTick
  <2>7. age' - Elapsed' \in 0 .. MaxLatency
    BY <2>1, <2>2, <2>6
  <2>8. Elapsed' >= nextEvent' => late' = Elapsed' - nextEvent'
    BY <1>2, <2>1, <2>2, <2>4, <2>6
  <2> QED
    BY <1>2, <1>3, <1>5, <2>7, <2>8 DEF ClockRuns
<1> QED
  BY <1>4, <1>5

\* Every step preserves what relates them.
LEMMA ClockRunsNext ==
  ASSUME Order, ClockRuns, [Next]_vars
  PROVE  ClockRuns'
<1>1. CASE pc' \notin {"begin", "spin"}
  BY <1>1 DEF ClockRuns
<1>2. CASE EnableLoop
  <2>1. txPos' = 0 /\ pc' = "begin" /\ nextEvent' = SETUPTIME /\ late' = 0 /\ age' = 0
    BY <1>2 DEF EnableLoop, machine, Order, Control
  <2> QED
    BY <2>1 DEF ClockRuns, Awaited
<1>3. CASE BeginWait
  <2>1. /\ pc' = "spin" /\ nextEvent = Awaited /\ age = late
        /\ UNCHANGED <<txPos, txSymbols, nextEvent, age>>
        /\ tstart' = now /\ now' = now
    BY <1>3 DEF BeginWait, ClockRuns, machine
  <2>2. Elapsed' = 0
    <3>1. now \in 0 .. CLOCK - 1 /\ CLOCK \in Nat
      BY ConstantTypes DEF Order, TypeOK
    <3> QED
      BY <2>1, <3>1, ModDifference DEF Elapsed
  <2> QED
    BY <2>1, <2>2, OrderNumbers DEF ClockRuns, Awaited
<1>4. CASE Fetch
  <2>1. CASE EmitSymbol /\ nextEvent' = Abs(symbol) /\ pc' = "begin"
    BY <2>1, AwaitedEmit, EmitSymbolOrder DEF ClockRuns
  <2>2. CASE pc' = "wait"
    BY <2>2 DEF ClockRuns
  <2> QED
    BY <1>4, <2>1, <2>2 DEF Fetch
<1>5. CASE Tick /\ pc \in {"begin", "spin"}
  BY <1>5, ClockRunsTick
<1>6. CASE UNCHANGED vars
  BY <1>6 DEF vars, machine, sysclk, history, ClockRuns, Awaited, Elapsed
<1> QED
  BY <1>1, <1>2, <1>3, <1>4, <1>5, <1>6
  DEF Next, Main, Send, Return, EnableTCNT, EnableICR, EnableTOIE, Interrupt, Tick,
      Order, Control

\* At first nothing waits for the timer.
LEMMA TimerRunsInit == Init => TimerRuns
BY DEF Init, TimerRuns

\* The counter counts up to its top, where the flag is set.
LEMMA CounterTick ==
  ASSUME Order, Tick, hw = "timer16b", tcnt <= icr
  PROVE  /\ tcnt' = IF tcnt = icr THEN 0 ELSE tcnt + 1
         /\ tov' = (tov \/ tcnt = icr)
         /\ UNCHANGED <<pc, icr, toie, txState, txPos, txSymbols, lag>>
<1>1. CountUp
  BY DEF Tick, ClockUp
<1>2. tcnt # icr => (tcnt + 1) % COUNTER = tcnt + 1
  <2>1. tcnt # icr => tcnt + 1 \in 0 .. COUNTER - 1
    BY OrderNumbers
  <2> QED
    BY <2>1, OrderNumbers, ModSmall
<1> QED
  BY <1>1, <1>2 DEF CountUp, Tick, machine

\* While the timer's registers are being written, an overflow at a top that was
\* left over from the last packet sets the counter back, never ahead.
LEMMA TimerRunsEnableTick ==
  ASSUME Order, TimerRuns, Tick, pc \in {"icr", "toie"}
  PROVE  TimerRuns'
<1>1. /\ hw = "timer16b" /\ ~toie /\ Urgent
      /\ tcnt <= late /\ lag = 0 /\ (pc = "toie" => icr = 2 * SETUPTIME)
  BY DEF Order, Control, TimerRuns, Urgent
<1>2. late' = late + 1 /\ UNCHANGED <<pc, icr, toie, lag>>
  BY <1>1 DEF Tick, CountUp, ClockUp
<1>3. tcnt' <= tcnt + 1
  <2>1. (tcnt + 1) % COUNTER <= tcnt + 1
    <3>1. CASE tcnt + 1 = COUNTER
      BY <3>1, OrderNumbers
    <3>2. CASE tcnt + 1 # COUNTER
      <4>1. tcnt + 1 \in 0 .. COUNTER - 1
        BY <3>2, OrderNumbers
      <4> QED
        BY <4>1, OrderNumbers, ModSmall
    <3> QED
      BY <3>1, <3>2
  <2>2. tcnt' = IF tcnt = icr THEN 0 ELSE (tcnt + 1) % COUNTER
    BY <1>1 DEF Tick, CountUp, ClockUp
  <2> QED
    BY <2>1, <2>2, OrderNumbers
<1>4. tcnt' <= late'
  <2>1. tcnt' \in Int
    BY OrderTick, OrderNumbers DEF Order, TypeOK
  <2> QED
    BY <1>1, <1>2, <1>3, <2>1, OrderNumbers
<1> QED
  BY <1>1, <1>2, <1>4 DEF TimerRuns

\* A count of the timer while it transmits.
LEMMA TimerRunsCount ==
  ASSUME Order, TimerRuns, Tick, toie
  PROVE  TimerRuns'
<1>1. /\ hw = "timer16b" /\ txState = TXSTATE_TRANSMITTING /\ pc = "wait"
  BY DEF Order, Control
<1>2. /\ icr = 2 * Awaited
      /\ IF tov THEN tcnt <= late + (IF txPos = 0 THEN MaxLatency ELSE 0)
                ELSE late = 0 /\ tcnt <= icr
      /\ txPos <= 1 => lag = 0
      /\ txPos >= 1 =>
           /\ Begun \in 0 .. 2 * MaxLatency
           /\ txPos >= 2 => Begun <= MaxLatency
           /\ lag - (txPos - 1) - Begun \in -2 * MaxLatency .. 0
  BY DEF TimerRuns
<1>3. Urgent <=> tov
  BY <1>1 DEF Urgent
<1>4. (tov => late < MaxLatency) /\ late' = IF tov THEN late + 1 ELSE 0
  BY <1>3 DEF Tick
<1>5. tcnt <= icr /\ (tov => tcnt < icr)
  BY <1>2, <1>4, OrderNumbers
<1>6. /\ tcnt' = IF tcnt = icr THEN 0 ELSE tcnt + 1
      /\ tov' = (tov \/ tcnt = icr)
      /\ UNCHANGED <<pc, icr, toie, txState, txPos, txSymbols, lag>>
  BY <1>1, <1>5, CounterTick
<1>7. Awaited' = Awaited
  BY <1>6 DEF Awaited
<1>8. IF tov' THEN tcnt' <= late' + (IF txPos' = 0 THEN MaxLatency ELSE 0)
              ELSE late' = 0 /\ tcnt' <= icr'
  BY <1>2, <1>4, <1>5, <1>6, OrderNumbers
<1>9. txPos >= 1 => Begun' = Begun
  <2>1. SUFFICES ASSUME txPos >= 1 PROVE Begun' = Begun
    OBVIOUS
  <2>2. age < AgeCap
    <3>1. age <= tcnt + (IF tov THEN icr + 1 ELSE 0)
      BY <1>2, <2>1, OrderNumbers DEF Begun
    <3>2. CASE tov
      BY <1>2, <1>4, <2>1, <3>1, <3>2, OrderNumbers
    <3>3. CASE ~tov
      BY <1>2, <1>5, <3>1, <3>3, OrderNumbers
    <3> QED
      BY <3>2, <3>3
  <2>3. age' = age + 1
    BY <1>1, <2>2, AgeTick
  <2> QED
    <3>1. CASE tcnt = icr
      <4>1. ~tov
        BY <1>5, <3>1, OrderNumbers
      <4>2. tov' /\ tcnt' = 0 /\ icr' = icr
        BY <1>6, <3>1, Zenon
      <4>3. Begun = tcnt - age /\ Begun' = 0 - (age + 1) + (icr + 1)
        BY <2>3, <4>1, <4>2, OrderNumbers DEF Begun
      <4> QED
        BY <3>1, <4>3, OrderNumbers
    <3>2. CASE tcnt # icr
      BY <1>6, <2>3, <3>2, OrderNumbers DEF Begun
    <3> QED
      BY <3>1, <3>2
<1> QED
  BY <1>1, <1>2, <1>6, <1>7, <1>8, <1>9 DEF TimerRuns

\* A symbol begins where the counter is when the interrupt is served, and is
\* longer than that: the new top is still to come.
LEMMA TimerRunsEmit ==
  ASSUME Order, TimerRuns, tov, toie, tov' = FALSE,
         EmitSymbol, SetModEventTime(Abs(symbol)), UNCHANGED <<toie, pc>>
  PROVE  TimerRuns'
<1>1. pc = "wait"
  BY DEF Order, Control
<1>2. /\ icr = 2 * Awaited
      /\ tcnt <= late + (IF txPos = 0 THEN MaxLatency ELSE 0)
      /\ txPos <= 1 => lag = 0
      /\ txPos >= 1 =>
           /\ Begun \in 0 .. 2 * MaxLatency
           /\ lag - (txPos - 1) - Begun \in -2 * MaxLatency .. 0
  BY DEF TimerRuns
<1>3. /\ Waitable(Abs(symbol)) /\ Awaited' = Abs(symbol)
      /\ txPos' = txPos + 1 /\ age' = 0 /\ late' = 0
      /\ icr' = 2 * Awaited' /\ tcnt' = tcnt
  BY EmitSymbolOrder, AwaitedEmit, CountsType DEF SetModEventTime
<1>4. icr' = 2 * Awaited' /\ Awaited' \in Nat /\ Awaited' > MaxLatency
  BY <1>3 DEF Waitable
<1>5. tcnt <= 2 * MaxLatency /\ (txPos >= 1 => tcnt <= MaxLatency)
  BY <1>2, OrderNumbers
<1>6. Begun' = tcnt
  BY <1>3, OrderNumbers DEF Begun
<1>7. lag' = IF txPos = 0 THEN 0 ELSE lag + age - 2 * Awaited
  <2>1. hw = "timer16b"
    BY DEF Order, Control
  <2> QED
    BY <2>1 DEF EmitSymbol, SymbolEnds, Ticks, Awaited
<1>8. lag' - (txPos' - 1) - Begun' \in -2 * MaxLatency .. 0
  <2>1. CASE txPos = 0
    BY <1>3, <1>5, <1>6, <1>7, <2>1, OrderNumbers
  <2>2. CASE txPos # 0
    <3>1. lag' - (txPos' - 1) - Begun' = lag - (txPos - 1) - Begun
      BY <1>2, <1>3, <1>6, <1>7, <2>2, OrderNumbers DEF Begun
    <3> QED
      BY <1>2, <2>2, <3>1, OrderNumbers
  <2> QED
    BY <2>1, <2>2
<1>9. tcnt' <= icr'
  BY <1>3, <1>4, <1>5, OrderNumbers
<1>10. txPos' <= 1 => lag' = 0
  BY <1>3, <1>7, OrderNumbers
<1> QED
  BY <1>1, <1>3, <1>4, <1>5, <1>6, <1>8, <1>9, <1>10, OrderNumbers DEF TimerRuns

\* Every step preserves what relates the counter to the history variables.
LEMMA TimerRunsNext ==
  ASSUME Order, TimerRuns, [Next]_vars
  PROVE  TimerRuns'
<1>1. CASE pc' \notin {"icr", "toie"} /\ ~toie'
  BY <1>1 DEF TimerRuns
<1>2. CASE EnableTCNT
  <2>1. /\ pc' = "icr" /\ ~toie' /\ tcnt' = 0 /\ late' = 0 /\ lag' = 0
    BY <1>2 DEF EnableTCNT, Order, Control
  <2> QED
    BY <2>1 DEF TimerRuns
<1>3. CASE EnableICR
  <2>1. icr' = 2 * SETUPTIME
    BY <1>3, DurationsAreWaitable, CountsType DEF EnableICR
  <2> QED
    BY <1>3, <2>1 DEF EnableICR, TimerRuns, history, Order, Control
<1>4. CASE EnableTOIE
  <2>1. /\ pc' = "wait" /\ txPos' = 0 /\ late' = 0
        /\ UNCHANGED <<icr, tcnt, tov, lag>>
        /\ tcnt <= late /\ lag = 0 /\ icr = 2 * Awaited /\ Awaited' = Awaited
    BY <1>4 DEF EnableTOIE, TimerRuns, machine, Order, Control, Awaited
  <2>2. tcnt <= MaxLatency /\ tcnt <= icr
    BY <2>1, OrderNumbers
  <2> QED
    BY <2>1, <2>2, OrderNumbers DEF TimerRuns
<1>5. CASE Interrupt
  <2>1. tov /\ toie /\ tov' = FALSE /\ UNCHANGED pc /\ txState = TXSTATE_TRANSMITTING
        /\ pc = "wait"
    BY <1>5 DEF Interrupt, Order, Control
  <2>2. CASE EmitSymbol /\ SetModEventTime(Abs(symbol)) /\ UNCHANGED toie
    BY <2>1, <2>2, TimerRunsEmit
  <2>3. CASE toie' = FALSE
    BY <2>1, <2>3 DEF TimerRuns
  <2> QED
    BY <1>5, <2>1, <2>2, <2>3 DEF Interrupt
<1>6. CASE Tick /\ (pc \in {"icr", "toie"} \/ toie)
  BY <1>6, TimerRunsEnableTick, TimerRunsCount
<1>7. CASE UNCHANGED vars
  BY <1>7 DEF vars, machine, timer, history, TimerRuns, Awaited, Begun
<1> QED
  BY <1>1, <1>2, <1>3, <1>4, <1>5, <1>6, <1>7
  DEF Next, Main, Send, Return, EnableLoop, BeginWait, Fetch, Tick, timer,
      CountUp, ClockUp, Order, Control, TXSTATE_IDLE, TXSTATE_TRANSMITTING

\* The inductive invariant is an invariant.
LEMMA Invariance == Spec => []IInv
<1>1. Init => IInv
  BY OrderInit, TimerRunsInit, ClockRunsInit DEF IInv, Order
<1>2. IInv /\ [Next]_vars => IInv'
  <2>1. IInv => Order /\ TimerRuns /\ ClockRuns
    BY DEF IInv, Order
  <2>2. Order' /\ TimerRuns' /\ ClockRuns' => IInv'
    BY DEF IInv, Order
  <2> QED
    BY <2>1, <2>2, OrderNext, TimerRunsNext, ClockRunsNext
<1> QED
  BY <1>1, <1>2, PTL DEF Spec

\* With the timer, delays do not add up: every edge of a packet lies, within the
\* latency, where the durations before it put it, but for one count a symbol.
THEOREM EdgesOnTime == Spec => []NoDrift
<1>1. IInv => NoDrift
  <2> SUFFICES ASSUME IInv, hw = "timer16b", pc = "wait",
                      txState = TXSTATE_TRANSMITTING
               PROVE  -2 * MaxLatency <= lag /\ lag <= MaxLatency + txPos
    BY DEF NoDrift
  <2>1. Order
    BY DEF IInv, Order
  <2>2. /\ txPos <= 1 => lag = 0
        /\ txPos >= 1 => /\ Begun \in 0 .. 2 * MaxLatency
                         /\ txPos >= 2 => Begun <= MaxLatency
                         /\ lag - (txPos - 1) - Begun \in -2 * MaxLatency .. 0
    BY DEF IInv, Control, TimerRuns
  <2>3. CASE txPos <= 1
    BY <2>1, <2>2, <2>3, OrderNumbers
  <2>4. CASE txPos >= 2
    BY <2>1, <2>2, <2>4, OrderNumbers
  <2> QED
    BY <2>1, <2>3, <2>4, OrderNumbers
<1> QED
  BY <1>1, Invariance, PTL

\* The bounds on the duration of a symbol that the timer ends.
LEMMA TimerSymbolLasts ==
  ASSUME IInv, Interrupt, txPos >= 1
  PROVE  LET nominal == Ticks(Abs(txSymbols[txPos - 1]))
             heldUp == IF txPos = 1 THEN 2 * MaxLatency ELSE MaxLatency
         IN  nominal + 1 - heldUp <= age /\ age <= nominal + 1 + MaxLatency
<1>1. Order
  BY DEF IInv, Order
<1>2. hw = "timer16b" /\ tov /\ toie
  BY DEF Interrupt, IInv, Control
<1>3. /\ icr = 2 * Awaited /\ tcnt <= late
      /\ Begun \in 0 .. 2 * MaxLatency /\ Begun = tcnt - age + (icr + 1)
      /\ txPos # 1 => Begun <= MaxLatency
  BY <1>1, <1>2, OrderNumbers DEF IInv, TimerRuns, Begun
<1>4. Ticks(Abs(txSymbols[txPos - 1])) = 2 * Awaited
  BY <1>1, <1>2, OrderNumbers DEF Ticks, Awaited
<1> QED
  BY <1>1, <1>3, <1>4, OrderNumbers

\* The bounds on the duration of a symbol that the clock ends.
LEMMA ClockSymbolLasts ==
  ASSUME IInv, Fetch, txPos >= 1
  PROVE  LET nominal == Ticks(Abs(txSymbols[txPos - 1]))
         IN  nominal <= age /\ age <= nominal + 2 * MaxLatency
<1>1. Order
  BY DEF IInv, Order
<1>2. hw = "sysclk" /\ pc = "spin" /\ Elapsed >= nextEvent
  BY DEF Fetch, Expired, Elapsed, IInv, Control
<1>3. /\ nextEvent = Awaited /\ late = Elapsed - nextEvent
      /\ age - Elapsed \in 0 .. MaxLatency
  BY <1>2 DEF IInv, ClockRuns
<1>4. Ticks(Abs(txSymbols[txPos - 1])) = Awaited
  BY <1>1, <1>2, OrderNumbers DEF Ticks, Awaited
<1>5. Elapsed \in Int /\ CLOCK \in Int
  BY <1>1, ElapsedType, ConstantTypes
<1> QED
  BY <1>1, <1>3, <1>4, <1>5, OrderNumbers

\* On the 16-bit timer a symbol lasts its duration and a count, less the latency
\* with which it began and more by that with which it ended; on the other hardware
\* its duration and at most two latencies.  Neither counter nor clock goes round.
THEOREM SymbolsLast == Spec => SymbolLasts
<1> DEFINE nominal == Ticks(Abs(txSymbols[txPos - 1]))
           heldUp == IF txPos = 1 THEN 2 * MaxLatency ELSE MaxLatency
           InTime == IF hw = "timer16b"
                     THEN nominal + 1 - heldUp <= age /\ age <= nominal + 1 + MaxLatency
                     ELSE nominal <= age /\ age <= nominal + 2 * MaxLatency
           Lasts == txPos >= 1 /\ txPos' # txPos => InTime
<1>1. IInv /\ [Next]_vars => [Lasts]_vars
  <2> SUFFICES ASSUME IInv, Next, txPos >= 1, txPos' # txPos
               PROVE  InTime
    OBVIOUS
  <2>1. ~Send
    BY DEF Send, IInv, Control
  <2>2. Interrupt \/ Fetch
    BY <2>1
    DEF Next, Main, Return, EnableTCNT, EnableICR, EnableTOIE, EnableLoop,
        BeginWait, Tick, machine
  <2>3. CASE Interrupt
    <3>1. hw = "timer16b"
      BY <2>3 DEF Interrupt, IInv, Control
    <3> QED
      BY <2>3, <3>1, TimerSymbolLasts
  <2>4. CASE Fetch
    <3>1. hw # "timer16b"
      BY <2>4 DEF Fetch, IInv, Control
    <3> QED
      BY <2>4, <3>1, ClockSymbolLasts
  <2> QED
    BY <2>2, <2>3, <2>4
<1> QED
  BY <1>1, Invariance, PTL DEF Spec, SymbolLasts
=============================================================================
