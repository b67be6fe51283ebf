--------------------------- MODULE RepeaterProofs ---------------------------
(***************************************************************************)
(* What MCRepeater checks for two messages, proved for every set of        *)
(* messages, every button period and every width of the clock: a repeater  *)
(* with one buffer relays all that a held, bouncing button sends, and in   *)
(* that order.                                                             *)
(*                                                                         *)
(* The relation of the two sketches is one of phases.  While a message is  *)
(* underway, its age, that is the time since the button was pushed, says   *)
(* which of its symbols the sender is at and for how long (Remains), and   *)
(* the receiver has recorded the symbols before that one (Tracks).  So the *)
(* age also says when the message is complete, and RoomAssumption puts     *)
(* that before the end of BUTTONINVALID_PERIOD.  What is left of relaying  *)
(* the message before it ends within the same period (Underway), so the    *)
(* buffer is free when the next one begins, or is emptied before the next  *)
(* interrupt (Waits, Overlap).                                             *)
(***************************************************************************)
EXTENDS Repeater, ReceiverProofs, SequenceTheorems, WellFoundedInduction

-----------------------------------------------------------------------------
(* The invariant.                                                          *)

\* The time since the last message was asked for.
Age == (now - buttonInvalidStart) % CLOCK

\* Symbol 0 is the setup time; symbol Len(m) + 1 is the silence behind m.
Symb(m, i) == IF i = 0 THEN -SETUPTIME ELSE m[i]

\* The age at which symbol i begins.
Start(m, i) == IF i = 0 THEN 0 ELSE Button!Times(m)[i - 1]

\* Which symbol the sender is at, and for how long.
Place(m) == Len(m) + 1 - Len(sending)

Spent(m) == Age - Start(m, Place(m))

\* The receiver has no message.
Fresh == rxState = RXSTATE_READY /\ rxPos = 0 /\ rxLast = 0

\* The receiver has m.
Has(m) ==
  /\ rxState = RXSTATE_MSGCOMPLETE
  /\ rxPos = Len(m) + 1 /\ rxLast = 0 /\ rxAccum > SIGFREE_MIN
  /\ symbols[Len(m) + 1] <= -SIGFREE_MIN
  /\ \A n \in 1 .. Len(m) : symbols[n] = m[n]

\* The receiver has been measuring symbol i for the time d.
Measures(m, i, d) ==
  \/ i < 1 /\ Fresh
  \/ /\ i >= 1
     /\ i = Len(m) + 1 => d <= SIGFREE_MIN + 1
     /\ rxState = RXSTATE_READY
     /\ rxPos = i /\ rxLast = i % 2 /\ rxAccum = d
     /\ \A n \in 1 .. i - 1 : symbols[n] = m[n]
  \/ i = Len(m) + 1 /\ d > SIGFREE_MIN + 1 /\ Has(m)

\* What the sender has still to send is the rest of m.
Remains(m) ==
  sending # <<>> =>
    /\ Button!Abs(sending[1]) + Spent(m) = Button!Abs(Symb(m, Place(m)))
    /\ sending[1] > 0 <=> Place(m) % 2 = 1
    /\ \A n \in 2 .. Len(sending) : sending[n] = m[Place(m) + n - 1]

\* The receiver is as far as the sender; it notices the end of a symbol one
\* poll later.
Tracks(m) ==
  IF Spent(m) = 0 THEN Measures(m, Place(m) - 1, Button!Abs(Symb(m, Place(m) - 1)))
                  ELSE Measures(m, Place(m), Spent(m))

\* The repeater is up to date; if it is still sending, the line has been silent.
Nothing ==
  /\ owed = <<>> /\ sending = <<>>
  /\ Fresh
  /\ relaying > 0 => quiet > SIGFREE_MIN

\* m is on its way: it is being sent, or recorded, or waits in the buffer until
\* the message before it has been relayed.
Underway(m) ==
  /\ buttonState = Button!BUTTONSTATE_INVALID
  /\ Age <= BUTTONINVALID_PERIOD + 1
  /\ relaying > 0 => relaying + Age <= BUTTONINVALID_PERIOD
  /\ Place(m) \in 0 .. Len(m) + 1 /\ Spent(m) \in Nat
  /\ Remains(m)
  /\ Tracks(m)
  /\ sending = <<>> => quiet = IF Spent(m) < QuietCap THEN Spent(m) ELSE QuietCap

\* m is in the buffer, about to be relayed, and the button is valid again.
Waits(m) ==
  /\ buttonState = Button!BUTTONSTATE_VALID
  /\ sending = <<>> /\ relaying = 0
  /\ Has(m)
  /\ quiet > SIGFREE_MIN

\* The same, and the button has been pushed in the same unit of time.
Overlap(m, n) ==
  /\ buttonState = Button!BUTTONSTATE_INVALID
  /\ Age = 0
  /\ sending = <<-SETUPTIME>> \o n /\ relaying = 0
  /\ Has(m)

Control ==
  /\ relaying <= BUTTONINVALID_PERIOD
  /\ \/ Nothing
     \/ \E m \in Msgs : owed = <<m>> /\ (Underway(m) \/ Waits(m))
     \/ \E m, n \in Msgs : owed = <<m, n>> /\ Overlap(m, n)

IInv == RoomTypeOK /\ ReadsStayInBuffer /\ Control

-----------------------------------------------------------------------------
(* Recursion.                                                              *)

\* A set of natural numbers that is not empty has a least element.
LEMMA LeastElement ==
  ASSUME NEW T \in SUBSET Nat, T # {}
  PROVE  \E x \in T : \A y \in T : x <= y
<1>1. PICK x \in T : \A y \in T : <<y, x>> \notin OpToRel(<, Nat)
  BY WFMin, NatLessThanWellFounded
<1>2. OpToRel(<, Nat) = {ss \in Nat \X Nat : ss[1] < ss[2]}
  BY DEF OpToRel
<1>3. \A y \in T : ~(y < x)
  <2> SUFFICES ASSUME NEW y \in T, y < x PROVE FALSE
    OBVIOUS
  <2>1. <<y, x>> \in {ss \in Nat \X Nat : ss[1] < ss[2]}
    OBVIOUS
  <2> QED
    BY <1>1, <1>2, <2>1
<1> QED
  BY <1>3

\* Induction over the natural numbers, for a set in place of a predicate.
LEMMA Induction ==
  ASSUME NEW S, 0 \in S, \A n \in Nat : n \in S => n + 1 \in S
  PROVE  \A n \in Nat : n \in S
<1>1. SUFFICES ASSUME Nat \ S # {} PROVE FALSE
  OBVIOUS
<1>2. PICK x \in Nat \ S : \A y \in Nat \ S : x <= y
  BY <1>1, LeastElement
<1>3. x # 0 /\ x - 1 \in Nat
  BY <1>2
<1>4. x - 1 \in S
  BY <1>2, <1>3
<1>5. (x - 1) + 1 = x
  BY <1>2
<1> QED
  BY <1>2, <1>3, <1>4, <1>5

\* f is defined over m .. n by recursion: f[m] is c, and step[i] makes f[i] of
\* f[i - 1].
Recurs(f, m, n, c, step) ==
  \A i \in m .. n : f[i] = IF i = m THEN c ELSE step[i][f[i - 1]]

\* There is such a function.
LEMMA Recursion ==
  ASSUME NEW X, NEW m \in Nat, NEW n \in Nat, m <= n, NEW c \in X,
         NEW step \in [m .. n -> [X -> X]]
  PROVE  \E f \in [m .. n -> X] : Recurs(f, m, n, c, step)
<1> USE DEF Recurs
<1> DEFINE Good(k, f) == Recurs(f, m, k, c, step)
           S == {k \in Nat : m + k <= n => \E f \in [m .. m + k -> X] : Good(m + k, f)}
<1>1. 0 \in S
  <2>1. [i \in m .. m |-> c] \in [m .. m + 0 -> X]
    OBVIOUS
  <2>2. Good(m + 0, [i \in m .. m |-> c])
    OBVIOUS
  <2> QED
    BY <2>1, <2>2
<1>2. ASSUME NEW k \in Nat, k \in S PROVE k + 1 \in S
  <2> SUFFICES ASSUME m + k + 1 <= n
               PROVE  \E f \in [m .. m + k + 1 -> X] : Good(m + k + 1, f)
    OBVIOUS
  <2>1. PICK f \in [m .. m + k -> X] : Good(m + k, f)
    BY <1>2
  <2> DEFINE g == [i \in m .. m + k + 1 |->
                     IF i <= m + k THEN f[i] ELSE step[m + k + 1][f[m + k]]]
  <2>2. step[m + k + 1] \in [X -> X]
    OBVIOUS
  <2>3. g \in [m .. m + k + 1 -> X]
    BY <2>1, <2>2
  <2>4. ASSUME NEW i \in m .. m + k + 1
        PROVE  g[i] = IF i = m THEN c ELSE step[i][g[i - 1]]
    <3>1. CASE i <= m + k
      <4>1. g[i] = f[i] /\ (i # m => g[i - 1] = f[i - 1])
        BY <3>1
      <4> QED
        BY <4>1, <3>1, <2>1
    <3>2. CASE i = m + k + 1
      <4>1. g[i] = step[i][f[m + k]] /\ g[i - 1] = f[m + k] /\ i # m
        BY <3>2
      <4> QED
        BY <4>1
    <3> QED
      BY <3>1, <3>2
  <2> QED
    BY <2>3, <2>4
<1>3. n - m \in S
  <2> HIDE DEF S
  <2> QED
    BY <1>1, <1>2, Induction
<1> QED
  BY <1>3

\* The same between two bounds.
LEMMA IntervalInduction ==
  ASSUME NEW T, NEW m \in Nat, NEW n \in Nat,
         m <= n => m \in T,
         \A i \in m .. n : i # m /\ i - 1 \in T => i \in T
  PROVE  \A i \in m .. n : i \in T
<1> DEFINE S == {k \in Nat : m + k <= n => m + k \in T}
<1>1. 0 \in S
  OBVIOUS
<1>2. ASSUME NEW k \in Nat, k \in S PROVE k + 1 \in S
  <2> SUFFICES ASSUME m + k + 1 <= n PROVE m + k + 1 \in T
    OBVIOUS
  <2>1. m + k \in T
    BY <1>2
  <2>2. m + k + 1 \in m .. n /\ m + k + 1 # m /\ (m + k + 1) - 1 = m + k
    OBVIOUS
  <2> QED
    BY <2>1, <2>2
<1>3. ASSUME NEW i \in m .. n PROVE i - m \in S
  <2> HIDE DEF S
  <2> QED
    BY <1>1, <1>2, Induction
<1> QED
  BY <1>3

\* Such a function is of its type if each step keeps to it.
LEMMA RecursionType ==
  ASSUME NEW X, NEW m \in Nat, NEW n \in Nat, NEW f,
         m <= n => f[m] \in X,
         \A i \in m .. n : i # m /\ f[i - 1] \in X => f[i] \in X
  PROVE  \A i \in m .. n : f[i] \in X
<1> DEFINE T == {i \in m .. n : f[i] \in X}
<1>1. m <= n => m \in T
  OBVIOUS
<1>2. \A i \in m .. n : i # m /\ i - 1 \in T => i \in T
  OBVIOUS
<1>3. \A i \in m .. n : i \in T
  <2> HIDE DEF T
  <2> QED
    BY <1>1, <1>2, IntervalInduction
<1> QED
  BY <1>3

-----------------------------------------------------------------------------
(* The messages.                                                           *)

\* What RoomAssumption says of the messages.
IsMsg(m) ==
  /\ m \in Seq(Int)
  /\ Len(m) >= 1 /\ Len(m) % 2 = 1 /\ Len(m) + 2 <= PKTSYMB_MAX
  /\ Button!Duration(m) + SIGFREE_MIN < BUTTONINVALID_PERIOD
  /\ \A i \in 1 .. Len(m) :
       IF i % 2 = 1 THEN m[i] \in 1 .. SIGFREE_MIN ELSE m[i] \in 1 - SIGFREE_MIN .. -1

\* Every message is such a sequence.
LEMMA MsgFacts ==
  ASSUME NEW m \in Msgs
  PROVE  IsMsg(m)
<1>1. m \in Seq(Int)
  BY RoomAssumption
<1>2. Len(m) \in Nat /\ DOMAIN m = 1 .. Len(m)
  BY <1>1
<1>3. Len(m) % 2 = 1
  BY RoomAssumption
<1>4. Len(m) >= 1
  <2> DEFINE n == Len(m)
  <2>1. n \in Nat /\ n % 2 = 1
    BY <1>2, <1>3
  <2> HIDE DEF n
  <2>2. n >= 1
    BY <2>1
  <2> QED
    BY <2>2 DEF n
<1> QED
  BY <1>1, <1>2, <1>3, <1>4, RoomAssumption DEF IsMsg

\* The constants, as numbers.
LEMMA RoomConstants ==
  /\ POLL_INTERVAL = 1
  /\ SETUPTIME \in Nat \ {0} /\ BUTTONINVALID_PERIOD \in Nat \ {0} /\ CLOCK \in Nat \ {0}
  /\ BUTTONINVALID_PERIOD + 1 < CLOCK
  /\ SIGFREE_MIN \in Nat \ {0} /\ PKTSYMB_MAX \in Nat /\ ACCUM_THRESH \in Nat
  /\ SIGFREE_MIN + 2 <= ACCUM_THRESH + 1
  /\ QuietCap \in Nat /\ QuietCap >= SIGFREE_MIN + 2
BY RoomAssumption, ConstAssumption

\* How long each symbol lasts.
LEMMA SymbolLength ==
  ASSUME NEW m, IsMsg(m), NEW i \in 1 .. Len(m)
  PROVE  /\ m[i] \in Int
         /\ Button!Abs(m[i]) \in 1 .. SIGFREE_MIN
         /\ i % 2 = 0 => Button!Abs(m[i]) < SIGFREE_MIN
         /\ m[i] = IF i % 2 = 1 THEN Button!Abs(m[i]) ELSE -Button!Abs(m[i])
BY RoomConstants DEF IsMsg, Button!Abs

\* The symbols of a message follow each other without a gap, and Send() is over
\* when the last one is.
LEMMA TimesFacts ==
  ASSUME NEW m, IsMsg(m)
  PROVE  /\ \A i \in 0 .. Len(m) : Button!Times(m)[i] \in 0 .. Button!Duration(m)
         /\ Button!Times(m)[0] = SETUPTIME
         /\ \A i \in 1 .. Len(m) :
              Button!Times(m)[i] = Button!Times(m)[i - 1] + Button!Abs(m[i])
         /\ Button!Duration(m) \in Nat /\ Button!Duration(m) >= SETUPTIME
<1> DEFINE n == Len(m)
           Eq(f) == f = [i \in 0 .. n |->
                           IF i = 0 THEN SETUPTIME ELSE f[i - 1] + Button!Abs(m[i])]
           step == [i \in 0 .. n |-> [x \in Nat |->
                       IF i = 0 THEN x ELSE x + Button!Abs(m[i])]]
           F == CHOOSE f : Eq(f)
<1>1. n \in Nat /\ 0 \in Nat /\ 0 <= n /\ SETUPTIME \in Nat
  BY RoomConstants DEF IsMsg
<1>2. \A i \in 1 .. n : Button!Abs(m[i]) \in Nat
  BY SymbolLength, RoomConstants
<1>3. step \in [0 .. n -> [Nat -> Nat]]
  <2> HIDE DEF n
  <2> QED
    BY <1>1, <1>2
<1>4. PICK g \in [0 .. n -> Nat] : Recurs(g, 0, n, SETUPTIME, step)
  <2> HIDE DEF n, step
  <2> QED
    BY <1>1, <1>3, Recursion
<1>5. Eq(g)
  <2>1. ASSUME NEW i \in 0 .. n
        PROVE  g[i] = IF i = 0 THEN SETUPTIME ELSE g[i - 1] + Button!Abs(m[i])
    <3>1. g[i] = IF i = 0 THEN SETUPTIME ELSE step[i][g[i - 1]]
      BY <1>4 DEF Recurs
    <3>2. i # 0 => g[i - 1] \in Nat
      <4>1. i # 0 => i - 1 \in 0 .. n
        BY <1>1
      <4> HIDE DEF n
      <4> QED
        BY <4>1, <1>4
    <3> HIDE DEF n
    <3> QED
      BY <3>1, <3>2
  <2> HIDE DEF n
  <2> QED
    BY <1>4, <2>1
<1>6. Eq(F)
  <2> HIDE DEF Eq
  <2> QED
    BY <1>5, Zenon
<1>7. Button!Times(m) = F /\ Button!Duration(m) = F[n]
  BY DEF Button!Times, Button!Duration
<1> HIDE DEF F
<1>8. \A i \in 0 .. n : F[i] = IF i = 0 THEN SETUPTIME ELSE F[i - 1] + Button!Abs(m[i])
  <2> HIDE DEF n
  <2> QED
    BY <1>6
<1> HIDE DEF n, step
<1>9. \A i \in 0 .. n : F[i] \in {x \in Nat : x >= SETUPTIME}
  <2>1. F[0] \in {x \in Nat : x >= SETUPTIME}
    <3>1. 0 \in 0 .. n
      BY <1>1
    <3>2. F[0] = SETUPTIME
      BY <1>8, <3>1
    <3> QED
      BY <1>1, <3>2
  <2>2. ASSUME NEW i \in 0 .. n, i # 0, F[i - 1] \in {x \in Nat : x >= SETUPTIME}
        PROVE  F[i] \in {x \in Nat : x >= SETUPTIME}
    <3>1. i \in 1 .. n
      BY <2>2
    <3>2. F[i] = F[i - 1] + Button!Abs(m[i])
      BY <1>8, <2>2
    <3>3. Button!Abs(m[i]) \in Nat
      BY <1>2, <3>1
    <3> QED
      BY <2>2, <3>2, <3>3, <1>1
  <2> QED
    BY <1>1, <2>1, <2>2, RecursionType
<1>10. \A i \in 0 .. n : F[n - i] <= F[n]
  <2> DEFINE T == {i \in 0 .. n : F[n - i] <= F[n]}
  <2>1. 0 \in T
    BY <1>1, <1>9
  <2>2. ASSUME NEW i \in 0 .. n, i # 0, i - 1 \in T
        PROVE  i \in T
    <3>1. n - i \in 0 .. n /\ n - (i - 1) \in 1 .. n /\ (n - (i - 1)) - 1 = n - i
      BY <1>1, <2>2
    <3>2. F[n - (i - 1)] = F[n - i] + Button!Abs(m[n - (i - 1)])
      BY <1>8, <3>1
    <3>3. Button!Abs(m[n - (i - 1)]) \in Nat
      BY <1>2, <3>1
    <3>4. F[n - i] \in Nat /\ F[n] \in Nat /\ F[n - (i - 1)] <= F[n]
      BY <1>1, <1>9, <2>2, <3>1
    <3> QED
      BY <3>2, <3>3, <3>4
  <2>3. \A i \in 0 .. n : i \in T
    <3> HIDE DEF T
    <3> QED
      BY <1>1, <2>1, <2>2, IntervalInduction
  <2> QED
    BY <2>3
<1>11. ASSUME NEW i \in 0 .. n PROVE F[i] \in 0 .. F[n]
  <2>1. n - i \in 0 .. n /\ n - (n - i) = i /\ n \in 0 .. n
    BY <1>1
  <2>2. F[i] <= F[n]
    BY <1>10, <2>1
  <2> QED
    BY <1>9, <2>1, <2>2
<1>12. F[n] \in Nat /\ F[n] >= SETUPTIME /\ F[0] = SETUPTIME
  BY <1>1, <1>8, <1>9
<1>13. \A i \in 1 .. n : F[i] = F[i - 1] + Button!Abs(m[i])
  BY <1>8
<1> QED
  BY <1>7, <1>11, <1>12, <1>13 DEF n
-----------------------------------------------------------------------------
(* The receiver follows the line.                                          *)

\* Within the threshold the accumulator counts the polls.
LEMMA TickValue ==
  ASSUME NEW a \in 0 .. ACCUM_THRESH
  PROVE  Tick(a) = IF a < ACCUM_THRESH THEN a + 1 ELSE ACCUM_THRESH
BY ConstAssumption, RoomConstants DEF Tick, U16, UINT16

\* The parts of a poll, where the buffer has room.
LEMMA PollFacts ==
  ASSUME Bounds, Poll
  PROVE  /\ rxAccum \in 0 .. ACCUM_THRESH /\ rxPos \in 0 .. PKTSYMB_MAX - 1
         /\ rxLast \in {0, 1} /\ Symbol \in {0, 1}
         /\ Span = IF rxLast = 1 THEN rxAccum ELSE -rxAccum
         /\ symbols \in [0 .. PKTSYMB_MAX -> Int]
         /\ rxAccum > SIGFREE_MIN /\ Symbol = 0 /\ rxPos >= 1 =>
              /\ symbols' = [symbols EXCEPT ![rxPos] = Span, ![rxPos + 1] = 0]
              /\ rxState' = RXSTATE_MSGCOMPLETE
              /\ rxPos' = rxPos
              /\ rxAccum' = Tick(rxAccum)
              /\ rxLast' = rxLast
         /\ ~(rxAccum > SIGFREE_MIN /\ Symbol = 0 /\ rxPos >= 1) /\ Symbol # rxLast =>
              /\ symbols' = [symbols EXCEPT ![rxPos] = Span]
              /\ rxLast' = Symbol
              /\ rxPos + 1 < PKTSYMB_MAX => rxPos' = rxPos + 1
              /\ rxAccum' = 1
              /\ rxState' = rxState
         /\ ~(rxAccum > SIGFREE_MIN /\ Symbol = 0 /\ rxPos >= 1) /\ Symbol = rxLast =>
              /\ rxAccum' = Tick(rxAccum)
              /\ UNCHANGED <<rxState, rxLast, rxPos, symbols>>
<1>1. /\ rxAccum \in 0 .. ACCUM_THRESH /\ rxPos \in 0 .. PKTSYMB_MAX - 1
      /\ rxLast \in {0, 1} /\ Symbol \in {0, 1}
      /\ symbols \in [0 .. PKTSYMB_MAX -> Int]
  BY SymbolValue, ConstAssumption DEF Bounds, TypeOK, Int16
<1>2. Span = IF rxLast = 1 THEN rxAccum ELSE -rxAccum
  BY <1>1, SpanValue
<1>3. Stall(rxPos) = rxPos /\ (rxPos + 1 < PKTSYMB_MAX => Stall(rxPos + 1) = rxPos + 1)
  BY <1>1, StallBound, ConstAssumption
<1>4. Tick(0) = 1
  BY TickValue, RoomConstants
<1>5. Done <=> rxAccum > SIGFREE_MIN /\ Symbol = 0 /\ rxPos >= 1
  BY DEF Done
<1> QED
  BY <1>1, <1>2, <1>3, <1>4, <1>5 DEF Poll, Complete, Edge, Hold

\* The first poll of a symbol ends the one before.
LEMMA PollEdge ==
  ASSUME Bounds, Poll, NEW m, IsMsg(m), NEW i \in 0 .. Len(m) + 1, Symbol = i % 2,
         NEW d, i >= 2 => d = Button!Abs(m[i - 1]), Measures(m, i - 1, d)
  PROVE  Measures(m, i, 1)'
<1> DEFINE n == Len(m)
<1>1. n \in Nat /\ n >= 1 /\ n + 2 <= PKTSYMB_MAX /\ i \in 0 .. n + 1
  BY DEF IsMsg
<1>2. CASE i = 0
  <2>1. Fresh
    BY <1>2, <1>1 DEF Measures
  <2>2. Fresh'
    BY <1>2, <2>1, PollFacts DEF Fresh
  <2> QED
    BY <1>2, <2>2 DEF Measures
<1>3. CASE i = 1
  <2>1. Fresh
    BY <1>3, <1>1 DEF Measures
  <2>2. /\ rxState' = RXSTATE_READY /\ rxPos' = 1 /\ rxLast' = 1 /\ rxAccum' = 1
    <3>1. Symbol = 1
      BY <1>3
    <3> QED
      BY <2>1, <3>1, <1>1, PollFacts, RoomConstants DEF Fresh
  <2> QED
    BY <1>1, <1>3, <2>2 DEF Measures
<1>4. CASE i >= 2
  <2>1. i - 1 \in 1 .. n /\ i - 1 # n + 1
    BY <1>1, <1>4
  <2>2. /\ rxState = RXSTATE_READY /\ rxPos = i - 1 /\ rxLast = (i - 1) % 2
        /\ rxAccum = Button!Abs(m[i - 1])
        /\ \A k \in 1 .. (i - 1) - 1 : symbols[k] = m[k]
    <3>1. Measures(m, i - 1, d) /\ ~(i - 1 < 1) /\ d = Button!Abs(m[i - 1])
      BY <1>1, <1>4
    <3> QED
      BY <2>1, <3>1 DEF Measures
  <2>3. rxAccum \in 1 .. SIGFREE_MIN
    BY <2>1, <2>2, SymbolLength
  <2>4. m[i - 1] = IF rxLast = 1 THEN rxAccum ELSE -rxAccum
    BY <2>1, <2>2, SymbolLength
  <2>5. Symbol # rxLast
    <3>1. i \in Nat /\ (i - 1) % 2 # i % 2
      BY <1>1
    <3>2. rxLast = (i - 1) % 2
      BY <2>2
    <3> QED
      BY <3>1, <3>2, Zenon
  <2> HIDE DEF n
  <2>6. /\ symbols' = [symbols EXCEPT ![rxPos] = m[i - 1]]
        /\ rxLast' = i % 2 /\ rxPos' = i /\ rxAccum' = 1 /\ rxState' = RXSTATE_READY
    <3>1. ~(rxAccum > SIGFREE_MIN)
      BY <2>3, RoomConstants
    <3>2. rxPos + 1 < PKTSYMB_MAX /\ rxPos + 1 = i
      <4>1. rxPos = i - 1
        BY <2>2
      <4> QED
        BY <1>1, <4>1, RoomConstants
    <3>3. Span = m[i - 1]
      BY <2>4, PollFacts
    <3> QED
      BY <2>2, <2>5, <3>1, <3>2, <3>3, PollFacts
  <2>7. \A k \in 1 .. i - 1 : symbols'[k] = m[k]
    <3>1. symbols \in [0 .. PKTSYMB_MAX -> Int]
      BY PollFacts
    <3> QED
      BY <3>1, <2>2, <2>6, <1>1, RoomConstants
  <2> QED
    BY <2>6, <2>7, <1>1, <1>4, RoomConstants DEF Measures
<1> QED
  BY <1>1, <1>2, <1>3, <1>4

\* Every other one counts; one of the silence behind the message completes it.
LEMMA PollHold ==
  ASSUME Bounds, Poll, NEW m, IsMsg(m), NEW i \in 0 .. Len(m) + 1, Symbol = i % 2,
         NEW d \in Nat, i \in 1 .. Len(m) => d < Button!Abs(m[i]),
         Measures(m, i, d)
  PROVE  Measures(m, i, d + 1)'
<1> DEFINE n == Len(m)
<1>1. n \in Nat /\ n >= 1 /\ n % 2 = 1 /\ n + 2 <= PKTSYMB_MAX /\ i \in 0 .. n + 1
  BY DEF IsMsg
<1>2. CASE i = 0
  <2>1. Fresh
    BY <1>2, <1>1 DEF Measures
  <2>2. Fresh'
    BY <1>2, <2>1, PollFacts DEF Fresh
  <2> QED
    BY <1>2, <2>2 DEF Measures
<1>3. CASE i >= 1 /\ ~(i = n + 1 /\ d > SIGFREE_MIN)
  <2>1. /\ rxState = RXSTATE_READY /\ rxPos = i /\ rxLast = i % 2 /\ rxAccum = d
        /\ \A k \in 1 .. i - 1 : symbols[k] = m[k]
    BY <1>1, <1>3, RoomConstants DEF Measures
  <2>2. d <= SIGFREE_MIN
    <3>1. i \in 1 .. n => Button!Abs(m[i]) \in 1 .. SIGFREE_MIN
      BY SymbolLength
    <3> QED
      BY <1>1, <1>3, <3>1, RoomConstants
  <2>3. Tick(rxAccum) = d + 1
    BY <2>1, <2>2, TickValue, RoomConstants
  <2> HIDE DEF n
  <2>4. rxAccum' = d + 1 /\ UNCHANGED <<rxState, rxLast, rxPos, symbols>>
    BY <2>1, <2>2, <2>3, PollFacts, RoomConstants
  <2>5. i = n + 1 => d + 1 <= SIGFREE_MIN + 1
    BY <2>2, RoomConstants
  <2> QED
    BY <1>3, <2>1, <2>4, <2>5 DEF Measures, n
<1>4. CASE i = n + 1 /\ d > SIGFREE_MIN
  <2>1. Symbol = 0 /\ n + 1 >= 1 /\ (n + 1) % 2 = 0
    <3> HIDE DEF n
    <3> QED
      BY <1>1, <1>4
  <2>2. /\ rxPos = n + 1 /\ rxLast = 0 /\ rxAccum > SIGFREE_MIN
        /\ \A k \in 1 .. n : symbols[k] = m[k]
    <3>1. CASE Has(m)
      BY <3>1 DEF Has
    <3>2. CASE ~Has(m)
      <4>1. rxPos = i /\ rxLast = i % 2 /\ rxAccum = d /\ \A k \in 1 .. i - 1 : symbols[k] = m[k]
        BY <3>2, <1>1, <1>4 DEF Measures
      <4>2. i - 1 = n
        BY <1>1, <1>4
      <4> HIDE DEF n
      <4> QED
        BY <4>1, <4>2, <1>4, <2>1
    <3> QED
      BY <3>1, <3>2
  <2> HIDE DEF n
  <2>3. /\ symbols' = [symbols EXCEPT ![n + 1] = -rxAccum, ![n + 2] = 0]
        /\ rxState' = RXSTATE_MSGCOMPLETE
        /\ rxPos' = n + 1 /\ rxLast' = 0
        /\ rxAccum' = Tick(rxAccum)
    <3>1. rxPos >= 1 /\ rxPos + 1 = n + 2
      BY <1>1, <2>2
    <3>2. Span = -rxAccum
      BY <2>2, PollFacts
    <3> QED
      BY <2>1, <2>2, <3>1, <3>2, PollFacts
  <2>4. rxAccum' > SIGFREE_MIN
    <3>1. rxAccum \in 0 .. ACCUM_THRESH
      BY PollFacts
    <3> QED
      BY <3>1, <2>2, <2>3, TickValue, RoomConstants
  <2>5. symbols'[n + 1] <= -SIGFREE_MIN /\ \A k \in 1 .. n : symbols'[k] = m[k]
    <3>1. symbols \in [0 .. PKTSYMB_MAX -> Int] /\ rxAccum \in 0 .. ACCUM_THRESH
      BY PollFacts
    <3> QED
      BY <3>1, <2>2, <2>3, <1>1, RoomConstants
  <2>6. Has(m)'
    BY <2>3, <2>4, <2>5 DEF Has, n
  <2>7. d + 1 > SIGFREE_MIN + 1
    BY <1>4, RoomConstants
  <2> QED
    BY <1>4, <2>6, <2>7 DEF Measures, n
<1> QED
  BY <1>1, <1>2, <1>3, <1>4

\* So the receiver follows the sender, one poll later.
LEMMA PollFollows ==
  ASSUME Bounds, Poll, NEW m, IsMsg(m), NEW i \in 0 .. Len(m) + 1, Symbol = i % 2,
         NEW k \in Nat, i \in 1 .. Len(m) => k < Button!Abs(m[i]),
         IF k = 0 THEN Measures(m, i - 1, Button!Abs(Symb(m, i - 1))) ELSE Measures(m, i, k)
  PROVE  Measures(m, i, k + 1)'
<1>1. CASE k = 0
  <2>1. i >= 2 => Button!Abs(Symb(m, i - 1)) = Button!Abs(m[i - 1])
    BY DEF Symb, IsMsg
  <2>2. PICK d : d = Button!Abs(Symb(m, i - 1))
    OBVIOUS
  <2>3. Measures(m, i - 1, d) /\ (i >= 2 => d = Button!Abs(m[i - 1]))
    BY <1>1, <2>1, <2>2
  <2>4. Measures(m, i, 1)'
    BY <2>3, PollEdge
  <2>5. k + 1 = 1
    BY <1>1
  <2> QED
    BY <2>4, <2>5
<1>2. CASE k # 0
  BY <1>2, PollHold
<1> QED
  BY <1>1, <1>2

-----------------------------------------------------------------------------
(* The sender.                                                             *)

\* The difference of two readings of a clock of n values.
LEMMA ClockDifference ==
  ASSUME NEW n \in Nat, NEW a \in 0 .. n - 1, NEW b \in 0 .. n - 1
  PROVE  (a - b) % n = IF a >= b THEN a - b ELSE a - b + n
OBVIOUS

\* As long as it does not wrap, the age advances with the clock.
LEMMA AgeTick ==
  ASSUME now \in 0 .. CLOCK - 1, buttonInvalidStart \in 0 .. CLOCK - 1,
         now' = (now + 1) % CLOCK, UNCHANGED buttonInvalidStart, Age + 1 < CLOCK
  PROVE  Age \in Nat /\ Age' = Age + 1
<1>1. CLOCK \in Nat /\ CLOCK > 0
  BY RoomConstants
<1>2. Age = IF now >= buttonInvalidStart THEN now - buttonInvalidStart
            ELSE now - buttonInvalidStart + CLOCK
  BY <1>1, ClockDifference DEF Age
<1>3. now' = IF now + 1 = CLOCK THEN 0 ELSE now + 1
  BY <1>1
<1>4. now' \in 0 .. CLOCK - 1
  BY <1>1, <1>3
<1>5. Age' = IF now' >= buttonInvalidStart THEN now' - buttonInvalidStart
             ELSE now' - buttonInvalidStart + CLOCK
  BY <1>1, <1>4, ClockDifference DEF Age
<1> QED
  BY <1>1, <1>2, <1>3, <1>5

\* Two elements in a row, for SMT.
LEMMA AppendOne ==
  ASSUME NEW a, NEW b
  PROVE  /\ Append(<<a>>, b) = <<a, b>>
         /\ Tail(<<a>>) = <<>> /\ Tail(<<a, b>>) = <<b>>
<1> DEFINE S == {a, b}
           s == Append(<<a>>, b)
<1>1. /\ <<a>> \in Seq(S) /\ <<a, b>> \in Seq(S) /\ b \in S
      /\ Len(<<a>>) = 1 /\ Len(<<a, b>>) = 2 /\ <<a>>[1] = a
  OBVIOUS
<1> HIDE DEF S
<1>2. s \in Seq(S) /\ Len(s) = 2 /\ s[1] = a /\ s[2] = b
  BY <1>1, AppendProperties
<1> HIDE DEF s
<1>3. s = <<a, b>>
  BY <1>1, <1>2, SeqEqual
<1>4. Tail(<<a>>) = <<>> /\ Tail(<<a, b>>) = <<b>>
  OBVIOUS
<1> QED
  BY <1>3, <1>4 DEF s

\* Only the empty sequence has the length 0.
LEMMA EmptyLength ==
  ASSUME NEW S, NEW s \in Seq(S)
  PROVE  Len(s) \in Nat /\ (s = <<>> <=> Len(s) = 0)
OBVIOUS

\* The tail of a sequence, element by element.
LEMMA TailValue ==
  ASSUME NEW S, NEW s \in Seq(S), s # <<>>
  PROVE  /\ Tail(s) \in Seq(S) /\ Len(Tail(s)) = Len(s) - 1 /\ Len(s) \in Nat \ {0}
         /\ \A n \in 1 .. Len(s) - 1 : Tail(s)[n] = s[n + 1]
OBVIOUS

\* A sequence with an element in front.
LEMMA ConsValue ==
  ASSUME NEW S, NEW s \in Seq(S), NEW x \in S
  PROVE  /\ <<x>> \o s \in Seq(S) /\ Len(<<x>> \o s) = Len(s) + 1 /\ Len(s) \in Nat
         /\ <<x>> \o s # <<>>
         /\ (<<x>> \o s)[1] = x
         /\ \A n \in 2 .. Len(s) + 1 : (<<x>> \o s)[n] = s[n - 1]
OBVIOUS

\* The types of what Underway speaks about.
LEMMA UnderwayTypes ==
  ASSUME RoomTypeOK, NEW m, IsMsg(m), Underway(m)
  PROVE  /\ Age \in Nat /\ Start(m, Place(m)) \in Nat
         /\ Age = Start(m, Place(m)) + Spent(m)
         /\ Len(m) \in Nat /\ Len(sending) \in Nat
         /\ Place(m) \in 0 .. Len(m) + 1 /\ Spent(m) \in Nat
         /\ Len(sending) = Len(m) + 1 - Place(m)
         /\ sending = <<>> <=> Place(m) = Len(m) + 1
<1>1. Len(m) \in Nat /\ Len(sending) \in Nat /\ (sending = <<>> <=> Len(sending) = 0)
  BY DEF IsMsg, RoomTypeOK
<1>2. Place(m) \in 0 .. Len(m) + 1 /\ Spent(m) \in Nat
  BY DEF Underway
<1>3. Age \in Nat
  BY RoomConstants DEF Age, RoomTypeOK
<1>4. Start(m, Place(m)) \in Nat
  <2>1. CASE Place(m) = 0
    BY <2>1 DEF Start
  <2>2. CASE Place(m) # 0
    <3>1. Place(m) - 1 \in 0 .. Len(m)
      BY <1>1, <1>2, <2>2
    <3>2. Button!Times(m)[Place(m) - 1] \in Nat
      BY <3>1, TimesFacts
    <3> QED
      BY <2>2, <3>2 DEF Start
  <2> QED
    BY <2>1, <2>2
<1>5. Age = Start(m, Place(m)) + Spent(m)
  BY <1>3, <1>4 DEF Spent
<1>6. Len(sending) = Len(m) + 1 - Place(m)
  BY <1>1 DEF Place
<1> QED
  BY <1>1, <1>2, <1>3, <1>4, <1>5, <1>6

\* The symbol that is being sent, the setup time included.
LEMMA SymbolSent ==
  ASSUME RoomTypeOK, NEW m, IsMsg(m), Underway(m), sending # <<>>
  PROVE  /\ Place(m) \in 0 .. Len(m)
         /\ sending[1] \in Int \ {0} /\ Head(sending) = sending[1]
         /\ Button!Abs(sending[1]) \in Nat \ {0}
         /\ Button!Abs(Symb(m, Place(m))) \in Nat
         /\ Button!Abs(sending[1]) + Spent(m) = Button!Abs(Symb(m, Place(m)))
         /\ Start(m, Place(m) + 1) = Start(m, Place(m)) + Button!Abs(Symb(m, Place(m)))
         /\ Start(m, Place(m) + 1) <= Button!Duration(m)
<1>1. PICK i : i = Place(m)
  OBVIOUS
<1>2. i \in 0 .. Len(m) /\ Len(m) \in Nat
  BY <1>1, UnderwayTypes
<1>3. sending[1] \in Int \ {0} /\ Head(sending) = sending[1]
  BY DEF RoomTypeOK
<1>4. Button!Abs(sending[1]) \in Nat \ {0}
  BY <1>3 DEF Button!Abs
<1>5. Button!Abs(Symb(m, i)) \in Nat
  <2>1. CASE i = 0
    BY <2>1, RoomConstants DEF Symb, Button!Abs
  <2>2. CASE i # 0
    BY <2>2, <1>2, SymbolLength, RoomConstants DEF Symb
  <2> QED
    BY <2>1, <2>2
<1>6. Button!Times(m)[i] = Start(m, i) + Button!Abs(Symb(m, i))
  <2>1. CASE i = 0
    BY <2>1, TimesFacts, RoomConstants DEF Symb, Start, Button!Abs
  <2>2. CASE i # 0
    <3>1. i \in 1 .. Len(m)
      BY <1>2, <2>2
    <3> QED
      BY <2>2, <3>1, TimesFacts DEF Symb, Start
  <2> QED
    BY <2>1, <2>2
<1>7. Start(m, i + 1) = Button!Times(m)[i]
  <2>1. i + 1 # 0 /\ (i + 1) - 1 = i
    BY <1>2
  <2> QED
    BY <2>1 DEF Start
<1>8. Button!Times(m)[i] <= Button!Duration(m)
  BY <1>2, TimesFacts
<1>9. Button!Abs(sending[1]) + Spent(m) = Button!Abs(Symb(m, Place(m)))
  BY DEF Underway, Remains
<1> QED
  BY <1>1, <1>2, <1>3, <1>4, <1>5, <1>6, <1>7, <1>8, <1>9

\* The receiver module shows the light of the sender.
LEMMA LineLevel ==
  ASSUME RoomTypeOK, pin = Level, NEW m, IsMsg(m), Underway(m)
  PROVE  Symbol = Place(m) % 2
<1>1. Symbol = IF Button!Light THEN 1 ELSE 0
  <2>1. CASE invSig = TRUE
    <3>1. Button!Light \in BOOLEAN
      BY DEF Button!Light
    <3>2. Level = IF Button!Light THEN 0 ELSE 1
      BY <2>1, <3>1 DEF Level
    <3>3. Symbol = 1 - Level
      BY <2>1 DEF Symbol
    <3> QED
      BY <3>2, <3>3
  <2>2. CASE invSig = FALSE
    BY <2>2 DEF Symbol, Level, Button!Light
  <2> QED
    BY <2>1, <2>2, ConstAssumption
<1>2. CASE sending = <<>>
  <2>1. ~Button!Light
    BY <1>2 DEF Button!Light
  <2>2. PICK n : n = Len(m)
    OBVIOUS
  <2>3. n \in Nat /\ n % 2 = 1 /\ Place(m) = n + 1
    BY <1>2, <2>2, UnderwayTypes DEF IsMsg
  <2>4. Place(m) % 2 = 0
    BY <2>3
  <2> QED
    BY <1>1, <2>1, <2>4
<1>3. CASE sending # <<>>
  <2>1. Button!Light <=> sending[1] > 0
    BY <1>3, SymbolSent DEF Button!Light
  <2>2. sending[1] > 0 <=> Place(m) % 2 = 1
    BY <1>3 DEF Underway, Remains
  <2>3. Place(m) % 2 \in {0, 1}
    BY UnderwayTypes
  <2> QED
    BY <1>1, <2>1, <2>2, <2>3
<1> QED
  BY <1>2, <1>3

\* Outside Send() the button is valid again one unit after its period; inside,
\* the age stays below the duration of the message.
LEMMA AgeBound ==
  ASSUME RoomTypeOK, NEW m, IsMsg(m), Underway(m), ~Button!Due
  PROVE  Age + 1 <= BUTTONINVALID_PERIOD + 1 /\ Age + 1 < CLOCK
<1>1. Age \in Nat
  BY UnderwayTypes
<1>2. CASE sending = <<>>
  <2>1. ~Button!Expired
    BY <1>2 DEF Button!Due, Underway, Button!BUTTONSTATE_VALID, Button!BUTTONSTATE_INVALID
  <2> QED
    BY <1>1, <2>1, RoomConstants DEF Button!Expired, Age
<1>3. CASE sending # <<>>
  <2> DEFINE a == Button!Abs(sending[1])
             b == Button!Abs(Symb(m, Place(m)))
             u == Start(m, Place(m))
             v == Start(m, Place(m) + 1)
             w == Spent(m)
             z == Button!Duration(m)
  <2>1. a \in Nat \ {0} /\ b \in Nat /\ a + w = b /\ v = u + b /\ v <= z
    BY <1>3, SymbolSent
  <2>2. u \in Nat /\ w \in Nat /\ Age = u + w
    BY UnderwayTypes
  <2>3. z \in Nat /\ z + SIGFREE_MIN < BUTTONINVALID_PERIOD
    BY TimesFacts DEF IsMsg
  <2> HIDE DEF a, b, u, v, w, z
  <2> QED
    BY <2>1, <2>2, <2>3, RoomConstants
<1> QED
  BY <1>2, <1>3

\* The sender goes on with its symbol ...
LEMMA SenderHolds ==
  ASSUME RoomTypeOK, NEW m, IsMsg(m), Underway(m), Button!Elapse, Age' = Age + 1,
         sending # <<>>, sending[1] \notin {-1, 1}
  PROVE  /\ Place(m)' = Place(m) /\ Spent(m)' = Spent(m) + 1 /\ sending' # <<>>
         /\ sending' \in Seq(Int \ {0})
         /\ Spent(m) + 1 < Button!Abs(Symb(m, Place(m)))
         /\ Remains(m)'
<1> DEFINE d == sending[1]
           e == IF d > 0 THEN d - 1 ELSE d + 1
           t == Tail(sending)
<1>1. d \in Int \ {0, 1, -1} /\ Head(sending) = d
  BY SymbolSent
<1>2. e \in Int \ {0} /\ Button!Abs(e) = Button!Abs(d) - 1 /\ (e > 0 <=> d > 0)
      /\ Button!Abs(d) \in Nat /\ Button!Abs(d) > 1
  BY <1>1 DEF Button!Abs
<1>3. sending' = <<e>> \o t
  BY <1>1 DEF Button!Elapse
<1> HIDE DEF d, e
<1>4. /\ t \in Seq(Int \ {0}) /\ Len(t) = Len(sending) - 1 /\ Len(sending) \in Nat \ {0}
      /\ \A n \in 1 .. Len(sending) - 1 : t[n] = sending[n + 1]
  BY TailValue DEF RoomTypeOK
<1> HIDE DEF t
<1>5. /\ sending' \in Seq(Int \ {0}) /\ Len(sending') = Len(sending) /\ sending' # <<>>
      /\ sending'[1] = e
      /\ \A n \in 2 .. Len(sending) : sending'[n] = t[n - 1]
  <2>1. /\ <<e>> \o t \in Seq(Int \ {0}) /\ Len(<<e>> \o t) = Len(t) + 1
        /\ <<e>> \o t # <<>> /\ (<<e>> \o t)[1] = e
        /\ \A n \in 2 .. Len(t) + 1 : (<<e>> \o t)[n] = t[n - 1]
    BY <1>2, <1>4, ConsValue
  <2>2. Len(t) + 1 = Len(sending)
    BY <1>4
  <2> QED
    BY <1>3, <2>1, <2>2
<1>6. \A n \in 2 .. Len(sending) : sending'[n] = sending[n]
  <2> SUFFICES ASSUME NEW n \in 2 .. Len(sending) PROVE sending'[n] = sending[n]
    OBVIOUS
  <2>1. n - 1 \in 1 .. Len(sending) - 1 /\ (n - 1) + 1 = n
    BY <1>4
  <2> QED
    BY <1>4, <1>5, <2>1
<1>7. Place(m)' = Place(m)
  BY <1>5 DEF Place
<1>8. Start(m, Place(m))' = Start(m, Place(m))
  BY <1>7 DEF Start
<1>9. Spent(m)' = Spent(m) + 1
  BY <1>8, UnderwayTypes DEF Spent
<1>10. /\ Button!Abs(d) + Spent(m) = Button!Abs(Symb(m, Place(m)))
       /\ d > 0 <=> Place(m) % 2 = 1
       /\ \A n \in 2 .. Len(sending) : sending[n] = m[Place(m) + n - 1]
       /\ Spent(m) \in Nat
  BY DEF Underway, Remains, d
<1>11. Spent(m) + 1 < Button!Abs(Symb(m, Place(m)))
  BY <1>2, <1>10
<1>12. Symb(m, Place(m))' = Symb(m, Place(m))
  BY <1>7 DEF Symb
<1>13. Button!Abs(e) + (Spent(m) + 1) = Button!Abs(Symb(m, Place(m)))
  BY <1>2, <1>10
<1>14. Remains(m)'
  BY <1>2, <1>5, <1>6, <1>7, <1>9, <1>10, <1>12, <1>13 DEF Remains
<1> QED
  BY <1>5, <1>7, <1>9, <1>11, <1>14

\* ... or begins the next one.
LEMMA SenderAdvances ==
  ASSUME RoomTypeOK, NEW m, IsMsg(m), Underway(m), Button!Elapse, Age' = Age + 1,
         sending # <<>>, sending[1] \in {-1, 1}
  PROVE  /\ Place(m)' = Place(m) + 1 /\ Spent(m)' = 0
         /\ sending' \in Seq(Int \ {0}) /\ (sending' = <<>> <=> Place(m)' = Len(m) + 1)
         /\ Spent(m) + 1 = Button!Abs(Symb(m, Place(m)))
         /\ Remains(m)'
<1>1. Head(sending) = sending[1] /\ Button!Abs(sending[1]) = 1
  BY SymbolSent DEF Button!Abs
<1>2. sending' = Tail(sending)
  BY <1>1 DEF Button!Elapse
<1>3. /\ sending' \in Seq(Int \ {0}) /\ Len(sending') = Len(sending) - 1
      /\ Len(sending) \in Nat \ {0}
      /\ \A n \in 1 .. Len(sending) - 1 : sending'[n] = sending[n + 1]
  BY <1>2, TailValue DEF RoomTypeOK
<1>4. Len(m) \in Nat /\ Len(sending) = Len(m) + 1 - Place(m) /\ Place(m) \in 0 .. Len(m)
      /\ Spent(m) \in Nat /\ Age \in Nat /\ Start(m, Place(m)) \in Nat
      /\ Age = Start(m, Place(m)) + Spent(m)
  BY UnderwayTypes, SymbolSent
<1>5. Place(m)' = Place(m) + 1
  BY <1>3, <1>4 DEF Place
<1>6. sending' = <<>> <=> Place(m)' = Len(m) + 1
  <2> DEFINE a == Len(sending')
             b == Len(sending)
             n == Len(m)
             i == Place(m)
  <2>1. sending' = <<>> <=> a = 0
    BY <1>3, EmptyLength
  <2>2. a = b - 1 /\ b = n + 1 - i /\ n \in Nat /\ i \in 0 .. n
    BY <1>3, <1>4
  <2> HIDE DEF a, b, n, i
  <2>3. a = 0 <=> i + 1 = n + 1
    BY <2>2
  <2> QED
    BY <1>5, <2>1, <2>3 DEF i, n
<1>7. Spent(m) + 1 = Button!Abs(Symb(m, Place(m)))
  BY <1>1, <1>4, SymbolSent
<1>8. Start(m, Place(m))' = Start(m, Place(m)) + Button!Abs(Symb(m, Place(m)))
  <2>1. Start(m, Place(m) + 1) = Start(m, Place(m)) + Button!Abs(Symb(m, Place(m)))
    BY SymbolSent
  <2>2. Start(m, Place(m))' = Start(m, Place(m) + 1)
    BY <1>5 DEF Start
  <2> QED
    BY <2>1, <2>2
<1>9. Spent(m)' = 0
  BY <1>4, <1>7, <1>8 DEF Spent
<1>10. Remains(m)'
  <2> SUFFICES ASSUME sending' # <<>>
               PROVE  /\ Button!Abs(sending'[1]) + Spent(m)' = Button!Abs(Symb(m, Place(m)))'
                      /\ sending'[1] > 0 <=> Place(m)' % 2 = 1
                      /\ \A n \in 2 .. Len(sending') : sending'[n] = m[Place(m)' + n - 1]
    BY DEF Remains
  <2>1. \A n \in 2 .. Len(sending) : sending[n] = m[Place(m) + n - 1]
    BY DEF Underway, Remains
  <2>2. PICK i : i = Place(m)
    OBVIOUS
  <2>3. i + 1 \in 1 .. Len(m) /\ i \in Nat /\ Len(sending) = Len(m) + 1 - i
    BY <1>4, <1>5, <1>6, <2>2
  <2>4. sending'[1] = m[i + 1]
    <3>1. 2 \in 2 .. Len(sending) /\ 1 \in 1 .. Len(sending) - 1 /\ i + 2 - 1 = i + 1
      BY <2>3, <1>4
    <3> QED
      BY <1>3, <2>1, <2>2, <3>1
  <2>5. Symb(m, Place(m))' = m[i + 1]
    BY <1>5, <2>2, <2>3 DEF Symb
  <2>6. /\ m[i + 1] \in Int /\ Button!Abs(m[i + 1]) \in 1 .. SIGFREE_MIN
        /\ m[i + 1] = IF (i + 1) % 2 = 1 THEN Button!Abs(m[i + 1]) ELSE -Button!Abs(m[i + 1])
    BY <2>3, SymbolLength
  <2>7. m[i + 1] > 0 <=> (i + 1) % 2 = 1
    BY <2>6
  <2>8. \A n \in 2 .. Len(sending') : sending'[n] = m[Place(m)' + n - 1]
    <3> SUFFICES ASSUME NEW n \in 2 .. Len(sending')
                 PROVE  sending'[n] = m[i + 1 + n - 1]
      BY <1>5, <2>2
    <3>1. n \in 1 .. Len(sending) - 1 /\ n + 1 \in 2 .. Len(sending)
          /\ i + (n + 1) - 1 = i + 1 + n - 1
      BY <1>3, <1>4, <2>3
    <3> QED
      BY <1>3, <2>1, <2>2, <3>1
  <2>9. Button!Abs(m[i + 1]) + 0 = Button!Abs(m[i + 1])
    BY <2>6
  <2> QED
    BY <1>5, <1>9, <2>2, <2>4, <2>5, <2>7, <2>8, <2>9
<1> QED
  BY <1>3, <1>5, <1>6, <1>7, <1>9, <1>10

-----------------------------------------------------------------------------
(* One step of the room.                                                   *)

\* The receiver is not locked: PopMsg() is done before the next interrupt.
LEMMA ReceiverPolls ==
  ASSUME NEW m, Underway(m), ProcessISR
  PROVE  Poll
BY DEF Underway, Tracks, Measures, Has, Fresh, ProcessISR, Ignore,
       RXSTATE_BUSY, RXSTATE_READY, RXSTATE_MSGCOMPLETE

\* While a message is sent and recorded, a unit of time takes sender and receiver
\* one unit further.
LEMMA ElapseUnderway ==
  ASSUME IInv, NEW m, IsMsg(m), Underway(m), Elapse
  PROVE  Underway(m)' /\ sending' \in Seq(Int \ {0})
<1>1. Bounds /\ RoomTypeOK
  BY DEF IInv, Bounds, RoomTypeOK
<1>2. /\ pin = Level /\ Button!Elapse /\ ProcessISR /\ ~Button!Due
      /\ relaying' = IF relaying = 0 THEN 0 ELSE relaying - 1
      /\ now' = (now + 1) % CLOCK /\ UNCHANGED <<buttonState, buttonInvalidStart>>
  BY DEF Elapse, Button!Elapse
<1>3. Poll /\ Symbol = Place(m) % 2
  BY <1>1, <1>2, ReceiverPolls, LineLevel
<1>4. Age \in Nat /\ Age' = Age + 1 /\ Age' <= BUTTONINVALID_PERIOD + 1
  <2>1. Age + 1 <= BUTTONINVALID_PERIOD + 1 /\ Age + 1 < CLOCK
    BY <1>1, <1>2, AgeBound
  <2>2. now \in 0 .. CLOCK - 1 /\ buttonInvalidStart \in 0 .. CLOCK - 1
    BY <1>1 DEF RoomTypeOK
  <2> QED
    BY <1>2, <2>1, <2>2, AgeTick
<1>5. /\ Len(m) \in Nat /\ Place(m) \in 0 .. Len(m) + 1 /\ Spent(m) \in Nat
      /\ sending = <<>> <=> Place(m) = Len(m) + 1
  BY <1>1, UnderwayTypes
<1>6. PICK i \in 0 .. Len(m) + 1, k \in Nat : i = Place(m) /\ k = Spent(m)
  BY <1>5
<1>7. IF k = 0 THEN Measures(m, i - 1, Button!Abs(Symb(m, i - 1))) ELSE Measures(m, i, k)
  BY <1>6 DEF Underway, Tracks
<1>8. ASSUME i \in 1 .. Len(m) => k < Button!Abs(m[i])
      PROVE  Measures(m, i, k + 1)'
  <2>1. Symbol = i % 2
    BY <1>3, <1>6
  <2> QED
    BY <1>1, <1>3, <1>7, <1>8, <2>1, PollFollows
<1>9. /\ buttonState' = Button!BUTTONSTATE_INVALID
      /\ relaying' > 0 => relaying' + Age' <= BUTTONINVALID_PERIOD
  <2>1. relaying \in Nat
    BY <1>1 DEF RoomTypeOK
  <2> QED
    BY <1>2, <1>4, <2>1, RoomConstants DEF Underway
<1>10. quiet' = IF Symbol = 1 THEN 0 ELSE IF quiet < QuietCap THEN quiet + 1 ELSE QuietCap
  BY <1>2 DEF ProcessISR
<1>11. CASE sending = <<>>
  <2>1. sending' = <<>>
    BY <1>2, <1>11 DEF Button!Elapse
  <2>2. i = Len(m) + 1 /\ Place(m)' = i
    BY <1>5, <1>6, <1>11, <2>1 DEF Place
  <2>3. Spent(m)' = k + 1
    <3>1. Start(m, Place(m))' = Start(m, Place(m))
      BY <1>6, <2>2 DEF Start
    <3>2. Start(m, Place(m)) \in Nat /\ Age = Start(m, Place(m)) + k
      BY <1>1, <1>6, UnderwayTypes
    <3> QED
      BY <1>4, <3>1, <3>2 DEF Spent
  <2>4. Measures(m, i, k + 1)'
    BY <1>5, <1>8, <2>2
  <2>5. Tracks(m)'
    <3>1. k + 1 # 0
      BY <1>6
    <3> QED
      BY <2>2, <2>3, <2>4, <3>1 DEF Tracks, Measures
  <2>6. Symbol = 0
    <3>1. PICK n : n = Len(m)
      OBVIOUS
    <3>2. n \in Nat /\ n % 2 = 1 /\ i = n + 1
      BY <1>5, <2>2, <3>1 DEF IsMsg
    <3>3. i % 2 = 0
      BY <3>2
    <3> QED
      BY <1>3, <1>6, <3>3
  <2>7. quiet' = IF k + 1 < QuietCap THEN k + 1 ELSE QuietCap
    <3>1. quiet = IF k < QuietCap THEN k ELSE QuietCap
      BY <1>6, <1>11 DEF Underway
    <3> QED
      BY <1>6, <1>10, <2>6, <3>1, RoomConstants
  <2>8. Place(m)' \in 0 .. Len(m) + 1 /\ Spent(m)' \in Nat /\ Remains(m)'
    BY <1>6, <2>1, <2>2, <2>3 DEF Remains
  <2>9. sending' \in Seq(Int \ {0})
    BY <2>1
  <2> QED
    BY <1>4, <1>9, <2>3, <2>5, <2>7, <2>8, <2>9 DEF Underway
<1>12. CASE sending # <<>>
  <2>1. i \in 1 .. Len(m) => Symb(m, i) = m[i]
    BY DEF Symb
  <2>2. CASE sending[1] \in {-1, 1}
    <3>1. /\ Place(m)' = i + 1 /\ Spent(m)' = 0
          /\ sending' \in Seq(Int \ {0}) /\ (sending' = <<>> <=> i + 1 = Len(m) + 1)
          /\ k + 1 = Button!Abs(Symb(m, i))
          /\ Remains(m)'
      BY <1>1, <1>2, <1>4, <1>6, <1>12, <2>2, SenderAdvances
    <3>2. Measures(m, i, k + 1)'
      BY <1>6, <1>8, <2>1, <3>1
    <3>3. Tracks(m)'
      <4>1. Place(m)' - 1 = i
        BY <1>6, <3>1
      <4>2. Button!Abs(Symb(m, Place(m) - 1))' = k + 1
        BY <3>1, <4>1 DEF Symb
      <4> QED
        BY <3>1, <3>2, <4>1, <4>2 DEF Tracks, Measures
    <3>4. sending' = <<>> => quiet' = 0
      <4> SUFFICES ASSUME sending' = <<>> PROVE quiet' = 0
        OBVIOUS
      <4>1. PICK n : n = Len(m)
        OBVIOUS
      <4>2. n \in Nat /\ n % 2 = 1 /\ i = n
        BY <1>5, <1>6, <3>1, <4>1 DEF IsMsg
      <4>3. Symbol = 1
        BY <1>3, <1>6, <4>2
      <4> QED
        BY <1>10, <4>3
    <3>5. Place(m)' \in 0 .. Len(m) + 1 /\ Spent(m)' \in Nat
      <4>1. i # Len(m) + 1
        BY <1>5, <1>6, <1>12
      <4> QED
        BY <1>5, <1>6, <3>1, <4>1
    <3>6. sending' = <<>> => quiet' = IF Spent(m)' < QuietCap THEN Spent(m)' ELSE QuietCap
      BY <3>1, <3>4, RoomConstants
    <3> QED
      BY <1>4, <1>9, <3>1, <3>3, <3>5, <3>6 DEF Underway
  <2>3. CASE sending[1] \notin {-1, 1}
    <3>1. /\ Place(m)' = i /\ Spent(m)' = k + 1 /\ sending' # <<>>
          /\ sending' \in Seq(Int \ {0})
          /\ k + 1 < Button!Abs(Symb(m, i))
          /\ Remains(m)'
      BY <1>1, <1>2, <1>4, <1>6, <1>12, <2>3, SenderHolds
    <3>2. Measures(m, i, k + 1)'
      <4>1. i \in 1 .. Len(m) => Button!Abs(m[i]) \in Nat
        BY SymbolLength, RoomConstants
      <4> QED
        BY <1>6, <1>8, <2>1, <3>1, <4>1
    <3>3. Tracks(m)'
      <4>1. k + 1 # 0
        BY <1>6
      <4> QED
        BY <3>1, <3>2, <4>1 DEF Tracks, Measures
    <3> QED
      BY <1>4, <1>6, <1>9, <3>1, <3>3 DEF Underway
  <2> QED
    BY <2>2, <2>3
<1> QED
  BY <1>11, <1>12

\* A step that changes the button or the light alone.
LEMMA SameControl ==
  ASSUME Control,
         UNCHANGED <<rxState, rxPos, rxLast, rxAccum, symbols, quiet, buttonState,
                     buttonInvalidStart, now, sending, relaying, owed>>
  PROVE  Control'
<1>1. Fresh' <=> Fresh
  BY DEF Fresh
<1>2. \A m : Has(m)' <=> Has(m)
  BY DEF Has
<1>3. Age' = Age
  BY DEF Age
<1>4. \A m : Place(m)' = Place(m)
  BY DEF Place
<1>5. \A m : Start(m, Place(m))' = Start(m, Place(m))
  BY <1>4 DEF Start
<1>6. \A m : Spent(m)' = Spent(m)
  BY <1>3, <1>5 DEF Spent
<1>7. \A m : Remains(m)' <=> Remains(m)
  BY <1>4, <1>6 DEF Remains, Symb
<1>8. \A m : Tracks(m)' <=> Tracks(m)
  BY <1>1, <1>2, <1>4, <1>6 DEF Tracks, Measures, Symb
<1>9. \A m : Underway(m)' <=> Underway(m)
  BY <1>3, <1>4, <1>6, <1>7, <1>8 DEF Underway
<1>10. \A m : Waits(m)' <=> Waits(m)
  BY <1>2 DEF Waits
<1>11. \A m, n : Overlap(m, n)' <=> Overlap(m, n)
  BY <1>2, <1>3 DEF Overlap
<1>12. Nothing' <=> Nothing
  BY <1>1 DEF Nothing
<1> QED
  BY <1>9, <1>10, <1>11, <1>12 DEF Control

\* Where a message begins, before its setup time.
Begins(m) ==
  /\ buttonState = Button!BUTTONSTATE_INVALID
  /\ Age = 0
  /\ sending = <<-SETUPTIME>> \o m
  /\ relaying <= BUTTONINVALID_PERIOD
  /\ Fresh

\* So it is on its way.
LEMMA BeginsUnderway ==
  ASSUME NEW m, IsMsg(m), Begins(m)', relaying' \in Nat
  PROVE  Underway(m)'
<1>1. /\ Len(m) \in Nat /\ Len(sending') = Len(m) + 1 /\ sending' # <<>>
      /\ sending'[1] = -SETUPTIME
      /\ \A n \in 2 .. Len(m) + 1 : sending'[n] = m[n - 1]
  <2>1. m \in Seq(Int) /\ -SETUPTIME \in Int
    BY RoomConstants DEF IsMsg
  <2> QED
    BY <2>1, ConsValue DEF Begins
<1>2. Place(m)' = 0
  BY <1>1 DEF Place
<1>3. Start(m, Place(m))' = 0
  BY <1>2 DEF Start
<1>4. Spent(m)' = 0
  BY <1>3 DEF Spent, Begins
<1>5. Remains(m)'
  <2>1. Symb(m, Place(m))' = -SETUPTIME
    BY <1>2 DEF Symb
  <2>2. Button!Abs(-SETUPTIME) + 0 = Button!Abs(-SETUPTIME) /\ ~(-SETUPTIME > 0)
    BY RoomConstants DEF Button!Abs
  <2>3. Place(m)' % 2 # 1
    BY <1>2
  <2>4. \A n \in 2 .. Len(sending') : sending'[n] = m[Place(m)' + n - 1]
    <3> SUFFICES ASSUME NEW n \in 2 .. Len(m) + 1 PROVE sending'[n] = m[0 + n - 1]
      BY <1>1, <1>2
    <3>1. 0 + n - 1 = n - 1
      BY <1>1
    <3> QED
      BY <1>1, <3>1
  <2> QED
    BY <1>1, <1>4, <2>1, <2>2, <2>3, <2>4 DEF Remains
<1>6. Tracks(m)'
  BY <1>2, <1>4 DEF Tracks, Measures, Begins
<1>7. Age' <= BUTTONINVALID_PERIOD + 1 /\ relaying' + Age' <= BUTTONINVALID_PERIOD
  <2>1. Age' = 0 /\ relaying' <= BUTTONINVALID_PERIOD
    BY DEF Begins
  <2>2. BUTTONINVALID_PERIOD \in Nat /\ relaying' \in Nat
    BY RoomConstants
  <2>3. \A a, b \in Nat : a <= b => a + 0 <= b /\ 0 <= b + 1
    OBVIOUS
  <2> QED
    BY <2>1, <2>2, <2>3, Zenon
<1>8. Place(m)' \in 0 .. Len(m) + 1 /\ Spent(m)' \in Nat
  BY <1>1, <1>2, <1>4
<1> QED
  BY <1>1, <1>5, <1>6, <1>7, <1>8 DEF Underway, Begins

\* A message that is on its way has been received only when it is over and the
\* line has been silent for longer than SIGFREE_MIN, ...
LEMMA UnderwayHas ==
  ASSUME RoomTypeOK, NEW m, IsMsg(m), Underway(m), MsgAvailable
  PROVE  Has(m) /\ sending = <<>> /\ quiet > SIGFREE_MIN
<1>1. /\ Len(m) \in Nat /\ Place(m) \in 0 .. Len(m) + 1 /\ Spent(m) \in Nat
      /\ sending = <<>> <=> Place(m) = Len(m) + 1
  BY UnderwayTypes
<1>2. /\ Spent(m) # 0 /\ Place(m) = Len(m) + 1 /\ Spent(m) > SIGFREE_MIN + 1
      /\ Has(m)
  BY <1>1 DEF Underway, Tracks, Measures, Fresh, MsgAvailable, RXSTATE_READY,
              RXSTATE_MSGCOMPLETE
<1>3. quiet = IF Spent(m) < QuietCap THEN Spent(m) ELSE QuietCap
  BY <1>1, <1>2 DEF Underway
<1> QED
  BY <1>1, <1>2, <1>3, RoomConstants

\* ... and it has been when the button is valid again.
LEMMA ReceivedBeforeValid ==
  ASSUME RoomTypeOK, NEW m, IsMsg(m), Underway(m), sending = <<>>,
         Age > BUTTONINVALID_PERIOD \/ Spent(m) > SIGFREE_MIN + 1
  PROVE  Has(m)
<1> DEFINE z == Button!Duration(m)
           k == Spent(m)
<1>1. Place(m) = Len(m) + 1 /\ Len(m) \in Nat /\ k \in Nat /\ Age = Start(m, Place(m)) + k
      /\ Age \in Nat
  BY UnderwayTypes
<1>2. Start(m, Place(m)) = z
  <2>1. Place(m) # 0 /\ Place(m) - 1 = Len(m)
    BY <1>1
  <2> QED
    BY <2>1 DEF Start, Button!Duration
<1>3. z \in Nat /\ z + SIGFREE_MIN < BUTTONINVALID_PERIOD
  BY TimesFacts DEF IsMsg
<1>4. k > SIGFREE_MIN + 1
  <2> HIDE DEF z
  <2>1. CASE Age > BUTTONINVALID_PERIOD
    <3> HIDE DEF k
    <3> QED
      BY <1>1, <1>2, <1>3, <2>1, RoomConstants
  <2> QED
    BY <2>1
<1>5. k # 0
  BY <1>4, RoomConstants
<1>6. Measures(m, Len(m) + 1, k)
  BY <1>1, <1>5 DEF Underway, Tracks
<1>7. ~(k <= SIGFREE_MIN + 1) /\ ~(Len(m) + 1 < 1)
  BY <1>1, <1>4, RoomConstants
<1> QED
  BY <1>6, <1>7 DEF Measures

\* What the receiver has is what a decoder recognises, ...
LEMMA HasRecorded ==
  ASSUME Bounds, NEW m, IsMsg(m), Has(m)
  PROVE  Recorded(m)
<1>1. Len(m) \in Nat /\ Len(m) + 1 \in 0 .. PKTSYMB_MAX /\ Len(m) < rxPos + 1
  BY RoomConstants DEF IsMsg, Has
<1>2. symbols[Len(m) + 1] \in Int
  BY <1>1 DEF Bounds, TypeOK, Int16
<1>3. ~Matchable(symbols[Len(m) + 1])
  BY <1>2, RoomConstants DEF Has, Matchable
<1> QED
  BY <1>1, <1>3 DEF Recorded, Has

\* ... and nothing else is.
LEMMA RecordedOnce ==
  ASSUME NEW m \in Msgs, NEW x \in Msgs, Has(m), Recorded(m), Recorded(x)
  PROVE  x = m
<1>1. IsMsg(m) /\ IsMsg(x)
  BY MsgFacts
<1>2. m \in Seq(Int) /\ x \in Seq(Int) /\ Len(m) \in Nat /\ Len(x) \in Nat
  BY <1>1 DEF IsMsg
<1>3. ASSUME NEW y, IsMsg(y), NEW i \in 1 .. Len(y)
      PROVE  Matchable(y[i])
  BY <1>3, RoomConstants DEF IsMsg, Matchable
<1>4. ~(Len(m) < Len(x))
  <2> SUFFICES ASSUME Len(m) < Len(x) PROVE FALSE
    OBVIOUS
  <2>1. Len(m) + 1 \in 1 .. Len(x)
    BY <1>2
  <2>2. symbols[Len(m) + 1] = x[Len(m) + 1]
    BY <2>1 DEF Recorded
  <2> QED
    BY <1>1, <1>3, <2>1, <2>2 DEF Recorded
<1>5. ~(Len(x) < Len(m))
  <2> SUFFICES ASSUME Len(x) < Len(m) PROVE FALSE
    OBVIOUS
  <2>1. Len(x) + 1 \in 1 .. Len(m)
    BY <1>2
  <2>2. symbols[Len(x) + 1] = m[Len(x) + 1]
    BY <2>1 DEF Recorded
  <2> QED
    BY <1>1, <1>3, <2>1, <2>2 DEF Recorded
<1>6. Len(x) = Len(m)
  BY <1>2, <1>4, <1>5
<1>7. \A i \in 1 .. Len(m) : x[i] = m[i]
  BY <1>6 DEF Recorded
<1> QED
  BY <1>2, <1>6, <1>7

-----------------------------------------------------------------------------
(* The invariant is inductive.                                             *)

\* When both sketches have been set up, nothing is owed.
LEMMA InvInit == RoomInit => IInv
<1> SUFFICES ASSUME RoomInit PROVE IInv
  OBVIOUS
<1>1. Bounds
  BY BoundsInit DEF RoomInit
<1>2. RoomTypeOK
  BY <1>1, RoomConstants
  DEF RoomTypeOK, Bounds, RoomInit, Button!Init, Button!BUTTONSTATE_VALID,
      Button!BUTTONSTATE_INVALID
<1>3. Control
  BY RoomConstants DEF Control, Nothing, Fresh, RoomInit, Init, Button!Init
<1> QED
  BY <1>1, <1>2, <1>3 DEF IInv, Bounds

\* The level changes; no sketch has noticed yet.
LEMMA ShineNext ==
  ASSUME IInv, Shine
  PROVE  IInv'
<1>1. Bounds'
  <2>1. Bounds /\ [Next]_vars
    BY DEF IInv, Bounds, RoomTypeOK, Shine, Next
  <2> QED
    BY <2>1, BoundsNext
<1>2. RoomTypeOK'
  BY <1>1 DEF IInv, Bounds, RoomTypeOK, Shine, sender
<1>3. Control'
  BY SameControl DEF IInv, Shine, PinChange, code, sender
<1> QED
  BY <1>1, <1>2, <1>3 DEF IInv, Bounds

\* The sketch of the sender runs.
LEMMA PressNext ==
  ASSUME IInv, Press
  PROVE  IInv'
<1>1. /\ UNCHANGED <<vars, relaying>>
      /\ RoomTypeOK /\ Control /\ ReadsStayInBuffer
      /\ owed' = IF sending' = sending THEN owed ELSE Append(owed, Tail(sending'))
  BY DEF Press, IInv
<1>2. TypeOK' /\ ReadsStayInBuffer'
  BY <1>1 DEF RoomTypeOK, TypeOK, ReadsStayInBuffer, vars, code, client
<1>3. UNCHANGED <<rxState, rxPos, rxLast, rxAccum, symbols, quiet, relaying>>
  BY <1>1 DEF vars, code
<1>4. \A m : Has(m)' <=> Has(m)
  BY <1>3 DEF Has
<1>5. CASE Button!Push
  <2>1. RoomTypeOK' /\ owed' = owed
    BY <1>1, <1>2, <1>5 DEF RoomTypeOK, Button!Push
  <2>2. Control'
    BY <1>1, <1>3, <1>5, <2>1, SameControl DEF Button!Push
  <2> QED
    BY <1>2, <2>1, <2>2 DEF IInv
<1>6. CASE Button!Validate
  <2>1. /\ sending = <<>> /\ buttonState = Button!BUTTONSTATE_INVALID /\ Button!Expired
        /\ buttonState' = Button!BUTTONSTATE_VALID
        /\ UNCHANGED <<button, buttonInvalidStart, now, sending, owed>>
    BY <1>1, <1>6 DEF Button!Validate
  <2>2. RoomTypeOK'
    BY <1>1, <1>2, <2>1 DEF RoomTypeOK
  <2>3. Control'
    <3>1. CASE Nothing
      BY <1>1, <1>3, <2>1, <3>1 DEF Control, Nothing, Fresh
    <3>2. ASSUME NEW m \in Msgs, owed = <<m>>, Underway(m)
          PROVE  Waits(m)'
      <4>1. Age \in Nat /\ Age > BUTTONINVALID_PERIOD /\ IsMsg(m)
        BY <1>1, <2>1, <3>2, MsgFacts, UnderwayTypes DEF Button!Expired, Age
      <4>2. Has(m)
        BY <1>1, <2>1, <3>2, <4>1, ReceivedBeforeValid
      <4>3. quiet > SIGFREE_MIN
        BY <1>1, <3>2, <4>1, <4>2, UnderwayHas DEF Has, MsgAvailable
      <4>4. relaying = 0
        <5>1. relaying > 0 => relaying + Age <= BUTTONINVALID_PERIOD
          BY <3>2 DEF Underway
        <5>2. relaying \in Nat
          BY <1>1 DEF RoomTypeOK
        <5> QED
          BY <4>1, <5>1, <5>2, RoomConstants
      <4> QED
        BY <1>3, <1>4, <2>1, <4>2, <4>3, <4>4 DEF Waits
    <3>3. ASSUME NEW m \in Msgs, Waits(m)
          PROVE  FALSE
      BY <2>1, <3>3 DEF Waits, Button!BUTTONSTATE_VALID, Button!BUTTONSTATE_INVALID
    <3>4. ASSUME NEW m \in Msgs, NEW n \in Msgs, Overlap(m, n)
          PROVE  FALSE
      <4>1. sending # <<>>
        BY <3>4, MsgFacts, ConsValue, RoomConstants DEF Overlap, IsMsg
      <4> QED
        BY <2>1, <4>1
    <3> QED
      BY <1>1, <1>3, <2>1, <3>1, <3>2, <3>3, <3>4 DEF Control
  <2> QED
    BY <1>2, <2>2, <2>3 DEF IInv
<1>7. ASSUME NEW x \in Msgs, Button!SendMsg(x)
      PROVE  IInv'
  <2>1. /\ sending = <<>> /\ buttonState = Button!BUTTONSTATE_VALID
        /\ buttonInvalidStart' = now /\ buttonState' = Button!BUTTONSTATE_INVALID
        /\ sending' = <<-SETUPTIME>> \o x
        /\ UNCHANGED <<button, now>>
    BY <1>7 DEF Button!SendMsg
  <2>2. /\ IsMsg(x) /\ x \in Seq(Int \ {0}) /\ -SETUPTIME \in Int \ {0}
    <3>1. IsMsg(x) /\ x \in Seq(Int)
      BY MsgFacts DEF IsMsg
    <3>2. ASSUME NEW i \in 1 .. Len(x) PROVE x[i] \in Int \ {0}
      BY <3>1, SymbolLength, RoomConstants
    <3> QED
      BY <3>1, <3>2, RoomConstants
  <2>3. sending' \in Seq(Int \ {0}) /\ sending' # <<>> /\ Tail(sending') = x
    <3>1. <<-SETUPTIME>> \o x \in Seq(Int \ {0}) /\ <<-SETUPTIME>> \o x # <<>>
      BY <2>2, ConsValue
    <3>2. Tail(<<-SETUPTIME>> \o x) = x
      BY <2>2
    <3> QED
      BY <2>1, <3>1, <3>2
  <2>4. owed' = Append(owed, x)
    BY <1>1, <2>1, <2>3
  <2>5. RoomTypeOK'
    <3>1. owed' \in Seq(Msgs)
      <4>1. owed \in Seq(Msgs)
        BY <1>1 DEF RoomTypeOK
      <4> QED
        BY <2>4, <4>1, AppendProperties
    <3> QED
      BY <1>1, <1>2, <2>1, <2>3, <3>1 DEF RoomTypeOK
  <2>6. Age' = 0
    <3>1. now \in 0 .. CLOCK - 1
      BY <1>1 DEF RoomTypeOK
    <3> QED
      BY <2>1, <3>1, ClockDifference, RoomConstants DEF Age
  <2>7. relaying <= BUTTONINVALID_PERIOD /\ relaying' \in Nat
    BY <1>1, <1>3 DEF Control, RoomTypeOK
  <2>8. CASE Nothing
    <3>1. Begins(x)'
      BY <1>3, <2>1, <2>6, <2>7, <2>8 DEF Begins, Nothing, Fresh
    <3>2. Underway(x)'
      BY <2>2, <2>7, <3>1, BeginsUnderway
    <3>3. owed' = <<x>>
      BY <2>4, <2>8 DEF Nothing
    <3> QED
      BY <1>2, <1>3, <2>5, <2>7, <3>2, <3>3 DEF IInv, Control
  <2>9. ASSUME NEW m \in Msgs, owed = <<m>>, Waits(m)
        PROVE  IInv'
    <3>1. Overlap(m, x)'
      BY <1>3, <1>4, <2>1, <2>6, <2>9 DEF Overlap, Waits
    <3>2. owed' = <<m, x>>
      <4>1. Append(<<m>>, x) = <<m, x>>
        BY AppendOne
      <4> QED
        BY <2>4, <2>9, <4>1
    <3> QED
      BY <1>2, <1>3, <2>5, <2>7, <3>1, <3>2 DEF IInv, Control
  <2>10. ASSUME NEW m \in Msgs, Underway(m)
         PROVE  FALSE
    BY <2>1, <2>10 DEF Underway, Button!BUTTONSTATE_VALID, Button!BUTTONSTATE_INVALID
  <2>11. ASSUME NEW m \in Msgs, NEW n \in Msgs, Overlap(m, n)
         PROVE  FALSE
    BY <2>1, <2>11 DEF Overlap, Button!BUTTONSTATE_VALID, Button!BUTTONSTATE_INVALID
  <2> QED
    BY <1>1, <2>8, <2>9, <2>10, <2>11 DEF Control
<1> QED
  BY <1>5, <1>6, <1>7 DEF Press

\* A unit of time passes, for the sender and for the receiver.
LEMMA ElapseNext ==
  ASSUME IInv, Elapse
  PROVE  IInv'
<1>1. Bounds /\ RoomTypeOK /\ Control
  BY DEF IInv, Bounds, RoomTypeOK
<1>2. /\ pin = Level /\ ~(MsgAvailable /\ relaying = 0)
      /\ Button!Elapse /\ ProcessISR /\ UNCHANGED owed
      /\ relaying' = IF relaying = 0 THEN 0 ELSE relaying - 1
  BY DEF Elapse
<1>3. Bounds'
  BY <1>1, <1>2, BoundsNext DEF Next
<1>4. ASSUME sending' \in Seq(Int \ {0})
      PROVE  RoomTypeOK'
  <2>1. /\ now' = (now + 1) % CLOCK
        /\ UNCHANGED <<button, buttonState, buttonInvalidStart>>
    BY <1>2 DEF Button!Elapse
  <2>2. now' \in 0 .. CLOCK - 1
    BY <1>1, <2>1, RoomConstants DEF RoomTypeOK
  <2>3. relaying' \in Nat
    BY <1>1, <1>2 DEF RoomTypeOK
  <2> QED
    BY <1>1, <1>2, <1>3, <1>4, <2>1, <2>2, <2>3 DEF RoomTypeOK, Bounds
<1>5. relaying \in Nat /\ relaying' \in Nat /\ relaying' <= relaying
      /\ relaying' <= BUTTONINVALID_PERIOD
  BY <1>1, <1>2, RoomConstants DEF RoomTypeOK, Control
<1>6. CASE Nothing
  <2>1. owed = <<>> /\ sending = <<>> /\ Fresh
    BY <1>6 DEF Nothing
  <2>2. sending' = <<>> /\ sending' \in Seq(Int \ {0})
    BY <1>2, <2>1 DEF Button!Elapse
  <2>3. Symbol = 0
    <3>1. ~Button!Light
      BY <2>1 DEF Button!Light
    <3>2. CASE invSig = TRUE
      <4>1. FALSE # TRUE
        OBVIOUS
      <4>2. Level = 1
        <5>1. Button!Light \in BOOLEAN
          BY DEF Button!Light
        <5> QED
          BY <3>1, <3>2, <5>1 DEF Level
      <4> QED
        BY <1>2, <3>2, <4>2 DEF Symbol
    <3>3. CASE invSig = FALSE
      <4>1. Level = 0
        <5>1. Button!Light \in BOOLEAN
          BY DEF Button!Light
        <5> QED
          BY <3>1, <3>3, <5>1 DEF Level
      <4> QED
        BY <1>2, <3>3, <4>1 DEF Symbol
    <3> QED
      BY <3>2, <3>3, ConstAssumption
  <2>4. Fresh'
    <3>1. Poll
      BY <1>2, <2>1 DEF ProcessISR, Ignore, Fresh, RXSTATE_BUSY, RXSTATE_READY
    <3> QED
      BY <1>1, <2>1, <2>3, <3>1, PollFacts DEF Fresh
  <2>5. relaying' > 0 => quiet' > SIGFREE_MIN
    <3>1. quiet' = IF quiet < QuietCap THEN quiet + 1 ELSE QuietCap
      BY <1>2, <2>3 DEF ProcessISR
    <3>2. relaying > 0 => quiet > SIGFREE_MIN
      BY <1>6 DEF Nothing
    <3>3. quiet \in Nat
      BY <1>1, RoomConstants DEF Bounds, TypeOK
    <3> QED
      BY <1>5, <3>1, <3>2, <3>3, RoomConstants
  <2>6. Control'
    BY <1>2, <1>5, <2>1, <2>2, <2>4, <2>5 DEF Control, Nothing
  <2> QED
    BY <1>3, <1>4, <2>2, <2>6 DEF IInv, Bounds
<1>7. ASSUME NEW m \in Msgs, owed = <<m>>, Underway(m)
      PROVE  IInv'
  <2>1. Underway(m)' /\ sending' \in Seq(Int \ {0})
    BY <1>7, MsgFacts, ElapseUnderway
  <2>2. Control'
    BY <1>2, <1>5, <1>7, <2>1 DEF Control
  <2> QED
    BY <1>3, <1>4, <2>1, <2>2 DEF IInv, Bounds
<1>8. ASSUME NEW m \in Msgs, Waits(m) \/ \E n \in Msgs : Overlap(m, n)
      PROVE  FALSE
  BY <1>2, <1>8 DEF Waits, Overlap, Has, MsgAvailable
<1> QED
  BY <1>1, <1>6, <1>7, <1>8 DEF Control

\* What the repeater relays is the oldest message that it owes.
LEMMA RelayFacts ==
  ASSUME IInv, Relay
  PROVE  \E m \in Msgs :
           /\ Has(m) /\ Recorded(m) /\ IsMsg(m)
           /\ relaying' = Button!Duration(m)
           /\ \/ owed = <<m>> /\ sending = <<>> /\ quiet > SIGFREE_MIN
              \/ \E n \in Msgs : owed = <<m, n>> /\ Overlap(m, n)
<1>1. Bounds /\ RoomTypeOK /\ Control
  BY DEF IInv, Bounds, RoomTypeOK
<1>2. /\ MsgAvailable
      /\ \/ \E x \in Msgs : Recorded(x) /\ relaying' = Button!Duration(x)
         \/ \A x \in Msgs : ~Recorded(x)
  BY DEF Relay
<1>3. ~Nothing
  BY <1>2 DEF Nothing, Fresh, MsgAvailable, RXSTATE_READY, RXSTATE_MSGCOMPLETE
<1>4. ASSUME NEW m \in Msgs, Has(m)
      PROVE  Recorded(m) /\ IsMsg(m) /\ relaying' = Button!Duration(m)
  <2>1. IsMsg(m) /\ Recorded(m)
    BY <1>1, <1>4, MsgFacts, HasRecorded
  <2> QED
    BY <1>2, <1>4, <2>1, RecordedOnce
<1>5. ASSUME NEW m \in Msgs, owed = <<m>>, Underway(m)
      PROVE  Has(m) /\ sending = <<>> /\ quiet > SIGFREE_MIN
  BY <1>1, <1>2, <1>5, MsgFacts, UnderwayHas
<1>6. ASSUME NEW m \in Msgs, Waits(m)
      PROVE  Has(m) /\ sending = <<>> /\ quiet > SIGFREE_MIN
  BY <1>6 DEF Waits
<1>7. ASSUME NEW m \in Msgs, NEW n \in Msgs, Overlap(m, n)
      PROVE  Has(m)
  BY <1>7 DEF Overlap
<1> QED
  BY <1>1, <1>3, <1>4, <1>5, <1>6, <1>7 DEF Control

\* PopMsg() takes the message out of the buffer, and Send() begins.
LEMMA RelayNext ==
  ASSUME IInv, Relay
  PROVE  IInv'
<1>1. Bounds /\ RoomTypeOK /\ Control
  BY DEF IInv, Bounds, RoomTypeOK
<1>2. /\ owed' = IF relaying' = 0 \/ owed = <<>> THEN owed ELSE Tail(owed)
      /\ rxState' = RXSTATE_READY /\ rxLast' = 0 /\ rxPos' = 0 /\ gap' = 0
      /\ symbols' = [symbols EXCEPT ![PKTSYMB_MAX] = 0]
      /\ UNCHANGED <<pin, rxAccum, client, quiet, seen, sender>>
  BY DEF Relay
<1>3. PICK m \in Msgs :
        /\ Has(m) /\ Recorded(m) /\ IsMsg(m)
        /\ relaying' = Button!Duration(m)
        /\ \/ owed = <<m>> /\ sending = <<>> /\ quiet > SIGFREE_MIN
           \/ \E n \in Msgs : owed = <<m, n>> /\ Overlap(m, n)
  BY RelayFacts
<1>4. relaying' \in Nat /\ relaying' # 0 /\ relaying' <= BUTTONINVALID_PERIOD
  <2> DEFINE z == Button!Duration(m)
  <2>1. z \in Nat /\ z >= SETUPTIME /\ z + SIGFREE_MIN < BUTTONINVALID_PERIOD
    BY <1>3, TimesFacts DEF IsMsg
  <2> HIDE DEF z
  <2>2. z # 0 /\ z <= BUTTONINVALID_PERIOD
    BY <2>1, RoomConstants
  <2> QED
    BY <1>3, <2>1, <2>2 DEF z
<1>5. owed \in Seq(Msgs) /\ owed # <<>> /\ owed' = Tail(owed) /\ owed' \in Seq(Msgs)
  <2>1. owed \in Seq(Msgs)
    BY <1>1 DEF RoomTypeOK
  <2>2. owed # <<>>
    BY <1>3
  <2> QED
    BY <1>2, <1>4, <2>1, <2>2, HeadTailProperties
<1>6. TypeOK' /\ ReadsStayInBuffer'
  BY <1>1, <1>2, ConstAssumption
  DEF Bounds, TypeOK, ReadsStayInBuffer, client, RxState, Int16
<1>7. RoomTypeOK'
  BY <1>1, <1>2, <1>4, <1>5, <1>6 DEF RoomTypeOK, sender
<1>8. Fresh' /\ UNCHANGED <<quiet, buttonState, buttonInvalidStart, now, sending>>
  BY <1>2 DEF Fresh, sender
<1>9. CASE owed = <<m>> /\ sending = <<>> /\ quiet > SIGFREE_MIN
  <2>1. owed' = <<>>
    BY <1>5, <1>9, AppendOne
  <2> QED
    BY <1>4, <1>6, <1>7, <1>8, <1>9, <2>1 DEF IInv, Control, Nothing
<1>10. ASSUME NEW n \in Msgs, owed = <<m, n>>, Overlap(m, n)
       PROVE  IInv'
  <2>1. owed' = <<n>>
    BY <1>5, <1>10, AppendOne
  <2>2. Begins(n)'
    <3>1. Age' = Age
      BY <1>8 DEF Age
    <3> QED
      BY <1>4, <1>8, <1>10, <3>1 DEF Begins, Overlap
  <2>3. Underway(n)'
    BY <1>4, <2>2, MsgFacts, BeginsUnderway
  <2> QED
    BY <1>4, <1>6, <1>7, <2>1, <2>3 DEF IInv, Control
<1> QED
  BY <1>3, <1>9, <1>10

\* Every step of the room preserves the invariant.
LEMMA InvNext == IInv /\ [RoomNext]_roomVars => IInv'
<1> SUFFICES ASSUME IInv, [RoomNext]_roomVars PROVE IInv'
  OBVIOUS
<1>1. CASE Relay
  BY <1>1, RelayNext
<1>2. CASE Shine
  BY <1>2, ShineNext
<1>3. CASE Press
  BY <1>3, PressNext
<1>4. CASE Elapse
  BY <1>4, ElapseNext
<1>5. CASE UNCHANGED roomVars
  <2>1. UNCHANGED vars /\ UNCHANGED sender /\ relaying' = relaying /\ owed' = owed
    BY <1>5 DEF roomVars
  <2>2. Bounds'
    BY <2>1, BoundsNext DEF IInv, Bounds, RoomTypeOK
  <2>3. RoomTypeOK'
    BY <2>1, <2>2 DEF IInv, Bounds, RoomTypeOK, sender
  <2>4. Control'
    BY <2>1, SameControl DEF IInv, sender, vars, code
  <2> QED
    BY <2>2, <2>3, <2>4 DEF IInv, Bounds
<1> QED
  BY <1>1, <1>2, <1>3, <1>4, <1>5 DEF RoomNext

\* The inductive invariant is an invariant.
LEMMA RoomInvariance == RoomSpec => []IInv
BY InvInit, InvNext, PTL DEF RoomSpec

-----------------------------------------------------------------------------
(* The properties.                                                         *)

\* Every variable of the room has its type: Send() is always in the middle of a
\* message, and only messages are owed.
THEOREM RoomTyped == RoomSpec => []RoomTypeOK
<1>1. IInv => RoomTypeOK
  BY DEF IInv
<1> QED
  BY <1>1, RoomInvariance, PTL

\* The repeater never owes more than the message in its buffer and the one on the
\* line, and none once it is idle and the line has been silent.
THEOREM NeverOwesMore == RoomSpec => []NothingLost
<1>1. IInv => NothingLost
  <2> SUFFICES ASSUME IInv PROVE NothingLost
    OBVIOUS
  <2>1. Bounds /\ RoomTypeOK /\ Control
    BY DEF IInv, Bounds, RoomTypeOK
  <2>2. CASE Nothing
    <3>1. owed = <<>> /\ Len(owed) = 0
      BY <2>2 DEF Nothing
    <3> QED
      BY <3>1 DEF NothingLost
  <2>3. ASSUME NEW m \in Msgs, owed = <<m>>, Underway(m)
        PROVE  NothingLost
    <3>1. Len(owed) = 1
      BY <2>3
    <3>2. ASSUME sending = <<>>, quiet = QuietCap
          PROVE  MsgAvailable
      <4>1. Spent(m) \in Nat /\ QuietCap = IF Spent(m) < QuietCap THEN Spent(m) ELSE QuietCap
        BY <2>3, <3>2 DEF Underway
      <4>2. Spent(m) > SIGFREE_MIN + 1
        BY <4>1, RoomConstants
      <4>3. Has(m)
        BY <2>1, <2>3, <3>2, <4>2, MsgFacts, ReceivedBeforeValid
      <4> QED
        BY <4>3 DEF Has, MsgAvailable
    <3> QED
      BY <3>1, <3>2 DEF NothingLost
  <2>4. ASSUME NEW m \in Msgs, owed = <<m>>, Waits(m)
        PROVE  NothingLost
    <3>1. Len(owed) = 1 /\ MsgAvailable
      BY <2>4 DEF Waits, Has, MsgAvailable
    <3> QED
      BY <3>1 DEF NothingLost
  <2>5. ASSUME NEW m \in Msgs, NEW n \in Msgs, owed = <<m, n>>, Overlap(m, n)
        PROVE  NothingLost
    <3>1. Len(owed) = 2 /\ MsgAvailable
      BY <2>5 DEF Overlap, Has, MsgAvailable
    <3> QED
      BY <3>1 DEF NothingLost
  <2> QED
    BY <2>1, <2>2, <2>3, <2>4, <2>5 DEF Control
<1> QED
  BY <1>1, RoomInvariance, PTL

\* What PopMsg() finds in the buffer is the oldest message that has not been
\* relayed, complete, and no other is read out of it.
THEOREM RelaysOldest == RoomSpec => RelayedInOrder
<1>1. IInv /\ [RoomNext]_roomVars =>
        [Relay => /\ owed # <<>>
                  /\ Recorded(Head(owed))
                  /\ relaying' = Button!Duration(Head(owed))]_roomVars
  <2> SUFFICES ASSUME IInv, Relay
               PROVE  /\ owed # <<>>
                      /\ Recorded(Head(owed))
                      /\ relaying' = Button!Duration(Head(owed))
    OBVIOUS
  <2>1. PICK m \in Msgs :
          /\ Recorded(m) /\ relaying' = Button!Duration(m)
          /\ owed = <<m>> \/ \E n \in Msgs : owed = <<m, n>>
    BY RelayFacts
  <2>2. owed # <<>> /\ Head(owed) = m
    BY <2>1
  <2> QED
    BY <2>1, <2>2
<1> QED
  BY <1>1, RoomInvariance, PTL DEF RoomSpec, RelayedInOrder

\* The line has been silent long enough when a message begins before the repeater
\* is done with the last one.
THEOREM SilenceBetween == RoomSpec => MessagesSeparated
<1>1. IInv /\ [RoomNext]_roomVars =>
        [sending = <<>> /\ sending' # <<>> /\ (rxPos >= 1 \/ relaying > 0)
           => quiet * POLL_INTERVAL > SIGFREE_MIN]_roomVars
  <2> SUFFICES ASSUME IInv, [RoomNext]_roomVars, sending = <<>>, sending' # <<>>,
                      rxPos >= 1 \/ relaying > 0
               PROVE  quiet * POLL_INTERVAL > SIGFREE_MIN
    OBVIOUS
  <2>1. Bounds /\ RoomTypeOK /\ Control
    BY DEF IInv, Bounds, RoomTypeOK
  <2>2. quiet \in Nat /\ quiet * POLL_INTERVAL = quiet
    BY <2>1, RoomConstants DEF Bounds, TypeOK
  <2>3. buttonState = Button!BUTTONSTATE_VALID
    <3>1. Press
      BY DEF RoomNext, Relay, Shine, PinChange, Elapse, Button!Elapse, sender, roomVars
    <3> QED
      BY <3>1 DEF Press, Button!Push, Button!Validate, Button!SendMsg
  <2>4. quiet > SIGFREE_MIN
    <3>1. CASE Nothing
      BY <3>1, RoomConstants DEF Nothing, Fresh
    <3>2. ASSUME NEW m \in Msgs, Underway(m)
          PROVE  FALSE
      BY <2>3, <3>2 DEF Underway, Button!BUTTONSTATE_VALID, Button!BUTTONSTATE_INVALID
    <3>3. ASSUME NEW m \in Msgs, Waits(m)
          PROVE  quiet > SIGFREE_MIN
      BY <3>3 DEF Waits
    <3>4. ASSUME NEW m \in Msgs, NEW n \in Msgs, Overlap(m, n)
          PROVE  FALSE
      BY <2>3, <3>4 DEF Overlap, Button!BUTTONSTATE_VALID, Button!BUTTONSTATE_INVALID
    <3> QED
      BY <2>1, <3>1, <3>2, <3>3, <3>4 DEF Control
  <2> QED
    BY <2>2, <2>4
<1> QED
  BY <1>1, RoomInvariance, PTL DEF RoomSpec, MessagesSeparated
=============================================================================
