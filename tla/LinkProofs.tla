----------------------------- MODULE LinkProofs -----------------------------
(***************************************************************************)
(* What MCLink checks for a few words, frames and phases, proved for every *)
(* message, every frame, every phase, every earlier content of the buffer  *)
(* and every number of repeaters, with the durations of the source.        *)
(*                                                                         *)
(* The first half is about the operators of Codec and Link.  What their    *)
(* recursive functions compute is proved by induction over a set of        *)
(* indices, which needs no theorem about predicates: a set of natural      *)
(* numbers has a least element (LeastElement).  So a packet is preamble,   *)
(* pairs and postamble (PacketShape), its runs are its symbols             *)
(* (AlternatingRuns) or, in RC5, have its half-bits (RC5Runs), a recording *)
(* differs from them by less than an interval (RecordedNear), and each     *)
(* decoder reads from it what was sent (NECFrame, SonyFrame, RC5Frame).    *)
(*                                                                         *)
(* The second half is about the behaviour.  Typed and Popped say that the  *)
(* buffer holds a recording of the line and that PopMsg() has returned     *)
(* what the first decoder made of it; Sourced, that the line carries what  *)
(* was meant; Relayed, that a repeater's line is made from what it heard.  *)
(*                                                                         *)
(* Two more parts are about what has to fit: that no recorded duration     *)
(* wraps (OnAir: marks and spaces come in pairs, so that at most two       *)
(* symbols are heard as one), and that the table's constructors write in   *)
(* their members only (FilledTo).                                          *)
(***************************************************************************)
EXTENDS Link, SequenceTheorems, FiniteSetTheorems, WellFoundedInduction, TLAPS

\* A set of natural numbers that is not empty has a least element.
LEMMA LeastElement ==
  ASSUME NEW T \in SUBSET Nat, T # {}
  PROVE  \E x \in T : \A y \in T : x <= y
<1>1. PICK x \in T : \A y \in T : <<y, x>> \notin OpToRel(<, Nat)
  BY WFMin, NatLessThanWellFounded
<1>2. OpToRel(<, Nat) = {ss \in Nat \X Nat : ss[1] < ss[2]}
  BY DEF OpToRel
<1>3. \A y \in T : ~(y < x)
  <2> SUFFICES ASSUME NEW y \in T, y < x PROVE FALSE
    OBVIOUS
  <2>1. <<y, x>> \in {ss \in Nat \X Nat : ss[1] < ss[2]}
    OBVIOUS
  <2> QED
    BY <1>1, <1>2, <2>1
<1> QED
  BY <1>3

\* Induction over the natural numbers, for a set in place of a predicate.
LEMMA Induction ==
  ASSUME NEW S, 0 \in S, \A n \in Nat : n \in S => n + 1 \in S
  PROVE  \A n \in Nat : n \in S
<1>1. SUFFICES ASSUME Nat \ S # {} PROVE FALSE
  OBVIOUS
<1>2. PICK x \in Nat \ S : \A y \in Nat \ S : x <= y
  BY <1>1, LeastElement
<1>3. x # 0 /\ x - 1 \in Nat
  BY <1>2
<1>4. x - 1 \in S
  BY <1>2, <1>3
<1>5. (x - 1) + 1 = x
  BY <1>2
<1> QED
  BY <1>2, <1>3, <1>4, <1>5

\* f is defined over m .. n by recursion: f[m] is c, and step[i] makes f[i] of
\* f[i - 1].
Follows(f, m, n, c, step) ==
  \A i \in m .. n : f[i] = IF i = m THEN c ELSE step[i][f[i - 1]]

\* There is such a function.
LEMMA Recursion ==
  ASSUME NEW X, NEW m \in Nat, NEW n \in Nat, m <= n, NEW c \in X,
         NEW step \in [m .. n -> [X -> X]]
  PROVE  \E f \in [m .. n -> X] : Follows(f, m, n, c, step)
<1> USE DEF Follows
<1> DEFINE Good(k, f) == Follows(f, m, k, c, step)
           S == {k \in Nat : m + k <= n => \E f \in [m .. m + k -> X] : Good(m + k, f)}
<1>1. 0 \in S
  <2>1. [i \in m .. m |-> c] \in [m .. m + 0 -> X]
    OBVIOUS
  <2>2. Good(m + 0, [i \in m .. m |-> c])
    OBVIOUS
  <2> QED
    BY <2>1, <2>2
<1>2. ASSUME NEW k \in Nat, k \in S PROVE k + 1 \in S
  <2> SUFFICES ASSUME m + k + 1 <= n
               PROVE  \E f \in [m .. m + k + 1 -> X] : Good(m + k + 1, f)
    OBVIOUS
  <2>1. PICK f \in [m .. m + k -> X] : Good(m + k, f)
    BY <1>2
  <2> DEFINE g == [i \in m .. m + k + 1 |->
                     IF i <= m + k THEN f[i] ELSE step[m + k + 1][f[m + k]]]
  <2>2. step[m + k + 1] \in [X -> X]
    OBVIOUS
  <2>3. g \in [m .. m + k + 1 -> X]
    BY <2>1, <2>2
  <2>4. ASSUME NEW i \in m .. m + k + 1
        PROVE  g[i] = IF i = m THEN c ELSE step[i][g[i - 1]]
    <3>1. CASE i <= m + k
      <4>1. g[i] = f[i] /\ (i # m => g[i - 1] = f[i - 1])
        BY <3>1
      <4> QED
        BY <4>1, <3>1, <2>1
    <3>2. CASE i = m + k + 1
      <4>1. g[i] = step[i][f[m + k]] /\ g[i - 1] = f[m + k] /\ i # m
        BY <3>2
      <4> QED
        BY <4>1
    <3> QED
      BY <3>1, <3>2
  <2> QED
    BY <2>3, <2>4
<1>3. n - m \in S
  <2> HIDE DEF S
  <2> QED
    BY <1>1, <1>2, Induction
<1> QED
  BY <1>3

\* The same between two bounds.
LEMMA IntervalInduction ==
  ASSUME NEW T, NEW m \in Nat, NEW n \in Nat,
         m <= n => m \in T,
         \A i \in m .. n : i # m /\ i - 1 \in T => i \in T
  PROVE  \A i \in m .. n : i \in T
<1> DEFINE S == {k \in Nat : m + k <= n => m + k \in T}
<1>1. 0 \in S
  OBVIOUS
<1>2. ASSUME NEW k \in Nat, k \in S PROVE k + 1 \in S
  <2> SUFFICES ASSUME m + k + 1 <= n PROVE m + k + 1 \in T
    OBVIOUS
  <2>1. m + k \in T
    BY <1>2
  <2>2. m + k + 1 \in m .. n /\ m + k + 1 # m /\ (m + k + 1) - 1 = m + k
    OBVIOUS
  <2> QED
    BY <2>1, <2>2
<1>3. ASSUME NEW i \in m .. n PROVE i - m \in S
  <2> HIDE DEF S
  <2> QED
    BY <1>1, <1>2, Induction
<1> QED
  BY <1>3

\* Such a function is of its type if each step keeps to it.
LEMMA RecursionType ==
  ASSUME NEW X, NEW m \in Nat, NEW n \in Nat, NEW f,
         m <= n => f[m] \in X,
         \A i \in m .. n : i # m /\ f[i - 1] \in X => f[i] \in X
  PROVE  \A i \in m .. n : f[i] \in X
<1> DEFINE T == {i \in m .. n : f[i] \in X}
<1>1. m <= n => m \in T
  OBVIOUS
<1>2. \A i \in m .. n : i # m /\ i - 1 \in T => i \in T
  OBVIOUS
<1>3. \A i \in m .. n : i \in T
  <2> HIDE DEF T
  <2> QED
    BY <1>1, <1>2, IntervalInduction
<1> QED
  BY <1>3

\* A function over 1 .. n is a sequence of length n.
LEMMA FunctionIsSeq ==
  ASSUME NEW S, NEW n \in Nat, NEW f \in [1 .. n -> S]
  PROVE  f \in Seq(S) /\ Len(f) = n
OBVIOUS

-----------------------------------------------------------------------------
(* FlattenSeq.                                                             *)

\* f[i] is what the first i sequences are together.
Joins(f, n, seqs) ==
  /\ f[1] = seqs[1]
  /\ \A i \in 2 .. n : f[i] = f[i - 1] \o seqs[i]

\* FlattenSeq() is the last of its partial results, each the one before with
\* the next sequence behind it.
LEMMA FlattenPartial ==
  ASSUME NEW S, NEW n \in Nat, n # 0, NEW seqs \in [1 .. n -> Seq(S)]
  PROVE  \E f \in [1 .. n -> Seq(S)] : FlattenSeq(seqs) = f[n] /\ Joins(f, n, seqs)
<1> DEFINE Eq(f) == f = [i \in 1 .. n |-> IF i = 1 THEN seqs[i] ELSE f[i - 1] \o seqs[i]]
           step == [i \in 1 .. n |-> [x \in Seq(S) |-> x \o seqs[i]]]
           F == CHOOSE f : Eq(f)
<1>1. 1 \in 1 .. n /\ n \in Nat /\ 1 \in Nat /\ 1 <= n
  OBVIOUS
<1>2. \A i \in 1 .. n : \A x \in Seq(S) : x \o seqs[i] \in Seq(S)
  OBVIOUS
<1>3. step \in [1 .. n -> [Seq(S) -> Seq(S)]]
  BY <1>2
<1>4. seqs[1] \in Seq(S)
  BY <1>1
<1>5. PICK g \in [1 .. n -> Seq(S)] : Follows(g, 1, n, seqs[1], step)
  <2> HIDE DEF step
  <2> QED
    BY <1>1, <1>3, <1>4, Recursion
<1>6. ASSUME NEW i \in 1 .. n
      PROVE  g[i] = IF i = 1 THEN seqs[i] ELSE g[i - 1] \o seqs[i]
  <2>1. i # 1 => g[i - 1] \in Seq(S)
    BY <1>5
  <2> QED
    BY <1>5, <2>1 DEF Follows
<1>7. Eq(g)
  BY <1>5, <1>6
<1>8. Eq(F)
  <2> HIDE DEF Eq
  <2> QED
    BY <1>7, Zenon
<1>9. FlattenSeq(seqs) = F[n]
  <2>1. Len(seqs) = n /\ n # 0
    BY FunctionIsSeq
  <2> QED
    BY <2>1 DEF FlattenSeq
<1>10. \A i \in 1 .. n : F[i] = IF i = 1 THEN seqs[i] ELSE F[i - 1] \o seqs[i]
  <2> HIDE DEF F
  <2> QED
    BY <1>8
<1>11. \A i \in 1 .. n : F[i] \in Seq(S)
  <2> HIDE DEF F
  <2>1. F[1] \in Seq(S)
    BY <1>4, <1>10, <1>1
  <2>2. \A i \in 1 .. n : i # 1 /\ F[i - 1] \in Seq(S) => F[i] \in Seq(S)
    BY <1>2, <1>10
  <2> QED
    BY <1>1, <2>1, <2>2, RecursionType, Zenon
<1>12. F \in [1 .. n -> Seq(S)]
  <2> HIDE DEF F
  <2> QED
    BY <1>8, <1>11
<1>13. F[1] = seqs[1] /\ \A i \in 2 .. n : F[i] = F[i - 1] \o seqs[i]
  <2> HIDE DEF F
  <2>1. F[1] = seqs[1]
    BY <1>10, <1>1
  <2>2. ASSUME NEW i \in 2 .. n PROVE F[i] = F[i - 1] \o seqs[i]
    <3>1. i \in 1 .. n /\ i # 1
      OBVIOUS
    <3> QED
      BY <1>10, <3>1
  <2> QED
    BY <2>1, <2>2
<1> QED
  <2> HIDE DEF F
  <2> QED
    BY <1>9, <1>12, <1>13 DEF Joins

\* The elements of FlattenSeq() are those of the sequences.
LEMMA FlattenType ==
  ASSUME NEW S, NEW n \in Nat, NEW seqs \in [1 .. n -> Seq(S)]
  PROVE  FlattenSeq(seqs) \in Seq(S)
<1>1. CASE n = 0
  <2>1. Len(seqs) = 0 /\ seqs \in Seq(Seq(S))
    BY <1>1, FunctionIsSeq
  <2>2. seqs = <<>>
    BY <2>1
  <2>3. seqs \in Seq(S)
    BY <2>2
  <2> QED
    BY <2>1, <2>3 DEF FlattenSeq
<1>2. CASE n # 0
  <2>1. \E f \in [1 .. n -> Seq(S)] : FlattenSeq(seqs) = f[n] /\ Joins(f, n, seqs)
    BY <1>2, FlattenPartial
  <2> QED
    BY <1>2, <2>1
<1> QED
  BY <1>1, <1>2

\* Pieces of two elements each.
LEMMA FlattenPairs ==
  ASSUME NEW S, NEW n \in Nat, NEW seqs \in [1 .. n -> Seq(S)],
         \A i \in 1 .. n : Len(seqs[i]) = 2
  PROVE  /\ Len(FlattenSeq(seqs)) = 2 * n
         /\ \A i \in 1 .. n : /\ FlattenSeq(seqs)[2 * i - 1] = seqs[i][1]
                              /\ FlattenSeq(seqs)[2 * i] = seqs[i][2]
<1>1. CASE n = 0
  <2>1. Len(seqs) = 0 /\ n = 0
    BY <1>1, FunctionIsSeq
  <2> QED
    BY <2>1 DEF FlattenSeq
<1>2. CASE n # 0
  <2>1. PICK f \in [1 .. n -> Seq(S)] : FlattenSeq(seqs) = f[n] /\ Joins(f, n, seqs)
    BY <1>2, FlattenPartial
  <2> DEFINE T == {k \in 1 .. n :
                     /\ Len(f[k]) = 2 * k
                     /\ \A i \in 1 .. k : /\ f[k][2 * i - 1] = seqs[i][1]
                                          /\ f[k][2 * i] = seqs[i][2]}
  <2>2. 1 \in T
    BY <1>2, <2>1 DEF Joins
  <2>3. ASSUME NEW k \in 1 .. n, k # 1, k - 1 \in T PROVE k \in T
    <3>1. /\ f[k - 1] \in Seq(S) /\ seqs[k] \in Seq(S)
          /\ f[k] = f[k - 1] \o seqs[k]
          /\ Len(f[k - 1]) = 2 * k - 2 /\ Len(seqs[k]) = 2
      <4>1. k \in 2 .. n /\ k - 1 \in 1 .. n
        BY <2>3
      <4>2. f[k] = f[k - 1] \o seqs[k]
        BY <2>1, <4>1 DEF Joins
      <4>3. Len(f[k - 1]) = 2 * (k - 1)
        BY <2>3
      <4>4. f[k - 1] \in Seq(S) /\ seqs[k] \in Seq(S) /\ Len(seqs[k]) = 2
        BY <2>1, <4>1
      <4> QED
        BY <4>2, <4>3, <4>4
    <3>2. /\ Len(f[k]) = 2 * k
          /\ \A j \in 1 .. 2 * k :
               f[k][j] = IF j <= 2 * k - 2 THEN f[k - 1][j] ELSE seqs[k][j - (2 * k - 2)]
      <4>1. /\ Len(f[k - 1] \o seqs[k]) = Len(f[k - 1]) + Len(seqs[k])
            /\ \A j \in 1 .. Len(f[k - 1]) + Len(seqs[k]) :
                 (f[k - 1] \o seqs[k])[j] =
                   IF j <= Len(f[k - 1]) THEN f[k - 1][j] ELSE seqs[k][j - Len(f[k - 1])]
        BY <3>1, ConcatProperties, Zenon
      <4>2. Len(f[k - 1]) + Len(seqs[k]) = 2 * k
        BY <3>1
      <4> QED
        BY <3>1, <4>1, <4>2
    <3>3. ASSUME NEW i \in 1 .. k
          PROVE  f[k][2 * i - 1] = seqs[i][1] /\ f[k][2 * i] = seqs[i][2]
      <4>1. CASE i = k
        <5>1. /\ 2 * k - 1 \in 1 .. 2 * k /\ ~(2 * k - 1 <= 2 * k - 2)
              /\ (2 * k - 1) - (2 * k - 2) = 1
              /\ 2 * k \in 1 .. 2 * k /\ ~(2 * k <= 2 * k - 2)
              /\ 2 * k - (2 * k - 2) = 2
          OBVIOUS
        <5>2. f[k][2 * k - 1] = seqs[k][1]
          BY <3>2, <5>1
        <5>3. f[k][2 * k] = seqs[k][2]
          BY <3>2, <5>1
        <5> QED
          BY <4>1, <5>2, <5>3
      <4>2. CASE i # k
        <5>1. /\ i \in 1 .. k - 1
              /\ 2 * i - 1 \in 1 .. 2 * k - 2 /\ 2 * i \in 1 .. 2 * k - 2
          BY <4>2
        <5>2. f[k][2 * i - 1] = f[k - 1][2 * i - 1]
          <6>1. 2 * i - 1 \in 1 .. 2 * k /\ 2 * i - 1 <= 2 * k - 2
            BY <5>1
          <6> QED
            BY <6>1, <3>2
        <5>3. f[k][2 * i] = f[k - 1][2 * i]
          <6>1. 2 * i \in 1 .. 2 * k /\ 2 * i <= 2 * k - 2
            BY <5>1
          <6> QED
            BY <6>1, <3>2
        <5> QED
          BY <5>1, <5>2, <5>3, <2>3
      <4> QED
        BY <4>1, <4>2
    <3> QED
      BY <3>2, <3>3
  <2>4. n \in T
    <3>1. 1 \in Nat /\ n \in 1 .. n
      BY <1>2
    <3> HIDE DEF T
    <3> QED
      BY <2>2, <2>3, <3>1, IntervalInduction
  <2> QED
    BY <2>1, <2>4
<1> QED
  BY <1>1, <1>2

-----------------------------------------------------------------------------
(* What the receiver records: Edges and Recorded.                          *)

\* Abs() of an integer, without its IF.
LEMMA AbsValue ==
  ASSUME NEW x \in Int
  PROVE  Abs(x) \in Nat /\ Abs(x) = IF x < 0 THEN -x ELSE x
BY DEF Abs

\* The edges are one more than the runs, and each is later than the one before by
\* the duration of the run between them.
LEMMA EdgesValue ==
  ASSUME NEW runs \in Seq(Int), NEW phase \in Int
  PROVE  /\ Edges(runs, phase) \in Seq(Int)
         /\ Len(Edges(runs, phase)) = Len(runs) + 1
         /\ Edges(runs, phase)[1] = phase
         /\ \A i \in 1 .. Len(runs) :
              Edges(runs, phase)[i + 1] = Edges(runs, phase)[i] + Abs(runs[i])
<1> DEFINE n == Len(runs)
           Eq(f) == f = [i \in 0 .. n |->
                           IF i = 0 THEN <<phase>>
                           ELSE Append(f[i - 1], f[i - 1][i] + Abs(runs[i]))]
           step == [i \in 0 .. n |-> [x \in Seq(Int) |->
                       IF Len(x) = i /\ i > 0 THEN Append(x, x[i] + Abs(runs[i])) ELSE <<>>]]
           F == CHOOSE f : Eq(f)
           Upto(i, e) == /\ e \in Seq(Int)
                         /\ Len(e) = i + 1
                         /\ e[1] = phase
                         /\ \A k \in 1 .. i : e[k + 1] = e[k] + Abs(runs[k])
<1>1. n \in Nat /\ 0 \in Nat /\ 0 <= n /\ \A i \in 1 .. n : Abs(runs[i]) \in Int
  BY AbsValue
<1>2. <<phase>> \in Seq(Int)
  OBVIOUS
<1>3. ASSUME NEW i \in 1 .. n, NEW x, Upto(i - 1, x)
      PROVE  Upto(i, Append(x, x[i] + Abs(runs[i])))
  <2>1. x \in Seq(Int) /\ Len(x) = i /\ x[i] \in Int /\ x[i] + Abs(runs[i]) \in Int
    BY <1>1, <1>3
  <2> DEFINE y == Append(x, x[i] + Abs(runs[i]))
  <2>2. /\ y \in Seq(Int) /\ Len(y) = i + 1
        /\ \A k \in 1 .. i : y[k] = x[k]
        /\ y[i + 1] = x[i] + Abs(runs[i])
    BY <2>1, AppendProperties
  <2>3. y[1] = phase
    BY <2>2, <1>3
  <2>4. ASSUME NEW k \in 1 .. i PROVE y[k + 1] = y[k] + Abs(runs[k])
    <3>1. CASE k = i
      <4> HIDE DEF y
      <4> QED
        BY <3>1, <2>2
    <3>2. CASE k # i
      <4>1. k \in 1 .. i - 1 /\ k + 1 \in 1 .. i
        BY <3>2
      <4>2. x[k + 1] = x[k] + Abs(runs[k])
        BY <4>1, <1>3
      <4> HIDE DEF y
      <4> QED
        BY <4>1, <4>2, <2>2
    <3> QED
      BY <3>1, <3>2
  <2> QED
    BY <2>2, <2>3, <2>4
<1>4. step \in [0 .. n -> [Seq(Int) -> Seq(Int)]]
  <2>1. ASSUME NEW i \in 0 .. n, NEW x \in Seq(Int), Len(x) = i, i > 0
        PROVE  Append(x, x[i] + Abs(runs[i])) \in Seq(Int)
    BY <1>1, <2>1
  <2> QED
    BY <2>1
<1>5. PICK g \in [0 .. n -> Seq(Int)] : Follows(g, 0, n, <<phase>>, step)
  <2> HIDE DEF step, n
  <2> QED
    BY <1>1, <1>2, <1>4, Recursion
<1>6. Upto(0, <<phase>>)
  BY <1>2
<1>7. ASSUME NEW f,
             \A i \in 0 .. n :
                IF i = 0 THEN f[i] = <<phase>>
                ELSE Len(f[i - 1]) = i /\ f[i - 1] \in Seq(Int)
                       => f[i] = Append(f[i - 1], f[i - 1][i] + Abs(runs[i]))
      PROVE  \A i \in 0 .. n : Upto(i, f[i])
  <2> DEFINE T == {i \in 0 .. n : Upto(i, f[i])}
  <2>1. 0 \in T
    <3>1. f[0] = <<phase>>
      BY <1>1, <1>7
    <3>2. Upto(0, f[0])
      BY <1>6, <3>1, Zenon
    <3> HIDE DEF Upto
    <3> QED
      BY <1>1, <3>2
  <2>2. ASSUME NEW i \in 0 .. n, i # 0, i - 1 \in T PROVE i \in T
    <3>1. Upto(i - 1, f[i - 1])
      BY <2>2
    <3>2. f[i] = Append(f[i - 1], f[i - 1][i] + Abs(runs[i]))
      BY <1>7, <2>2, <3>1
    <3>3. i \in 1 .. n
      BY <2>2
    <3>4. Upto(i, f[i])
      <4> HIDE DEF Upto
      <4> QED
        BY <1>3, <3>1, <3>2, <3>3, Zenon
    <3> HIDE DEF Upto
    <3> QED
      BY <3>4
  <2> HIDE DEF T
  <2>3. \A i \in 0 .. n : i \in T
    BY <1>1, <2>1, <2>2, IntervalInduction
  <2> QED
    BY <2>3 DEF T
<1>8. Eq(g)
  <2>1. ASSUME NEW i \in 0 .. n
        PROVE  IF i = 0 THEN g[i] = <<phase>>
               ELSE Len(g[i - 1]) = i /\ g[i - 1] \in Seq(Int)
                      => g[i] = Append(g[i - 1], g[i - 1][i] + Abs(runs[i]))
    <3>1. g[i] = IF i = 0 THEN <<phase>> ELSE step[i][g[i - 1]]
      BY <1>5 DEF Follows
    <3>2. i # 0 => g[i - 1] \in Seq(Int)
      <4>1. i # 0 => i - 1 \in 0 .. n
        BY <1>1
      <4> HIDE DEF n
      <4> QED
        BY <4>1, <1>5
    <3> QED
      BY <3>1, <3>2
  <2>2. \A i \in 0 .. n : Upto(i, g[i])
    <3> HIDE DEF Upto
    <3> QED
      BY <1>7, <2>1
  <2>3. ASSUME NEW i \in 0 .. n
        PROVE  g[i] = IF i = 0 THEN <<phase>>
                      ELSE Append(g[i - 1], g[i - 1][i] + Abs(runs[i]))
    <3>1. CASE i = 0
      BY <2>1, <3>1
    <3>2. CASE i # 0
      <4>1. Upto(i - 1, g[i - 1])
        BY <2>2, <3>2
      <4> QED
        BY <2>1, <3>2, <4>1
    <3> QED
      BY <3>1, <3>2
  <2> QED
    BY <1>5, <2>3
<1>9. Eq(F)
  <2> HIDE DEF Eq
  <2> QED
    BY <1>8, Zenon
<1>10. Edges(runs, phase) = F[n]
  BY DEF Edges
<1>11. Upto(n, F[n])
  <2> HIDE DEF F
  <2>1. ASSUME NEW i \in 0 .. n
        PROVE  IF i = 0 THEN F[i] = <<phase>>
               ELSE Len(F[i - 1]) = i /\ F[i - 1] \in Seq(Int)
                      => F[i] = Append(F[i - 1], F[i - 1][i] + Abs(runs[i]))
    BY <1>9
  <2> HIDE DEF Upto
  <2>2. \A i \in 0 .. n : Upto(i, F[i])
    BY <1>7, <2>1
  <2> QED
    BY <1>1, <2>2
<1> QED
  <2> HIDE DEF F
  <2> QED
    BY <1>10, <1>11

\* What a quotient leaves is less than the divisor.
LEMMA DivBounds ==
  ASSUME NEW x \in Int, NEW p \in Nat \ {0}
  PROVE  x \div p \in Int /\ p * (x \div p) <= x /\ x < p * (x \div p) + p
OBVIOUS

\* What is sampled from x to y differs from y - x by less than an interval.
LEMMA SampledClose ==
  ASSUME NEW x \in Int, NEW y \in Int, x <= y, NEW p \in Nat \ {0}
  PROVE  LET d == (y \div p - x \div p) * p
         IN  d \in Nat /\ y - x - p < d /\ d < y - x + p
<1>1. x \div p \in Int /\ p * (x \div p) <= x /\ x < p * (x \div p) + p
  BY DivBounds
<1>2. y \div p \in Int /\ p * (y \div p) <= y /\ y < p * (y \div p) + p
  BY DivBounds
<1>3. \A a, b \in Int : (a - b) * p = p * a - p * b
  OBVIOUS
<1>4. x \div p <= y \div p
  <2>1. SUFFICES ASSUME x \div p >= y \div p + 1 PROVE FALSE
    BY <1>1, <1>2
  <2>2. p * (x \div p) >= p * (y \div p + 1)
    BY <1>1, <1>2, <2>1
  <2>3. p * (y \div p + 1) = p * (y \div p) + p
    BY <1>2
  <2> QED
    BY <1>1, <1>2, <2>2, <2>3
<1>5. \A a \in Nat : a * p \in Nat
  OBVIOUS
<1> QED
  BY <1>1, <1>2, <1>3, <1>4, <1>5

\* What is stored of a run has its sign, unless it is 0, and differs from it by
\* less than an interval.  A gap follows, and a gap precedes.
LEMMA RecordedRuns ==
  ASSUME NEW runs \in Seq(Int), NEW phase \in Nat, NEW old,
         NEW i \in 1 .. Len(runs), i <= RX_SYMBOLS
  PROVE  LET r == Recorded(old, runs, phase)[i]
         IN  /\ r \in Int
             /\ IF runs[i] > 0 THEN r >= 0 ELSE r <= 0
             /\ Abs(runs[i]) - POLL_INTERVAL < Abs(r)
             /\ Abs(r) < Abs(runs[i]) + POLL_INTERVAL
<1> DEFINE e == Edges(runs, phase)
           d == (e[i + 1] \div POLL_INTERVAL - e[i] \div POLL_INTERVAL) * POLL_INTERVAL
<1>1. POLL_INTERVAL \in Nat \ {0}
  BY CodecAssumption
<1>2. /\ e \in Seq(Int) /\ Len(e) = Len(runs) + 1
      /\ e[i + 1] = e[i] + Abs(runs[i])
  <2> HIDE DEF e
  <2>1. phase \in Int
    OBVIOUS
  <2>2. /\ e \in Seq(Int) /\ Len(e) = Len(runs) + 1
        /\ \A k \in 1 .. Len(runs) : e[k + 1] = e[k] + Abs(runs[k])
    BY <2>1, EdgesValue DEF e
  <2> QED
    BY <2>2
<1>3. e[i] \in Int /\ e[i + 1] \in Int /\ runs[i] \in Int
  BY <1>2
<1>4. Abs(runs[i]) \in Nat
  BY <1>3, AbsValue
<1>5. d \in Nat /\ e[i + 1] - e[i] - POLL_INTERVAL < d /\ d < e[i + 1] - e[i] + POLL_INTERVAL
  <2>1. e[i] <= e[i + 1]
    BY <1>2, <1>3, <1>4
  <2> HIDE DEF e
  <2> QED
    BY <1>1, <1>3, <2>1, SampledClose
<1>6. i \in 0 .. RX_SYMBOLS
  BY DEF RX_SYMBOLS
<1>7. Recorded(old, runs, phase)[i] =
        (e[i + 1] \div POLL_INTERVAL - e[i] \div POLL_INTERVAL)
          * (IF runs[i] > 0 THEN POLL_INTERVAL ELSE -POLL_INTERVAL)
  BY <1>6 DEF Recorded
<1>8. Recorded(old, runs, phase)[i] = IF runs[i] > 0 THEN d ELSE -d
  <2>1. \A a \in Int : a * (-POLL_INTERVAL) = -(a * POLL_INTERVAL)
    BY <1>1
  <2>2. /\ e[i + 1] \div POLL_INTERVAL \in Int
        /\ e[i] \div POLL_INTERVAL \in Int
    BY <1>1, <1>3, DivBounds
  <2> QED
    BY <1>7, <2>1, <2>2
<1> HIDE DEF d
<1>9. e[i + 1] - e[i] = Abs(runs[i])
  BY <1>2, <1>3, <1>4
<1> QED
  BY <1>1, <1>3, <1>4, <1>5, <1>8, <1>9 DEF Abs

\* A recording has an integer in every slot.
LEMMA RecordedType ==
  ASSUME NEW runs \in Seq(Int), NEW phase \in Nat,
         NEW old \in [0 .. RX_SYMBOLS -> Int]
  PROVE  Recorded(old, runs, phase) \in [0 .. RX_SYMBOLS -> Int]
<1>1. ASSUME NEW i \in 0 .. RX_SYMBOLS PROVE Recorded(old, runs, phase)[i] \in Int
  <2>1. CASE i \in 1 .. Len(runs)
    <3>1. i <= RX_SYMBOLS
      <4>1. RX_SYMBOLS \in Int
        BY DEF RX_SYMBOLS
      <4> QED
        BY <4>1
    <3> QED
      BY <2>1, <3>1, RecordedRuns
  <2>2. CASE i \notin 1 .. Len(runs)
    <3>1. (SIGFREE_MIN \div POLL_INTERVAL + 1) * POLL_INTERVAL \in Int
      <4>1. SIGFREE_MIN \div POLL_INTERVAL \in Int /\ POLL_INTERVAL \in Int
        BY CodecAssumption, DivBounds
      <4> QED
        BY <4>1
    <3>2. Recorded(old, runs, phase)[i] \in
            {-((SIGFREE_MIN \div POLL_INTERVAL + 1) * POLL_INTERVAL), 0, old[i]}
      BY <2>2 DEF Recorded
    <3> QED
      BY <3>1, <3>2
  <2> QED
    BY <2>1, <2>2
<1> QED
  BY <1>1 DEF Recorded

-----------------------------------------------------------------------------
(* No two decoders accept the same buffer, whatever it holds.              *)

Samples == [0 .. RX_SYMBOLS -> Int]

\* A member of a set that none is below is its minimum.
LEMMA MinIs ==
  ASSUME NEW S, S \subseteq Int, NEW m \in S, \A y \in S : m <= y
  PROVE  Min(S) = m
<1> DEFINE Least(x) == x \in S /\ \A y \in S : x <= y
<1>1. Min(S) = CHOOSE x : Least(x)
  BY DEF Min
<1>2. Least(CHOOSE x : Least(x))
  <2>1. Least(m)
    OBVIOUS
  <2> HIDE DEF Least
  <2> QED
    BY <2>1, Zenon
<1>3. \A x : Least(x) => x = m
  OBVIOUS
<1> QED
  <2> HIDE DEF Least
  <2> QED
    BY <1>1, <1>2, <1>3

\* A member of a set that none is above is its maximum.
LEMMA MaxIs ==
  ASSUME NEW S, S \subseteq Int, NEW m \in S, \A y \in S : m >= y
  PROVE  Max(S) = m
<1> DEFINE Most(x) == x \in S /\ \A y \in S : x >= y
<1>1. Max(S) = CHOOSE x : Most(x)
  BY DEF Max
<1>2. Most(CHOOSE x : Most(x))
  <2>1. Most(m)
    OBVIOUS
  <2> HIDE DEF Most
  <2> QED
    BY <2>1, Zenon
<1>3. \A x : Most(x) => x = m
  OBVIOUS
<1> QED
  <2> HIDE DEF Most
  <2> QED
    BY <1>1, <1>2, <1>3

\* The minimum of a set of natural numbers exists.
LEMMA NatMin ==
  ASSUME NEW S \in SUBSET Nat, S # {}
  PROVE  Min(S) \in S /\ \A y \in S : Min(S) <= y
<1>1. PICK m \in S : \A y \in S : m <= y
  BY LeastElement
<1>2. S \subseteq Int
  OBVIOUS
<1>3. Min(S) = m
  BY <1>1, <1>2, MinIs
<1> QED
  BY <1>1, <1>3

\* The table of protocols, field by field.
LEMMA NECInfo ==
  ASSUME NEW p \in {NEC, NEC_RPT}
  PROVE  /\ PktInfo(p).preamble = <<16 * NEC_UNIT, -(IF p = NEC THEN 8 ELSE 4) * NEC_UNIT>>
         /\ PktInfo(p).postamble = <<NEC_UNIT>>
         /\ PktInfo(p).bits = << <<NEC_UNIT, -NEC_UNIT>>, <<NEC_UNIT, -3 * NEC_UNIT>>,
                                 <<>>, <<>> >>
         /\ PktInfo(p).perSymb = 1
         /\ PktInfo(p).rxDecode
<1>1. p # SONY /\ p # RCMM /\ p # RC5
  BY DEF RC5, RCMM, SONY, NEC, NEC_RPT
<1> QED
  BY <1>1 DEF PktInfo

\* The same for Sony.
LEMMA SonyInfo ==
  /\ PktInfo(SONY).preamble = <<4 * SONY_UNIT>>
  /\ PktInfo(SONY).postamble = <<>>
  /\ PktInfo(SONY).bits = << <<-SONY_UNIT, SONY_UNIT>>, <<-SONY_UNIT, 2 * SONY_UNIT>>,
                             <<>>, <<>> >>
  /\ PktInfo(SONY).perSymb = 1
  /\ PktInfo(SONY).rxDecode
<1>1. SONY \notin {NEC, NEC_RPT} /\ SONY # RCMM /\ SONY # RC5
  BY DEF RC5, RCMM, SONY, NEC, NEC_RPT
<1> QED
  BY <1>1 DEF PktInfo

\* The same for RCMM, which is not to be received.
LEMMA RCMMInfo ==
  /\ PktInfo(RCMM).preamble = <<15 * RCMM_UNIT, -10 * RCMM_UNIT>>
  /\ PktInfo(RCMM).postamble = <<6 * RCMM_UNIT>>
  /\ PktInfo(RCMM).bits = << <<6 * RCMM_UNIT, -10 * RCMM_UNIT>>,
                             <<6 * RCMM_UNIT, -16 * RCMM_UNIT>>,
                             <<6 * RCMM_UNIT, -22 * RCMM_UNIT>>,
                             <<6 * RCMM_UNIT, -28 * RCMM_UNIT>> >>
  /\ PktInfo(RCMM).perSymb = 2
  /\ ~PktInfo(RCMM).rxDecode
<1>1. RCMM \notin {NEC, NEC_RPT} /\ RCMM # SONY /\ RCMM # RC5
  BY DEF RC5, RCMM, SONY, NEC, NEC_RPT
<1> QED
  BY <1>1 DEF PktInfo

\* The same for RC5, whose packets have neither preamble nor postamble.
LEMMA RC5Info ==
  /\ PktInfo(RC5).preamble = <<>>
  /\ PktInfo(RC5).postamble = <<>>
  /\ PktInfo(RC5).bits = << <<-RC5_UNIT, RC5_UNIT>>, <<RC5_UNIT, -RC5_UNIT>>,
                            <<>>, <<>> >>
  /\ PktInfo(RC5).perSymb = 0
  /\ PktInfo(RC5).rxDecode
<1>1. RC5 \notin {NEC, NEC_RPT} /\ RC5 # SONY /\ RC5 # RCMM
  BY DEF RC5, RCMM, SONY, NEC, NEC_RPT
<1> QED
  BY <1>1 DEF PktInfo

\* What DecodePktDefault() accepts begins with the preamble.
LEMMA DefaultAccepts ==
  ASSUME NEW p, NEW msg, NEW v, DecodePktDefault(p, msg, v).ok
  PROVE  MatchSymbols(PktInfo(p).preamble, msg, 1)
BY DEF DecodePktDefault, Accepted, Rejected

\* The ranges that the preamble of a NEC frame allows.
LEMMA NECAccepts ==
  ASSUME NEW p \in {NEC, NEC_RPT}, NEW msg \in Samples, NEW v, Decode(p, msg, v).ok
  PROVE  /\ msg[1] >= 7319
         /\ IF p = NEC THEN msg[2] <= -3660 ELSE msg[2] >= -2674
         /\ msg[2] >= -5348
<1>1. p # SONY /\ p # RC5
  BY DEF NEC, NEC_RPT, SONY, RC5
<1>2. MatchSymbols(PktInfo(p).preamble, msg, 1)
  BY <1>1, DefaultAccepts DEF Decode
<1>3. PktInfo(p).preamble = <<9008, IF p = NEC THEN -4504 ELSE -2252>>
  BY NECInfo DEF NEC_UNIT
<1>4. msg[1] \in Int /\ msg[2] \in Int
  BY DEF Samples, RX_SYMBOLS
<1>5. Abs(9008 - msg[1]) <= Tolerance(9008)
  BY <1>2, <1>3 DEF MatchSymbols
<1> DEFINE x == IF p = NEC THEN -4504 ELSE -2252
           pat == PktInfo(p).preamble
<1>6. Abs(x - msg[2]) <= Tolerance(x)
  <2>1. Len(pat) = 2 /\ pat[2] = x
    BY <1>3
  <2> HIDE DEF pat, x
  <2>2. 2 \in 1 .. Len(pat) /\ 1 + 2 - 1 = 2
    BY <2>1
  <2>3. \A i \in 1 .. Len(pat) : Abs(pat[i] - msg[1 + i - 1]) <= Tolerance(pat[i])
    BY <1>2 DEF MatchSymbols, pat
  <2> QED
    BY <2>1, <2>2, <2>3
<1>7. x = IF p = NEC THEN -4504 ELSE -2252
  OBVIOUS
<1> HIDE DEF x, pat
<1> QED
  BY <1>4, <1>5, <1>6, <1>7 DEF Abs, Tolerance

\* Of a Sony frame, the preamble and the space that begins its first bit.
LEMMA SonyAccepts ==
  ASSUME NEW msg \in Samples, NEW v, Decode(SONY, msg, v).ok
  PROVE  1950 <= msg[1] /\ msg[1] <= 2850 /\ -712 <= msg[2] /\ msg[2] <= -488
<1>1. /\ DecodePktDefault(SONY, msg, v).ok
      /\ Len(DecodePktDefault(SONY, msg, v).bits) \in {12, 24}
  <2>1. DecodePktSony(SONY, msg, v).ok
    BY DEF Decode, SONY, RC5
  <2> QED
    BY <2>1 DEF DecodePktSony, Rejected
<1>2. /\ PktInfo(SONY).preamble = <<2400>>
      /\ PktInfo(SONY).bits[1] = <<-600, 600>>
      /\ PktInfo(SONY).bits[2] = <<-600, 1200>>
  BY SonyInfo DEF SONY_UNIT
<1>3. msg[1] \in Int /\ msg[2] \in Int
  BY DEF Samples, RX_SYMBOLS
<1>4. Abs(2400 - msg[1]) <= Tolerance(2400)
  <2>1. MatchSymbols(PktInfo(SONY).preamble, msg, 1)
    BY <1>1, DefaultAccepts
  <2> QED
    BY <1>2, <2>1 DEF MatchSymbols
<1> DEFINE info == PktInfo(SONY)
           start(k) == 1 + Len(info.preamble) + 2 * k
           bit(k) == IF MatchSymbols(info.bits[1], msg, start(k)) THEN 0
                     ELSE IF MatchSymbols(info.bits[2], msg, start(k)) THEN 1
                     ELSE -1
           stops(k) == start(k) >= RX_SYMBOLS \/ bit(k) = -1
           nbits == Min({n \in 0 .. RX_SYMBOLS \div 2 : stops(n)})
<1>5. DecodePktDefault(SONY, msg, v).bits = [k \in 1 .. nbits |-> bit(k - 1)]
  BY <1>1 DEF DecodePktDefault, Accepted, Rejected
<1>6. ~stops(0)
  <2>1. SUFFICES ASSUME stops(0) PROVE FALSE
    OBVIOUS
  <2>2. nbits = 0
    <3> HIDE DEF stops
    <3> DEFINE N == {n \in 0 .. RX_SYMBOLS \div 2 : stops(n)}
    <3>1. 0 \in N
      BY <2>1 DEF RX_SYMBOLS
    <3>2. N \subseteq Int /\ \A y \in N : 0 <= y
      BY DEF RX_SYMBOLS
    <3> HIDE DEF N
    <3>3. Min(N) = 0
      BY <3>1, <3>2, MinIs
    <3> QED
      BY <3>3 DEF N
  <2> HIDE DEF nbits, bit
  <2>3. Len([k \in 1 .. nbits |-> bit(k - 1)]) = 0
    <3>1. [k \in 1 .. 0 |-> bit(k - 1)] = <<>>
      OBVIOUS
    <3> QED
      BY <2>2, <3>1
  <2>4. Len(DecodePktDefault(SONY, msg, v).bits) = 0
    BY <1>5, <2>3
  <2> QED
    BY <1>1, <2>4
<1>7. MatchSymbols(info.bits[1], msg, 2) \/ MatchSymbols(info.bits[2], msg, 2)
  BY <1>2, <1>6
<1>8. Abs(-600 - msg[2]) <= Tolerance(-600)
  BY <1>2, <1>7 DEF MatchSymbols
<1> QED
  BY <1>3, <1>4, <1>8 DEF Abs, Tolerance

\* Which durations are one half-bit of RC5, and which are two.
LEMMA HalfBitsValue ==
  ASSUME NEW x \in Int
  PROVE  /\ HalfBits(x) \in 0 .. 2
         /\ HalfBits(x) = 1 <=> 723 <= Abs(x) /\ Abs(x) <= 1055
         /\ HalfBits(x) = 2 <=> 1445 <= Abs(x) /\ Abs(x) <= 2111
BY DEF HalfBits, Tolerance, Abs, RC5_UNIT

\* FlattenSeq() of one sequence is that sequence.
LEMMA FlattenOne ==
  ASSUME NEW S, NEW seqs \in [1 .. 1 -> Seq(S)]
  PROVE  FlattenSeq(seqs) = seqs[1]
<1>1. \E f \in [1 .. 1 -> Seq(S)] : FlattenSeq(seqs) = f[1] /\ Joins(f, 1, seqs)
  <2>1. 1 \in Nat /\ 1 # 0
    OBVIOUS
  <2> QED
    BY <2>1, FlattenPartial
<1> QED
  BY <1>1 DEF Joins

\* What GetBitSeq() makes of one run, and of the first n.
Piece(x) == [i \in 1 .. HalfBits(x) |-> IF x > 0 THEN 1 ELSE 0]
Halves(msg, n) == FlattenSeq([k \in 1 .. n |-> Piece(msg[k])])

\* The half-bits with the silent one that begins a frame, and the one that may
\* end it.
Padded(levels) ==
  <<0>> \o levels \o (IF Len(levels) % 2 = 0 THEN <<0>> ELSE <<>>)

\* A run of RC5 stands for as many half-bits as HalfBits() says.
LEMMA PieceType ==
  ASSUME NEW x \in Int
  PROVE  /\ Piece(x) \in Seq(Bit)
         /\ Len(Piece(x)) = HalfBits(x)
         /\ HalfBits(x) \in 0 .. 2
<1>1. HalfBits(x) \in 0 .. 2
  BY HalfBitsValue
<1>2. Piece(x) \in [1 .. HalfBits(x) -> Bit]
  BY DEF Piece, Bit
<1> QED
  BY <1>1, <1>2, FunctionIsSeq

\* The half-bits of the first runs of a recording are bits.
LEMMA HalvesType ==
  ASSUME NEW n \in Nat, NEW msg, \A k \in 1 .. n : msg[k] \in Int
  PROVE  Halves(msg, n) \in Seq(Bit)
<1>1. [k \in 1 .. n |-> Piece(msg[k])] \in [1 .. n -> Seq(Bit)]
  BY PieceType
<1> QED
  BY <1>1, FlattenType DEF Halves

\* What DecodePkt_RC5() adds to the half-bits: a space in front, and one behind
\* if their number is odd then.
LEMMA PaddedValue ==
  ASSUME NEW levels \in Seq(Bit)
  PROVE  /\ Padded(levels) \in Seq(Bit)
         /\ Len(Padded(levels)) = Len(levels) + (IF Len(levels) % 2 = 0 THEN 2 ELSE 1)
         /\ \A i \in 1 .. Len(Padded(levels)) :
              Padded(levels)[i] =
                IF i \in 2 .. Len(levels) + 1 THEN levels[i - 1] ELSE 0
<1> DEFINE tail == IF Len(levels) % 2 = 0 THEN <<0>> ELSE <<>>
<1>1. <<0>> \in Seq(Bit) /\ Len(<<0>>) = 1 /\ <<>> \in Seq(Bit) /\ Len(<<>>) = 0
  BY DEF Bit
<1>2. /\ <<0>> \o levels \in Seq(Bit)
      /\ Len(<<0>> \o levels) = 1 + Len(levels)
      /\ \A i \in 1 .. 1 + Len(levels) :
           (<<0>> \o levels)[i] = IF i <= 1 THEN <<0>>[i] ELSE levels[i - 1]
  BY <1>1, ConcatProperties
<1>3. CASE Len(levels) % 2 = 0
  <2>1. Padded(levels) = (<<0>> \o levels) \o <<0>>
    BY <1>3 DEF Padded
  <2>2. /\ Padded(levels) \in Seq(Bit)
        /\ Len(Padded(levels)) = 2 + Len(levels)
        /\ \A i \in 1 .. 2 + Len(levels) :
             Padded(levels)[i] = IF i <= 1 + Len(levels) THEN (<<0>> \o levels)[i]
                                 ELSE <<0>>[i - (1 + Len(levels))]
    <3> DEFINE all == <<0>> \o levels
    <3> HIDE DEF all
    <3>1. /\ all \in Seq(Bit) /\ Len(all) = 1 + Len(levels) /\ Len(levels) \in Nat
      BY <1>2 DEF all
    <3>2. /\ all \o <<0>> \in Seq(Bit)
          /\ Len(all \o <<0>>) = 2 + Len(levels)
          /\ \A i \in 1 .. 2 + Len(levels) :
               (all \o <<0>>)[i] = IF i <= 1 + Len(levels) THEN all[i]
                                   ELSE <<0>>[i - (1 + Len(levels))]
      BY <1>1, <3>1, ConcatProperties
    <3> QED
      BY <2>1, <3>2 DEF all
  <2> QED
    BY <1>2, <1>3, <2>2
<1>4. CASE Len(levels) % 2 # 0
  <2>1. Padded(levels) = (<<0>> \o levels) \o <<>>
    BY <1>4 DEF Padded
  <2>2. (<<0>> \o levels) \o <<>> = <<0>> \o levels
    BY <1>2, ConcatEmptySeq
  <2>3. Padded(levels) = <<0>> \o levels
    BY <2>1, <2>2
  <2> QED
    BY <1>2, <1>4, <2>3
<1> QED
  BY <1>3, <1>4

\* GetBitSeq() takes all runs up to the first that is not one or two half-bits.
LEMMA BitSeqValue ==
  ASSUME NEW msg \in Samples
  PROVE  /\ GetBitSeq(msg).pos \in 1 .. RX_SYMBOLS
         /\ GetBitSeq(msg).levels = Halves(msg, GetBitSeq(msg).pos - 1)
         /\ GetBitSeq(msg).levels \in Seq(Bit)
         /\ \A k \in 1 .. GetBitSeq(msg).pos - 1 :
              HalfBits(msg[k]) # 0 /\ msg[k] > -SIGFREE_MIN
         /\ \/ GetBitSeq(msg).pos = RX_SYMBOLS
            \/ msg[GetBitSeq(msg).pos] <= -SIGFREE_MIN
            \/ HalfBits(msg[GetBitSeq(msg).pos]) = 0
<1> DEFINE stops(k) == k = RX_SYMBOLS \/ msg[k] <= -SIGFREE_MIN \/ HalfBits(msg[k]) = 0
           N == {n \in 1 .. RX_SYMBOLS : stops(n)}
           end == Min(N)
<1>1. /\ GetBitSeq(msg).pos = end
      /\ GetBitSeq(msg).levels = Halves(msg, end - 1)
  BY DEF GetBitSeq, Halves, Piece
<1>2. end \in N /\ \A y \in N : end <= y
  <2>1. N \in SUBSET Nat
    BY DEF RX_SYMBOLS
  <2>2. RX_SYMBOLS \in N
    BY DEF RX_SYMBOLS
  <2> HIDE DEF N
  <2> QED
    BY <2>1, <2>2, NatMin
<1>3. end \in 1 .. RX_SYMBOLS
  <2> HIDE DEF end
  <2> QED
    BY <1>2
<1>4. \A k \in 1 .. RX_SYMBOLS : msg[k] \in Int
  BY DEF Samples, RX_SYMBOLS
<1>5. RX_SYMBOLS \in Nat /\ SIGFREE_MIN \in Nat
  BY CodecAssumption DEF RX_SYMBOLS
<1>6. ASSUME NEW k \in 1 .. end - 1 PROVE HalfBits(msg[k]) # 0 /\ msg[k] > -SIGFREE_MIN
  <2> HIDE DEF end, stops
  <2>1. k \in 1 .. RX_SYMBOLS
    BY <1>3, <1>5
  <2>2. k \notin N
    BY <1>2, <1>3, <1>5
  <2>3. ~stops(k)
    BY <2>1, <2>2
  <2> QED
    BY <1>4, <1>5, <2>1, <2>3 DEF stops
<1>7. Halves(msg, end - 1) \in Seq(Bit)
  <2> HIDE DEF end
  <2>1. end - 1 \in Nat /\ \A k \in 1 .. end - 1 : msg[k] \in Int
    BY <1>3, <1>4, <1>5
  <2> QED
    BY <2>1, HalvesType
<1>8. end = RX_SYMBOLS \/ msg[end] <= -SIGFREE_MIN \/ HalfBits(msg[end]) = 0
  <2> HIDE DEF end
  <2> QED
    BY <1>2
<1> QED
  <2> HIDE DEF end
  <2> QED
    BY <1>1, <1>3, <1>6, <1>7, <1>8

\* What an RC5 decoder accepts has fourteen bits.
LEMMA RC5Value ==
  ASSUME NEW msg \in Samples, NEW v
  PROVE  /\ DecodePktRC5(RC5, msg, v).bits \in Seq(Bit)
         /\ DecodePktRC5(RC5, msg, v).ok =>
              /\ Len(DecodePktRC5(RC5, msg, v).bits) = 14
              /\ Len(GetBitSeq(msg).levels) \in {26, 27, 28}
<1> DEFINE levels == GetBitSeq(msg).levels
           padded == Padded(levels)
           n == Len(padded) \div 2
           bits == [i \in 1 .. n |-> padded[2 * i]]
<1>1. \/ DecodePktRC5(RC5, msg, v) = Accepted(bits) /\ n = 14
      \/ DecodePktRC5(RC5, msg, v) = Rejected
  BY DEF DecodePktRC5, Padded
<1>2. levels \in Seq(Bit)
  BY BitSeqValue
<1>3. /\ padded \in Seq(Bit)
      /\ Len(padded) = Len(levels) + (IF Len(levels) % 2 = 0 THEN 2 ELSE 1)
  <2> HIDE DEF levels
  <2> QED
    BY <1>2, PaddedValue
<1>4. Len(levels) \in Nat
  BY <1>2
<1>5. CASE DecodePktRC5(RC5, msg, v) = Accepted(bits) /\ n = 14
  <2> HIDE DEF padded, levels
  <2> DEFINE y == Len(padded)
  <2>1. y \in 28 .. 29
    <3>1. y \in Nat
      BY <1>3
    <3>2. y \div 2 = 14
      BY <1>5
    <3> HIDE DEF y
    <3> QED
      BY <3>1, <3>2
  <2>2. bits \in [1 .. 14 -> Bit]
    <3>1. n = 14
      BY <1>5
    <3>2. \A i \in 1 .. y : padded[i] \in Bit
      BY <1>3
    <3>3. \A i \in 1 .. 14 : 2 * i \in 1 .. y
      <4> HIDE DEF y
      <4> QED
        BY <2>1
    <3> HIDE DEF n, y
    <3> QED
      BY <3>1, <3>2, <3>3
  <2>3. bits \in Seq(Bit) /\ Len(bits) = 14
    <3> HIDE DEF bits
    <3> QED
      BY <2>2, FunctionIsSeq
  <2>4. Len(levels) \in {26, 27, 28}
    <3> DEFINE x == Len(levels)
    <3>1. y = x + (IF x % 2 = 0 THEN 2 ELSE 1) /\ x \in Nat /\ y \in 28 .. 29
      BY <1>3, <1>4, <2>1
    <3> HIDE DEF x, y
    <3>2. x \in {26, 27, 28}
      BY <3>1
    <3> QED
      BY <3>2 DEF x
  <2> HIDE DEF bits
  <2> QED
    BY <1>5, <2>3, <2>4 DEF Accepted, levels
<1>6. CASE DecodePktRC5(RC5, msg, v) = Rejected
  BY <1>6 DEF Rejected
<1> QED
  BY <1>1, <1>5, <1>6

\* An RC5 frame has at least two runs.
LEMMA RC5Accepts ==
  ASSUME NEW msg \in Samples, NEW v, Decode(RC5, msg, v).ok
  PROVE  HalfBits(msg[1]) # 0 /\ HalfBits(msg[2]) # 0
<1> DEFINE end == GetBitSeq(msg).pos
<1>1. DecodePktRC5(RC5, msg, v).ok
  BY DEF Decode, SONY, RC5
<1>2. Len(Halves(msg, end - 1)) \notin 0 .. 2
  <2>1. Len(GetBitSeq(msg).levels) \in {26, 27, 28}
    BY <1>1, RC5Value
  <2>2. GetBitSeq(msg).levels = Halves(msg, end - 1)
    BY BitSeqValue
  <2> DEFINE x == Len(GetBitSeq(msg).levels)
  <2> HIDE DEF x
  <2>3. x \in {26, 27, 28}
    BY <2>1 DEF x
  <2>4. x \notin 0 .. 2
    BY <2>3
  <2> QED
    BY <2>2, <2>4 DEF x
<1>3. end \in 1 .. RX_SYMBOLS /\ \A k \in 1 .. end - 1 : HalfBits(msg[k]) # 0
  BY BitSeqValue
<1>4. msg[1] \in Int /\ msg[2] \in Int
  BY DEF Samples, RX_SYMBOLS
<1>5. end # 1
  <2>1. SUFFICES ASSUME end - 1 = 0 PROVE FALSE
    BY <1>3
  <2>2. Halves(msg, 0) = <<>>
    <3>1. [k \in 1 .. 0 |-> Piece(msg[k])] = <<>> /\ Len(<<>>) = 0
      OBVIOUS
    <3> QED
      BY <3>1 DEF Halves, FlattenSeq
  <2> HIDE DEF end
  <2>3. Len(Halves(msg, end - 1)) = 0
    BY <2>1, <2>2
  <2> QED
    BY <1>2, <2>3
<1>6. end # 2
  <2>1. SUFFICES ASSUME end - 1 = 1 PROVE FALSE
    BY <1>3
  <2>2. Halves(msg, 1) = Piece(msg[1])
    <3>1. [k \in 1 .. 1 |-> Piece(msg[k])] \in [1 .. 1 -> Seq(Bit)]
      <4>1. \A x \in Int : Piece(x) \in Seq(Bit)
        BY PieceType
      <4>2. Piece(msg[1]) \in Seq(Bit)
        BY <1>4, <4>1
      <4> QED
        BY <4>2
    <3> QED
      BY <3>1, FlattenOne DEF Halves
  <2>3. \A x \in Int : Len(Piece(x)) = HalfBits(x) /\ HalfBits(x) \in 0 .. 2
    BY PieceType
  <2> HIDE DEF end
  <2>4. Len(Halves(msg, end - 1)) = HalfBits(msg[1])
    BY <1>4, <2>1, <2>2, <2>3
  <2> QED
    BY <1>2, <1>4, <2>3, <2>4
<1>7. 1 \in 1 .. end - 1 /\ 2 \in 1 .. end - 1
  <2> HIDE DEF end
  <2> QED
    BY <1>3, <1>5, <1>6 DEF RX_SYMBOLS
<1> QED
  BY <1>3, <1>7

\* The tolerances of the five protocols do not overlap.
LEMMA DecodersDisjoint ==
  ASSUME NEW msg \in Samples, NEW v,
         NEW p \in {NEC, NEC_RPT, SONY, RC5}, NEW q \in {NEC, NEC_RPT, SONY, RC5},
         Decode(p, msg, v).ok, Decode(q, msg, v).ok
  PROVE  p = q
<1>1. msg[1] \in Int /\ msg[2] \in Int
  BY DEF Samples, RX_SYMBOLS
<1>2. ASSUME NEW r \in {NEC, NEC_RPT, SONY, RC5}, Decode(r, msg, v).ok
      PROVE  /\ r = NEC => msg[1] >= 7319 /\ msg[2] <= -3660
             /\ r = NEC_RPT => msg[1] >= 7319 /\ msg[2] >= -2674
             /\ r = SONY => msg[1] <= 2850 /\ -712 <= msg[2] /\ msg[2] <= -488
             /\ r = RC5 => msg[1] <= 2111 /\ (msg[2] <= -723 \/ msg[2] >= 723)
  <2>1. CASE r \in {NEC, NEC_RPT}
    <3>1. /\ msg[1] >= 7319
          /\ IF r = NEC THEN msg[2] <= -3660 ELSE msg[2] >= -2674
      BY <1>2, <2>1, NECAccepts
    <3> QED
      BY <2>1, <3>1 DEF NEC, NEC_RPT, SONY, RC5
  <2>2. CASE r = SONY
    <3>1. 1950 <= msg[1] /\ msg[1] <= 2850 /\ -712 <= msg[2] /\ msg[2] <= -488
      BY <1>2, <2>2, SonyAccepts
    <3> QED
      BY <2>2, <3>1 DEF NEC, NEC_RPT, SONY, RC5
  <2>3. CASE r = RC5
    <3>1. HalfBits(msg[1]) # 0 /\ HalfBits(msg[2]) # 0
      BY <1>2, <2>3, RC5Accepts
    <3>2. Abs(msg[1]) <= 2111 /\ Abs(msg[2]) >= 723
      BY <1>1, <3>1, HalfBitsValue, AbsValue
    <3>3. msg[1] <= 2111 /\ (msg[2] <= -723 \/ msg[2] >= 723)
      BY <1>1, <3>2 DEF Abs
    <3> QED
      BY <2>3, <3>3 DEF NEC, NEC_RPT, SONY, RC5
  <2> QED
    BY <2>1, <2>2, <2>3
<1>3. /\ p = NEC => msg[1] >= 7319 /\ msg[2] <= -3660
      /\ p = NEC_RPT => msg[1] >= 7319 /\ msg[2] >= -2674
      /\ p = SONY => msg[1] <= 2850 /\ -712 <= msg[2] /\ msg[2] <= -488
      /\ p = RC5 => msg[1] <= 2111 /\ (msg[2] <= -723 \/ msg[2] >= 723)
  BY <1>2
<1>4. /\ q = NEC => msg[1] >= 7319 /\ msg[2] <= -3660
      /\ q = NEC_RPT => msg[1] >= 7319 /\ msg[2] >= -2674
      /\ q = SONY => msg[1] <= 2850 /\ -712 <= msg[2] /\ msg[2] <= -488
      /\ q = RC5 => msg[1] <= 2111 /\ (msg[2] <= -723 \/ msg[2] >= 723)
  BY <1>2
<1> QED
  BY <1>1, <1>3, <1>4

-----------------------------------------------------------------------------
(* Types: a packet is a sequence of durations, an answer one of bits.      *)

Received == {NEC, NEC_RPT, SONY, RC5}

\* pktInfo[] has four protocols that are received, and RCMM.
LEMMA ProtocolsValue == Range(Protocols) = Received \cup {RCMM}
<1>1. Len(Protocols) = 5 /\ DOMAIN Protocols = 1 .. 5
  BY DEF Protocols
<1> QED
  BY <1>1 DEF Range, Protocols, Received

\* The lists of the table are sequences of durations.
LEMMA InfoTypes ==
  ASSUME NEW p \in Range(Protocols)
  PROVE  /\ PktInfo(p).preamble \in Seq(Int)
         /\ PktInfo(p).postamble \in Seq(Int)
         /\ \A b \in 1 .. 4 : PktInfo(p).bits[b] \in Seq(Int)
         /\ PktInfo(p).perSymb \in 0 .. 2
         /\ Len(PktInfo(p).preamble) \in 0 .. 2
<1>1. CASE p \in {NEC, NEC_RPT}
  <2> DEFINE s == -(IF p = NEC THEN 8 ELSE 4) * NEC_UNIT
  <2>1. s \in Int
    BY DEF NEC_UNIT
  <2>2. PktInfo(p).preamble = <<16 * NEC_UNIT, s>>
    BY <1>1, NECInfo
  <2> HIDE DEF s
  <2>3. PktInfo(p).preamble \in Seq(Int) /\ Len(PktInfo(p).preamble) = 2
    BY <2>1, <2>2 DEF NEC_UNIT
  <2>4. /\ PktInfo(p).postamble \in Seq(Int)
        /\ \A b \in 1 .. 4 : PktInfo(p).bits[b] \in Seq(Int)
        /\ PktInfo(p).perSymb \in 0 .. 2
    <3>1. PktInfo(p).bits = << <<563, -563>>, <<563, -1689>>, <<>>, <<>> >>
      BY <1>1, NECInfo DEF NEC_UNIT
    <3>2. PktInfo(p).postamble = <<563>> /\ PktInfo(p).perSymb = 1
      BY <1>1, NECInfo DEF NEC_UNIT
    <3> QED
      BY <3>1, <3>2
  <2> QED
    BY <2>3, <2>4
<1>2. CASE p = SONY
  BY <1>2, SonyInfo DEF SONY_UNIT
<1>3. CASE p = RCMM
  BY <1>3, RCMMInfo DEF RCMM_UNIT
<1>4. CASE p = RC5
  BY <1>4, RC5Info DEF RC5_UNIT
<1> QED
  BY <1>1, <1>2, <1>3, <1>4, ProtocolsValue DEF Received

\* The bits of an answer are bits, and never more than fill the buffer.
LEMMA DefaultBits ==
  ASSUME NEW p \in Range(Protocols), NEW msg \in Samples, NEW v
  PROVE  DecodePktDefault(p, msg, v).bits \in Seq(Bit)
<1> DEFINE info == PktInfo(p)
           start(k) == 1 + Len(info.preamble) + 2 * k
           bit(k) == IF MatchSymbols(info.bits[1], msg, start(k)) THEN 0
                     ELSE IF MatchSymbols(info.bits[2], msg, start(k)) THEN 1
                     ELSE -1
           stops(k) == start(k) >= RX_SYMBOLS \/ bit(k) = -1
           N == {n \in 0 .. RX_SYMBOLS \div 2 : stops(n)}
           nbits == Min(N)
<1>1. DecodePktDefault(p, msg, v).bits \in {<<>>, [k \in 1 .. nbits |-> bit(k - 1)]}
  BY DEF DecodePktDefault, Accepted, Rejected
<1>2. nbits \in 0 .. 38 /\ \A k \in 0 .. nbits - 1 : ~stops(k)
  <2>1. N \subseteq Nat /\ N \subseteq 0 .. 38
    <3> HIDE DEF stops
    <3> QED
      BY DEF RX_SYMBOLS
  <2>2. 38 \in N
    <3>1. start(38) >= RX_SYMBOLS
      BY InfoTypes DEF RX_SYMBOLS
    <3>2. 38 \in 0 .. RX_SYMBOLS \div 2
      BY DEF RX_SYMBOLS
    <3> QED
      BY <3>1, <3>2
  <2>3. nbits \in N /\ \A y \in N : nbits <= y
    <3> HIDE DEF N
    <3> QED
      BY <2>1, <2>2, NatMin
  <2>4. ASSUME NEW k \in 0 .. nbits - 1 PROVE ~stops(k)
    <3> HIDE DEF nbits, stops
    <3>1. nbits \in 0 .. 38
      BY <2>1, <2>3
    <3>2. k \notin N
      BY <2>3, <3>1
    <3>3. k \in 0 .. RX_SYMBOLS \div 2
      BY <3>1 DEF RX_SYMBOLS
    <3> QED
      BY <3>2, <3>3
  <2> QED
    <3> HIDE DEF nbits, stops
    <3> QED
      BY <2>1, <2>3, <2>4
<1>3. ASSUME NEW k \in 1 .. nbits PROVE bit(k - 1) \in Bit
  <2>1. ~stops(k - 1)
    <3> HIDE DEF nbits, stops
    <3> QED
      BY <1>2
  <2>2. bit(k - 1) # -1
    BY <2>1
  <2> QED
    BY <2>2 DEF Bit
<1>4. [k \in 1 .. nbits |-> bit(k - 1)] \in Seq(Bit)
  <2> HIDE DEF nbits, bit
  <2>1. [k \in 1 .. nbits |-> bit(k - 1)] \in [1 .. nbits -> Bit]
    BY <1>3
  <2> QED
    BY <1>2, <2>1, FunctionIsSeq
<1>5. <<>> \in Seq(Bit)
  OBVIOUS
<1> QED
  <2> HIDE DEF nbits, bit
  <2> QED
    BY <1>1, <1>4, <1>5

\* Whatever a decoder returns are bits.
LEMMA DecodeBits ==
  ASSUME NEW p \in Range(Protocols), NEW msg \in Samples, NEW v
  PROVE  Decode(p, msg, v).bits \in Seq(Bit)
<1>1. DecodePktDefault(p, msg, v).bits \in Seq(Bit)
  BY DefaultBits
<1>2. DecodePktSony(p, msg, v).bits \in Seq(Bit)
  BY <1>1 DEF DecodePktSony, Rejected
<1>3. CASE p = RC5
  BY <1>3, RC5Value DEF Decode, SONY, RC5
<1>4. CASE p # RC5
  BY <1>1, <1>2, <1>4 DEF Decode
<1> QED
  BY <1>3, <1>4

\* The symbols of a message are among those of its protocol.
LEMMA SymbolType ==
  ASSUME NEW p, NEW data \in Uint32, NEW i \in Nat \ {0}
  PROVE  SymbolAt(p, data, i) \in 0 .. 3
<1> DEFINE at(k) == IF k <= MSGBITS_MAX THEN data[k] ELSE 0
<1>1. \A k \in Nat \ {0} : at(k) \in 0 .. 1
  BY DEF Uint32, Bit
<1>2. i \in Nat \ {0} /\ 2 * i - 1 \in Nat \ {0} /\ 2 * i \in Nat \ {0}
  OBVIOUS
<1>3. SymbolAt(p, data, i) = IF BitsPerSymb(p) = 1 THEN at(i)
                             ELSE 2 * at(2 * i - 1) + at(2 * i)
  BY DEF SymbolAt
<1> HIDE DEF at
<1> QED
  BY <1>1, <1>2, <1>3

\* How often the loop of BuildRawDefault() runs is a natural number.
LEMMA NumSymbolsType ==
  ASSUME NEW p, NEW n \in Nat
  PROVE  NumSymbols(p, n) \in Nat
BY DEF NumSymbols, BitsPerSymb, MSGBITS_MAX, TX_SYMBOLS

\* What is left of a sequence is a sequence of the same elements.
LEMMA CutType ==
  ASSUME NEW s \in Seq(Int), NEW n \in Nat
  PROVE  /\ (IF Len(s) > n THEN SubSeq(s, 1, n) ELSE s) \in Seq(Int)
         /\ Len(IF Len(s) > n THEN SubSeq(s, 1, n) ELSE s) <= n
<1>1. CASE Len(s) > n
  <2>1. \A i \in 1 .. n : s[i] \in Int
    BY <1>1
  <2>2. SubSeq(s, 1, n) \in Seq(Int) /\ Len(SubSeq(s, 1, n)) = n
    BY <2>1, <1>1, SubSeqProperties
  <2> QED
    BY <1>1, <2>2
<1>2. CASE ~(Len(s) > n)
  <2>1. Len(s) \in Nat
    OBVIOUS
  <2> QED
    BY <1>2, <2>1
<1> QED
  BY <1>1, <1>2

\* BuildRaw() returns at most PKTSYMB_MAX durations.
LEMMA BuildRawType ==
  ASSUME NEW msg, msg.protocol \in Range(Protocols), msg.data \in Uint32,
         msg.nbits \in Nat
  PROVE  BuildRaw(msg) \in Seq(Int) /\ Len(BuildRaw(msg)) <= TX_SYMBOLS
<1> DEFINE info == PktInfo(msg.protocol)
           n == NumSymbols(msg.protocol, msg.nbits)
           seqs == [i \in 1 .. n |-> info.bits[SymbolAt(msg.protocol, msg.data, i) + 1]]
           all == info.preamble \o FlattenSeq(seqs) \o info.postamble
<1>1. n \in Nat
  BY NumSymbolsType
<1>2. \A i \in 1 .. n : SymbolAt(msg.protocol, msg.data, i) + 1 \in 1 .. 4
  <2> HIDE DEF n
  <2>1. ASSUME NEW i \in 1 .. n PROVE SymbolAt(msg.protocol, msg.data, i) \in 0 .. 3
    BY <1>1, SymbolType
  <2> QED
    BY <2>1
<1>3. /\ info.preamble \in Seq(Int)
      /\ info.postamble \in Seq(Int)
      /\ \A b \in 1 .. 4 : info.bits[b] \in Seq(Int)
  BY InfoTypes
<1>4. FlattenSeq(seqs) \in Seq(Int)
  <2> HIDE DEF n, info
  <2>1. seqs \in [1 .. n -> Seq(Int)]
    BY <1>2, <1>3
  <2> HIDE DEF seqs
  <2> QED
    BY <1>1, <2>1, FlattenType
<1>5. all \in Seq(Int)
  <2> HIDE DEF seqs, info
  <2> QED
    BY <1>3, <1>4
<1>6. BuildRaw(msg) = IF Len(all) > TX_SYMBOLS THEN SubSeq(all, 1, TX_SYMBOLS) ELSE all
  BY DEF BuildRaw
<1>7. TX_SYMBOLS \in Nat
  BY DEF TX_SYMBOLS
<1> HIDE DEF all
<1> QED
  BY <1>5, <1>6, <1>7, CutType

\* A frame of a remote control consists of durations.
LEMMA RemoteFrameType ==
  ASSUME NEW f, f.protocol \in Range(Protocols), f.bits \in Seq(Bit)
  PROVE  RemoteFrame(f) \in Seq(Int)
<1> DEFINE info == PktInfo(f.protocol)
           bits == f.bits
           singles == [i \in 1 .. Len(bits) |->
                     IF f.protocol = RC5
                     THEN <<RC5_UNIT * (1 - 2 * bits[i]), RC5_UNIT * (2 * bits[i] - 1)>>
                     ELSE info.bits[bits[i] + 1]]
           pairs == [i \in 1 .. Len(bits) \div 2 |->
                     info.bits[2 * bits[2 * i - 1] + bits[2 * i] + 1]]
<1>1. /\ info.preamble \in Seq(Int)
      /\ info.postamble \in Seq(Int)
      /\ \A b \in 1 .. 4 : info.bits[b] \in Seq(Int)
  BY InfoTypes
<1>2. \A i \in 1 .. Len(bits) : bits[i] \in 0 .. 1
  BY DEF Bit
<1>3. FlattenSeq(singles) \in Seq(Int)
  <2>1. singles \in [1 .. Len(bits) -> Seq(Int)]
    <3>1. \A b \in 0 .. 1 : <<RC5_UNIT * (1 - 2 * b), RC5_UNIT * (2 * b - 1)>> \in Seq(Int)
      BY DEF RC5_UNIT
    <3>2. ASSUME NEW i \in 1 .. Len(bits) PROVE singles[i] \in Seq(Int)
      <4>1. bits[i] \in 0 .. 1
        BY <1>2
      <4>2. info.bits[bits[i] + 1] \in Seq(Int)
        BY <1>1, <4>1
      <4>3. <<RC5_UNIT * (1 - 2 * bits[i]), RC5_UNIT * (2 * bits[i] - 1)>> \in Seq(Int)
        BY <3>1, <4>1
      <4> HIDE DEF info
      <4> QED
        BY <4>2, <4>3
    <3> HIDE DEF info
    <3> QED
      BY <3>2
  <2> HIDE DEF singles
  <2> QED
    BY <2>1, FlattenType
<1>4. FlattenSeq(pairs) \in Seq(Int)
  <2> DEFINE h == Len(bits) \div 2
  <2>1. h \in Nat /\ \A i \in 1 .. h : 2 * i - 1 \in 1 .. Len(bits) /\ 2 * i \in 1 .. Len(bits)
    <3>1. Len(bits) \in Nat
      OBVIOUS
    <3> DEFINE x == Len(bits)
    <3> HIDE DEF x
    <3>2. x \in Nat => x \div 2 \in Nat /\ \A i \in 1 .. x \div 2 : 2 * i - 1 \in 1 .. x /\ 2 * i \in 1 .. x
      OBVIOUS
    <3> QED
      BY <3>1, <3>2 DEF x
  <2>2. \A i \in 1 .. h : 2 * bits[2 * i - 1] + bits[2 * i] + 1 \in 1 .. 4
    <3>1. \A a, b \in 0 .. 1 : 2 * a + b + 1 \in 1 .. 4
      OBVIOUS
    <3> HIDE DEF h, bits
    <3> QED
      BY <1>2, <2>1, <3>1
  <2>3. pairs \in [1 .. h -> Seq(Int)]
    <3> HIDE DEF info
    <3> QED
      BY <1>1, <2>2
  <2> HIDE DEF pairs, h
  <2> QED
    BY <2>1, <2>3, FlattenType
<1> DEFINE middle == IF f.protocol = RCMM THEN FlattenSeq(pairs) ELSE FlattenSeq(singles)
<1>5. RemoteFrame(f) = info.preamble \o middle \o info.postamble
  BY DEF RemoteFrame
<1>6. middle \in Seq(Int)
  BY <1>3, <1>4
<1> HIDE DEF middle, info
<1> QED
  BY <1>1, <1>5, <1>6

-----------------------------------------------------------------------------
(* Runs.                                                                   *)

\* A run more: part of the one before, or one of its own.
Joined(before, x) ==
  IF Len(before) > 0 /\ (before[Len(before)] > 0) = (x > 0)
  THEN [before EXCEPT ![Len(before)] = @ + x] ELSE Append(before, x)

Heard(line) ==
  LET marks == {i \in 1 .. Len(line) : line[i] > 0} IN Min(marks) .. Max(marks)

\* f[i] is what is heard of the first i symbols.
Hears(f, line) ==
  /\ f[0] = <<>>
  /\ \A i \in 1 .. Len(line) :
       f[i] = IF i \notin Heard(line) THEN f[i - 1] ELSE Joined(f[i - 1], line[i])

\* Joining a run to those before leaves a sequence of durations.
LEMMA JoinedType ==
  ASSUME NEW before \in Seq(Int), NEW x \in Int
  PROVE  Joined(before, x) \in Seq(Int)
<1>1. Append(before, x) \in Seq(Int)
  OBVIOUS
<1>2. ASSUME Len(before) > 0
      PROVE  [before EXCEPT ![Len(before)] = @ + x] \in Seq(Int)
  <2>1. Len(before) \in 1 .. Len(before) /\ before[Len(before)] + x \in Int
    BY <1>2
  <2> QED
    BY <2>1, ExceptSeq
<1> QED
  BY <1>1, <1>2 DEF Joined

\* Runs() is the last of its partial results, each the one before with the next
\* symbol joined to it.
LEMMA RunsPartial ==
  ASSUME NEW line \in Seq(Int)
  PROVE  \E f \in [0 .. Len(line) -> Seq(Int)] :
           /\ Runs(line) = IF {i \in 1 .. Len(line) : line[i] > 0} = {} THEN <<>>
                           ELSE f[Len(line)]
           /\ Hears(f, line)
<1> DEFINE n == Len(line)
           audible == Heard(line)
           Eq(f) == f = [i \in 0 .. n |->
                           IF i = 0 THEN <<>>
                           ELSE IF i \notin audible THEN f[i - 1]
                           ELSE Joined(f[i - 1], line[i])]
           step == [i \in 0 .. n |-> [x \in Seq(Int) |->
                       IF i = 0 \/ i \notin audible THEN x ELSE Joined(x, line[i])]]
           F == CHOOSE f : Eq(f)
<1>1. n \in Nat /\ 0 \in Nat /\ 0 <= n /\ \A i \in 1 .. n : line[i] \in Int
  OBVIOUS
<1>2. \A i \in 1 .. n : \A x \in Seq(Int) : Joined(x, line[i]) \in Seq(Int)
  BY <1>1, JoinedType
<1>3. step \in [0 .. n -> [Seq(Int) -> Seq(Int)]]
  <2> HIDE DEF n, audible
  <2> QED
    BY <1>1, <1>2
<1>4. <<>> \in Seq(Int)
  OBVIOUS
<1>5. PICK g \in [0 .. n -> Seq(Int)] : Follows(g, 0, n, <<>>, step)
  <2> HIDE DEF step, n
  <2> QED
    BY <1>1, <1>3, <1>4, Recursion
<1>6. Eq(g)
  <2>1. ASSUME NEW i \in 0 .. n
        PROVE  g[i] = IF i = 0 THEN <<>>
                      ELSE IF i \notin audible THEN g[i - 1] ELSE Joined(g[i - 1], line[i])
    <3>1. g[i] = IF i = 0 THEN <<>> ELSE step[i][g[i - 1]]
      BY <1>5 DEF Follows
    <3>2. i # 0 => g[i - 1] \in Seq(Int)
      <4>1. i # 0 => i - 1 \in 0 .. n
        BY <1>1
      <4> HIDE DEF n
      <4> QED
        BY <4>1, <1>5
    <3> HIDE DEF audible, n
    <3> QED
      BY <3>1, <3>2
  <2> HIDE DEF audible, n
  <2> QED
    BY <1>5, <2>1
<1>7. Eq(F)
  <2> HIDE DEF Eq
  <2> QED
    BY <1>6, Zenon
<1>8. Runs(line) = IF {i \in 1 .. Len(line) : line[i] > 0} = {} THEN <<>> ELSE F[n]
  BY DEF Runs, Heard, Joined
<1>9. \A i \in 0 .. n : F[i] = IF i = 0 THEN <<>>
                               ELSE IF i \notin audible THEN F[i - 1]
                               ELSE Joined(F[i - 1], line[i])
  <2> HIDE DEF F, n, audible
  <2> QED
    BY <1>7
<1>10. \A i \in 0 .. n : F[i] \in Seq(Int)
  <2> HIDE DEF F, n, audible
  <2>1. F[0] \in Seq(Int)
    <3>1. 0 \in 0 .. n
      BY <1>1
    <3>2. F[0] = <<>>
      BY <1>9, <3>1
    <3> QED
      BY <1>4, <3>2
  <2>2. \A i \in 0 .. n : i # 0 /\ F[i - 1] \in Seq(Int) => F[i] \in Seq(Int)
    <3> SUFFICES ASSUME NEW i \in 0 .. n, i # 0, F[i - 1] \in Seq(Int)
                 PROVE  F[i] \in Seq(Int)
      OBVIOUS
    <3>1. i \in 1 .. n
      OBVIOUS
    <3> QED
      BY <1>2, <1>9, <3>1
  <2> QED
    BY <1>1, <2>1, <2>2, RecursionType
<1>11. F \in [0 .. n -> Seq(Int)]
  <2> HIDE DEF F, n, audible
  <2> QED
    BY <1>7, <1>10
<1>12. Hears(F, line)
  <2> HIDE DEF F, audible
  <2>1. \A i \in 1 .. n : i \in 0 .. n /\ i # 0
    OBVIOUS
  <2>2. 0 \in 0 .. n
    BY <1>1
  <2> HIDE DEF n
  <2>3. F[0] = <<>>
    BY <1>9, <2>2
  <2>4. \A i \in 1 .. n : F[i] = IF i \notin audible THEN F[i - 1] ELSE Joined(F[i - 1], line[i])
    BY <1>9, <2>1
  <2> QED
    BY <2>3, <2>4 DEF Hears, audible, n
<1> QED
  <2> HIDE DEF F
  <2> QED
    BY <1>8, <1>11, <1>12

\* The runs of a line are durations.
LEMMA RunsType ==
  ASSUME NEW line \in Seq(Int)
  PROVE  Runs(line) \in Seq(Int)
<1>1. PICK f \in [0 .. Len(line) -> Seq(Int)] :
        Runs(line) = IF {i \in 1 .. Len(line) : line[i] > 0} = {} THEN <<>>
                     ELSE f[Len(line)]
  BY RunsPartial
<1>2. Len(line) \in 0 .. Len(line)
  OBVIOUS
<1>3. f[Len(line)] \in Seq(Int) /\ <<>> \in Seq(Int)
  BY <1>2
<1> QED
  BY <1>1, <1>3

-----------------------------------------------------------------------------
(* Link: what the variables hold.                                          *)

Typed ==
  /\ stage \in {"idle", "air", "decode", "done"}
  /\ tx \in Seq(Int)
  /\ symbols \in Samples
  /\ decoder \in 1 .. Len(Protocols)
  /\ answer.ok => answer.protocol \in Received /\ answer.bits \in Seq(Bit)

\* Bits shifted into a uint32_t make a uint32_t.
LEMMA ShiftedType ==
  ASSUME NEW bits \in Seq(Bit)
  PROVE  Shifted(bits) \in Uint32
<1> DEFINE n == Len(bits)
<1>1. n \in Nat /\ \A k \in 1 .. n : bits[k] \in 0 .. 1
  BY DEF Bit
<1>2. ASSUME NEW i \in 1 .. MSGBITS_MAX PROVE Shifted(bits)[i] \in 0 .. 1
  <2>1. Shifted(bits)[i] = LET k == n - MSGBITS_MAX + i
                           IN  IF k >= 1 THEN bits[k] ELSE 0
    BY DEF Shifted
  <2> HIDE DEF n
  <2> QED
    BY <1>1, <2>1 DEF MSGBITS_MAX
<1> QED
  BY <1>2 DEF Shifted, Uint32, Bit

\* What a sketch sends is a line of durations.
LEMMA MeantRaw ==
  ASSUME NEW m \in Messages
  PROVE  BuildRaw(m) \in Seq(Int) /\ Len(BuildRaw(m)) <= TX_SYMBOLS
<1>1. m.protocol \in Range(Protocols) /\ m.data \in Uint32 /\ m.nbits \in Nat
  <2>1. m.protocol \in Range(Protocols) /\ m.data \in Uint32 /\ m.nbits \in 0 .. MSGBITS_MAX
    BY LinkAssumption
  <2> QED
    BY <2>1 DEF MSGBITS_MAX
<1> QED
  BY <1>1, BuildRawType

\* So is what the repeater makes of an answer.
LEMMA RepeatedRaw ==
  ASSUME NEW a, a.protocol \in Received, a.bits \in Seq(Bit)
  PROVE  BuildRaw(Result(a)) \in Seq(Int) /\ Len(BuildRaw(Result(a))) <= TX_SYMBOLS
<1>1. /\ Result(a).protocol \in Range(Protocols)
      /\ Result(a).data \in Uint32
      /\ Result(a).nbits \in Nat
  BY ShiftedType, ProtocolsValue DEF Result
<1> QED
  BY <1>1, BuildRawType

\* Typed holds at first.
LEMMA TypedInit ==
  ASSUME Init
  PROVE  Typed
<1>1. EmptyBuffer \in Samples
  BY DEF EmptyBuffer, Samples
<1>2. ASSUME NEW f \in Earlier
      PROVE  Recorded(EmptyBuffer, Runs(RemoteFrame(f)), 0) \in Samples
  <2>1. RemoteFrame(f) \in Seq(Int)
    BY RemoteFrameType, LinkAssumption
  <2>2. Runs(RemoteFrame(f)) \in Seq(Int)
    BY <2>1, RunsType
  <2> QED
    BY <1>1, <2>2, RecordedType DEF Samples
<1>3. symbols \in Samples
  BY <1>1, <1>2 DEF Init
<1> QED
  BY <1>3 DEF Init, Typed, Nobody, Protocols

\* Every step keeps it.
LEMMA TypedStep ==
  ASSUME Typed, [Next]_vars
  PROVE  Typed'
<1> USE DEF Typed
<1>1. CASE Send
  <2>1. PICK m \in Messages : Transmit(Meant(m), BuildRaw(m))
    BY <1>1 DEF Send
  <2>2. BuildRaw(m) \in Seq(Int)
    BY MeantRaw
  <2> QED
    BY <2>1, <2>2 DEF Transmit, buffer
<1>2. CASE Press
  <2>1. PICK f \in Frames : Transmit(f, RemoteFrame(f))
    BY <1>2 DEF Press
  <2>2. RemoteFrame(f) \in Seq(Int)
    BY RemoteFrameType, LinkAssumption
  <2> QED
    BY <2>1, <2>2 DEF Transmit, buffer
<1>3. CASE Arrive
  <2>1. PICK phase \in Phases, lost \in Lost \cup {0} :
          symbols' = Recorded(symbols, SubSeq(Runs(tx), 1, Len(Runs(tx)) - 2 * lost), phase)
    BY <1>3 DEF Arrive
  <2> DEFINE whole == Runs(tx)
             runs == SubSeq(whole, 1, Len(whole) - 2 * lost)
  <2>2. whole \in Seq(Int)
    BY RunsType
  <2>3. runs \in Seq(Int)
    <3>1. Len(whole) - 2 * lost <= Len(whole) /\ Len(whole) - 2 * lost \in Int
      <4> HIDE DEF whole
      <4>1. lost \in Nat /\ Len(whole) \in Nat
        BY <2>2, LinkAssumption
      <4> QED
        BY <4>1
    <3>2. \A i \in 1 .. Len(whole) - 2 * lost : whole[i] \in Int
      <4> HIDE DEF whole
      <4> QED
        BY <2>2, <3>1
    <3> HIDE DEF whole
    <3> QED
      BY <2>2, <3>1, <3>2, SubSeqProperties
  <2>4. phase \in Nat
    BY LinkAssumption, CodecAssumption
  <2>5. Recorded(symbols, runs, phase) \in Samples
    <3> HIDE DEF runs
    <3> QED
      BY <2>3, <2>4, RecordedType DEF Samples
  <2> QED
    BY <1>3, <2>1, <2>5 DEF Arrive, Protocols
<1>4. CASE TryDecoder
  <2> DEFINE p == Protocols[decoder]
             a == IF PktInfo(p).rxDecode THEN Decode(p, symbols, validLen) ELSE Rejected
  <2>1. p \in Range(Protocols)
    BY DEF Range, Protocols
  <2>2. a.bits \in Seq(Bit)
    <3>1. Decode(p, symbols, validLen).bits \in Seq(Bit)
      BY <2>1, DecodeBits
    <3>2. Rejected.bits = <<>> /\ <<>> \in Seq(Bit)
      BY DEF Rejected
    <3> QED
      BY <3>1, <3>2
  <2>3. a.ok => p \in Received
    <3>1. ~Rejected.ok
      BY DEF Rejected
    <3> QED
      BY <2>1, <3>1, ProtocolsValue, RCMMInfo
  <2>4. /\ answer' = (IF a.ok THEN [protocol |-> p, ok |-> TRUE, bits |-> a.bits] ELSE Nobody)
        /\ stage' \in {"done", "decode"}
        /\ decoder' \in {decoder, decoder + 1}
        /\ decoder = Len(Protocols) => decoder' = decoder
        /\ UNCHANGED <<tx, symbols>>
    BY <1>4 DEF TryDecoder, buffer
  <2>5. answer'.ok => answer'.protocol \in Received /\ answer'.bits \in Seq(Bit)
    <3> HIDE DEF a, p
    <3> QED
      BY <2>2, <2>3, <2>4 DEF Nobody
  <2>6. decoder' \in 1 .. Len(Protocols)
    BY <2>4 DEF Protocols
  <2> HIDE DEF a, p
  <2> QED
    BY <2>4, <2>5, <2>6
<1>5. CASE Repeat
  <2>1. BuildRaw(Result(answer)) \in Seq(Int)
    BY <1>5, RepeatedRaw DEF Repeat
  <2> QED
    BY <1>5, <2>1 DEF Repeat, buffer
<1>6. CASE UNCHANGED vars
  BY <1>6 DEF vars
<1> QED
  BY <1>1, <1>2, <1>3, <1>4, <1>5, <1>6 DEF Next

\* Line, buffer and answer always are what the decoders and BuildRaw() expect.
LEMMA LinkTyped == Spec => []Typed
<1>1. Init => Typed
  BY TypedInit
<1>2. Typed /\ [Next]_vars => Typed'
  BY TypedStep
<1> QED
  BY <1>1, <1>2, PTL DEF Spec

\* Whatever the buffer holds, a frame or what is left of one, at most one decoder
\* accepts it: PopMsg() may try them in any order.
THEOREM AnyOrder == Spec => []OneDecoder
<1>1. Typed => OneDecoder
  <2> SUFFICES ASSUME Typed PROVE OneDecoder
    OBVIOUS
  <2> DEFINE A == {p \in Range(Protocols) :
                     PktInfo(p).rxDecode /\ Decode(p, symbols, validLen).ok}
  <2>1. \A p, q \in A : p = q
    <3> SUFFICES ASSUME NEW p \in A, NEW q \in A PROVE p = q
      OBVIOUS
    <3>1. p \in Received /\ q \in Received
      BY ProtocolsValue, RCMMInfo
    <3> QED
      BY <3>1, DecodersDisjoint DEF Typed, Received
  <2>2. Cardinality(A) <= 1
    <3> HIDE DEF A
    <3>1. CASE A = {}
      BY <3>1, FS_EmptySet
    <3>2. ASSUME NEW p \in A PROVE Cardinality(A) = 1
      <4>1. A = {p}
        BY <2>1
      <4> QED
        BY <4>1, FS_Singleton
    <3> QED
      BY <3>1, <3>2
  <2> QED
    BY <2>2 DEF OneDecoder
<1> QED
  BY <1>1, LinkTyped, PTL

-----------------------------------------------------------------------------
(* The packet of a sequence of symbols, which BuildRaw() and a remote      *)
(* control both make.                                                      *)

SymbolsOf(p) == IF p = RCMM THEN 0 .. 3 ELSE 0 .. 1

Pieces(p, syms) == [i \in 1 .. Len(syms) |-> PktInfo(p).bits[syms[i] + 1]]

Packet(p, syms) ==
  PktInfo(p).preamble \o FlattenSeq(Pieces(p, syms)) \o PktInfo(p).postamble

\* d consists of a, b and c.
Consists(d, a, b, c) ==
  /\ Len(d) = Len(a) + Len(b) + Len(c)
  /\ \A i \in 1 .. Len(a) : d[i] = a[i]
  /\ \A i \in 1 .. Len(b) : d[Len(a) + i] = b[i]
  /\ \A i \in 1 .. Len(c) : d[Len(a) + Len(b) + i] = c[i]

\* The elements of three sequences one behind the other.
LEMMA ConcatThree ==
  ASSUME NEW S, NEW a \in Seq(S), NEW b \in Seq(S), NEW c \in Seq(S)
  PROVE  a \o b \o c \in Seq(S) /\ Consists(a \o b \o c, a, b, c)
<1> DEFINE d == a \o b
           la == Len(a)
           lb == Len(b)
           lc == Len(c)
<1>1. la \in Nat /\ lb \in Nat /\ lc \in Nat
  OBVIOUS
<1>2. /\ d \in Seq(S)
      /\ Len(d) = la + lb
      /\ \A i \in 1 .. la + lb : d[i] = IF i <= la THEN a[i] ELSE b[i - la]
  BY ConcatProperties
<1>3. /\ d \o c \in Seq(S)
      /\ Len(d \o c) = la + lb + lc
      /\ \A i \in 1 .. la + lb + lc :
           (d \o c)[i] = IF i <= la + lb THEN d[i] ELSE c[i - (la + lb)]
  <2> HIDE DEF d, la, lb
  <2>1. d \o c \in Seq(S) /\ Len(d \o c) = Len(d) + Len(c)
        /\ \A i \in 1 .. Len(d) + Len(c) :
             (d \o c)[i] = IF i <= Len(d) THEN d[i] ELSE c[i - Len(d)]
    BY <1>2, ConcatProperties
  <2> QED
    BY <1>2, <2>1
<1> DEFINE all == d \o c
<1> HIDE DEF all, d, la, lb, lc
<1>4. \A i \in 1 .. la : all[i] = a[i]
  BY <1>1, <1>2, <1>3 DEF all
<1>5. \A i \in 1 .. lb : all[la + i] = b[i]
  <2> SUFFICES ASSUME NEW i \in 1 .. lb PROVE all[la + i] = b[i]
    OBVIOUS
  <2>1. /\ la + i \in 1 .. la + lb /\ la + i \in 1 .. la + lb + lc
        /\ ~(la + i <= la) /\ la + i <= la + lb /\ (la + i) - la = i
    BY <1>1
  <2>2. all[la + i] = d[la + i]
    BY <1>3, <2>1 DEF all
  <2> QED
    BY <1>2, <2>1, <2>2
<1>6. \A i \in 1 .. lc : all[la + lb + i] = c[i]
  <2> SUFFICES ASSUME NEW i \in 1 .. lc PROVE all[la + lb + i] = c[i]
    OBVIOUS
  <2>1. /\ la + lb + i \in 1 .. la + lb + lc
        /\ ~(la + lb + i <= la + lb) /\ (la + lb + i) - (la + lb) = i
    BY <1>1
  <2> QED
    BY <1>3, <2>1 DEF all
<1> QED
  BY <1>3, <1>4, <1>5, <1>6 DEF all, d, la, lb, lc, Consists

IsPair(x) == x \in Seq(Int) /\ Len(x) = 2

\* Every symbol of a protocol has a mark and a space.
LEMMA SymbolPattern ==
  ASSUME NEW p \in Range(Protocols), NEW s \in SymbolsOf(p)
  PROVE  IsPair(PktInfo(p).bits[s + 1])
<1>1. CASE p \in {NEC, NEC_RPT}
  <2>1. PktInfo(p).bits = << <<563, -563>>, <<563, -1689>>, <<>>, <<>> >>
    BY <1>1, NECInfo DEF NEC_UNIT
  <2>2. s \in 0 .. 1
    BY <1>1 DEF SymbolsOf, NEC, NEC_RPT, RCMM
  <2>3. /\ PktInfo(p).bits[1] = <<563, -563>>
        /\ PktInfo(p).bits[2] = <<563, -1689>>
    BY <2>1
  <2>4. s + 1 = 1 \/ s + 1 = 2
    BY <2>2
  <2>5. /\ IsPair(<<563, -563>>)
        /\ IsPair(<<563, -1689>>)
    BY DEF IsPair
  <2> QED
    BY <2>3, <2>4, <2>5
<1>2. CASE p = SONY
  <2>1. PktInfo(p).bits = << <<-600, 600>>, <<-600, 1200>>, <<>>, <<>> >>
    BY <1>2, SonyInfo DEF SONY_UNIT
  <2>2. s \in 0 .. 1
    BY <1>2 DEF SymbolsOf, SONY, RCMM
  <2>3. /\ PktInfo(p).bits[1] = <<-600, 600>>
        /\ PktInfo(p).bits[2] = <<-600, 1200>>
    BY <2>1
  <2>4. s + 1 = 1 \/ s + 1 = 2
    BY <2>2
  <2>5. /\ IsPair(<<-600, 600>>)
        /\ IsPair(<<-600, 1200>>)
    BY DEF IsPair
  <2> QED
    BY <2>3, <2>4, <2>5
<1>3. CASE p = RCMM
  <2>1. PktInfo(p).bits = << <<168, -280>>, <<168, -448>>, <<168, -616>>, <<168, -784>> >>
    BY <1>3, RCMMInfo DEF RCMM_UNIT
  <2>2. s \in 0 .. 3
    BY <1>3 DEF SymbolsOf
  <2>3. /\ PktInfo(p).bits[1] = <<168, -280>>
        /\ PktInfo(p).bits[2] = <<168, -448>>
        /\ PktInfo(p).bits[3] = <<168, -616>>
        /\ PktInfo(p).bits[4] = <<168, -784>>
    BY <2>1
  <2>4. s + 1 = 1 \/ s + 1 = 2 \/ s + 1 = 3 \/ s + 1 = 4
    BY <2>2
  <2>5. /\ IsPair(<<168, -280>>)
        /\ IsPair(<<168, -448>>)
        /\ IsPair(<<168, -616>>)
        /\ IsPair(<<168, -784>>)
    BY DEF IsPair
  <2> QED
    BY <2>3, <2>4, <2>5
<1>4. CASE p = RC5
  <2>1. PktInfo(p).bits = << <<-889, 889>>, <<889, -889>>, <<>>, <<>> >>
    BY <1>4, RC5Info DEF RC5_UNIT
  <2>2. s \in 0 .. 1
    BY <1>4 DEF SymbolsOf, RC5, RCMM
  <2>3. /\ PktInfo(p).bits[1] = <<-889, 889>>
        /\ PktInfo(p).bits[2] = <<889, -889>>
    BY <2>1
  <2>4. s + 1 = 1 \/ s + 1 = 2
    BY <2>2
  <2>5. /\ IsPair(<<-889, 889>>)
        /\ IsPair(<<889, -889>>)
    BY DEF IsPair
  <2> QED
    BY <2>3, <2>4, <2>5
<1> QED
  BY <1>1, <1>2, <1>3, <1>4, ProtocolsValue DEF Received

\* How line consists of m symbols of the preamble, n pairs and the postamble.
HasShape(line, p, syms, m, n) ==
  /\ Len(line) = m + 2 * n + Len(PktInfo(p).postamble)
  /\ \A i \in 1 .. m : line[i] = PktInfo(p).preamble[i]
  /\ \A i \in 1 .. n : /\ line[m + 2 * i - 1] = PktInfo(p).bits[syms[i] + 1][1]
                       /\ line[m + 2 * i] = PktInfo(p).bits[syms[i] + 1][2]
  /\ \A i \in 1 .. Len(PktInfo(p).postamble) :
       line[m + 2 * n + i] = PktInfo(p).postamble[i]

\* Where preamble, symbols and postamble of a packet are.
LEMMA PacketShape ==
  ASSUME NEW p \in Range(Protocols), NEW syms \in Seq(SymbolsOf(p))
  PROVE  /\ Packet(p, syms) \in Seq(Int)
         /\ HasShape(Packet(p, syms), p, syms, Len(PktInfo(p).preamble), Len(syms))
<1> DEFINE m == Len(PktInfo(p).preamble)
           n == Len(syms)
<1> DEFINE a == PktInfo(p).preamble
           b == FlattenSeq(Pieces(p, syms))
           c == PktInfo(p).postamble
<1>1. a \in Seq(Int) /\ c \in Seq(Int) /\ Len(a) = m /\ m \in Nat /\ n \in Nat
  BY InfoTypes
<1> HIDE DEF m
<1>2. /\ Pieces(p, syms) \in [1 .. n -> Seq(Int)]
      /\ \A i \in 1 .. n : /\ Len(Pieces(p, syms)[i]) = 2
                           /\ Pieces(p, syms)[i] = PktInfo(p).bits[syms[i] + 1]
  <2>1. ASSUME NEW i \in 1 .. n
        PROVE  /\ PktInfo(p).bits[syms[i] + 1] \in Seq(Int)
               /\ Len(PktInfo(p).bits[syms[i] + 1]) = 2
    <3>1. syms[i] \in SymbolsOf(p)
      OBVIOUS
    <3> QED
      BY <3>1, SymbolPattern DEF IsPair
  <2> QED
    BY <2>1 DEF Pieces
<1>3. /\ b \in Seq(Int)
      /\ Len(b) = 2 * n
      /\ \A i \in 1 .. n : /\ b[2 * i - 1] = PktInfo(p).bits[syms[i] + 1][1]
                           /\ b[2 * i] = PktInfo(p).bits[syms[i] + 1][2]
  <2> HIDE DEF a, c
  <2>1. b \in Seq(Int)
    BY <1>1, <1>2, FlattenType
  <2> DEFINE sq == Pieces(p, syms)
  <2>2. /\ Len(FlattenSeq(sq)) = 2 * n
        /\ \A i \in 1 .. n : /\ FlattenSeq(sq)[2 * i - 1] = sq[i][1]
                             /\ FlattenSeq(sq)[2 * i] = sq[i][2]
    <3>1. /\ n \in Nat
          /\ sq \in [1 .. n -> Seq(Int)]
          /\ \A i \in 1 .. n : Len(sq[i]) = 2
      BY <1>1, <1>2
    <3> HIDE DEF sq
    <3> QED
      BY <3>1, FlattenPairs
  <2> QED
    BY <1>2, <2>1, <2>2
<1>4. Packet(p, syms) = a \o b \o c
  BY DEF Packet
<1> HIDE DEF a, b, c
<1>5. /\ a \o b \o c \in Seq(Int)
      /\ Len(a \o b \o c) = m + 2 * n + Len(c)
      /\ \A i \in 1 .. m : (a \o b \o c)[i] = a[i]
      /\ \A i \in 1 .. 2 * n : (a \o b \o c)[m + i] = b[i]
      /\ \A i \in 1 .. Len(c) : (a \o b \o c)[m + 2 * n + i] = c[i]
  <2>1. a \o b \o c \in Seq(Int) /\ Consists(a \o b \o c, a, b, c)
    <3>1. a \in Seq(Int) /\ b \in Seq(Int) /\ c \in Seq(Int)
      BY <1>1, <1>3
    <3> QED
      BY <3>1, ConcatThree
  <2>2. Len(a) = m /\ Len(b) = 2 * n
    BY <1>1, <1>3
  <2> QED
    BY <2>1, <2>2 DEF Consists
<1>6. ASSUME NEW i \in 1 .. n
      PROVE  /\ Packet(p, syms)[m + 2 * i - 1] = b[2 * i - 1]
             /\ Packet(p, syms)[m + 2 * i] = b[2 * i]
  <2>1. /\ 2 * i - 1 \in 1 .. 2 * n /\ 2 * i \in 1 .. 2 * n
        /\ m + 2 * i - 1 = m + (2 * i - 1)
    BY <1>1
  <2> QED
    BY <1>4, <1>5, <2>1
<1>7. /\ Packet(p, syms) \in Seq(Int)
      /\ Len(Packet(p, syms)) = m + 2 * n + Len(c)
      /\ \A i \in 1 .. m : Packet(p, syms)[i] = a[i]
      /\ \A i \in 1 .. Len(c) : Packet(p, syms)[m + 2 * n + i] = c[i]
  BY <1>4, <1>5
<1>8. \A i \in 1 .. n :
        /\ Packet(p, syms)[m + 2 * i - 1] = PktInfo(p).bits[syms[i] + 1][1]
        /\ Packet(p, syms)[m + 2 * i] = PktInfo(p).bits[syms[i] + 1][2]
  BY <1>3, <1>6
<1> QED
  BY <1>7, <1>8 DEF a, c, m, HasShape

\* The symbols of what a remote control sends.
FrameSymbols(f) ==
  CASE f.protocol = RCMM ->
         [i \in 1 .. Len(f.bits) \div 2 |-> 2 * f.bits[2 * i - 1] + f.bits[2 * i]]
    [] f.protocol = RC5 -> [i \in 1 .. Len(f.bits) |-> 1 - f.bits[i]]
    [] OTHER -> f.bits

\* The two bits of a symbol are two indices of the message.
LEMMA HalfIndex ==
  ASSUME NEW x \in Nat
  PROVE  /\ x \div 2 \in Nat
         /\ \A i \in 1 .. x \div 2 : 2 * i - 1 \in 1 .. x /\ 2 * i \in 1 .. x
OBVIOUS

\* The symbols of a frame are symbols of its protocol.
LEMMA FrameSymbolsType ==
  ASSUME NEW f, f.bits \in Seq(Bit)
  PROVE  /\ FrameSymbols(f) \in Seq(SymbolsOf(f.protocol))
         /\ Len(FrameSymbols(f)) = IF f.protocol = RCMM THEN Len(f.bits) \div 2 ELSE Len(f.bits)
<1> DEFINE bits == f.bits
           n == Len(bits)
           h == n \div 2
<1>1. n \in Nat /\ h \in Nat /\ \A i \in 1 .. n : bits[i] \in 0 .. 1
  <2>1. n \in Nat /\ \A i \in 1 .. n : bits[i] \in 0 .. 1
    BY DEF Bit
  <2> HIDE DEF n
  <2> QED
    BY <2>1, HalfIndex
<1>2. CASE f.protocol = RCMM
  <2>1. FrameSymbols(f) = [i \in 1 .. h |-> 2 * bits[2 * i - 1] + bits[2 * i]]
    BY <1>2 DEF FrameSymbols, RC5, RCMM
  <2>2. \A i \in 1 .. h : 2 * i - 1 \in 1 .. n /\ 2 * i \in 1 .. n
    <3> HIDE DEF n
    <3> QED
      BY <1>1, HalfIndex
  <2>3. ASSUME NEW i \in 1 .. h PROVE 2 * bits[2 * i - 1] + bits[2 * i] \in 0 .. 3
    <3>1. bits[2 * i - 1] \in 0 .. 1 /\ bits[2 * i] \in 0 .. 1
      <4> HIDE DEF n, h, bits
      <4> QED
        BY <1>1, <2>2
    <3>2. \A a, b \in 0 .. 1 : 2 * a + b \in 0 .. 3
      OBVIOUS
    <3> HIDE DEF bits, h
    <3> QED
      BY <3>1, <3>2
  <2> HIDE DEF n, h, bits
  <2>4. FrameSymbols(f) \in [1 .. h -> 0 .. 3]
    BY <2>1, <2>3
  <2>5. FrameSymbols(f) \in Seq(0 .. 3) /\ Len(FrameSymbols(f)) = h
    BY <1>1, <2>4, FunctionIsSeq
  <2> QED
    BY <1>2, <2>5 DEF SymbolsOf, h, n, bits
<1>3. CASE f.protocol = RC5
  <2>1. FrameSymbols(f) = [i \in 1 .. n |-> 1 - bits[i]]
    BY <1>3 DEF FrameSymbols, RC5, RCMM
  <2> HIDE DEF n, h, bits
  <2>2. FrameSymbols(f) \in [1 .. n -> 0 .. 1]
    BY <1>1, <2>1
  <2>3. FrameSymbols(f) \in Seq(0 .. 1) /\ Len(FrameSymbols(f)) = n
    BY <1>1, <2>2, FunctionIsSeq
  <2> QED
    BY <1>3, <2>3 DEF SymbolsOf, n, bits, RC5, RCMM
<1>4. CASE f.protocol \notin {RCMM, RC5}
  <2>1. FrameSymbols(f) = f.bits
    BY <1>4 DEF FrameSymbols
  <2>2. Bit = 0 .. 1
    BY DEF Bit
  <2> QED
    BY <1>4, <2>1, <2>2 DEF SymbolsOf
<1> QED
  BY <1>2, <1>3, <1>4

\* What a remote control sends is the packet of its symbols.
LEMMA RemotePacket ==
  ASSUME NEW f, f.protocol \in Range(Protocols), f.bits \in Seq(Bit)
  PROVE  RemoteFrame(f) = Packet(f.protocol, FrameSymbols(f))
<1> DEFINE info == PktInfo(f.protocol)
           bits == f.bits
           singles == [i \in 1 .. Len(bits) |->
                     IF f.protocol = RC5
                     THEN <<RC5_UNIT * (1 - 2 * bits[i]), RC5_UNIT * (2 * bits[i] - 1)>>
                     ELSE info.bits[bits[i] + 1]]
           pairs == [i \in 1 .. Len(bits) \div 2 |->
                     info.bits[2 * bits[2 * i - 1] + bits[2 * i] + 1]]
           pieces == IF f.protocol = RCMM THEN pairs ELSE singles
<1>1. RemoteFrame(f) = info.preamble \o FlattenSeq(pieces) \o info.postamble
  BY DEF RemoteFrame
<1>2. pieces = Pieces(f.protocol, FrameSymbols(f))
  <2>1. CASE f.protocol = RCMM
    <3> DEFINE h == Len(bits) \div 2
               syms == [i \in 1 .. h |-> 2 * bits[2 * i - 1] + bits[2 * i]]
    <3>1. FrameSymbols(f) = syms /\ Len(syms) = h
      <4>1. FrameSymbols(f) = syms
        BY <2>1 DEF FrameSymbols, RC5, RCMM
      <4>2. Len(FrameSymbols(f)) = h
        BY <2>1, FrameSymbolsType
      <4> QED
        BY <4>1, <4>2
    <3>2. Pieces(f.protocol, syms) = pairs
      <4>1. Pieces(f.protocol, syms) = [i \in 1 .. Len(syms) |-> info.bits[syms[i] + 1]]
        BY DEF Pieces
      <4>2. [i \in 1 .. h |-> info.bits[syms[i] + 1]] = pairs
        <5> HIDE DEF h, info, bits
        <5> QED
          BY DEF h
      <4> HIDE DEF syms, pairs, h, info
      <4> QED
        BY <4>1, <4>2, <3>1
    <3> HIDE DEF syms, pairs
    <3> QED
      BY <2>1, <3>1, <3>2
  <2>2. CASE f.protocol = RC5
    <3> DEFINE n == Len(bits)
               syms == [i \in 1 .. n |-> 1 - bits[i]]
    <3>1. FrameSymbols(f) = syms /\ Len(syms) = n
      <4>1. FrameSymbols(f) = syms
        BY <2>2 DEF FrameSymbols, RC5, RCMM
      <4>2. Len(FrameSymbols(f)) = n
        BY <2>2, FrameSymbolsType DEF RC5, RCMM
      <4> QED
        BY <4>1, <4>2
    <3>2. \A b \in 0 .. 1 : <<RC5_UNIT * (1 - 2 * b), RC5_UNIT * (2 * b - 1)>> =
                            PktInfo(RC5).bits[(1 - b) + 1]
      <4>1. PktInfo(RC5).bits = << <<-889, 889>>, <<889, -889>>, <<>>, <<>> >>
        BY RC5Info DEF RC5_UNIT
      <4>2. /\ RC5_UNIT * (1 - 2 * 0) = 889 /\ RC5_UNIT * (2 * 0 - 1) = -889
            /\ RC5_UNIT * (1 - 2 * 1) = -889 /\ RC5_UNIT * (2 * 1 - 1) = 889
        BY DEF RC5_UNIT
      <4>3. /\ PktInfo(RC5).bits[(1 - 1) + 1] = <<-889, 889>>
            /\ PktInfo(RC5).bits[(1 - 0) + 1] = <<889, -889>>
        BY <4>1
      <4>4. \A b \in 0 .. 1 : b = 0 \/ b = 1
        OBVIOUS
      <4> QED
        BY <4>2, <4>3, <4>4
    <3>3. \A i \in 1 .. n : bits[i] \in 0 .. 1
      BY DEF Bit
    <3>4. singles = [i \in 1 .. n |-> PktInfo(RC5).bits[(1 - bits[i]) + 1]]
      <4> HIDE DEF info, bits
      <4> QED
        BY <2>2, <3>2, <3>3
    <3>5. Pieces(f.protocol, syms) = [i \in 1 .. n |-> PktInfo(RC5).bits[(1 - bits[i]) + 1]]
      <4>1. Pieces(f.protocol, syms) = [i \in 1 .. Len(syms) |-> PktInfo(RC5).bits[syms[i] + 1]]
        BY <2>2 DEF Pieces
      <4>2. [i \in 1 .. n |-> PktInfo(RC5).bits[syms[i] + 1]] =
            [i \in 1 .. n |-> PktInfo(RC5).bits[(1 - bits[i]) + 1]]
        <5> HIDE DEF n, bits
        <5> QED
          OBVIOUS
      <4> HIDE DEF syms, n
      <4> QED
        BY <3>1, <4>1, <4>2
    <3>6. pieces = singles
      BY <2>2 DEF RC5, RCMM
    <3> HIDE DEF syms, singles, n, pieces
    <3> QED
      BY <3>1, <3>4, <3>5, <3>6
  <2>3. CASE f.protocol \notin {RCMM, RC5}
    <3>1. FrameSymbols(f) = bits
      BY <2>3 DEF FrameSymbols
    <3>2. pieces = [i \in 1 .. Len(bits) |-> info.bits[bits[i] + 1]]
      BY <2>3
    <3> QED
      BY <3>1, <3>2 DEF Pieces
  <2> QED
    BY <2>1, <2>2, <2>3
<1> HIDE DEF pieces
<1> QED
  BY <1>1, <1>2 DEF Packet

\* The n highest bits of a word, one by one.
LEMMA HighBitsValue ==
  ASSUME NEW data \in Uint32, NEW n \in 0 .. MSGBITS_MAX
  PROVE  /\ HighBits(data, n) \in Seq(Bit)
         /\ Len(HighBits(data, n)) = n
         /\ \A i \in 1 .. n : HighBits(data, n)[i] = data[i]
<1>1. n \in 0 .. 32 /\ data \in [1 .. 32 -> Bit]
  BY DEF Uint32, MSGBITS_MAX
<1>2. data \in Seq(Bit) /\ Len(data) = 32
  BY <1>1, FunctionIsSeq
<1>3. \A i \in 1 .. n : data[i] \in Bit
  BY <1>1
<1>4. /\ SubSeq(data, 1, n) \in Seq(Bit)
      /\ Len(SubSeq(data, 1, n)) = n
      /\ \A i \in 1 .. n : SubSeq(data, 1, n)[i] = data[i]
  <2>1. n \in Nat
    BY <1>1
  <2>2. SubSeq(data, 1, n) = [i \in 1 .. n |-> data[i]]
    BY <1>1
  <2>3. [i \in 1 .. n |-> data[i]] \in [1 .. n -> Bit]
    BY <1>3
  <2> QED
    BY <2>1, <2>2, <2>3, FunctionIsSeq
<1> QED
  BY <1>4 DEF HighBits

\* The test of the encoding is right for every protocol but RC5.
LEMMA BitsPerSymbValue ==
  ASSUME NEW p \in Range(Protocols) \ {RC5}
  PROVE  BitsPerSymb(p) = IF p = RCMM THEN 2 ELSE 1
<1>1. PktInfo(p).perSymb = IF p = RCMM THEN 2 ELSE 1
  BY ProtocolsValue, NECInfo, SonyInfo, RCMMInfo
     DEF Received, NEC, NEC_RPT, SONY, RCMM, RC5
<1> QED
  BY <1>1 DEF BitsPerSymb

\* A packet of at most 32 bits fits into the buffer.
LEMMA PacketFits ==
  ASSUME NEW p \in Range(Protocols), NEW syms \in Seq(SymbolsOf(p)), Len(syms) <= MSGBITS_MAX
  PROVE  Len(Packet(p, syms)) <= TX_SYMBOLS
<1> DEFINE m == Len(PktInfo(p).preamble)
           n == Len(syms)
           k == Len(PktInfo(p).postamble)
<1>1. Len(Packet(p, syms)) = m + 2 * n + k
  <2>1. HasShape(Packet(p, syms), p, syms, m, n)
    BY PacketShape
  <2> QED
    BY <2>1 DEF HasShape
<1>2. m \in 0 .. 2 /\ k \in 0 .. 1 /\ n \in Nat
  <2>1. k \in 0 .. 1
    <3>1. CASE p \in {NEC, NEC_RPT}
      <4>1. PktInfo(p).postamble = <<NEC_UNIT>>
        BY <3>1, NECInfo
      <4> QED
        BY <4>1
    <3>2. CASE p = SONY
      BY <3>2, SonyInfo
    <3>3. CASE p = RCMM
      BY <3>3, RCMMInfo
    <3>4. CASE p = RC5
      BY <3>4, RC5Info
    <3> QED
      BY <3>1, <3>2, <3>3, <3>4, ProtocolsValue DEF Received
  <2> QED
    BY <2>1, InfoTypes
<1>3. n <= 32
  BY DEF MSGBITS_MAX
<1> HIDE DEF m, n, k
<1> QED
  BY <1>1, <1>2, <1>3 DEF TX_SYMBOLS

\* BuildRaw() makes the frame of the bits that a message holds.
LEMMA RawPacket ==
  ASSUME NEW msg, msg.protocol \in Range(Protocols) \ {RC5}, msg.data \in Uint32,
         msg.nbits \in 0 .. MSGBITS_MAX, msg.protocol = RCMM => msg.nbits % 2 = 0,
         NEW f, f.protocol = msg.protocol, f.bits = HighBits(msg.data, msg.nbits)
  PROVE  BuildRaw(msg) = RemoteFrame(f)
<1> DEFINE p == msg.protocol
           nb == msg.nbits
           bits == f.bits
           n == NumSymbols(p, nb)
           info == PktInfo(p)
           syms == FrameSymbols(f)
           seqs == [i \in 1 .. n |-> info.bits[SymbolAt(p, msg.data, i) + 1]]
           all == info.preamble \o FlattenSeq(seqs) \o info.postamble
<1>1. /\ bits \in Seq(Bit) /\ Len(bits) = nb
      /\ \A i \in 1 .. nb : bits[i] = msg.data[i]
  BY HighBitsValue
<1>2. nb \in 0 .. 32
  BY DEF MSGBITS_MAX
<1>3. BitsPerSymb(p) = IF p = RCMM THEN 2 ELSE 1
  BY BitsPerSymbValue
<1>4. n = IF p = RCMM THEN nb \div 2 ELSE nb
  <2> HIDE DEF nb, p
  <2>1. NumSymbols(p, nb) = IF nb % BitsPerSymb(p) = 0 THEN nb \div BitsPerSymb(p)
                            ELSE MSGBITS_MAX + TX_SYMBOLS
    BY DEF NumSymbols
  <2>2. p = RCMM => nb % 2 = 0
    BY DEF p, nb
  <2>3. nb % 1 = 0 /\ nb \div 1 = nb
    BY <1>2
  <2> QED
    BY <1>3, <2>1, <2>2, <2>3
<1>5. /\ syms \in Seq(SymbolsOf(p))
      /\ Len(syms) = n
  <2>1. /\ syms \in Seq(SymbolsOf(p))
        /\ Len(syms) = IF p = RCMM THEN Len(bits) \div 2 ELSE Len(bits)
    BY <1>1, FrameSymbolsType
  <2> HIDE DEF syms, p, bits, nb, n
  <2> QED
    BY <1>1, <1>4, <2>1
<1>6. n \in 0 .. 32
  <2> HIDE DEF n, nb
  <2> QED
    BY <1>2, <1>4
<1>7. ASSUME NEW i \in 1 .. n PROVE SymbolAt(p, msg.data, i) = syms[i]
  <2> DEFINE at(k) == IF k <= MSGBITS_MAX THEN msg.data[k] ELSE 0
  <2>1. SymbolAt(p, msg.data, i) = IF p = RCMM THEN 2 * at(2 * i - 1) + at(2 * i) ELSE at(i)
    BY <1>3 DEF SymbolAt
  <2>2. \A k \in 1 .. nb : at(k) = bits[k]
    <3> HIDE DEF nb, bits
    <3> QED
      BY <1>1, <1>2 DEF MSGBITS_MAX
  <2>3. CASE p = RCMM
    <3>1. 2 * i - 1 \in 1 .. nb /\ 2 * i \in 1 .. nb
      <4> HIDE DEF n, nb, p
      <4> QED
        BY <1>2, <1>4, <2>3, HalfIndex
    <3>2. at(2 * i - 1) = bits[2 * i - 1] /\ at(2 * i) = bits[2 * i]
      <4> HIDE DEF at, bits, nb, n
      <4> QED
        BY <2>2, <3>1
    <3>3. syms[i] = 2 * bits[2 * i - 1] + bits[2 * i]
      <4>1. syms = [k \in 1 .. Len(bits) \div 2 |-> 2 * bits[2 * k - 1] + bits[2 * k]]
        BY <2>3 DEF FrameSymbols, RC5, RCMM
      <4>2. i \in 1 .. Len(bits) \div 2
        <5> HIDE DEF n, nb, bits, p
        <5> QED
          BY <1>1, <1>4, <2>3
      <4> HIDE DEF syms, bits, n
      <4> QED
        BY <4>1, <4>2
    <3> HIDE DEF at, syms, bits, n
    <3> QED
      BY <2>1, <2>3, <3>2, <3>3
  <2>4. CASE p # RCMM
    <3>1. syms = bits
      BY <2>4 DEF FrameSymbols
    <3>2. at(i) = bits[i]
      <4> HIDE DEF at, bits, nb, n
      <4> QED
        BY <1>4, <2>2, <2>4
    <3> HIDE DEF at, syms, bits, n
    <3> QED
      BY <2>1, <2>4, <3>1, <3>2
  <2> QED
    BY <2>3, <2>4
<1>8. seqs = Pieces(p, syms)
  <2>1. seqs = [i \in 1 .. n |-> info.bits[syms[i] + 1]]
    <3> HIDE DEF n, info, syms
    <3> QED
      BY <1>7
  <2> HIDE DEF n, syms, seqs
  <2> QED
    BY <1>5, <2>1 DEF Pieces
<1>9. all = Packet(p, syms)
  <2> HIDE DEF syms, seqs
  <2> QED
    BY <1>8 DEF Packet
<1>10. Len(all) <= TX_SYMBOLS /\ Len(all) \in Nat
  <2>1. Len(syms) <= MSGBITS_MAX
    <3> HIDE DEF syms, n
    <3> QED
      BY <1>5, <1>6 DEF MSGBITS_MAX
  <2>2. Packet(p, syms) \in Seq(Int)
    <3> DEFINE m == Len(PktInfo(p).preamble)
               k == Len(syms)
    <3> HIDE DEF syms
    <3> QED
      BY <1>5, PacketShape
  <2> HIDE DEF all, syms
  <2> QED
    BY <1>5, <1>9, <2>1, <2>2, PacketFits
<1>11. BuildRaw(msg) = IF Len(all) > TX_SYMBOLS THEN SubSeq(all, 1, TX_SYMBOLS) ELSE all
  BY DEF BuildRaw
<1>12. RemoteFrame(f) = Packet(p, syms)
  BY <1>1, RemotePacket
<1> HIDE DEF all, syms
<1> QED
  BY <1>9, <1>10, <1>11, <1>12 DEF TX_SYMBOLS

\* What is on the line is the frame that is meant.
OnLine == hops \in Nat /\ SentAsMeant

\* Every step keeps what is on the line as it was meant.
LEMMA OnLineStep ==
  ASSUME \A m \in Messages : m.protocol # RC5, OnLine, [Next]_vars
  PROVE  OnLine'
<1> USE DEF OnLine
<1>1. CASE Send
  <2>1. PICK m \in Messages : Transmit(Meant(m), BuildRaw(m))
    BY <1>1 DEF Send
  <2> DEFINE f == Meant(m)
  <2>2. f.protocol = m.protocol /\ f.bits = HighBits(m.data, m.nbits)
    BY DEF Meant
  <2>3. /\ m.protocol \in Range(Protocols) \ {RC5} /\ m.data \in Uint32
        /\ m.nbits \in 0 .. MSGBITS_MAX
    BY LinkAssumption
  <2>4. Len(f.bits) = m.nbits
    BY <2>2, <2>3, HighBitsValue
  <2> HIDE DEF f
  <2>5. (f.protocol = RCMM => Len(f.bits) % 2 = 0) => BuildRaw(m) = RemoteFrame(f)
    BY <2>2, <2>3, <2>4, RawPacket
  <2>6. sent' = f /\ tx' = BuildRaw(m) /\ hops' = hops
    BY <2>1 DEF Transmit, f
  <2> QED
    BY <2>5, <2>6 DEF SentAsMeant
<1>2. CASE Press
  BY <1>2 DEF Press, Transmit, SentAsMeant
<1>3. CASE Arrive
  BY <1>3 DEF Arrive, SentAsMeant
<1>4. CASE TryDecoder
  BY <1>4 DEF TryDecoder, SentAsMeant
<1>5. CASE Repeat
  <2>1. hops' \in Nat /\ hops' # 0
    BY <1>5 DEF Repeat
  <2> QED
    BY <2>1 DEF SentAsMeant
<1>6. CASE UNCHANGED vars
  BY <1>6 DEF vars, SentAsMeant
<1> QED
  BY <1>1, <1>2, <1>3, <1>4, <1>5, <1>6 DEF Next

\* BuildRaw() puts on the line what a remote control of the protocol would send
\* for the message, unless the protocol is RC5.
THEOREM MessagesAsMeant ==
  ASSUME \A m \in Messages : m.protocol # RC5
  PROVE  Spec => []SentAsMeant
<1>1. Init => OnLine
  BY DEF Init, OnLine, SentAsMeant
<1>2. OnLine /\ [Next]_vars => OnLine'
  BY OnLineStep
<1>3. OnLine => SentAsMeant
  BY DEF OnLine
<1> QED
  BY <1>1, <1>2, <1>3, PTL DEF Spec

-----------------------------------------------------------------------------
(* A packet of any protocol but RC5 is its own runs.                       *)

\* Marks and spaces in turn, with a mark at either end.
Alternates(line) ==
  /\ line \in Seq(Int)
  /\ Len(line) % 2 = 1
  /\ \A i \in 1 .. Len(line) : (line[i] > 0) = (i % 2 = 1)

Prefix(line, i) == [k \in 1 .. i |-> line[k]]

\* If marks and spaces alternate between a first and a last mark, every symbol
\* is a run.
LEMMA AlternatingRuns ==
  ASSUME NEW line, Alternates(line)
  PROVE  Runs(line) = line
<1> DEFINE n == Len(line)
           marks == {i \in 1 .. n : line[i] > 0}
<1>1. line \in Seq(Int) /\ n \in Nat /\ n % 2 = 1 /\ \A i \in 1 .. n : line[i] \in Int
  BY DEF Alternates
<1>2. 1 \in marks /\ n \in marks
  <2>1. 1 \in 1 .. n /\ n \in 1 .. n /\ 1 % 2 = 1
    <3> HIDE DEF n
    <3> QED
      BY <1>1
  <2>2. \A i \in 1 .. n : i % 2 = 1 => line[i] > 0
    BY DEF Alternates
  <2> HIDE DEF n
  <2> QED
    BY <1>1, <2>1, <2>2
<1>3. marks \subseteq Int /\ \A i \in marks : 1 <= i /\ n >= i
  <2> HIDE DEF n
  <2> QED
    BY <1>1
<1>4. Min(marks) = 1 /\ Max(marks) = n
  <2> HIDE DEF marks, n
  <2> QED
    BY <1>2, <1>3, MinIs, MaxIs
<1>5. Heard(line) = 1 .. n
  <2>1. Heard(line) = Min(marks) .. Max(marks)
    BY DEF Heard
  <2> HIDE DEF marks, n
  <2> QED
    BY <1>4, <2>1
<1>6. PICK f \in [0 .. n -> Seq(Int)] :
        /\ Runs(line) = IF marks = {} THEN <<>> ELSE f[n]
        /\ Hears(f, line)
  BY <1>1, RunsPartial
<1> DEFINE T == {i \in 0 .. n : f[i] = Prefix(line, i)}
<1>7. 0 \in T
  <2>1. f[0] = <<>> /\ Prefix(line, 0) = <<>>
    BY <1>6 DEF Hears, Prefix
  <2> HIDE DEF n
  <2> QED
    BY <1>1, <2>1
<1>8. ASSUME NEW i \in 0 .. n, i # 0, i - 1 \in T PROVE i \in T
  <2>1. i \in 1 .. n
    BY <1>1, <1>8
  <2>2. f[i - 1] = Prefix(line, i - 1)
    BY <1>8
  <2>3. f[i] = Joined(Prefix(line, i - 1), line[i])
    BY <1>5, <1>6, <2>1, <2>2 DEF Hears
  <2> DEFINE b == Prefix(line, i - 1)
  <2> HIDE DEF n
  <2>4. b \in [1 .. i - 1 -> Int]
    <3>1. \A k \in 1 .. i - 1 : line[k] \in Int
      BY <1>1, <2>1
    <3> QED
      BY <3>1 DEF Prefix
  <2>5. b \in Seq(Int) /\ Len(b) = i - 1
    <3>1. i - 1 \in Nat
      BY <1>1, <2>1
    <3> HIDE DEF b
    <3> QED
      BY <2>4, <3>1, FunctionIsSeq
  <2>6. i # 1 => b[i - 1] = line[i - 1]
    BY <1>1, <2>1 DEF Prefix
  <2>7. i # 1 => (line[i - 1] > 0) # (line[i] > 0)
    <3>1. i # 1 => i - 1 \in 1 .. n
      BY <1>1, <2>1
    <3>2. IF i % 2 = 1 THEN (i - 1) % 2 = 0 ELSE (i - 1) % 2 = 1
      <4>1. \A k \in Int : IF k % 2 = 1 THEN (k - 1) % 2 = 0 ELSE (k - 1) % 2 = 1
        OBVIOUS
      <4> QED
        BY <4>1, <2>1, <1>1
    <3>3. \A k \in 1 .. n : (line[k] > 0) = (k % 2 = 1)
      BY DEF Alternates, n
    <3> QED
      BY <2>1, <3>1, <3>2, <3>3
  <2>8. Joined(b, line[i]) = Append(b, line[i])
    <3>1. ~(Len(b) > 0 /\ (b[Len(b)] > 0) = (line[i] > 0))
      <4> HIDE DEF b
      <4> QED
        BY <1>1, <2>1, <2>5, <2>6, <2>7
    <3> HIDE DEF b
    <3> QED
      BY <3>1 DEF Joined
  <2>9. Append(b, line[i]) = Prefix(line, i)
    <3>1. /\ Append(b, line[i]) \in Seq(Int)
          /\ Len(Append(b, line[i])) = i
          /\ \A k \in 1 .. i - 1 : Append(b, line[i])[k] = b[k]
          /\ Append(b, line[i])[i] = line[i]
      <4>1. line[i] \in Int /\ (i - 1) + 1 = i
        BY <1>1, <2>1
      <4> HIDE DEF b
      <4> QED
        BY <2>5, <4>1, AppendProperties
    <3>2. \A k \in 1 .. i - 1 : b[k] = line[k]
      BY DEF Prefix
    <3> DEFINE a == Append(b, line[i])
    <3>3. a \in [1 .. i -> Int]
      <4>1. a \in Seq(Int) /\ Len(a) = i
        BY <3>1
      <4>2. \A s \in Seq(Int) : s \in [1 .. Len(s) -> Int]
        OBVIOUS
      <4> HIDE DEF a
      <4> QED
        BY <4>1, <4>2
    <3>4. \A k \in 1 .. i : a[k] = line[k]
      <4> SUFFICES ASSUME NEW k \in 1 .. i PROVE a[k] = line[k]
        OBVIOUS
      <4>1. k = i \/ k \in 1 .. i - 1
        BY <1>1, <2>1
      <4> HIDE DEF b
      <4> QED
        BY <3>1, <3>2, <4>1
    <3> HIDE DEF a
    <3>5. a = Prefix(line, i)
      BY <3>3, <3>4 DEF Prefix
    <3> QED
      BY <3>5 DEF a
  <2> HIDE DEF b
  <2>10. f[i] = Prefix(line, i)
    BY <2>3, <2>8, <2>9 DEF b
  <2> QED
    BY <2>10
<1>9. f[n] = Prefix(line, n)
  <2>1. 0 \in Nat /\ n \in 0 .. n
    <3> HIDE DEF n
    <3> QED
      BY <1>1
  <2>2. n \in T
    <3> HIDE DEF T, n
    <3> QED
      BY <1>1, <1>7, <1>8, <2>1, IntervalInduction
  <2> QED
    BY <2>2
<1>10. Prefix(line, n) = line
  BY <1>1 DEF Prefix
<1>11. marks # {}
  BY <1>2
<1> HIDE DEF marks, n
<1> QED
  BY <1>6, <1>9, <1>10, <1>11

\* Packets alternate, those of RC5 excepted.
LEMMA PacketAlternates ==
  ASSUME NEW p \in Range(Protocols) \ {RC5}, NEW syms \in Seq(SymbolsOf(p))
  PROVE  Alternates(Packet(p, syms))
<1> DEFINE line == Packet(p, syms)
           m == Len(PktInfo(p).preamble)
           n == Len(syms)
           k == Len(PktInfo(p).postamble)
           pat(i) == PktInfo(p).bits[syms[i] + 1]
<1>1. line \in Seq(Int) /\ HasShape(line, p, syms, m, n)
  BY PacketShape
<1>2. n \in Nat /\ \A i \in 1 .. n : syms[i] \in SymbolsOf(p)
  OBVIOUS
<1>3. CASE p \in {NEC, NEC_RPT, RCMM}
  <2>1. m = 2 /\ k = 1 /\ PktInfo(p).preamble[1] > 0 /\ ~(PktInfo(p).preamble[2] > 0)
        /\ PktInfo(p).postamble[1] > 0
    <3>1. CASE p \in {NEC, NEC_RPT}
      <4> DEFINE s == -(IF p = NEC THEN 8 ELSE 4) * NEC_UNIT
      <4>1. PktInfo(p).preamble = <<16 * NEC_UNIT, s>> /\ PktInfo(p).postamble = <<NEC_UNIT>>
        BY <3>1, NECInfo
      <4>2. s \in Int /\ s < 0
        BY DEF NEC_UNIT
      <4> HIDE DEF s
      <4> QED
        BY <4>1, <4>2 DEF NEC_UNIT
    <3>2. CASE p = RCMM
      BY <3>2, RCMMInfo DEF RCMM_UNIT
    <3> QED
      BY <1>3, <3>1, <3>2
  <2>2. ASSUME NEW i \in 1 .. n PROVE pat(i)[1] > 0 /\ ~(pat(i)[2] > 0)
    <3>1. CASE p \in {NEC, NEC_RPT}
      <4>1. syms[i] = 0 \/ syms[i] = 1
        BY <1>2, <3>1 DEF SymbolsOf, NEC, NEC_RPT, RCMM
      <4>2. PktInfo(p).bits = << <<563, -563>>, <<563, -1689>>, <<>>, <<>> >>
        BY <3>1, NECInfo DEF NEC_UNIT
      <4> QED
        BY <4>1, <4>2
    <3>2. CASE p = RCMM
      <4>1. syms[i] = 0 \/ syms[i] = 1 \/ syms[i] = 2 \/ syms[i] = 3
        BY <1>2, <3>2 DEF SymbolsOf
      <4>2. PktInfo(p).bits = << <<168, -280>>, <<168, -448>>, <<168, -616>>, <<168, -784>> >>
        BY <3>2, RCMMInfo DEF RCMM_UNIT
      <4> QED
        BY <4>1, <4>2
    <3> QED
      BY <1>3, <3>1, <3>2
  <2>3. /\ Len(line) = 2 * n + 3
        /\ line[1] > 0 /\ ~(line[2] > 0) /\ line[2 * n + 3] > 0
        /\ \A i \in 1 .. n : line[2 * i + 1] > 0 /\ ~(line[2 * i + 2] > 0)
    <3>1. /\ Len(line) = 2 + 2 * n + 1
          /\ \A i \in 1 .. 2 : line[i] = PktInfo(p).preamble[i]
          /\ \A i \in 1 .. n : line[2 + 2 * i - 1] = pat(i)[1] /\ line[2 + 2 * i] = pat(i)[2]
          /\ \A i \in 1 .. 1 : line[2 + 2 * n + i] = PktInfo(p).postamble[i]
      <4> HIDE DEF line, n
      <4> QED
        BY <1>1, <2>1 DEF HasShape
    <3> HIDE DEF line, n, pat
    <3>2. 2 + 2 * n + 1 = 2 * n + 3
      BY <1>2
    <3>3. \A i \in 1 .. n : 2 + 2 * i - 1 = 2 * i + 1 /\ 2 + 2 * i = 2 * i + 2
      BY <1>2
    <3>4. line[1] > 0 /\ ~(line[2] > 0)
      BY <2>1, <3>1
    <3>5. line[2 * n + 3] > 0
      BY <2>1, <3>1, <3>2
    <3>6. \A i \in 1 .. n : line[2 * i + 1] > 0 /\ ~(line[2 * i + 2] > 0)
      BY <2>2, <3>1, <3>3
    <3> QED
      BY <3>1, <3>2, <3>4, <3>5, <3>6
  <2>4. ASSUME NEW i \in 1 .. 2 * n + 3 PROVE (line[i] > 0) = (i % 2 = 1)
    <3> HIDE DEF line, n
    <3> DEFINE j == (i - 1) \div 2
    <3>1. j \in 0 .. n + 1 /\ (i = 2 * j + 1 \/ i = 2 * j + 2)
      BY <1>2
    <3>2. CASE i = 2 * j + 1
      <4>1. i % 2 = 1
        BY <3>2
      <4>2. j = 0 \/ j \in 1 .. n \/ j = n + 1
        BY <3>1, <1>2
      <4> HIDE DEF j
      <4>3. line[2 * j + 1] > 0
        <5>1. CASE j = 0
          BY <5>1, <2>3
        <5>2. CASE j \in 1 .. n
          BY <5>2, <2>3
        <5>3. CASE j = n + 1
          <6>1. 2 * j + 1 = 2 * n + 3
            BY <5>3, <1>2
          <6> QED
            BY <6>1, <2>3
        <5> QED
          BY <4>2, <5>1, <5>2, <5>3
      <4> QED
        BY <3>2, <4>1, <4>3
    <3>3. CASE i = 2 * j + 2
      <4>1. i % 2 = 0
        BY <3>3
      <4>2. j = 0 \/ j \in 1 .. n
        BY <3>1, <3>3, <1>2
      <4> HIDE DEF j
      <4>3. ~(line[2 * j + 2] > 0)
        <5>1. CASE j = 0
          BY <5>1, <2>3
        <5>2. CASE j \in 1 .. n
          BY <5>2, <2>3
        <5> QED
          BY <4>2, <5>1, <5>2
      <4> QED
        BY <3>3, <4>1, <4>3
    <3> QED
      BY <3>1, <3>2, <3>3
  <2> HIDE DEF line, n
  <2>5. (2 * n + 3) % 2 = 1
    BY <1>2
  <2> QED
    BY <1>1, <2>3, <2>4, <2>5 DEF Alternates, line
<1>4. CASE p = SONY
  <2>1. m = 1 /\ k = 0 /\ PktInfo(p).preamble[1] > 0
    BY <1>4, SonyInfo DEF SONY_UNIT
  <2>2. ASSUME NEW i \in 1 .. n PROVE ~(pat(i)[1] > 0) /\ pat(i)[2] > 0
    <3>1. syms[i] = 0 \/ syms[i] = 1
      BY <1>2, <1>4 DEF SymbolsOf, SONY, RCMM
    <3>2. PktInfo(p).bits = << <<-600, 600>>, <<-600, 1200>>, <<>>, <<>> >>
      BY <1>4, SonyInfo DEF SONY_UNIT
    <3> QED
      BY <3>1, <3>2
  <2>3. /\ Len(line) = 2 * n + 1
        /\ line[1] > 0
        /\ \A i \in 1 .. n : ~(line[2 * i] > 0) /\ line[2 * i + 1] > 0
    <3>1. /\ Len(line) = 1 + 2 * n + 0
          /\ \A i \in 1 .. 1 : line[i] = PktInfo(p).preamble[i]
          /\ \A i \in 1 .. n : line[1 + 2 * i - 1] = pat(i)[1] /\ line[1 + 2 * i] = pat(i)[2]
      <4> HIDE DEF line, n
      <4> QED
        BY <1>1, <2>1 DEF HasShape
    <3> HIDE DEF line, n, pat
    <3>2. 1 + 2 * n + 0 = 2 * n + 1 /\ \A i \in 1 .. n : 1 + 2 * i - 1 = 2 * i /\ 1 + 2 * i = 2 * i + 1
      BY <1>2
    <3>3. line[1] > 0
      BY <2>1, <3>1
    <3>4. \A i \in 1 .. n : ~(line[2 * i] > 0) /\ line[2 * i + 1] > 0
      BY <2>2, <3>1, <3>2
    <3> QED
      BY <3>1, <3>2, <3>3, <3>4
  <2>4. ASSUME NEW i \in 1 .. 2 * n + 1 PROVE (line[i] > 0) = (i % 2 = 1)
    <3> HIDE DEF line, n
    <3> DEFINE j == i \div 2
    <3>1. j \in 0 .. n /\ (i = 2 * j \/ i = 2 * j + 1)
      BY <1>2
    <3>2. CASE i = 2 * j + 1
      <4>1. i % 2 = 1
        BY <3>2
      <4> HIDE DEF j
      <4>2. line[2 * j + 1] > 0
        <5>1. CASE j = 0
          BY <5>1, <2>3
        <5>2. CASE j \in 1 .. n
          BY <5>2, <2>3
        <5> QED
          BY <1>2, <3>1, <5>1, <5>2
      <4> QED
        BY <3>2, <4>1, <4>2
    <3>3. CASE i = 2 * j
      <4>1. i % 2 = 0 /\ j \in 1 .. n
        BY <3>3, <1>2
      <4> HIDE DEF j
      <4>2. ~(line[2 * j] > 0)
        BY <2>3, <4>1
      <4> QED
        BY <3>3, <4>1, <4>2
    <3> QED
      BY <3>1, <3>2, <3>3
  <2> HIDE DEF line, n
  <2>5. (2 * n + 1) % 2 = 1
    BY <1>2
  <2> QED
    BY <1>1, <2>3, <2>4, <2>5 DEF Alternates, line
<1> QED
  BY <1>3, <1>4, ProtocolsValue DEF Received

-----------------------------------------------------------------------------
(* What DecodePktDefault() reads.                                          *)

ReadAt(p, msg, pos) ==
  IF MatchSymbols(PktInfo(p).bits[1], msg, pos) THEN 0
  ELSE IF MatchSymbols(PktInfo(p).bits[2], msg, pos) THEN 1 ELSE -1

\* The symbols from pos on are the bits, and what follows is none.
ReadsBits(p, msg, pos, bits) ==
  /\ \A k \in 1 .. Len(bits) : ReadAt(p, msg, pos + 2 * (k - 1)) = bits[k]
  /\ ReadAt(p, msg, pos + 2 * Len(bits)) = -1

\* The buffer holds a whole packet, whose bits begin at pos and end before end.
HoldsPacket(p, msg, v, bits, pos, end) ==
  /\ pos = 1 + Len(PktInfo(p).preamble)
  /\ end = pos + 2 * Len(bits)
  /\ end < RX_SYMBOLS
  /\ v >= end + Len(PktInfo(p).postamble)
  /\ MatchSymbols(PktInfo(p).preamble, msg, 1)
  /\ MatchSymbols(PktInfo(p).postamble, msg, end)
  /\ ReadsBits(p, msg, pos, bits)

\* DecodePktDefault() accepts a packet that it can read bit by bit, and stops
\* behind its last bit.
LEMMA DefaultReads ==
  ASSUME NEW p \in Range(Protocols), NEW msg, NEW v, NEW bits \in Seq(Bit),
         NEW pos \in Nat, NEW end \in Nat, HoldsPacket(p, msg, v, bits, pos, end)
  PROVE  DecodePktDefault(p, msg, v) = Accepted(bits)
<1> DEFINE info == PktInfo(p)
           start(k) == 1 + Len(info.preamble) + 2 * k
           bit(k) == IF MatchSymbols(info.bits[1], msg, start(k)) THEN 0
                     ELSE IF MatchSymbols(info.bits[2], msg, start(k)) THEN 1
                     ELSE -1
           stops(k) == start(k) >= RX_SYMBOLS \/ bit(k) = -1
           N == {k \in 0 .. RX_SYMBOLS \div 2 : stops(k)}
           nbits == Min(N)
           n == Len(bits)
<1>1. DecodePktDefault(p, msg, v) =
        IF /\ MatchSymbols(info.preamble, msg, 1)
           /\ MatchSymbols(info.postamble, msg, start(nbits))
           /\ v >= start(nbits) + Len(info.postamble)
        THEN Accepted([k \in 1 .. nbits |-> bit(k - 1)])
        ELSE Rejected
  BY DEF DecodePktDefault
<1>2. \A k : start(k) = pos + 2 * k /\ bit(k) = ReadAt(p, msg, start(k))
  <2>1. \A k : start(k) = pos + 2 * k
    BY DEF HoldsPacket
  <2> HIDE DEF start
  <2> QED
    BY <2>1 DEF ReadAt
<1>3. n \in Nat /\ end = pos + 2 * n /\ RX_SYMBOLS = 76 /\ end < 76
  <2>1. n \in Nat
    OBVIOUS
  <2>2. end = pos + 2 * n
    BY DEF HoldsPacket
  <2>3. end < RX_SYMBOLS
    BY DEF HoldsPacket
  <2> HIDE DEF n
  <2> QED
    BY <2>1, <2>2, <2>3 DEF RX_SYMBOLS
<1>10. /\ ReadsBits(p, msg, pos, bits)
       /\ MatchSymbols(info.preamble, msg, 1)
       /\ MatchSymbols(info.postamble, msg, end)
       /\ v >= end + Len(info.postamble)
  BY DEF HoldsPacket
<1> HIDE DEF bit, start, n
<1>4. \A k \in 1 .. n : bit(k - 1) = bits[k] /\ bits[k] \in Bit
  <2> SUFFICES ASSUME NEW k \in 1 .. n PROVE bit(k - 1) = bits[k] /\ bits[k] \in Bit
    OBVIOUS
  <2>1. bit(k - 1) = ReadAt(p, msg, pos + 2 * (k - 1))
    BY <1>2
  <2>2. k \in 1 .. Len(bits)
    BY DEF n
  <2>3. ReadAt(p, msg, pos + 2 * (k - 1)) = bits[k]
    BY <1>10, <2>2 DEF ReadsBits
  <2> QED
    BY <2>1, <2>2, <2>3
<1>5. bit(n) = -1 /\ start(n) = end
  BY <1>2, <1>3, <1>10 DEF ReadsBits, n
<1>6. n \in N
  <2>1. n \in 0 .. RX_SYMBOLS \div 2
    <3>1. RX_SYMBOLS \div 2 = 38
      BY <1>3
    <3>2. n <= 37
      BY <1>3
    <3> QED
      BY <1>3, <3>1, <3>2
  <2> QED
    BY <1>5, <2>1
<1>7. ASSUME NEW k \in N PROVE n <= k
  <2> SUFFICES ASSUME k < n PROVE FALSE
    BY <1>3
  <2>1. k \in 0 .. n - 1
    BY <1>3
  <2>2. bit(k) = bits[k + 1] /\ bits[k + 1] \in Bit
    <3>1. k + 1 \in 1 .. n /\ (k + 1) - 1 = k
      BY <1>3, <2>1
    <3> QED
      BY <1>4, <3>1
  <2>3. start(k) < RX_SYMBOLS /\ start(k) \in Nat
    <3>1. start(k) = pos + 2 * k
      BY <1>2
    <3> QED
      BY <1>3, <2>1, <3>1
  <2>4. ~stops(k)
    BY <1>3, <2>2, <2>3 DEF Bit
  <2> HIDE DEF stops
  <2> QED
    BY <2>4
<1>8. nbits = n
  <2>1. N \subseteq Int
    <3>1. N \subseteq 0 .. 38
      <4>1. RX_SYMBOLS \div 2 = 38
        BY <1>3
      <4> HIDE DEF stops
      <4> QED
        BY <4>1
    <3> QED
      BY <3>1
  <2> HIDE DEF N
  <2> QED
    BY <1>6, <1>7, <2>1, MinIs
<1>9. [k \in 1 .. n |-> bit(k - 1)] = bits
  <2>1. [k \in 1 .. n |-> bit(k - 1)] = [k \in 1 .. n |-> bits[k]]
    BY <1>4
  <2> QED
    BY <2>1 DEF n
<1> HIDE DEF nbits, info
<1> QED
  BY <1>1, <1>5, <1>8, <1>9, <1>10 DEF info

-----------------------------------------------------------------------------
(* What is recorded of a packet is near enough.                            *)

Near(x, r) == r \in Int /\ x - 105 < r /\ r < x + 105

Matches(x, r) == (x < 0) = (r < 0) /\ Abs(x - r) <= Tolerance(x)

\* An empty pattern always matches.
LEMMA MatchNone ==
  ASSUME NEW msg, NEW pos
  PROVE  MatchSymbols(<<>>, msg, pos)
BY DEF MatchSymbols

\* A pattern of one symbol matches one element.
LEMMA MatchOne ==
  ASSUME NEW x, NEW msg, NEW pos \in 1 .. RX_SYMBOLS
  PROVE  MatchSymbols(<<x>>, msg, pos) <=> Matches(x, msg[pos])
<1>1. pos + 1 - 1 = pos /\ pos <= RX_SYMBOLS
  BY DEF RX_SYMBOLS
<1>2. Len(<<x>>) = 1 /\ <<x>>[1] = x /\ \A i \in 1 .. 1 : i = 1
  OBVIOUS
<1> QED
  BY <1>1, <1>2 DEF MatchSymbols, Matches

\* A pattern of two symbols matches two.
LEMMA MatchTwo ==
  ASSUME NEW x, NEW y, NEW msg, NEW pos \in 1 .. RX_SYMBOLS - 1
  PROVE  MatchSymbols(<<x, y>>, msg, pos) <=> Matches(x, msg[pos]) /\ Matches(y, msg[pos + 1])
<1>1. /\ pos + 1 - 1 = pos /\ pos <= RX_SYMBOLS
      /\ pos + 2 - 1 = pos + 1 /\ pos + 1 <= RX_SYMBOLS
  BY DEF RX_SYMBOLS
<1>2. /\ Len(<<x, y>>) = 2 /\ <<x, y>>[1] = x /\ <<x, y>>[2] = y
      /\ \A i \in 1 .. 2 : i = 1 \/ i = 2
  OBVIOUS
<1> QED
  BY <1>1, <1>2 DEF MatchSymbols, Matches

\* Sampling moves no symbol out of its tolerance.
LEMMA NearMatches ==
  ASSUME NEW x \in Int, Abs(x) >= 563, NEW r, Near(x, r)
  PROVE  Matches(x, r)
<1>1. Tolerance(x) >= 105 /\ Tolerance(x) \in Int
  BY DEF Tolerance, Abs
<1>2. r \in Int /\ x - 105 < r /\ r < x + 105
  BY DEF Near
<1>3. Abs(x - r) <= 105 /\ (x < 0) = (r < 0) /\ Abs(x - r) \in Int
  BY <1>2 DEF Abs
<1> QED
  BY <1>1, <1>3 DEF Matches

\* Every run is recorded up to one interval between two samples.
LEMMA RecordedNear ==
  ASSUME NEW runs \in Seq(Int), NEW phase \in Nat, NEW old,
         NEW i \in 1 .. Len(runs), i <= RX_SYMBOLS
  PROVE  Near(runs[i], Recorded(old, runs, phase)[i])
<1> DEFINE r == Recorded(old, runs, phase)[i]
<1>1. /\ r \in Int
      /\ IF runs[i] > 0 THEN r >= 0 ELSE r <= 0
      /\ Abs(runs[i]) - POLL_INTERVAL < Abs(r)
      /\ Abs(r) < Abs(runs[i]) + POLL_INTERVAL
  BY RecordedRuns
<1>2. POLL_INTERVAL <= 105 /\ POLL_INTERVAL \in Nat
  BY CodecAssumption, SamplingAssumption DEF Tolerance, Abs, NEC_UNIT
<1>3. runs[i] \in Int
  OBVIOUS
<1> HIDE DEF r
<1>4. Near(runs[i], r)
  BY <1>1, <1>2, <1>3 DEF Near, Abs
<1> QED
  BY <1>4 DEF r

\* Longer than every space of a protocol.
IsGap(r) == r \in Int /\ r < -5348 /\ r < -SIGFREE_MIN

\* Behind the runs there is a gap.
LEMMA GapBehind ==
  ASSUME NEW runs \in Seq(Int), NEW phase, NEW old, Len(runs) < RX_SYMBOLS
  PROVE  IsGap(Recorded(old, runs, phase)[Len(runs) + 1])
<1> DEFINE g == (SIGFREE_MIN \div POLL_INTERVAL + 1) * POLL_INTERVAL
           n == Len(runs)
<1>1. n \in Nat /\ n + 1 \in 0 .. RX_SYMBOLS /\ n + 1 \notin 1 .. n
  <2>1. n \in Nat /\ n < RX_SYMBOLS
    OBVIOUS
  <2> HIDE DEF n
  <2> QED
    BY <2>1 DEF RX_SYMBOLS
<1>2. Recorded(old, runs, phase)[n + 1] = -g
  <2>1. Recorded(old, runs, phase)[n + 1] =
          IF n + 1 \in 1 .. n
          THEN (Edges(runs, phase)[n + 1 + 1] \div POLL_INTERVAL
                  - Edges(runs, phase)[n + 1] \div POLL_INTERVAL)
                 * (IF runs[n + 1] > 0 THEN POLL_INTERVAL ELSE -POLL_INTERVAL)
          ELSE IF n + 1 \in {0, n + 1} THEN -g
          ELSE IF n + 1 = n + 2 THEN 0 ELSE old[n + 1]
    BY <1>1 DEF Recorded
  <2> HIDE DEF g, n
  <2> QED
    BY <1>1, <2>1
<1>3. SIGFREE_MIN \in Nat /\ POLL_INTERVAL \in Nat \ {0} /\ SIGFREE_MIN > 5348
  BY CodecAssumption, SamplingAssumption DEF Tolerance, Abs, NEC_UNIT
<1>4. g \in Int /\ g > SIGFREE_MIN
  <2> DEFINE q == SIGFREE_MIN \div POLL_INTERVAL
  <2>1. q \in Int /\ POLL_INTERVAL * q <= SIGFREE_MIN /\ SIGFREE_MIN < POLL_INTERVAL * q + POLL_INTERVAL
    BY <1>3, DivBounds
  <2> HIDE DEF q
  <2>2. (q + 1) * POLL_INTERVAL = POLL_INTERVAL * q + POLL_INTERVAL
    BY <1>3, <2>1
  <2>3. POLL_INTERVAL * q + POLL_INTERVAL \in Int
    BY <1>3, <2>1
  <2> QED
    BY <1>3, <2>1, <2>2, <2>3 DEF q
<1> HIDE DEF g
<1>5. IsGap(-g)
  BY <1>3, <1>4 DEF IsGap
<1> QED
  BY <1>2, <1>5 DEF n

\* The same, spelt out.
LEMMA RecordedGap ==
  ASSUME NEW runs \in Seq(Int), NEW phase, NEW old, Len(runs) < RX_SYMBOLS
  PROVE  /\ Recorded(old, runs, phase)[Len(runs) + 1] \in Int
         /\ Recorded(old, runs, phase)[Len(runs) + 1] < -5348
         /\ Recorded(old, runs, phase)[Len(runs) + 1] < -SIGFREE_MIN
<1> DEFINE r == Recorded(old, runs, phase)[Len(runs) + 1]
<1>1. IsGap(r)
  BY GapBehind, Zenon
<1> HIDE DEF r
<1>2. r \in Int /\ r < -5348 /\ r < -SIGFREE_MIN
  BY <1>1 DEF IsGap
<1> QED
  BY <1>2 DEF r

\* A bit of NEC is read as that bit.
LEMMA NECReads ==
  ASSUME NEW p \in {NEC, NEC_RPT}, NEW msg, NEW pos \in 1 .. RX_SYMBOLS - 1,
         NEW b \in Bit, Near(563, msg[pos]),
         Near(IF b = 0 THEN -563 ELSE -1689, msg[pos + 1])
  PROVE  ReadAt(p, msg, pos) = b
<1>1. /\ PktInfo(p).bits[1] = <<563, -563>>
      /\ PktInfo(p).bits[2] = <<563, -1689>>
  <2>1. PktInfo(p).bits = << <<563, -563>>, <<563, -1689>>, <<>>, <<>> >>
    BY NECInfo DEF NEC_UNIT
  <2> QED
    BY <2>1
<1>2. Matches(563, msg[pos])
  BY NearMatches DEF Abs
<1>3. b \in {0, 1}
  BY DEF Bit
<1>4. CASE b = 0
  <2>1. Near(-563, msg[pos + 1])
    BY <1>4
  <2>2. Matches(-563, msg[pos + 1])
    BY <2>1, NearMatches DEF Abs
  <2> QED
    BY <1>1, <1>2, <1>4, <2>2, MatchTwo DEF ReadAt
<1>5. CASE b = 1
  <2>1. Near(-1689, msg[pos + 1])
    BY <1>5
  <2>2. Matches(-1689, msg[pos + 1])
    BY <2>1, NearMatches DEF Abs
  <2>3. ~Matches(-563, msg[pos + 1])
    BY <2>1 DEF Near, Matches, Abs, Tolerance
  <2> QED
    BY <1>1, <1>2, <1>5, <2>2, <2>3, MatchTwo DEF ReadAt
<1> QED
  BY <1>3, <1>4, <1>5

\* The postamble and the gap are not read as a bit of NEC.
LEMMA NECStops ==
  ASSUME NEW p \in {NEC, NEC_RPT}, NEW msg, NEW pos \in 1 .. RX_SYMBOLS - 1,
         msg[pos + 1] \in Int, msg[pos + 1] < -5348
  PROVE  ReadAt(p, msg, pos) = -1
<1>1. /\ PktInfo(p).bits[1] = <<563, -563>>
      /\ PktInfo(p).bits[2] = <<563, -1689>>
  <2>1. PktInfo(p).bits = << <<563, -563>>, <<563, -1689>>, <<>>, <<>> >>
    BY NECInfo DEF NEC_UNIT
  <2> QED
    BY <2>1
<1>2. ~Matches(-563, msg[pos + 1]) /\ ~Matches(-1689, msg[pos + 1])
  BY DEF Matches, Abs, Tolerance
<1> QED
  BY <1>1, <1>2, MatchTwo DEF ReadAt

\* A bit of Sony is read as that bit.
LEMMA SonyReads ==
  ASSUME NEW msg, NEW pos \in 1 .. RX_SYMBOLS - 1, NEW b \in Bit,
         Near(-600, msg[pos]), Near(IF b = 0 THEN 600 ELSE 1200, msg[pos + 1])
  PROVE  ReadAt(SONY, msg, pos) = b
<1>1. /\ PktInfo(SONY).bits[1] = <<-600, 600>>
      /\ PktInfo(SONY).bits[2] = <<-600, 1200>>
  BY SonyInfo DEF SONY_UNIT
<1>2. Matches(-600, msg[pos])
  BY NearMatches DEF Abs
<1>3. b \in {0, 1}
  BY DEF Bit
<1>4. CASE b = 0
  <2>1. Near(600, msg[pos + 1])
    BY <1>4
  <2>2. Matches(600, msg[pos + 1])
    BY <2>1, NearMatches DEF Abs
  <2> QED
    BY <1>1, <1>2, <1>4, <2>2, MatchTwo DEF ReadAt
<1>5. CASE b = 1
  <2>1. Near(1200, msg[pos + 1])
    BY <1>5
  <2>2. Matches(1200, msg[pos + 1])
    BY <2>1, NearMatches DEF Abs
  <2>3. ~Matches(600, msg[pos + 1])
    BY <2>1 DEF Near, Matches, Abs, Tolerance
  <2> QED
    BY <1>1, <1>2, <1>5, <2>2, <2>3, MatchTwo DEF ReadAt
<1> QED
  BY <1>3, <1>4, <1>5

\* The gap is not read as a bit of Sony.
LEMMA SonyStops ==
  ASSUME NEW msg, NEW pos \in 1 .. RX_SYMBOLS - 1, msg[pos] \in Int, msg[pos] < -5348
  PROVE  ReadAt(SONY, msg, pos) = -1
<1>1. /\ PktInfo(SONY).bits[1] = <<-600, 600>>
      /\ PktInfo(SONY).bits[2] = <<-600, 1200>>
  BY SonyInfo DEF SONY_UNIT
<1>2. ~Matches(-600, msg[pos])
  BY DEF Matches, Abs, Tolerance
<1> QED
  BY <1>1, <1>2, MatchTwo DEF ReadAt

\* What is recorded of a NEC frame of at most 32 bits is read as its bits.
LEMMA NECFrame ==
  ASSUME NEW p \in {NEC, NEC_RPT}, NEW bits \in Seq(Bit), Len(bits) <= MSGBITS_MAX,
         NEW old \in Samples, NEW phase \in Nat
  PROVE  Decode(p, Recorded(old, Packet(p, bits), phase), ValidLen(Packet(p, bits)))
           = Accepted(bits)
<1> DEFINE line == Packet(p, bits)
           msg == Recorded(old, line, phase)
           n == Len(bits)
           v == ValidLen(line)
           s == IF p = NEC THEN -4504 ELSE -2252
           end == 3 + 2 * n
<1>1. n \in 0 .. 32 /\ \A k \in 1 .. n : bits[k] \in Bit
  <2>1. n \in Nat /\ n <= MSGBITS_MAX /\ \A k \in 1 .. n : bits[k] \in Bit
    OBVIOUS
  <2> HIDE DEF n
  <2> QED
    BY <2>1 DEF MSGBITS_MAX
<1>2. /\ p \in Range(Protocols) \ {RC5} /\ p # SONY /\ p # RCMM
      /\ bits \in Seq(SymbolsOf(p))
  <2>1. p \in Range(Protocols) /\ p # RC5 /\ p # SONY /\ p # RCMM
    BY ProtocolsValue DEF Received, NEC, NEC_RPT, SONY, RCMM, RC5
  <2>2. Bit = 0 .. 1
    BY DEF Bit
  <2> QED
    BY <2>1, <2>2 DEF SymbolsOf
<1>3. /\ PktInfo(p).preamble = <<9008, s>>
      /\ PktInfo(p).postamble = <<563>>
      /\ PktInfo(p).bits[1] = <<563, -563>>
      /\ PktInfo(p).bits[2] = <<563, -1689>>
  <2>1. /\ PktInfo(p).preamble = <<16 * NEC_UNIT, -(IF p = NEC THEN 8 ELSE 4) * NEC_UNIT>>
        /\ PktInfo(p).postamble = <<NEC_UNIT>>
        /\ PktInfo(p).bits = << <<NEC_UNIT, -NEC_UNIT>>, <<NEC_UNIT, -3 * NEC_UNIT>>,
                                <<>>, <<>> >>
    BY NECInfo
  <2>2. 16 * NEC_UNIT = 9008 /\ -(IF p = NEC THEN 8 ELSE 4) * NEC_UNIT = s /\ -3 * NEC_UNIT = -1689
    BY DEF NEC_UNIT
  <2> HIDE DEF s
  <2> QED
    BY <2>1, <2>2 DEF NEC_UNIT
<1> HIDE DEF s
<1>4. line \in Seq(Int) /\ HasShape(line, p, bits, 2, n)
  <2>1. Len(PktInfo(p).preamble) = 2
    BY <1>3
  <2> QED
    BY <1>2, <2>1, PacketShape
<1> HIDE DEF line, n
<1>5. /\ Len(line) = end
      /\ line[1] = 9008 /\ line[2] = s /\ line[end] = 563
      /\ \A k \in 1 .. n : /\ line[2 * k + 1] = 563
                           /\ line[2 * k + 2] = IF bits[k] = 0 THEN -563 ELSE -1689
  <2>1. /\ Len(line) = 2 + 2 * n + 1
        /\ \A i \in 1 .. 2 : line[i] = <<9008, s>>[i]
        /\ \A k \in 1 .. n : /\ line[2 + 2 * k - 1] = PktInfo(p).bits[bits[k] + 1][1]
                             /\ line[2 + 2 * k] = PktInfo(p).bits[bits[k] + 1][2]
        /\ \A i \in 1 .. 1 : line[2 + 2 * n + i] = <<563>>[i]
    BY <1>3, <1>4 DEF HasShape
  <2>2. 2 + 2 * n + 1 = end /\ \A k \in 1 .. n : 2 + 2 * k - 1 = 2 * k + 1 /\ 2 + 2 * k = 2 * k + 2
    BY <1>1
  <2>3. ASSUME NEW k \in 1 .. n
        PROVE  /\ line[2 * k + 1] = 563
               /\ line[2 * k + 2] = IF bits[k] = 0 THEN -563 ELSE -1689
    <3>1. bits[k] = 0 \/ bits[k] = 1
      BY <1>1 DEF Bit
    <3>2. PktInfo(p).bits[0 + 1] = <<563, -563>> /\ PktInfo(p).bits[1 + 1] = <<563, -1689>>
      BY <1>3
    <3> HIDE DEF end
    <3>3. PktInfo(p).bits[bits[k] + 1] = IF bits[k] = 0 THEN <<563, -563>> ELSE <<563, -1689>>
      <4>1. CASE bits[k] = 0
        BY <3>2, <4>1
      <4>2. CASE bits[k] = 1
        <5>1. ~(bits[k] = 0)
          BY <4>2
        <5> QED
          BY <3>2, <4>2, <5>1
      <4> QED
        BY <3>1, <4>1, <4>2
    <3>4. /\ line[2 * k + 1] = PktInfo(p).bits[bits[k] + 1][1]
          /\ line[2 * k + 2] = PktInfo(p).bits[bits[k] + 1][2]
      BY <2>1, <2>2
    <3> QED
      BY <3>3, <3>4
  <2>4. line[1] = 9008 /\ line[2] = s /\ line[end] = 563
    <3> HIDE DEF end
    <3> QED
      BY <2>1, <2>2
  <2> HIDE DEF end
  <2> QED
    BY <2>1, <2>2, <2>3, <2>4
<1>6. \A i \in 1 .. end : Near(line[i], msg[i])
  <2> SUFFICES ASSUME NEW i \in 1 .. end PROVE Near(line[i], msg[i])
    OBVIOUS
  <2>1. i \in 1 .. Len(line) /\ i <= RX_SYMBOLS
    BY <1>1, <1>5 DEF RX_SYMBOLS
  <2> HIDE DEF end
  <2> QED
    BY <1>4, <2>1, RecordedNear
<1>7. msg[end + 1] \in Int /\ msg[end + 1] < -5348
  <2>1. Len(line) < RX_SYMBOLS /\ Len(line) = end
    BY <1>1, <1>5 DEF RX_SYMBOLS
  <2> HIDE DEF end
  <2> QED
    BY <1>4, <2>1, RecordedGap
<1> HIDE DEF msg
<1>8. MatchSymbols(PktInfo(p).preamble, msg, 1)
  <2>1. 1 \in 1 .. end /\ 2 \in 1 .. end
    BY <1>1
  <2>2. Near(9008, msg[1]) /\ Near(s, msg[2])
    <3> HIDE DEF end
    <3> QED
      BY <1>5, <1>6, <2>1
  <2>3. Matches(9008, msg[1])
    BY <2>2, NearMatches DEF Abs
  <2>4. Matches(s, msg[2])
    <3>1. s \in Int /\ Abs(s) >= 563
      BY DEF s, Abs
    <3> QED
      BY <2>2, <3>1, NearMatches
  <2>5. 1 \in 1 .. RX_SYMBOLS - 1 /\ 1 + 1 = 2
    BY DEF RX_SYMBOLS
  <2> QED
    BY <1>3, <2>3, <2>4, <2>5, MatchTwo
<1>9. MatchSymbols(PktInfo(p).postamble, msg, end)
  <2>1. end \in 1 .. end /\ end \in 1 .. RX_SYMBOLS
    BY <1>1 DEF RX_SYMBOLS
  <2> HIDE DEF end
  <2>2. Near(563, msg[end])
    BY <1>5, <1>6, <2>1
  <2>3. Matches(563, msg[end])
    BY <2>2, NearMatches DEF Abs
  <2> QED
    BY <1>3, <2>1, <2>3, MatchOne
<1>10. ReadsBits(p, msg, 3, bits)
  <2>1. ASSUME NEW k \in 1 .. n PROVE ReadAt(p, msg, 3 + 2 * (k - 1)) = bits[k]
    <3>1. /\ 3 + 2 * (k - 1) = 2 * k + 1
          /\ 2 * k + 1 \in 1 .. end /\ 2 * k + 2 \in 1 .. end
          /\ 2 * k + 1 \in 1 .. RX_SYMBOLS - 1 /\ (2 * k + 1) + 1 = 2 * k + 2
      BY <1>1 DEF RX_SYMBOLS
    <3> HIDE DEF end
    <3>2. Near(563, msg[2 * k + 1]) /\ Near(IF bits[k] = 0 THEN -563 ELSE -1689, msg[2 * k + 2])
      BY <1>5, <1>6, <3>1
    <3> DEFINE q == 2 * k + 1
    <3>3. q \in 1 .. RX_SYMBOLS - 1 /\ 3 + 2 * (k - 1) = q
          /\ Near(563, msg[q]) /\ Near(IF bits[k] = 0 THEN -563 ELSE -1689, msg[q + 1])
      BY <3>1, <3>2
    <3> HIDE DEF q
    <3> QED
      BY <1>1, <3>3, NECReads
  <2>2. ReadAt(p, msg, 3 + 2 * n) = -1
    <3>1. end \in 1 .. RX_SYMBOLS - 1
      BY <1>1 DEF RX_SYMBOLS
    <3>2. ReadAt(p, msg, end) = -1
      <4> HIDE DEF end
      <4> QED
        BY <1>7, <3>1, NECStops
    <3> QED
      BY <3>2
  <2> QED
    BY <2>1, <2>2 DEF ReadsBits, n
<1>11. HoldsPacket(p, msg, v, bits, 3, end)
  <2>1. 3 = 1 + Len(PktInfo(p).preamble) /\ Len(PktInfo(p).postamble) = 1
    BY <1>3
  <2>2. end < RX_SYMBOLS /\ end \in Nat
    BY <1>1 DEF RX_SYMBOLS
  <2>3. v >= end + 1
    <3>1. v = end + 1
      <4> HIDE DEF end
      <4> QED
        BY <1>5 DEF ValidLen
    <3> HIDE DEF v, end
    <3> QED
      BY <2>2, <3>1
  <2>4. end = 3 + 2 * Len(bits)
    BY DEF n
  <2> HIDE DEF end, v
  <2> QED
    BY <1>8, <1>9, <1>10, <2>1, <2>2, <2>3, <2>4 DEF HoldsPacket
<1>12. DecodePktDefault(p, msg, v) = Accepted(bits)
  <2>1. 3 \in Nat /\ end \in Nat
    BY <1>1
  <2> HIDE DEF end, v
  <2> QED
    BY <1>2, <1>11, <2>1, DefaultReads
<1>13. Decode(p, msg, v) = Accepted(bits)
  <2> HIDE DEF v
  <2> QED
    BY <1>2, <1>12 DEF Decode
<1> QED
  BY <1>13 DEF msg, line

\* The same for Sony frames, before DecodePkt_Sony() looks at their length.
LEMMA SonyFrame ==
  ASSUME NEW bits \in Seq(Bit), Len(bits) <= MSGBITS_MAX,
         NEW old \in Samples, NEW phase \in Nat
  PROVE  DecodePktDefault(SONY, Recorded(old, Packet(SONY, bits), phase),
                          ValidLen(Packet(SONY, bits))) = Accepted(bits)
<1> DEFINE line == Packet(SONY, bits)
           msg == Recorded(old, line, phase)
           n == Len(bits)
           v == ValidLen(line)
           end == 2 + 2 * n
<1>1. n \in 0 .. 32 /\ \A k \in 1 .. n : bits[k] \in Bit
  <2>1. n \in Nat /\ n <= MSGBITS_MAX /\ \A k \in 1 .. n : bits[k] \in Bit
    OBVIOUS
  <2> HIDE DEF n
  <2> QED
    BY <2>1 DEF MSGBITS_MAX
<1>2. SONY \in Range(Protocols) \ {RC5} /\ bits \in Seq(SymbolsOf(SONY))
  <2>1. SONY \in Range(Protocols) /\ SONY # RC5 /\ SONY # RCMM
    BY ProtocolsValue DEF Received, NEC, NEC_RPT, SONY, RCMM, RC5
  <2>2. Bit = 0 .. 1
    BY DEF Bit
  <2> QED
    BY <2>1, <2>2 DEF SymbolsOf
<1>3. /\ PktInfo(SONY).preamble = <<2400>>
      /\ PktInfo(SONY).postamble = <<>>
      /\ PktInfo(SONY).bits[1] = <<-600, 600>>
      /\ PktInfo(SONY).bits[2] = <<-600, 1200>>
  BY SonyInfo DEF SONY_UNIT
<1>4. line \in Seq(Int) /\ HasShape(line, SONY, bits, 1, n)
  <2>1. Len(PktInfo(SONY).preamble) = 1
    BY <1>3
  <2> QED
    BY <1>2, <2>1, PacketShape
<1> HIDE DEF line, n
<1>5. /\ Len(line) = end - 1
      /\ line[1] = 2400
      /\ \A k \in 1 .. n : /\ line[2 * k] = -600
                           /\ line[2 * k + 1] = IF bits[k] = 0 THEN 600 ELSE 1200
  <2>1. /\ Len(line) = 1 + 2 * n + 0
        /\ \A i \in 1 .. 1 : line[i] = <<2400>>[i]
        /\ \A k \in 1 .. n : /\ line[1 + 2 * k - 1] = PktInfo(SONY).bits[bits[k] + 1][1]
                             /\ line[1 + 2 * k] = PktInfo(SONY).bits[bits[k] + 1][2]
    <3>1. Len(PktInfo(SONY).postamble) = 0
      BY <1>3
    <3> QED
      BY <1>3, <1>4, <3>1 DEF HasShape
  <2>2. 1 + 2 * n + 0 = end - 1 /\ \A k \in 1 .. n : 1 + 2 * k - 1 = 2 * k /\ 1 + 2 * k = 2 * k + 1
    BY <1>1
  <2>3. ASSUME NEW k \in 1 .. n
        PROVE  /\ line[2 * k] = -600
               /\ line[2 * k + 1] = IF bits[k] = 0 THEN 600 ELSE 1200
    <3>1. bits[k] = 0 \/ bits[k] = 1
      BY <1>1 DEF Bit
    <3>2. PktInfo(SONY).bits[0 + 1] = <<-600, 600>> /\ PktInfo(SONY).bits[1 + 1] = <<-600, 1200>>
      BY <1>3
    <3> HIDE DEF end
    <3>3. PktInfo(SONY).bits[bits[k] + 1] = IF bits[k] = 0 THEN <<-600, 600>> ELSE <<-600, 1200>>
      <4>1. CASE bits[k] = 0
        BY <4>1, <3>2
      <4>2. CASE bits[k] = 1
        BY <4>2, <3>2
      <4> QED
        BY <3>1, <4>1, <4>2
    <3>4. /\ line[2 * k] = PktInfo(SONY).bits[bits[k] + 1][1]
          /\ line[2 * k + 1] = PktInfo(SONY).bits[bits[k] + 1][2]
      BY <2>1, <2>2
    <3> QED
      BY <3>3, <3>4
  <2> HIDE DEF end
  <2> QED
    BY <2>1, <2>2, <2>3
<1>6. \A i \in 1 .. end - 1 : Near(line[i], msg[i])
  <2> SUFFICES ASSUME NEW i \in 1 .. end - 1 PROVE Near(line[i], msg[i])
    OBVIOUS
  <2>1. i \in 1 .. Len(line) /\ i <= RX_SYMBOLS
    BY <1>1, <1>5 DEF RX_SYMBOLS
  <2> HIDE DEF end
  <2> QED
    BY <1>4, <2>1, RecordedNear
<1>7. msg[end] \in Int /\ msg[end] < -5348
  <2>1. Len(line) < RX_SYMBOLS /\ Len(line) + 1 = end
    BY <1>1, <1>5 DEF RX_SYMBOLS
  <2> HIDE DEF end
  <2> QED
    BY <1>4, <2>1, RecordedGap
<1> HIDE DEF msg
<1>8. MatchSymbols(PktInfo(SONY).preamble, msg, 1)
  <2>1. 1 \in 1 .. end - 1 /\ 1 \in 1 .. RX_SYMBOLS
    BY <1>1 DEF RX_SYMBOLS
  <2>2. Near(2400, msg[1])
    <3> HIDE DEF end
    <3> QED
      BY <1>5, <1>6, <2>1
  <2>3. Matches(2400, msg[1])
    BY <2>2, NearMatches DEF Abs
  <2> QED
    BY <1>3, <2>1, <2>3, MatchOne
<1>9. MatchSymbols(PktInfo(SONY).postamble, msg, end)
  BY <1>3, MatchNone
<1>10. ReadsBits(SONY, msg, 2, bits)
  <2>1. ASSUME NEW k \in 1 .. n PROVE ReadAt(SONY, msg, 2 + 2 * (k - 1)) = bits[k]
    <3>1. /\ 2 + 2 * (k - 1) = 2 * k
          /\ 2 * k \in 1 .. end - 1 /\ 2 * k + 1 \in 1 .. end - 1
          /\ 2 * k \in 1 .. RX_SYMBOLS - 1
      BY <1>1 DEF RX_SYMBOLS
    <3> HIDE DEF end
    <3>2. Near(-600, msg[2 * k]) /\ Near(IF bits[k] = 0 THEN 600 ELSE 1200, msg[2 * k + 1])
      BY <1>5, <1>6, <3>1
    <3> DEFINE q == 2 * k
    <3>3. q \in 1 .. RX_SYMBOLS - 1 /\ 2 + 2 * (k - 1) = q
          /\ Near(-600, msg[q]) /\ Near(IF bits[k] = 0 THEN 600 ELSE 1200, msg[q + 1])
      BY <3>1, <3>2
    <3> HIDE DEF q
    <3>4. bits[k] \in Bit
      BY <1>1
    <3>5. ReadAt(SONY, msg, q) = bits[k]
      BY <3>3, <3>4, SonyReads
    <3> QED
      BY <3>3, <3>5
  <2>2. ReadAt(SONY, msg, 2 + 2 * n) = -1
    <3>1. end \in 1 .. RX_SYMBOLS - 1
      BY <1>1 DEF RX_SYMBOLS
    <3>2. ReadAt(SONY, msg, end) = -1
      <4> HIDE DEF end
      <4> QED
        BY <1>7, <3>1, SonyStops
    <3> QED
      BY <3>2
  <2> QED
    BY <2>1, <2>2 DEF ReadsBits, n
<1>11. HoldsPacket(SONY, msg, v, bits, 2, end)
  <2>1. 2 = 1 + Len(PktInfo(SONY).preamble) /\ Len(PktInfo(SONY).postamble) = 0
    BY <1>3
  <2>2. end < RX_SYMBOLS /\ end \in Nat
    BY <1>1 DEF RX_SYMBOLS
  <2>3. v >= end + 0
    <3>1. v = end - 1 + 1
      <4> HIDE DEF end
      <4> QED
        BY <1>5 DEF ValidLen
    <3> HIDE DEF v, end
    <3> QED
      BY <2>2, <3>1
  <2>4. end = 2 + 2 * Len(bits)
    BY DEF n
  <2> HIDE DEF end, v
  <2> QED
    BY <1>8, <1>9, <1>10, <2>1, <2>2, <2>3, <2>4 DEF HoldsPacket
<1>12. DecodePktDefault(SONY, msg, v) = Accepted(bits)
  <2>1. 2 \in Nat /\ end \in Nat
    BY <1>1
  <2> HIDE DEF end, v
  <2> QED
    BY <1>2, <1>11, <2>1, DefaultReads
<1> QED
  BY <1>12 DEF msg, line, v

\* No decoder accepts what begins with the first mark of a RCMM frame.
LEMMA RCMMRejected ==
  ASSUME NEW msg \in Samples, NEW v, Near(420, msg[1]), NEW p \in Received
  PROVE  ~Decode(p, msg, v).ok
<1> SUFFICES ASSUME Decode(p, msg, v).ok PROVE FALSE
  OBVIOUS
<1>1. msg[1] \in Int /\ msg[1] < 525 /\ msg[1] > 315
  BY DEF Near
<1>2. CASE p \in {NEC, NEC_RPT}
  <2>1. msg[1] >= 7319
    BY <1>2, NECAccepts
  <2> QED
    BY <1>1, <2>1
<1>3. CASE p = SONY
  <2>1. msg[1] >= 1950
    BY <1>3, SonyAccepts
  <2> QED
    BY <1>1, <2>1
<1>4. CASE p = RC5
  <2>1. HalfBits(msg[1]) # 0
    BY <1>4, RC5Accepts
  <2>2. Abs(msg[1]) = msg[1]
    BY <1>1 DEF Abs
  <2> QED
    BY <1>1, <2>1, <2>2, HalfBitsValue
<1> QED
  BY <1>2, <1>3, <1>4 DEF Received

-----------------------------------------------------------------------------
(* The half-bits of RC5.                                                   *)

\* Nothing, flattened, is nothing.
LEMMA FlattenEmpty == FlattenSeq(<<>>) = <<>>
BY DEF FlattenSeq

\* FlattenSeq() appends the last sequence to the others flattened.
LEMMA FlattenLast ==
  ASSUME NEW S, NEW n \in Nat \ {0}, NEW seqs \in [1 .. n -> Seq(S)],
         NEW front \in [1 .. n - 1 -> Seq(S)], \A i \in 1 .. n - 1 : front[i] = seqs[i]
  PROVE  FlattenSeq(seqs) = FlattenSeq(front) \o seqs[n]
<1>1. PICK f \in [1 .. n -> Seq(S)] : FlattenSeq(seqs) = f[n] /\ Joins(f, n, seqs)
  BY FlattenPartial
<1>2. CASE n = 1
  <2>1. front = <<>>
    BY <1>2
  <2>2. FlattenSeq(front) = <<>>
    BY <2>1, FlattenEmpty
  <2>3. f[n] = seqs[1] /\ seqs[1] \in Seq(S)
    BY <1>1, <1>2 DEF Joins
  <2> QED
    BY <1>1, <1>2, <2>2, <2>3, ConcatEmptySeq
<1>3. CASE n # 1
  <2>1. n - 1 \in Nat /\ n - 1 # 0
    BY <1>3
  <2>2. PICK g \in [1 .. n - 1 -> Seq(S)] :
          FlattenSeq(front) = g[n - 1] /\ Joins(g, n - 1, front)
    BY <2>1, FlattenPartial
  <2> DEFINE T == {i \in 1 .. n - 1 : f[i] = g[i]}
  <2>3. 1 \in T
    <3>1. 1 \in 1 .. n - 1
      BY <2>1
    <3>2. f[1] = seqs[1] /\ g[1] = front[1]
      BY <1>1, <2>2 DEF Joins
    <3> QED
      BY <3>1, <3>2
  <2>4. ASSUME NEW i \in 1 .. n - 1, i # 1, i - 1 \in T PROVE i \in T
    <3>1. i \in 2 .. n /\ i \in 2 .. n - 1
      BY <2>1, <2>4
    <3>2. f[i] = f[i - 1] \o seqs[i] /\ g[i] = g[i - 1] \o front[i]
      BY <1>1, <2>2, <3>1 DEF Joins
    <3> QED
      BY <2>4, <3>2
  <2>5. n - 1 \in T
    <3>1. 1 \in Nat /\ n - 1 \in 1 .. n - 1
      BY <2>1
    <3> HIDE DEF T
    <3> QED
      BY <2>1, <2>3, <2>4, <3>1, IntervalInduction
  <2>6. f[n] = f[n - 1] \o seqs[n]
    <3>1. n \in 2 .. n
      BY <2>1
    <3> QED
      BY <1>1, <3>1 DEF Joins
  <2> QED
    BY <1>1, <2>2, <2>5, <2>6
<1> QED
  BY <1>2, <1>3

\* The half-bits of n runs are those of n - 1 runs and of the last.
LEMMA HalvesLast ==
  ASSUME NEW n \in Nat \ {0}, NEW msg, \A k \in 1 .. n : msg[k] \in Int
  PROVE  Halves(msg, n) = Halves(msg, n - 1) \o Piece(msg[n])
<1> DEFINE seqs == [k \in 1 .. n |-> Piece(msg[k])]
           front == [k \in 1 .. n - 1 |-> Piece(msg[k])]
<1>1. \A x \in Int : Piece(x) \in Seq(Bit)
  BY PieceType
<1>2. seqs \in [1 .. n -> Seq(Bit)] /\ front \in [1 .. n - 1 -> Seq(Bit)]
  BY <1>1
<1>3. \A k \in 1 .. n - 1 : front[k] = seqs[k]
  OBVIOUS
<1>4. seqs[n] = Piece(msg[n])
  OBVIOUS
<1> HIDE DEF seqs, front
<1>5. FlattenSeq(seqs) = FlattenSeq(front) \o seqs[n]
  BY <1>2, <1>3, FlattenLast
<1> QED
  BY <1>4, <1>5 DEF Halves, seqs, front

\* No runs have no half-bits.
LEMMA HalvesNone ==
  ASSUME NEW msg
  PROVE  Halves(msg, 0) = <<>>
<1>1. [k \in 1 .. 0 |-> Piece(msg[k])] = <<>>
  OBVIOUS
<1> QED
  BY <1>1, FlattenEmpty DEF Halves

\* The same runs have the same half-bits.
LEMMA HalvesSame ==
  ASSUME NEW n \in Nat, NEW a, NEW b, \A k \in 1 .. n : Piece(a[k]) = Piece(b[k])
  PROVE  Halves(a, n) = Halves(b, n)
<1>1. [k \in 1 .. n |-> Piece(a[k])] = [k \in 1 .. n |-> Piece(b[k])]
  OBVIOUS
<1> QED
  BY <1>1 DEF Halves

\* Every run that is one or two half-bits adds at least one.
LEMMA HalvesGrow ==
  ASSUME NEW n \in Nat, NEW m \in 0 .. n, NEW msg,
         \A k \in 1 .. n : msg[k] \in Int /\ HalfBits(msg[k]) # 0
  PROVE  Len(Halves(msg, m)) + (n - m) <= Len(Halves(msg, n))
<1> DEFINE size(k) == Len(Halves(msg, k))
           T == {i \in m .. n : size(m) + (i - m) <= size(i)}
<1>1. \A k \in 0 .. n : size(k) \in Nat
  <2> SUFFICES ASSUME NEW k \in 0 .. n PROVE size(k) \in Nat
    OBVIOUS
  <2>1. k \in Nat /\ \A j \in 1 .. k : msg[j] \in Int
    OBVIOUS
  <2>2. Halves(msg, k) \in Seq(Bit)
    BY <2>1, HalvesType
  <2> QED
    BY <2>2
<1>2. \A k \in 1 .. n : size(k) >= size(k - 1) + 1
  <2> SUFFICES ASSUME NEW k \in 1 .. n PROVE size(k) >= size(k - 1) + 1
    OBVIOUS
  <2>1. Halves(msg, k) = Halves(msg, k - 1) \o Piece(msg[k])
    <3>1. k \in Nat \ {0} /\ \A j \in 1 .. k : msg[j] \in Int
      OBVIOUS
    <3> QED
      BY <3>1, HalvesLast
  <2>2. Halves(msg, k - 1) \in Seq(Bit)
    <3>1. k - 1 \in Nat /\ \A j \in 1 .. k - 1 : msg[j] \in Int
      OBVIOUS
    <3> QED
      BY <3>1, HalvesType
  <2>3. Piece(msg[k]) \in Seq(Bit) /\ Len(Piece(msg[k])) = HalfBits(msg[k])
        /\ HalfBits(msg[k]) \in 1 .. 2
    <3>1. \A x \in Int : Piece(x) \in Seq(Bit) /\ Len(Piece(x)) = HalfBits(x)
                         /\ HalfBits(x) \in 0 .. 2
      BY PieceType
    <3>2. msg[k] \in Int /\ HalfBits(msg[k]) # 0
      OBVIOUS
    <3>3. /\ Piece(msg[k]) \in Seq(Bit) /\ Len(Piece(msg[k])) = HalfBits(msg[k])
          /\ HalfBits(msg[k]) \in 0 .. 2
      BY <3>1, <3>2, Zenon
    <3> QED
      BY <3>2, <3>3
  <2>4. Len(Halves(msg, k)) = Len(Halves(msg, k - 1)) + Len(Piece(msg[k]))
    BY <2>1, <2>2, <2>3, ConcatProperties
  <2> DEFINE a == Len(Halves(msg, k - 1))
  <2>5. a \in Nat
    BY <2>2
  <2> HIDE DEF a
  <2> QED
    BY <2>3, <2>4, <2>5 DEF a
<1> HIDE DEF size
<1>3. m <= n => m \in T
  BY <1>1
<1>4. ASSUME NEW i \in m .. n, i # m, i - 1 \in T PROVE i \in T
  <2>1. i \in 1 .. n /\ i - 1 \in 0 .. n /\ m \in 0 .. n /\ i \in 0 .. n
    BY <1>4
  <2>2. size(i) >= size(i - 1) + 1 /\ size(m) + ((i - 1) - m) <= size(i - 1)
        /\ size(i) \in Nat /\ size(i - 1) \in Nat /\ size(m) \in Nat
    BY <1>1, <1>2, <1>4, <2>1
  <2> QED
    BY <2>2
<1>5. n \in T
  <2>1. m \in Nat /\ n \in m .. n
    OBVIOUS
  <2> HIDE DEF T
  <2> QED
    BY <1>3, <1>4, <2>1, IntervalInduction
<1> QED
  BY <1>5 DEF size

\* A half-bit, and a run of one or two.
HalfLengths == {889, -889}
RunLengths == {889, -889, 1778, -1778}

\* A frame of RC5: fourteen pairs of half-bits that differ, the first silent.
IsRC5(line) ==
  /\ line \in Seq(Int)
  /\ Len(line) = 28
  /\ \A j \in 1 .. 28 : line[j] \in HalfLengths
  /\ \A i \in 1 .. 14 : (line[2 * i - 1] > 0) # (line[2 * i] > 0)
  /\ ~(line[1] > 0)

Level(x) == IF x > 0 THEN 1 ELSE 0

\* The levels from the second half-bit to the i-th.
Levels(line, i) == [j \in 1 .. i - 1 |-> Level(line[j + 1])]

\* r are the runs up to the i-th half-bit.
RunsTo(r, line, i) ==
  /\ r \in Seq(Int)
  /\ Len(r) # 0
  /\ Halves(r, Len(r)) = Levels(line, i)
  /\ \A k \in 1 .. Len(r) : r[k] \in RunLengths
  /\ r[1] > 0
  /\ (r[Len(r)] > 0) = (line[i] > 0)
  /\ i % 2 = 0 => r[Len(r)] = line[i]

\* The levels of a line up to a half-bit, the silent first one left out, are bits.
LEMMA LevelType ==
  ASSUME NEW line, NEW i \in Nat \ {0}
  PROVE  Levels(line, i) \in Seq(Bit) /\ Len(Levels(line, i)) = i - 1
<1>1. Levels(line, i) \in [1 .. i - 1 -> Bit] /\ i - 1 \in Nat
  BY DEF Levels, Level, Bit
<1> QED
  BY <1>1, FunctionIsSeq

\* One more half-bit of the line is one more level.
LEMMA LevelsNext ==
  ASSUME NEW line, NEW i \in Nat, i > 1
  PROVE  Levels(line, i) = Levels(line, i - 1) \o <<Level(line[i])>>
<1> DEFINE a == Levels(line, i - 1)
           b == <<Level(line[i])>>
<1>1. a \in Seq(Bit) /\ Len(a) = i - 2
  <2>1. i - 1 \in Nat \ {0} /\ (i - 1) - 1 = i - 2
    OBVIOUS
  <2> QED
    BY <2>1, LevelType
<1>2. b \in Seq(Bit) /\ Len(b) = 1 /\ b[1] = Level(line[i])
  BY DEF Level, Bit
<1>3. \A j \in 1 .. i - 2 : a[j] = Level(line[j + 1])
  BY DEF Levels
<1> HIDE DEF a, b
<1>4. /\ a \o b \in Seq(Bit) /\ Len(a \o b) = Len(a) + Len(b)
      /\ \A j \in 1 .. Len(a) + Len(b) :
           (a \o b)[j] = IF j <= Len(a) THEN a[j] ELSE b[j - Len(a)]
  BY <1>1, <1>2, ConcatProperties
<1> DEFINE c == a \o b
<1>5. c \in Seq(Bit) /\ Len(c) = i - 1
      /\ \A j \in 1 .. i - 1 : c[j] = IF j <= i - 2 THEN a[j] ELSE b[j - (i - 2)]
  BY <1>1, <1>2, <1>4
<1> HIDE DEF c
<1>6. \A j \in 1 .. i - 1 : c[j] = Level(line[j + 1])
  <2> SUFFICES ASSUME NEW j \in 1 .. i - 1 PROVE c[j] = Level(line[j + 1])
    OBVIOUS
  <2>1. j \in 1 .. i - 2 \/ j = i - 1
    OBVIOUS
  <2>2. CASE j \in 1 .. i - 2
    BY <2>2, <1>3, <1>5
  <2>3. CASE j = i - 1
    <3>1. ~(j <= i - 2) /\ j - (i - 2) = 1 /\ j + 1 = i
      BY <2>3
    <3> QED
      BY <3>1, <1>2, <1>5
  <2> QED
    BY <2>1, <2>2, <2>3
<1>7. c = Levels(line, i)
  <2>1. c \in [1 .. i - 1 -> Bit]
    <3>1. \A s \in Seq(Bit) : s \in [1 .. Len(s) -> Bit]
      OBVIOUS
    <3> QED
      BY <1>5, <3>1
  <2> QED
    BY <1>6, <2>1 DEF Levels
<1> QED
  BY <1>7 DEF c, a, b

\* One half-bit is a piece of one level, and two are two such pieces.
LEMMA PieceValue ==
  ASSUME NEW x \in HalfLengths
  PROVE  /\ Piece(x) = <<Level(x)>>
         /\ Piece(x + x) = Piece(x) \o Piece(x)
<1>1. HalfBits(x) = 1 /\ HalfBits(x + x) = 2
  BY DEF HalfLengths, HalfBits, Tolerance, Abs, RC5_UNIT
<1>2. Level(x + x) = Level(x)
  BY DEF HalfLengths, Level
<1>3. Piece(x) = [i \in 1 .. 1 |-> Level(x)]
  BY <1>1 DEF Piece, Level
<1>4. Piece(x + x) = [i \in 1 .. 2 |-> Level(x)]
  BY <1>1, <1>2 DEF Piece, Level
<1>5. Piece(x) = <<Level(x)>>
  BY <1>3
<1>6. <<Level(x)>> \o <<Level(x)>> = <<Level(x), Level(x)>>
  <2> DEFINE y == <<Level(x)>>
             z == y \o y
  <2>1. y \in Seq(Bit) /\ Len(y) = 1 /\ y[1] = Level(x)
    BY DEF Level, Bit
  <2> HIDE DEF y
  <2>2. /\ z \in Seq(Bit) /\ Len(z) = Len(y) + Len(y)
        /\ \A i \in 1 .. Len(y) + Len(y) :
             z[i] = IF i <= Len(y) THEN y[i] ELSE y[i - Len(y)]
    BY <2>1, ConcatProperties, Zenon
  <2> HIDE DEF z
  <2>3. z \in Seq(Bit) /\ Len(z) = 2 /\ z[1] = Level(x) /\ z[2] = Level(x)
    BY <2>1, <2>2
  <2>4. z = <<Level(x), Level(x)>>
    BY <2>3
  <2> QED
    BY <2>4 DEF z, y
<1>7. [i \in 1 .. 2 |-> Level(x)] = <<Level(x), Level(x)>>
  OBVIOUS
<1> QED
  BY <1>4, <1>5, <1>6, <1>7

\* The symbols of an RC5 frame are one half-bit long.
LEMMA RC5Symbols ==
  ASSUME NEW line, IsRC5(line), NEW j \in 1 .. 28
  PROVE  line[j] \in HalfLengths
BY Zenon DEF IsRC5

\* A half-bit more is joined to the runs.
LEMMA RunsNext ==
  ASSUME NEW line, IsRC5(line), NEW i \in 3 .. 28, NEW r, RunsTo(r, line, i - 1)
  PROVE  RunsTo(Joined(r, line[i]), line, i)
<1> DEFINE x == line[i]
           n == Len(r)
           j == Joined(r, x)
<1>1. /\ x \in HalfLengths /\ x \in Int
      /\ r \in Seq(Int) /\ n \in Nat \ {0}
      /\ \A k \in 1 .. n : r[k] \in RunLengths /\ r[k] \in Int
      /\ r[1] > 0 /\ r[n] \in Int
  <2>1. x \in HalfLengths /\ x \in Int
    <3>1. i \in 1 .. 28
      OBVIOUS
    <3>2. line[i] \in HalfLengths
      BY <3>1, RC5Symbols
    <3> QED
      BY <3>2 DEF HalfLengths
  <2>2. r \in Seq(Int) /\ n \in Nat \ {0} /\ r[1] > 0
        /\ \A k \in 1 .. n : r[k] \in RunLengths
    BY DEF RunsTo
  <2> HIDE DEF n, x
  <2>3. \A k \in 1 .. n : r[k] \in Int
    BY <2>2 DEF RunLengths
  <2> QED
    BY <2>1, <2>2, <2>3
<1>2. Halves(r, n) = Levels(line, i - 1) /\ (r[n] > 0) = (line[i - 1] > 0)
      /\ ((i - 1) % 2 = 0 => r[n] = line[i - 1])
  BY DEF RunsTo
<1>3. Piece(x) = <<Level(x)>> /\ Piece(x) \in Seq(Bit)
  <2> HIDE DEF x
  <2>1. Piece(x) = <<Level(x)>>
    BY <1>1, PieceValue
  <2>2. Piece(x) \in Seq(Bit)
    BY <1>1, PieceType
  <2> QED
    BY <2>1, <2>2
<1>4. i % 2 = 0 => (r[n] > 0) # (x > 0)
  <2> SUFFICES ASSUME i % 2 = 0 PROVE (r[n] > 0) # (x > 0)
    OBVIOUS
  <2> DEFINE h == i \div 2
  <2>1. h \in 1 .. 14 /\ 2 * h - 1 = i - 1 /\ 2 * h = i
    OBVIOUS
  <2> HIDE DEF h
  <2>2. (line[2 * h - 1] > 0) # (line[2 * h] > 0)
    BY <2>1 DEF IsRC5
  <2> HIDE DEF n
  <2> QED
    BY <1>2, <2>1, <2>2
<1>5. CASE (r[n] > 0) = (x > 0)
  <2>1. i % 2 = 1 /\ (i - 1) % 2 = 0
    <3>1. i % 2 # 0
      BY <1>4, <1>5
    <3> QED
      BY <3>1
  <2>2. r[n] = x
    <3>1. r[n] \in HalfLengths
      <4>1. r[n] = line[i - 1] /\ i - 1 \in 1 .. 28
        BY <1>2, <2>1
      <4>2. line[i - 1] \in HalfLengths
        BY <4>1, RC5Symbols
      <4> HIDE DEF n
      <4> QED
        BY <4>1, <4>2
    <3> HIDE DEF n
    <3> QED
      BY <1>1, <1>5, <3>1 DEF HalfLengths
  <2>3. j = [r EXCEPT ![n] = x + x]
    <3>1. Len(r) > 0 /\ (r[Len(r)] > 0) = (x > 0)
      BY <1>1, <1>5
    <3> HIDE DEF x
    <3> QED
      BY <2>2, <3>1 DEF Joined
  <2>4. /\ j \in Seq(Int) /\ Len(j) = n /\ j[n] = x + x
        /\ \A k \in 1 .. n - 1 : j[k] = r[k]
    <3>1. x + x \in Int /\ n \in 1 .. Len(r)
      BY <1>1
    <3>2. j \in Seq(Int) /\ Len(j) = Len(r)
          /\ \A k \in 1 .. Len(r) : j[k] = IF k = n THEN x + x ELSE r[k]
      <4> HIDE DEF x, j
      <4> QED
        BY <1>1, <2>3, <3>1, ExceptSeq
    <3> HIDE DEF x, j
    <3> QED
      BY <1>1, <3>1, <3>2
  <2> HIDE DEF j, n
  <2>5. Halves(j, n) = Halves(j, n - 1) \o Piece(x + x)
    <3>1. \A k \in 1 .. n : j[k] \in Int
      <4>1. \A k \in 1 .. Len(j) : j[k] \in Int
        BY <2>4
      <4> QED
        BY <2>4, <4>1
    <3>2. n \in Nat \ {0}
      BY <1>1
    <3>3. Halves(j, n) = Halves(j, n - 1) \o Piece(j[n])
      BY <3>1, <3>2, HalvesLast
    <3> QED
      BY <2>4, <3>3
  <2>6. Halves(r, n) = Halves(r, n - 1) \o Piece(x)
    <3>1. n \in Nat \ {0} /\ \A k \in 1 .. n : r[k] \in Int
      BY <1>1
    <3>2. Halves(r, n) = Halves(r, n - 1) \o Piece(r[n])
      BY <3>1, HalvesLast
    <3> QED
      BY <2>2, <3>2
  <2>7. Halves(j, n - 1) = Halves(r, n - 1)
    <3>1. n - 1 \in Nat /\ \A k \in 1 .. n - 1 : Piece(j[k]) = Piece(r[k])
      BY <1>1, <2>4
    <3> QED
      BY <3>1, HalvesSame
  <2>8. Halves(r, n - 1) \in Seq(Bit)
    <3>1. n - 1 \in Nat /\ \A k \in 1 .. n - 1 : r[k] \in Int
      BY <1>1
    <3> QED
      BY <3>1, HalvesType
  <2>9. Halves(j, n) = Levels(line, i)
    <3>1. Halves(j, n) = Halves(r, n - 1) \o (Piece(x) \o Piece(x))
      <4>1. Piece(x + x) = Piece(x) \o Piece(x)
        <5>1. \A y \in HalfLengths : Piece(y + y) = Piece(y) \o Piece(y)
          BY PieceValue
        <5>2. x \in HalfLengths
          BY <1>1
        <5> HIDE DEF x
        <5> QED
          BY <5>1, <5>2, Zenon
      <4> HIDE DEF x
      <4> QED
        BY <4>1, <2>5, <2>7
    <3>2. Halves(r, n - 1) \o (Piece(x) \o Piece(x)) = (Halves(r, n - 1) \o Piece(x)) \o Piece(x)
      BY <1>3, <2>8, ConcatAssociative
    <3>3. Halves(j, n) = Levels(line, i - 1) \o <<Level(x)>>
      BY <1>2, <1>3, <2>6, <3>1, <3>2
    <3>4. i \in Nat /\ i > 1
      OBVIOUS
    <3> QED
      BY <3>3, <3>4, LevelsNext
  <2>10. \A k \in 1 .. n : j[k] \in RunLengths
    <3> SUFFICES ASSUME NEW k \in 1 .. n PROVE j[k] \in RunLengths
      OBVIOUS
    <3> HIDE DEF x
    <3>1. CASE k = n
      <4>1. x + x \in RunLengths
        BY <1>1 DEF HalfLengths, RunLengths
      <4> QED
        BY <2>4, <3>1, <4>1
    <3>2. CASE k # n
      <4>1. k \in 1 .. n - 1
        BY <1>1, <3>2
      <4>2. j[k] = r[k]
        BY <2>4, <4>1
      <4> QED
        BY <1>1, <4>2
    <3> QED
      BY <3>1, <3>2
  <2>11. j[1] > 0 /\ (j[n] > 0) = (x > 0)
    <3>1. (j[n] > 0) = (x > 0)
      BY <1>1, <2>4 DEF HalfLengths
    <3>2. CASE n = 1
      BY <1>1, <1>5, <3>1, <3>2
    <3>3. CASE n # 1
      <4>1. 1 \in 1 .. n - 1
        BY <1>1, <3>3
      <4> QED
        BY <1>1, <2>4, <3>1, <4>1
    <3> QED
      BY <3>1, <3>2, <3>3
  <2>12. i % 2 # 0
    BY <2>1
  <2> QED
    BY <1>1, <2>4, <2>9, <2>10, <2>11, <2>12 DEF RunsTo, j
<1>6. CASE ~((r[n] > 0) = (x > 0))
  <2>1. j = Append(r, x)
    BY <1>6 DEF Joined
  <2>2. /\ j \in Seq(Int) /\ Len(j) = n + 1 /\ j[n + 1] = x
        /\ \A k \in 1 .. n : j[k] = r[k]
    <3> HIDE DEF j
    <3> QED
      BY <1>1, <2>1, AppendProperties
  <2> HIDE DEF j, n
  <2>3. Halves(j, n + 1) = Halves(j, n) \o Piece(x)
    <3>1. \A k \in 1 .. n + 1 : j[k] \in Int
      <4> SUFFICES ASSUME NEW k \in 1 .. n + 1 PROVE j[k] \in Int
        OBVIOUS
      <4>1. k = n + 1 \/ k \in 1 .. n
        BY <1>1
      <4>2. x \in Int /\ \A l \in 1 .. n : r[l] \in Int
        BY <1>1
      <4> HIDE DEF x
      <4> QED
        BY <2>2, <4>1, <4>2
    <3>2. n + 1 \in Nat \ {0} /\ (n + 1) - 1 = n
      BY <1>1
    <3>3. Halves(j, n + 1) = Halves(j, (n + 1) - 1) \o Piece(j[n + 1])
      BY <3>1, <3>2, HalvesLast
    <3> QED
      BY <2>2, <3>2, <3>3 DEF HalfLengths, RunLengths
  <2>4. Halves(j, n) = Halves(r, n)
    <3>1. n \in Nat /\ \A k \in 1 .. n : Piece(j[k]) = Piece(r[k])
      BY <1>1, <2>2
    <3> QED
      BY <3>1, HalvesSame
  <2>5. Halves(j, n + 1) = Levels(line, i)
    <3>1. i \in Nat /\ i > 1
      OBVIOUS
    <3> QED
      BY <1>2, <1>3, <2>3, <2>4, <3>1, LevelsNext
  <2>6. \A k \in 1 .. n + 1 : j[k] \in RunLengths
    <3> SUFFICES ASSUME NEW k \in 1 .. n + 1 PROVE j[k] \in RunLengths
      OBVIOUS
    <3>1. k = n + 1 \/ k \in 1 .. n
      BY <1>1
    <3>2. x \in HalfLengths /\ \A l \in 1 .. n : r[l] \in RunLengths
      BY <1>1
    <3> HIDE DEF x
    <3>3. CASE k = n + 1
      BY <2>2, <3>2, <3>3 DEF HalfLengths, RunLengths
    <3>4. CASE k \in 1 .. n
      BY <2>2, <3>2, <3>4
    <3> QED
      BY <3>1, <3>3, <3>4
  <2>7. j[1] > 0 /\ n + 1 # 0
    <3>1. 1 \in 1 .. n
      BY <1>1
    <3> QED
      BY <1>1, <2>2, <3>1
  <2> QED
    BY <2>2, <2>5, <2>6, <2>7 DEF RunsTo, j
<1> QED
  BY <1>5, <1>6

\* The last half-bit that is a mark.
LastMark(line) == IF line[28] > 0 THEN 28 ELSE 27

\* The first mark of an RC5 frame is its second symbol, the last one of its last two.
LEMMA RC5Ends ==
  ASSUME NEW line, IsRC5(line)
  PROVE  line[2] = 889 /\ line[LastMark(line)] > 0
<1>1. (line[1] > 0) # (line[2] > 0)
  <2>1. 1 \in 1 .. 14 /\ 2 * 1 - 1 = 1 /\ 2 * 1 = 2
    OBVIOUS
  <2> QED
    BY <2>1 DEF IsRC5
<1>2. (line[27] > 0) # (line[28] > 0)
  <2>1. 14 \in 1 .. 14 /\ 2 * 14 - 1 = 27 /\ 2 * 14 = 28
    OBVIOUS
  <2> QED
    BY <2>1 DEF IsRC5
<1>3. ~(line[1] > 0)
  BY DEF IsRC5
<1>4. line[2] \in HalfLengths
  BY RC5Symbols
<1>5. line[2] = 889
  BY <1>1, <1>3, <1>4 DEF HalfLengths
<1>6. line[LastMark(line)] > 0
  BY <1>2 DEF LastMark
<1> QED
  BY <1>5, <1>6

\* The half-bits of the runs of an RC5 frame are its levels, from the first mark
\* to the last.
LEMMA RC5Runs ==
  ASSUME NEW line, IsRC5(line)
  PROVE  RunsTo(Runs(line), line, LastMark(line))
<1> DEFINE marks == {i \in 1 .. Len(line) : line[i] > 0}
           e == LastMark(line)
<1>1. line \in Seq(Int) /\ Len(line) = 28 /\ ~(line[1] > 0)
  BY DEF IsRC5
<1>2. line[e] > 0 /\ line[2] = 889
  BY RC5Ends DEF LastMark
<1>a. e \in Int /\ (e = 27 \/ e = 28)
  BY DEF LastMark
<1>b. line[2] = 889
  BY <1>2
<1>3. \A i \in marks : 2 <= i /\ e >= i
  <2> SUFFICES ASSUME NEW i \in marks PROVE 2 <= i /\ e >= i
    OBVIOUS
  <2>1. i \in 1 .. 28 /\ line[i] > 0
    BY <1>1
  <2>2. i # 1
    BY <1>1, <2>1
  <2>3. i = 28 => e = 28
    BY <2>1 DEF LastMark
  <2> HIDE DEF e, marks
  <2> QED
    BY <1>a, <2>1, <2>2, <2>3
<1>4. Heard(line) = 2 .. e
  <2>1. 2 \in marks /\ e \in marks
    BY <1>1, <1>2, <1>a
  <2>2. marks \subseteq Int
    OBVIOUS
  <2> HIDE DEF marks, e
  <2>3. Min(marks) = 2 /\ Max(marks) = e
    BY <1>3, <2>1, <2>2, MinIs, MaxIs
  <2> QED
    BY <2>3 DEF Heard, marks
<1>5. marks # {}
  BY <1>1, <1>2
<1>6. PICK f \in [0 .. 28 -> Seq(Int)] : Runs(line) = f[28] /\ Hears(f, line)
  <2>1. PICK f \in [0 .. Len(line) -> Seq(Int)] :
          /\ Runs(line) = IF marks = {} THEN <<>> ELSE f[Len(line)]
          /\ Hears(f, line)
    BY <1>1, RunsPartial
  <2> HIDE DEF marks
  <2> QED
    BY <1>1, <1>5, <2>1
<1>7. /\ f[0] = <<>>
      /\ \A i \in 1 .. 28 :
           f[i] = IF i \notin 2 .. e THEN f[i - 1] ELSE Joined(f[i - 1], line[i])
  <2> HIDE DEF e
  <2> QED
    BY <1>1, <1>4, <1>6 DEF Hears
<1> HIDE DEF e, marks
<1>8. RunsTo(f[2], line, 2)
  <2>1. f[1] = <<>>
    <3>1. 1 \in 1 .. 28 /\ 1 \notin 2 .. e /\ 1 - 1 = 0
      BY <1>a
    <3> QED
      BY <1>7, <3>1
  <2>2. f[2] = Joined(<<>>, line[2])
    <3>1. 2 \in 1 .. 28 /\ 2 \in 2 .. e /\ 2 - 1 = 1
      BY <1>a
    <3>2. f[2] = Joined(f[2 - 1], line[2])
      BY <1>7, <3>1
    <3>3. f[2 - 1] = <<>>
      BY <2>1, <3>1
    <3> QED
      BY <3>2, <3>3, Zenon
  <2>3. f[2] = <<889>>
    <3>1. Append(<<>>, 889) = <<889>> /\ ~(Len(<<>>) > 0)
      OBVIOUS
    <3>2. f[2] = Append(<<>>, line[2])
      BY <2>2, <3>1 DEF Joined
    <3> QED
      BY <1>b, <3>1, <3>2
  <2> DEFINE r == <<889>>
  <2>4. r \in Seq(Int) /\ Len(r) = 1 /\ r[1] = 889
    OBVIOUS
  <2> HIDE DEF r
  <2>5. Halves(r, 1) = Levels(line, 2)
    <3>1. 1 \in Nat \ {0} /\ \A k \in 1 .. 1 : r[k] \in Int
      <4>1. \A k \in 1 .. 1 : k = 1
        OBVIOUS
      <4>2. r[1] \in Int /\ 1 \in Nat \ {0}
        BY <2>4
      <4> QED
        BY <4>1, <4>2, Zenon
    <3>2. Halves(r, 1) = Halves(r, 1 - 1) \o Piece(r[1])
      BY <3>1, HalvesLast
    <3>3. Halves(r, 1 - 1) = <<>>
      BY HalvesNone
    <3>4. Piece(889) = <<1>>
      <4>1. 889 \in HalfLengths /\ Level(889) = 1
        BY DEF HalfLengths, Level
      <4> QED
        BY <4>1, PieceValue
    <3>5. <<>> \o <<1>> = <<1>>
      OBVIOUS
    <3>6. Levels(line, 2) = <<1>>
      <4>0. line[2] = 889 /\ 2 - 1 = 1
        BY <1>b
      <4>1. Levels(line, 2) = [j \in 1 .. 1 |-> 1]
        <5>1. \A j \in 1 .. 1 : j + 1 = 2
          OBVIOUS
        <5>2. Levels(line, 2) = [j \in 1 .. 2 - 1 |-> Level(line[j + 1])]
          BY DEF Levels
        <5>3. ASSUME NEW j \in 1 .. 1 PROVE Level(line[j + 1]) = 1
          <6>1. j + 1 = 2
            BY <5>1
          <6>2. Level(line[2]) = 1
            BY <4>0 DEF Level
          <6> QED
            BY <6>1, <6>2
        <5> QED
          BY <4>0, <5>2, <5>3
      <4> QED
        BY <4>1
    <3>7. r[1] = 889
      BY <2>4
    <3>8. Piece(r[1]) = <<1>>
      BY <3>4, <3>7
    <3>9. Halves(r, 1) = <<>> \o <<1>>
      BY <3>2, <3>3, <3>8
    <3> QED
      BY <3>5, <3>6, <3>9
  <2> QED
    BY <1>b, <2>3, <2>4, <2>5 DEF RunsTo, RunLengths, r
<1>d. e \in Nat /\ 2 <= e /\ e <= 28
  <2>1. CASE e = 27
    BY <2>1
  <2>2. CASE e = 28
    BY <2>2
  <2> QED
    BY <1>a, <2>1, <2>2
<1>c. \A i \in 2 .. e : i \in 2 .. 28
  BY <1>d
<1> DEFINE T == {i \in 2 .. e : RunsTo(f[i], line, i)}
<1>9. 2 <= e => 2 \in T
  BY <1>a, <1>8
<1> HIDE DEF T
<1>10. ASSUME NEW i \in 2 .. e, i # 2, i - 1 \in T PROVE i \in T
  <2>0. i # 2
    BY <1>10
  <2>a. i \in 2 .. 28
    BY <1>c
  <2>1. i \in 3 .. 28 /\ i \in 1 .. 28
    BY <2>0, <2>a
  <2>2. f[i] = Joined(f[i - 1], line[i])
    BY <1>7, <2>1
  <2>3. RunsTo(f[i - 1], line, i - 1)
    BY <1>10 DEF T
  <2>4. RunsTo(f[i], line, i)
    BY <2>1, <2>2, <2>3, RunsNext
  <2> QED
    BY <2>4 DEF T
<1>11. e \in T
  <2>1. 2 \in Nat /\ e \in Nat /\ e \in 2 .. e
    BY <1>d
  <2> QED
    BY <1>9, <1>10, <2>1, IntervalInduction
<1>12. f[28] = f[e]
  <2>1. e = 27 => f[28] = f[27]
    <3> SUFFICES ASSUME e = 27 PROVE f[28] = f[27]
      OBVIOUS
    <3>1. 28 \in 1 .. 28 /\ 28 \notin 2 .. e /\ 28 - 1 = 27
      OBVIOUS
    <3> QED
      BY <1>7, <3>1
  <2> QED
    BY <1>a, <2>1
<1> QED
  BY <1>6, <1>11, <1>12 DEF e, T

\* What is recorded of a run has as many half-bits, of the same level.
LEMMA PieceRecorded ==
  ASSUME NEW x \in RunLengths, NEW r, Near(x, r)
  PROVE  r \in Int /\ Piece(r) = Piece(x) /\ HalfBits(r) # 0 /\ HalfBits(x) # 0 /\ r > -5348
<1>1. r \in Int /\ x - 105 < r /\ r < x + 105
  BY DEF Near
<1>2. x \in Int /\ (x = 889 \/ x = -889 \/ x = 1778 \/ x = -1778)
  BY DEF RunLengths
<1>3. HalfBits(r) = HalfBits(x) /\ HalfBits(x) \in {1, 2}
  BY <1>1, <1>2 DEF HalfBits, Tolerance, Abs, RC5_UNIT
<1>4. (r > 0) = (x > 0) /\ r > -5348
  BY <1>1, <1>2
<1>5. Piece(r) = Piece(x)
  BY <1>3, <1>4 DEF Piece
<1> QED
  BY <1>1, <1>3, <1>4, <1>5

\* A frame has at most 27 runs.
LEMMA RunsFew ==
  ASSUME NEW r, NEW line, NEW i \in 1 .. 28, RunsTo(r, line, i)
  PROVE  r \in Seq(Int) /\ Len(r) \in 1 .. 27 /\ \A k \in 1 .. Len(r) : r[k] \in RunLengths
<1> DEFINE n == Len(r)
<1>1. /\ r \in Seq(Int) /\ n # 0 /\ \A k \in 1 .. n : r[k] \in RunLengths
      /\ Halves(r, n) = Levels(line, i)
  BY DEF RunsTo
<1>2. n \in Nat
  BY <1>1
<1> HIDE DEF n
<1>3. \A k \in 1 .. n : r[k] \in Int /\ HalfBits(r[k]) # 0
  <2>1. \A x \in RunLengths : x \in Int /\ HalfBits(x) # 0
    BY DEF RunLengths, HalfBits, Tolerance, Abs, RC5_UNIT
  <2> QED
    BY <1>1, <2>1
<1>4. Len(Halves(r, 0)) + (n - 0) <= Len(Halves(r, n))
  <2>1. 0 \in 0 .. n
    BY <1>2
  <2> QED
    BY <1>2, <1>3, <2>1, HalvesGrow
<1>5. Len(Halves(r, 0)) = 0
  BY HalvesNone
<1>6. Len(Halves(r, n)) = i - 1
  BY <1>1, LevelType
<1>7. n \in 1 .. 27
  <2> DEFINE a == Len(Halves(r, 0))
             b == Len(Halves(r, n))
  <2>1. a + (n - 0) <= b /\ a = 0 /\ b = i - 1 /\ n # 0
    BY <1>1, <1>4, <1>5, <1>6
  <2> HIDE DEF a, b
  <2> QED
    BY <1>2, <2>1
<1> QED
  BY <1>1, <1>7 DEF n

\* GetBitSeq() reads a recorded frame up to the gap.
LEMMA RC5BitSeq ==
  ASSUME NEW line, IsRC5(line), NEW old \in Samples, NEW phase \in Nat
  PROVE  LET msg == Recorded(old, Runs(line), phase)
         IN  /\ GetBitSeq(msg).pos = ValidLen(Runs(line))
             /\ GetBitSeq(msg).levels = Levels(line, LastMark(line))
             /\ msg[GetBitSeq(msg).pos] <= -SIGFREE_MIN
<1> DEFINE runs == Runs(line)
           n == Len(runs)
           msg == Recorded(old, runs, phase)
           pos == GetBitSeq(msg).pos
<1>1. RunsTo(runs, line, LastMark(line))
  BY RC5Runs
<1>2. runs \in Seq(Int) /\ n \in 1 .. 27 /\ \A k \in 1 .. n : runs[k] \in RunLengths
  <2>1. LastMark(line) \in 1 .. 28
    BY DEF LastMark
  <2> QED
    BY <1>1, <2>1, RunsFew
<1> HIDE DEF runs
<1>3. msg \in Samples
  BY <1>2, RecordedType DEF Samples
<1>4. ASSUME NEW k \in 1 .. n
      PROVE  /\ msg[k] \in Int /\ Piece(msg[k]) = Piece(runs[k])
             /\ HalfBits(msg[k]) # 0 /\ msg[k] > -5348
  <2>0. n \in 1 .. 27 /\ k \in 1 .. n
    BY <1>2
  <2>1. k <= RX_SYMBOLS /\ k \in 1 .. Len(runs)
    <3> HIDE DEF n
    <3>1. k <= RX_SYMBOLS
      BY <2>0 DEF RX_SYMBOLS
    <3> QED
      BY <2>0, <3>1 DEF n
  <2>2. Near(runs[k], msg[k])
    BY <1>2, <2>1, RecordedNear
  <2>3. runs[k] \in RunLengths
    BY <1>2
  <2> HIDE DEF msg
  <2> QED
    BY <2>2, <2>3, PieceRecorded
<1>5. msg[n + 1] \in Int /\ msg[n + 1] < -SIGFREE_MIN
  <2>0. n \in 1 .. 27
    BY <1>2
  <2>1. n < RX_SYMBOLS
    <3> HIDE DEF n
    <3> QED
      BY <2>0 DEF RX_SYMBOLS
  <2> QED
    BY <1>2, <2>1, RecordedGap
<1>6. SIGFREE_MIN \in Nat /\ SIGFREE_MIN > 5348
  BY CodecAssumption, SamplingAssumption DEF Tolerance, Abs, NEC_UNIT
<1> HIDE DEF msg
<1>7. /\ pos \in 1 .. RX_SYMBOLS
      /\ GetBitSeq(msg).levels = Halves(msg, pos - 1)
      /\ \A k \in 1 .. pos - 1 : HalfBits(msg[k]) # 0 /\ msg[k] > -SIGFREE_MIN
      /\ pos = RX_SYMBOLS \/ msg[pos] <= -SIGFREE_MIN \/ HalfBits(msg[pos]) = 0
  BY <1>3, BitSeqValue
<1> HIDE DEF pos, n
<1>8. pos = n + 1
  <2>1. ~(pos > n + 1)
    <3> SUFFICES ASSUME pos > n + 1 PROVE FALSE
      OBVIOUS
    <3>1. n + 1 \in 1 .. pos - 1
      BY <1>2, <1>7 DEF RX_SYMBOLS
    <3>2. msg[n + 1] > -SIGFREE_MIN
      BY <1>7, <3>1
    <3> QED
      BY <1>5, <1>6, <3>2
  <2>2. ~(pos < n + 1)
    <3> SUFFICES ASSUME pos < n + 1 PROVE FALSE
      OBVIOUS
    <3>1. pos \in 1 .. n /\ pos # RX_SYMBOLS
      BY <1>2, <1>7 DEF RX_SYMBOLS
    <3>2. HalfBits(msg[pos]) # 0 /\ msg[pos] \in Int /\ msg[pos] > -5348
      BY <1>4, <3>1
    <3>3. msg[pos] <= -SIGFREE_MIN
      BY <1>7, <3>1, <3>2
    <3> QED
      BY <1>6, <3>2, <3>3
  <2>3. pos \in Int /\ n \in Int
    BY <1>2, <1>7
  <2> QED
    BY <2>1, <2>2, <2>3
<1>9. GetBitSeq(msg).levels = Levels(line, LastMark(line))
  <2>1. pos - 1 = n /\ n \in Nat
    BY <1>2, <1>8
  <2>2. Halves(msg, n) = Halves(runs, n)
    BY <1>4, <2>1, HalvesSame
  <2>3. Halves(runs, n) = Levels(line, LastMark(line))
    BY <1>1 DEF RunsTo, n
  <2> QED
    BY <1>7, <2>1, <2>2, <2>3
<1>10. ValidLen(runs) = n + 1 /\ msg[pos] <= -SIGFREE_MIN
  <2>1. ValidLen(runs) = n + 1
    BY DEF ValidLen, n
  <2>2. msg[n + 1] <= -SIGFREE_MIN
    BY <1>5, <1>6
  <2> QED
    BY <1>8, <2>1, <2>2
<1> QED
  BY <1>8, <1>9, <1>10 DEF pos, msg, runs

\* The half-bits of a frame, with those that its ends add.
LEMMA RC5Padded ==
  ASSUME NEW line, IsRC5(line)
  PROVE  LET padded == Padded(Levels(line, LastMark(line)))
         IN  Len(padded) = 28 /\ \A i \in 1 .. 28 : padded[i] = Level(line[i])
<1> DEFINE e == LastMark(line)
           levels == Levels(line, e)
           padded == Padded(levels)
<1>1. e \in Nat \ {0} /\ (e = 27 \/ e = 28)
  BY DEF LastMark
<1>2. levels \in Seq(Bit) /\ Len(levels) = e - 1
  <2> HIDE DEF e
  <2> QED
    BY <1>1, LevelType
<1>3. \A j \in 1 .. e - 1 : levels[j] = Level(line[j + 1])
  BY DEF Levels
<1>4. e = 27 => Level(line[28]) = 0
  BY DEF LastMark, Level
<1>5. Level(line[1]) = 0
  BY DEF IsRC5, Level
<1> HIDE DEF e, levels
<1>6. /\ Len(padded) = Len(levels) + (IF Len(levels) % 2 = 0 THEN 2 ELSE 1)
      /\ \A i \in 1 .. Len(padded) :
           padded[i] = IF i \in 2 .. Len(levels) + 1 THEN levels[i - 1] ELSE 0
  BY <1>2, PaddedValue
<1> HIDE DEF padded
<1>7. Len(padded) = 28
  <2>1. CASE e = 27
    BY <1>2, <1>6, <2>1
  <2>2. CASE e = 28
    BY <1>2, <1>6, <2>2
  <2> QED
    BY <1>1, <2>1, <2>2
<1>8. ASSUME NEW i \in 1 .. 28 PROVE padded[i] = Level(line[i])
  <2>1. padded[i] = IF i \in 2 .. e THEN levels[i - 1] ELSE 0
    <3>1. Len(levels) + 1 = e
      BY <1>1, <1>2
    <3> QED
      BY <1>6, <1>7, <3>1
  <2>2. CASE i = 1
    <3>1. i \notin 2 .. e
      BY <2>2
    <3> QED
      BY <1>5, <2>1, <2>2, <3>1
  <2>3. CASE i = 28 /\ e = 27
    <3>1. i \notin 2 .. e
      BY <2>3
    <3> QED
      BY <1>4, <2>1, <2>3, <3>1
  <2>4. CASE i # 1 /\ ~(i = 28 /\ e = 27)
    <3>1. i \in 2 .. e /\ i - 1 \in 1 .. e - 1 /\ (i - 1) + 1 = i
      <4>1. CASE e = 27
        BY <2>4, <4>1
      <4>2. CASE e = 28
        BY <2>4, <4>2
      <4> QED
        BY <1>1, <4>1, <4>2
    <3>2. levels[i - 1] = Level(line[(i - 1) + 1])
      BY <1>3, <3>1
    <3> QED
      BY <2>1, <3>1, <3>2
  <2> QED
    BY <2>2, <2>3, <2>4
<1> QED
  BY <1>7, <1>8 DEF padded, levels, e

\* What is recorded of an RC5 frame is read as its bits.
LEMMA RC5Frame ==
  ASSUME NEW line, IsRC5(line), NEW old \in Samples, NEW phase \in Nat
  PROVE  Decode(RC5, Recorded(old, Runs(line), phase), ValidLen(Runs(line)))
           = Accepted([i \in 1 .. 14 |-> Level(line[2 * i])])
<1> DEFINE msg == Recorded(old, Runs(line), phase)
           v == ValidLen(Runs(line))
           pos == GetBitSeq(msg).pos
           padded == Padded(GetBitSeq(msg).levels)
           n == Len(padded) \div 2
<1>1. Decode(RC5, msg, v) = DecodePktRC5(RC5, msg, v)
  BY DEF Decode, SONY, RC5
<1>2. DecodePktRC5(RC5, msg, v) =
        IF /\ v >= pos
           /\ msg[pos] <= -SIGFREE_MIN
           /\ Len(padded) <= MSGBITS_MAX
           /\ \A i \in 1 .. n : padded[2 * i - 1] # padded[2 * i]
           /\ n = 14
        THEN Accepted([i \in 1 .. n |-> padded[2 * i]])
        ELSE Rejected
  BY DEF DecodePktRC5, Padded
<1>3. /\ pos = v
      /\ GetBitSeq(msg).levels = Levels(line, LastMark(line))
      /\ msg[pos] <= -SIGFREE_MIN
  BY RC5BitSeq
<1>4. v >= pos
  <2>1. Runs(line) \in Seq(Int)
    BY RunsType DEF IsRC5
  <2>2. v \in Nat
    BY <2>1 DEF ValidLen
  <2> HIDE DEF v, pos
  <2> QED
    BY <1>3, <2>2
<1>5. Len(padded) = 28 /\ \A i \in 1 .. 28 : padded[i] = Level(line[i])
  BY <1>3, RC5Padded
<1> HIDE DEF padded, msg, v, pos
<1>6. n = 14 /\ Len(padded) <= MSGBITS_MAX
  BY <1>5 DEF MSGBITS_MAX
<1>7. ASSUME NEW i \in 1 .. 14
      PROVE  padded[2 * i] = Level(line[2 * i]) /\ padded[2 * i - 1] # padded[2 * i]
  <2>1. 2 * i \in 1 .. 28 /\ 2 * i - 1 \in 1 .. 28
    OBVIOUS
  <2>2. padded[2 * i] = Level(line[2 * i]) /\ padded[2 * i - 1] = Level(line[2 * i - 1])
    BY <1>5, <2>1
  <2>3. (line[2 * i - 1] > 0) # (line[2 * i] > 0)
    BY DEF IsRC5
  <2>4. Level(line[2 * i - 1]) # Level(line[2 * i])
    BY <2>3 DEF Level
  <2> QED
    BY <2>2, <2>4
<1> HIDE DEF n
<1>8. [i \in 1 .. n |-> padded[2 * i]] = [i \in 1 .. 14 |-> Level(line[2 * i])]
  BY <1>6, <1>7
<1> QED
  BY <1>1, <1>2, <1>3, <1>4, <1>6, <1>7, <1>8 DEF msg, v

-----------------------------------------------------------------------------
(* A line that begins like RCMM is heard to begin so, whatever follows.    *)

Begins(line) ==
  line \in Seq(Int) /\ Len(line) >= 2 /\ line[1] = 420 /\ line[2] = -280

\* A set of indices that is not empty has a maximum.
LEMMA MaxExists ==
  ASSUME NEW n \in Nat, NEW S, S \subseteq 1 .. n, S # {}
  PROVE  Max(S) \in S
<1> DEFINE D == {k \in Nat : n - k \in S}
           d == Min(D)
<1>1. D \in SUBSET Nat /\ D # {}
  <2>1. PICK x \in S : TRUE
    OBVIOUS
  <2>2. x \in 1 .. n
    OBVIOUS
  <2>3. n - x \in Nat /\ n - (n - x) = x
    BY <2>2
  <2> QED
    BY <2>3
<1>2. d \in D /\ \A y \in D : d <= y
  <2> HIDE DEF D
  <2> QED
    BY <1>1, NatMin
<1> HIDE DEF d
<1>3. d \in Nat /\ n - d \in S
  BY <1>2
<1>4. ASSUME NEW y \in S PROVE n - d >= y
  <2>1. y \in 1 .. n
    OBVIOUS
  <2>2. n - y \in Nat /\ n - (n - y) = y
    BY <2>1
  <2>3. n - y \in D
    BY <2>2
  <2>4. d <= n - y
    BY <1>2, <2>3
  <2> QED
    BY <1>3, <2>1, <2>4
<1>5. S \subseteq Int
  OBVIOUS
<1>6. Max(S) = n - d
  BY <1>3, <1>4, <1>5, MaxIs
<1> QED
  BY <1>3, <1>6

\* What is joined to two runs or more leaves the first as it is.
LEMMA JoinedKeeps ==
  ASSUME NEW before \in Seq(Int), NEW x \in Int, Len(before) >= 1,
         Len(before) >= 2 \/ (before[1] > 0 /\ ~(x > 0))
  PROVE  /\ Len(Joined(before, x)) >= 2
         /\ Joined(before, x)[1] = before[1]
<1> DEFINE n == Len(before)
           j == Joined(before, x)
<1>1. n \in Nat /\ n >= 1 /\ (n >= 2 \/ (before[1] > 0 /\ ~(x > 0)))
  OBVIOUS
<1>2. CASE n > 0 /\ (before[n] > 0) = (x > 0)
  <2>1. j = [before EXCEPT ![n] = @ + x]
    BY <1>2 DEF Joined
  <2>2. n >= 2 /\ n # 1 /\ n \in 1 .. n
    BY <1>1, <1>2
  <2>3. /\ Len([before EXCEPT ![n] = @ + x]) = n
        /\ [before EXCEPT ![n] = @ + x][1] = before[1]
    <3>1. before[n] + x \in Int /\ 1 \in 1 .. n
      BY <2>2
    <3>2. 1 \in DOMAIN before
      BY <2>2
    <3> QED
      BY <2>2, <3>1, <3>2, ExceptSeq
  <2> HIDE DEF j, n
  <2> QED
    BY <2>1, <2>2, <2>3 DEF j
<1>3. CASE ~(n > 0 /\ (before[n] > 0) = (x > 0))
  <2>1. j = Append(before, x)
    BY <1>3 DEF Joined
  <2>2. Len(j) = n + 1 /\ \A k \in 1 .. n : j[k] = before[k]
    <3> HIDE DEF j
    <3> QED
      BY <2>1, AppendProperties
  <2> HIDE DEF j, n
  <2>3. Len(j) >= 2 /\ 1 \in 1 .. n
    BY <1>1, <2>2
  <2> QED
    BY <2>2, <2>3 DEF j
<1> QED
  BY <1>2, <1>3

\* A line that begins like RCMM has a first run of 420 us.
LEMMA FirstRun ==
  ASSUME NEW line, Begins(line)
  PROVE  Len(Runs(line)) >= 1 /\ Runs(line)[1] = 420
<1> DEFINE n == Len(line)
           marks == {i \in 1 .. n : line[i] > 0}
           last == Max(marks)
<1>1. /\ line \in Seq(Int) /\ n \in Nat /\ n >= 2 /\ line[1] = 420 /\ line[2] = -280
      /\ \A i \in 1 .. n : line[i] \in Int
  BY DEF Begins
<1>2. 1 \in marks /\ marks \subseteq 1 .. n
  <2>1. 1 \in 1 .. n
    <3> HIDE DEF n
    <3> QED
      BY <1>1
  <2> HIDE DEF n
  <2> QED
    BY <1>1, <2>1
<1>3. last \in 1 .. n
  <2> HIDE DEF n, marks, last
  <2>0. n \in Nat /\ marks \subseteq 1 .. n /\ marks # {}
    BY <1>1, <1>2
  <2>1. last \in marks
    <3>1. Max(marks) \in marks
      BY <2>0, MaxExists
    <3> QED
      BY <3>1 DEF last
  <2> QED
    BY <1>2, <2>1
<1>4. Min(marks) = 1
  <2> HIDE DEF n, marks
  <2>1. marks \subseteq Int /\ \A y \in marks : 1 <= y
    BY <1>1, <1>2
  <2> QED
    BY <1>2, <2>1, MinIs
<1>5. Heard(line) = 1 .. last
  <2>1. Heard(line) = Min(marks) .. last
    BY DEF Heard
  <2> HIDE DEF marks, last
  <2> QED
    BY <1>4, <2>1
<1>6. PICK f \in [0 .. n -> Seq(Int)] :
        /\ Runs(line) = IF marks = {} THEN <<>> ELSE f[n]
        /\ Hears(f, line)
  BY <1>1, RunsPartial
<1>7. Runs(line) = f[n]
  BY <1>2, <1>6
<1>8. f[0] = <<>> /\ \A i \in 1 .. n :
        f[i] = IF i \notin 1 .. last THEN f[i - 1] ELSE Joined(f[i - 1], line[i])
  <2> HIDE DEF last
  <2> QED
    BY <1>5, <1>6 DEF Hears
<1> HIDE DEF last, marks, n
<1> DEFINE Kept(s, i) == /\ Len(s) >= 1 /\ s[1] = 420
                         /\ i >= 2 /\ last >= 2 => Len(s) >= 2
           T == {i \in 1 .. n : Kept(f[i], i)}
<1>9. 1 <= n => 1 \in T
  <2>1. 1 \in 1 .. n /\ 1 \in 1 .. last /\ 1 - 1 = 0
    BY <1>1, <1>3
  <2>2. f[1] = Joined(<<>>, line[1])
    <3>1. f[1] = Joined(f[1 - 1], line[1])
      BY <1>8, <2>1
    <3>2. f[1 - 1] = <<>>
      BY <1>8, <2>1
    <3> QED
      BY <3>1, <3>2, Zenon
  <2>3. Joined(<<>>, line[1]) = <<line[1]>>
    <3>1. ~(Len(<<>>) > 0) /\ Append(<<>>, line[1]) = <<line[1]>>
      OBVIOUS
    <3> QED
      BY <3>1 DEF Joined
  <2>4. Len(<<line[1]>>) = 1 /\ <<line[1]>>[1] = line[1]
    OBVIOUS
  <2>5. Len(f[1]) = 1 /\ f[1][1] = 420
    BY <1>1, <2>2, <2>3, <2>4
  <2> QED
    BY <2>1, <2>5
<1>10. ASSUME NEW i \in 1 .. n, i # 1, i - 1 \in T PROVE i \in T
  <2>0. i # 1 /\ Kept(f[i - 1], i - 1)
    BY <1>10
  <2>1. i \in 2 .. n /\ i - 1 \in 0 .. n
    BY <1>1, <2>0
  <2>2. f[i - 1] \in Seq(Int) /\ line[i] \in Int
    BY <1>1, <2>1
  <2>3. f[i] = IF i \notin 1 .. last THEN f[i - 1] ELSE Joined(f[i - 1], line[i])
    BY <1>8
  <2>4. CASE i \notin 1 .. last
    <3>1. f[i] = f[i - 1] /\ (last >= 2 => i - 1 >= 2)
      BY <1>1, <1>3, <2>1, <2>3, <2>4
    <3> QED
      BY <2>0, <3>1
  <2>5. CASE i \in 1 .. last
    <3> DEFINE b == f[i - 1]
    <3>1. b \in Seq(Int) /\ Len(b) >= 1 /\ b[1] = 420
      BY <2>0, <2>2
    <3>0. b \in Seq(Int) /\ line[i] \in Int /\ Len(b) >= 1
      BY <2>2, <3>1
    <3>2. Len(b) >= 2 \/ (b[1] > 0 /\ ~(line[i] > 0))
      <4>1. CASE i = 2
        <5>1. line[i] = -280
          BY <1>1, <4>1
        <5> HIDE DEF b
        <5> QED
          BY <3>1, <5>1
      <4>2. CASE i # 2
        <5>1. i - 1 >= 2 /\ last >= 2
          BY <1>1, <1>3, <2>1, <2>5, <4>2
        <5>2. Len(b) >= 2
          BY <2>0, <5>1
        <5> HIDE DEF b
        <5> QED
          BY <5>2, Zenon
      <4> QED
        BY <4>1, <4>2
    <3>3. f[i] = Joined(b, line[i])
      BY <2>3, <2>5
    <3> HIDE DEF b
    <3>4. Len(Joined(b, line[i])) >= 2 /\ Joined(b, line[i])[1] = b[1]
      BY <3>0, <3>2, JoinedKeeps
    <3>5. Joined(b, line[i]) \in Seq(Int)
      BY <3>0, JoinedType
    <3>6. Len(f[i]) >= 2 /\ f[i][1] = 420 /\ f[i] \in Seq(Int)
      BY <3>1, <3>3, <3>4, <3>5
    <3>7. Len(f[i]) >= 1
      BY <3>6
    <3> QED
      BY <3>6, <3>7
  <2> QED
    BY <2>4, <2>5
<1>11. n \in T
  <2>1. 1 \in Nat /\ n \in Nat /\ n \in 1 .. n
    BY <1>1
  <2> HIDE DEF T
  <2> QED
    BY <1>9, <1>10, <2>1, IntervalInduction
<1> QED
  BY <1>7, <1>11

\* Packets of RCMM begin like RCMM.
LEMMA RCMMPacketBegins ==
  ASSUME NEW middle \in Seq(Int)
  PROVE  Begins(PktInfo(RCMM).preamble \o middle \o PktInfo(RCMM).postamble)
<1> DEFINE a == PktInfo(RCMM).preamble
           c == PktInfo(RCMM).postamble
           line == a \o middle \o c
<1>1. a = <<420, -280>> /\ c = <<168>>
  BY RCMMInfo DEF RCMM_UNIT
<1>2. a \in Seq(Int) /\ c \in Seq(Int) /\ Len(a) = 2 /\ a[1] = 420 /\ a[2] = -280
  BY <1>1
<1> HIDE DEF a, c
<1>3. line \in Seq(Int) /\ Consists(line, a, middle, c)
  BY <1>2, ConcatThree
<1> HIDE DEF line
<1>4. /\ Len(line) = Len(a) + Len(middle) + Len(c)
      /\ \A i \in 1 .. Len(a) : line[i] = a[i]
  BY <1>3 DEF Consists
<1>5. line[1] = 420 /\ line[2] = -280
  <2>1. 1 \in 1 .. Len(a) /\ 2 \in 1 .. Len(a)
    BY <1>2
  <2> QED
    BY <1>2, <1>4, <2>1
<1>6. Len(line) >= 2
  <2> DEFINE x == Len(middle)
             y == Len(c)
             z == Len(line)
  <2>1. z = 2 + x + y /\ x \in Nat /\ y \in Nat
    BY <1>2, <1>4
  <2> HIDE DEF x, y, z
  <2>2. z >= 2
    BY <2>1
  <2> QED
    BY <2>2 DEF z
<1>7. Begins(line)
  BY <1>3, <1>5, <1>6 DEF Begins
<1> QED
  BY <1>7 DEF line, a, c

\* What BuildRaw() makes of a message of RCMM begins with its preamble, also if
\* the number of bits is odd.
LEMMA RCMMRawBegins ==
  ASSUME NEW msg, msg.protocol = RCMM, msg.data \in Uint32, msg.nbits \in Nat
  PROVE  Begins(BuildRaw(msg))
<1> DEFINE info == PktInfo(msg.protocol)
           n == NumSymbols(msg.protocol, msg.nbits)
           seqs == [i \in 1 .. n |-> info.bits[SymbolAt(msg.protocol, msg.data, i) + 1]]
           all == info.preamble \o FlattenSeq(seqs) \o info.postamble
<1>0. msg.protocol \in Range(Protocols)
  BY ProtocolsValue
<1>1. n \in Nat
  BY <1>0, NumSymbolsType
<1>2. \A i \in 1 .. n : SymbolAt(msg.protocol, msg.data, i) + 1 \in 1 .. 4
  <2> HIDE DEF n
  <2>1. ASSUME NEW i \in 1 .. n PROVE SymbolAt(msg.protocol, msg.data, i) \in 0 .. 3
    BY <1>0, <1>1, SymbolType
  <2> QED
    BY <2>1
<1>3. \A b \in 1 .. 4 : info.bits[b] \in Seq(Int)
  BY <1>0, InfoTypes
<1>4. FlattenSeq(seqs) \in Seq(Int)
  <2> HIDE DEF n, info
  <2>1. seqs \in [1 .. n -> Seq(Int)]
    BY <1>2, <1>3
  <2> HIDE DEF seqs
  <2> QED
    BY <1>1, <2>1, FlattenType
<1>5. Begins(all)
  <2> HIDE DEF seqs
  <2> QED
    BY <1>4, RCMMPacketBegins
<1>6. BuildRaw(msg) = IF Len(all) > TX_SYMBOLS THEN SubSeq(all, 1, TX_SYMBOLS) ELSE all
  BY DEF BuildRaw
<1> HIDE DEF all
<1>7. CASE Len(all) > TX_SYMBOLS
  <2>1. all \in Seq(Int) /\ all[1] = 420 /\ all[2] = -280
    BY <1>5 DEF Begins
  <2>2. Len(all) > 74 /\ TX_SYMBOLS = 74
    BY <1>7 DEF TX_SYMBOLS
  <2>3. \A i \in 1 .. 74 : all[i] \in Int
    <3> DEFINE x == Len(all)
    <3>1. x \in Nat /\ x > 74 /\ \A i \in 1 .. x : all[i] \in Int
      BY <2>1, <2>2
    <3> HIDE DEF x
    <3>2. \A i \in 1 .. 74 : i \in 1 .. x
      BY <3>1
    <3> QED
      BY <3>1, <3>2
  <2>4. /\ SubSeq(all, 1, 74) \in Seq(Int)
        /\ Len(SubSeq(all, 1, 74)) = 74
        /\ \A i \in 1 .. 74 : SubSeq(all, 1, 74)[i] = all[i]
    BY <2>1, <2>2, <2>3, SubSeqProperties
  <2>5. BuildRaw(msg) = SubSeq(all, 1, 74)
    BY <1>6, <1>7, <2>2
  <2> DEFINE s == SubSeq(all, 1, 74)
  <2> HIDE DEF s
  <2>6. s \in Seq(Int) /\ Len(s) = 74 /\ s[1] = 420 /\ s[2] = -280
    BY <2>1, <2>4 DEF s
  <2> QED
    BY <2>5, <2>6 DEF Begins, s
<1>8. CASE ~(Len(all) > TX_SYMBOLS)
  BY <1>5, <1>6, <1>8
<1> QED
  BY <1>7, <1>8

\* So do frames of remote controls.
LEMMA RCMMFrameBegins ==
  ASSUME NEW f, f.protocol = RCMM, f.bits \in Seq(Bit)
  PROVE  Begins(RemoteFrame(f))
<1> DEFINE syms == FrameSymbols(f)
<1>1. RCMM \in Range(Protocols)
  BY ProtocolsValue
<1>2. RemoteFrame(f) = Packet(RCMM, syms)
  BY <1>1, RemotePacket
<1>3. syms \in Seq(SymbolsOf(RCMM))
  BY FrameSymbolsType
<1> HIDE DEF syms
<1>4. FlattenSeq(Pieces(RCMM, syms)) \in Seq(Int)
  <2>1. Len(syms) \in Nat /\ \A i \in 1 .. Len(syms) : syms[i] \in SymbolsOf(RCMM)
    BY <1>3
  <2>2. \A i \in 1 .. Len(syms) : PktInfo(RCMM).bits[syms[i] + 1] \in Seq(Int)
    <3>1. \A s \in SymbolsOf(RCMM) : PktInfo(RCMM).bits[s + 1] \in Seq(Int)
      BY <1>1, SymbolPattern DEF IsPair
    <3> QED
      BY <2>1, <3>1
  <2>3. Pieces(RCMM, syms) \in [1 .. Len(syms) -> Seq(Int)]
    BY <2>2 DEF Pieces
  <2> QED
    BY <2>1, <2>3, FlattenType
<1>5. Begins(Packet(RCMM, syms))
  BY <1>4, RCMMPacketBegins DEF Packet
<1> QED
  BY <1>2, <1>5

\* A frame of RC5 that begins with a 1, and its bits.
LEMMA RC5Line ==
  ASSUME NEW f, f.protocol = RC5, f.bits \in Seq(Bit), Len(f.bits) = 14, f.bits[1] = 1
  PROVE  /\ IsRC5(RemoteFrame(f))
         /\ [i \in 1 .. 14 |-> Level(RemoteFrame(f)[2 * i])] = f.bits
<1> DEFINE syms == FrameSymbols(f)
           bits == f.bits
           line == RemoteFrame(f)
<1>1. RC5 \in Range(Protocols) /\ SymbolsOf(RC5) = 0 .. 1
  BY ProtocolsValue DEF Received, SymbolsOf, RC5, RCMM
<1>2. line = Packet(RC5, syms)
  BY <1>1, RemotePacket
<1>3. syms \in Seq(SymbolsOf(RC5)) /\ Len(syms) = 14
  BY FrameSymbolsType DEF RC5, RCMM
<1>4. \A i \in 1 .. 14 : syms[i] = 1 - bits[i]
  BY DEF FrameSymbols, RC5, RCMM
<1>5. bits \in Seq(Bit) /\ Len(bits) = 14 /\ bits[1] = 1 /\ \A i \in 1 .. 14 : bits[i] = 0 \/ bits[i] = 1
  BY DEF Bit
<1> HIDE DEF syms, line, bits
<1>6. /\ PktInfo(RC5).preamble = <<>> /\ PktInfo(RC5).postamble = <<>>
      /\ PktInfo(RC5).bits[1] = <<-889, 889>>
      /\ PktInfo(RC5).bits[2] = <<889, -889>>
  BY RC5Info DEF RC5_UNIT
<1>7. line \in Seq(Int) /\ HasShape(line, RC5, syms, 0, 14)
  <2>1. Len(PktInfo(RC5).preamble) = 0
    BY <1>6
  <2> QED
    BY <1>1, <1>2, <1>3, <2>1, PacketShape
<1>8. /\ Len(line) = 28
      /\ \A i \in 1 .. 14 : /\ line[2 * i - 1] = PktInfo(RC5).bits[syms[i] + 1][1]
                            /\ line[2 * i] = PktInfo(RC5).bits[syms[i] + 1][2]
  <2>1. Len(line) = 0 + 2 * 14 + Len(PktInfo(RC5).postamble)
    BY <1>7 DEF HasShape
  <2>2. Len(PktInfo(RC5).postamble) = 0
    BY <1>6
  <2>3. \A i \in 1 .. 14 : /\ line[0 + 2 * i - 1] = PktInfo(RC5).bits[syms[i] + 1][1]
                           /\ line[0 + 2 * i] = PktInfo(RC5).bits[syms[i] + 1][2]
    BY <1>7 DEF HasShape
  <2>4. \A i \in 1 .. 14 : 0 + 2 * i - 1 = 2 * i - 1 /\ 0 + 2 * i = 2 * i
    OBVIOUS
  <2> QED
    BY <2>1, <2>2, <2>3, <2>4
<1>9. ASSUME NEW i \in 1 .. 14, bits[i] = 1 PROVE line[2 * i - 1] = -889 /\ line[2 * i] = 889
  <2>1. syms[i] + 1 = 1
    BY <1>4, <1>9
  <2>2. PktInfo(RC5).bits[syms[i] + 1] = <<-889, 889>>
    BY <1>6, <2>1
  <2>3. /\ line[2 * i - 1] = PktInfo(RC5).bits[syms[i] + 1][1]
        /\ line[2 * i] = PktInfo(RC5).bits[syms[i] + 1][2]
    BY <1>8
  <2> QED
    BY <2>2, <2>3
<1>a. ASSUME NEW i \in 1 .. 14, bits[i] = 0 PROVE line[2 * i - 1] = 889 /\ line[2 * i] = -889
  <2>1. syms[i] + 1 = 2
    BY <1>4, <1>a
  <2>2. PktInfo(RC5).bits[syms[i] + 1] = <<889, -889>>
    BY <1>6, <2>1
  <2>3. /\ line[2 * i - 1] = PktInfo(RC5).bits[syms[i] + 1][1]
        /\ line[2 * i] = PktInfo(RC5).bits[syms[i] + 1][2]
    BY <1>8
  <2> QED
    BY <2>2, <2>3
<1>10. \A j \in 1 .. 28 : line[j] \in HalfLengths
  <2> SUFFICES ASSUME NEW j \in 1 .. 28 PROVE line[j] \in HalfLengths
    OBVIOUS
  <2> DEFINE i == (j + 1) \div 2
  <2>1. i \in 1 .. 14 /\ (j = 2 * i - 1 \/ j = 2 * i)
    OBVIOUS
  <2> HIDE DEF i
  <2>2. CASE bits[i] = 1
    <3>1. line[2 * i - 1] = -889 /\ line[2 * i] = 889
      BY <1>9, <2>1, <2>2
    <3> QED
      BY <2>1, <3>1 DEF HalfLengths
  <2>3. CASE bits[i] = 0
    <3>1. line[2 * i - 1] = 889 /\ line[2 * i] = -889
      BY <1>a, <2>1, <2>3
    <3> QED
      BY <2>1, <3>1 DEF HalfLengths
  <2> QED
    BY <1>5, <2>1, <2>2, <2>3
<1>11. \A i \in 1 .. 14 : (line[2 * i - 1] > 0) # (line[2 * i] > 0)
  <2> SUFFICES ASSUME NEW i \in 1 .. 14 PROVE (line[2 * i - 1] > 0) # (line[2 * i] > 0)
    OBVIOUS
  <2>1. CASE bits[i] = 1
    <3>1. line[2 * i - 1] = -889 /\ line[2 * i] = 889
      BY <1>9, <2>1
    <3> QED
      BY <3>1
  <2>2. CASE bits[i] = 0
    <3>1. line[2 * i - 1] = 889 /\ line[2 * i] = -889
      BY <1>a, <2>2
    <3> QED
      BY <3>1
  <2>3. bits[i] = 0 \/ bits[i] = 1
    BY <1>5
  <2> QED
    BY <2>1, <2>2, <2>3, Zenon
<1>12. ~(line[1] > 0)
  <2>1. 1 \in 1 .. 14 /\ 2 * 1 - 1 = 1
    OBVIOUS
  <2>2. line[1] = -889
    BY <1>5, <1>9, <2>1
  <2> QED
    BY <2>2
<1>13. IsRC5(line)
  BY <1>7, <1>8, <1>10, <1>11, <1>12 DEF IsRC5
<1>14. \A i \in 1 .. 14 : Level(line[2 * i]) = bits[i]
  <2> SUFFICES ASSUME NEW i \in 1 .. 14 PROVE Level(line[2 * i]) = bits[i]
    OBVIOUS
  <2>1. CASE bits[i] = 1
    <3>1. line[2 * i] = 889
      BY <1>9, <2>1
    <3> QED
      BY <2>1, <3>1 DEF Level
  <2>2. CASE bits[i] = 0
    <3>1. line[2 * i] = -889
      BY <1>a, <2>2
    <3> QED
      BY <2>2, <3>1 DEF Level
  <2> QED
    BY <1>5, <2>1, <2>2
<1>15. [i \in 1 .. 14 |-> Level(line[2 * i])] = bits
  <2>1. bits \in [1 .. 14 -> Bit]
    <3>1. \A s \in Seq(Bit) : s \in [1 .. Len(s) -> Bit]
      OBVIOUS
    <3> QED
      BY <1>5, <3>1
  <2> QED
    BY <1>14, <2>1
<1> QED
  BY <1>13, <1>15 DEF line, bits

-----------------------------------------------------------------------------
(* What is received of a whole frame.                                      *)

\* The frames that a receiver of the protocol is meant to understand.
Standard(f) ==
  /\ f.protocol \in Range(Protocols)
  /\ f.bits \in Seq(Bit)
  /\ Len(f.bits) <= MSGBITS_MAX
  /\ f.protocol = SONY => Len(f.bits) \in {12, 24}
  /\ f.protocol = RC5 => Len(f.bits) = 14 /\ f.bits[1] = 1

\* Its own decoder accepts the bits of the frame, and no other accepts it.
Understood(f, msg, v) ==
  /\ f.protocol \in Received => Decode(f.protocol, msg, v) = Accepted(f.bits)
  /\ \A p \in Received : p # f.protocol => ~Decode(p, msg, v).ok

\* The line carries the frame, or something that begins like RCMM.
Carries(line, f) ==
  IF f.protocol = RCMM THEN Begins(line) ELSE line = RemoteFrame(f)

\* The recording of any line has an integer in every slot.
LEMMA RecordedSamples ==
  ASSUME NEW line \in Seq(Int), NEW old \in Samples, NEW phase \in Nat
  PROVE  Recorded(old, Runs(line), phase) \in Samples
<1>1. Runs(line) \in Seq(Int)
  BY RunsType
<1> QED
  BY <1>1, RecordedType DEF Samples

\* Who is understood is not taken for another.
LEMMA OnlyOne ==
  ASSUME NEW f, f.protocol \in Received, NEW msg \in Samples, NEW v,
         Decode(f.protocol, msg, v) = Accepted(f.bits)
  PROVE  Understood(f, msg, v)
<1>1. Decode(f.protocol, msg, v).ok
  BY DEF Accepted
<1>2. ASSUME NEW p \in Received, p # f.protocol, Decode(p, msg, v).ok PROVE FALSE
  <2>1. p \in {NEC, NEC_RPT, SONY, RC5} /\ f.protocol \in {NEC, NEC_RPT, SONY, RC5}
    BY DEF Received
  <2>2. p = f.protocol
    BY <1>1, <1>2, <2>1, DecodersDisjoint
  <2> QED
    BY <1>2, <2>2
<1> QED
  BY <1>2 DEF Understood

\* A whole frame is understood, whatever the buffer held and whenever it is
\* sampled.
LEMMA FrameUnderstood ==
  ASSUME NEW f, Standard(f), NEW line \in Seq(Int), Carries(line, f),
         NEW old \in Samples, NEW phase \in Nat
  PROVE  Understood(f, Recorded(old, Runs(line), phase), ValidLen(Runs(line)))
<1> DEFINE p == f.protocol
           bits == f.bits
           msg == Recorded(old, Runs(line), phase)
           v == ValidLen(Runs(line))
<1>1. p \in Range(Protocols) /\ bits \in Seq(Bit) /\ Len(bits) <= MSGBITS_MAX
  BY DEF Standard
<1>2. msg \in Samples
  BY RecordedSamples
<1>3. ASSUME p \in {NEC, NEC_RPT, SONY}
      PROVE  /\ Runs(line) = Packet(p, bits)
             /\ p # RCMM /\ p # RC5 /\ p \in Received
  <2>1. p # RCMM /\ p # RC5 /\ p \in Received
    BY <1>3 DEF Received, NEC, NEC_RPT, SONY, RCMM, RC5
  <2>2. line = RemoteFrame(f)
    BY <2>1 DEF Carries
  <2>3. FrameSymbols(f) = bits
    BY <2>1 DEF FrameSymbols
  <2>4. RemoteFrame(f) = Packet(p, FrameSymbols(f))
    BY <1>1, RemotePacket
  <2>5. line = Packet(p, bits)
    BY <2>2, <2>3, <2>4
  <2>6. bits \in Seq(SymbolsOf(p))
    <3>1. Bit = 0 .. 1 /\ SymbolsOf(p) = 0 .. 1
      BY <2>1 DEF Bit, SymbolsOf
    <3> QED
      BY <1>1, <3>1
  <2>7. Alternates(Packet(p, bits))
    BY <1>1, <2>1, <2>6, PacketAlternates
  <2>8. Runs(line) = line
    BY <2>5, <2>7, AlternatingRuns
  <2> QED
    BY <2>1, <2>5, <2>8
<1>4. CASE p \in {NEC, NEC_RPT}
  <2>1. Runs(line) = Packet(p, bits) /\ p \in Received
    BY <1>3, <1>4
  <2>2. Decode(p, Recorded(old, Packet(p, bits), phase), ValidLen(Packet(p, bits)))
          = Accepted(bits)
    BY <1>1, <1>4, NECFrame
  <2>3. Decode(p, msg, v) = Accepted(bits)
    BY <2>1, <2>2
  <2> HIDE DEF msg, v
  <2> QED
    BY <1>2, <2>1, <2>3, OnlyOne DEF msg, v
<1>5. CASE p = SONY
  <2>1. Runs(line) = Packet(SONY, bits) /\ p \in Received
    BY <1>3, <1>5
  <2>2. DecodePktDefault(SONY, Recorded(old, Packet(SONY, bits), phase),
                         ValidLen(Packet(SONY, bits))) = Accepted(bits)
    BY <1>1, SonyFrame
  <2>3. DecodePktDefault(SONY, msg, v) = Accepted(bits)
    BY <2>1, <2>2
  <2>4. Len(bits) \in {12, 24}
    BY <1>5 DEF Standard
  <2> HIDE DEF msg, v, bits
  <2>5. DecodePktSony(SONY, msg, v) = Accepted(bits)
    BY <2>3, <2>4 DEF DecodePktSony, Accepted
  <2>6. Decode(p, msg, v) = Accepted(bits)
    <3>1. Decode(SONY, msg, v) = DecodePktSony(SONY, msg, v)
      BY DEF Decode, SONY, RC5
    <3> QED
      BY <1>5, <2>5, <3>1
  <2> QED
    BY <1>2, <2>1, <2>6, OnlyOne DEF msg, v, bits
<1>6. CASE p = RC5
  <2>1. Len(bits) = 14 /\ bits[1] = 1
    BY <1>6 DEF Standard
  <2>2. line = RemoteFrame(f) /\ p \in Received
    BY <1>6 DEF Carries, Received, RCMM, RC5
  <2>3. /\ IsRC5(line)
        /\ [i \in 1 .. 14 |-> Level(line[2 * i])] = bits
    BY <1>1, <1>6, <2>1, <2>2, RC5Line
  <2>4. Decode(RC5, msg, v) = Accepted([i \in 1 .. 14 |-> Level(line[2 * i])])
    BY <2>3, RC5Frame
  <2>5. Decode(p, msg, v) = Accepted(bits)
    BY <1>6, <2>3, <2>4
  <2> HIDE DEF msg, v
  <2> QED
    BY <1>2, <2>2, <2>5, OnlyOne DEF msg, v
<1>7. CASE p = RCMM
  <2>1. Begins(line) /\ p \notin Received
    BY <1>7 DEF Carries, Received, NEC, NEC_RPT, SONY, RCMM, RC5
  <2>2. Len(Runs(line)) >= 1 /\ Runs(line)[1] = 420
    BY <2>1, FirstRun
  <2>3. Runs(line) \in Seq(Int)
    BY RunsType
  <2>4. Near(420, msg[1])
    <3> DEFINE runs == Runs(line)
    <3>1. runs \in Seq(Int) /\ Len(runs) >= 1 /\ runs[1] = 420
      BY <2>2, <2>3
    <3> HIDE DEF runs
    <3>2. 1 \in 1 .. Len(runs) /\ 1 <= RX_SYMBOLS
      BY <3>1 DEF RX_SYMBOLS
    <3>3. Near(runs[1], Recorded(old, runs, phase)[1])
      BY <3>1, <3>2, RecordedNear
    <3>4. Near(420, Recorded(old, runs, phase)[1])
      BY <3>1, <3>3
    <3> QED
      BY <3>4 DEF runs
  <2> HIDE DEF msg, v
  <2>5. \A q \in Received : ~Decode(q, msg, v).ok
    BY <1>2, <2>4, RCMMRejected
  <2> QED
    BY <2>1, <2>5 DEF Understood, msg, v
<1> QED
  BY <1>1, <1>4, <1>5, <1>6, <1>7, ProtocolsValue DEF Received

-----------------------------------------------------------------------------
(* The invariant of Link: what the buffer holds, what has been tried on    *)
(* it, and what was answered.                                              *)

\* The buffer holds a recording of the frame on the line, without its last cut
\* runs.
Recording ==
  \E old \in Samples, phase \in Nat :
     LET runs == SubSeq(Runs(tx), 1, Len(Runs(tx)) - cut)
     IN  /\ runs # <<>>
         /\ symbols = Recorded(old, runs, phase)
         /\ validLen = ValidLen(runs)

Accepts(p) == Decode(p, symbols, validLen).ok

\* The decoders before this one have rejected it.
Tried ==
  \A k \in 1 .. Len(Protocols) :
     k < decoder /\ Protocols[k] \in Received => ~Accepts(Protocols[k])

\* The answer is what the first decoder that accepts has said.
Answered ==
  \/ \E p \in Received :
       /\ Accepts(p)
       /\ answer = [protocol |-> p, ok |-> TRUE,
                    bits |-> Decode(p, symbols, validLen).bits]
  \/ answer = Nobody /\ \A p \in Received : ~Accepts(p)

Popped ==
  /\ Typed
  /\ hops \in Nat
  /\ \E lost \in Nat : cut = 2 * lost
  /\ stage \in {"decode", "done"} => Recording
  /\ stage = "decode" => Tried
  /\ stage = "done" => Answered
  /\ stage = "idle" => hops = 0

\* Popped holds at first.
LEMMA PoppedInit ==
  ASSUME Init
  PROVE  Popped
<1>1. Typed
  BY TypedInit
<1>2. 0 \in Nat /\ 0 = 2 * 0
  OBVIOUS
<1> QED
  BY <1>1, <1>2 DEF Init, Popped

\* What arrives is a recording of the line.
LEMMA ArriveRecords ==
  ASSUME Typed, Arrive
  PROVE  Recording' /\ \E lost \in Nat : cut' = 2 * lost
<1>1. PICK phase \in Phases, lost \in Lost \cup {0} :
        LET runs == SubSeq(Runs(tx), 1, Len(Runs(tx)) - 2 * lost)
        IN  /\ runs # <<>>
            /\ cut' = 2 * lost
            /\ symbols' = Recorded(symbols, runs, phase)
            /\ validLen' = ValidLen(runs)
  BY DEF Arrive
<1>2. lost \in Nat /\ phase \in Nat
  BY LinkAssumption, CodecAssumption
<1>3. symbols \in Samples /\ tx' = tx
  BY DEF Typed, Arrive
<1> DEFINE R(line, c, s, v, old, ph) ==
             LET runs == SubSeq(Runs(line), 1, Len(Runs(line)) - c)
             IN  /\ runs # <<>>
                 /\ s = Recorded(old, runs, ph)
                 /\ v = ValidLen(runs)
<1>4. R(tx, 2 * lost, symbols', validLen', symbols, phase) /\ cut' = 2 * lost
  BY <1>1
<1>5. Recording' = \E old \in Samples, ph \in Nat : R(tx', cut', symbols', validLen', old, ph)
  BY DEF Recording
<1> HIDE DEF R
<1>6. R(tx', cut', symbols', validLen', symbols, phase)
  BY <1>3, <1>4
<1> QED
  BY <1>2, <1>3, <1>4, <1>5, <1>6

\* A round of the loop of PopMsg() answers if this decoder accepts the frame,
\* or if none has.
LEMMA TryTries ==
  ASSUME Popped, TryDecoder
  PROVE  (stage' = "decode" => Tried') /\ (stage' = "done" => Answered')
<1> DEFINE p == Protocols[decoder]
           a == IF PktInfo(p).rxDecode THEN Decode(p, symbols, validLen) ELSE Rejected
<1>1. /\ stage = "decode"
      /\ answer' = (IF a.ok THEN [protocol |-> p, ok |-> TRUE, bits |-> a.bits] ELSE Nobody)
      /\ stage' = (IF a.ok \/ decoder = Len(Protocols) THEN "done" ELSE "decode")
      /\ decoder' = (IF a.ok \/ decoder = Len(Protocols) THEN decoder ELSE decoder + 1)
      /\ symbols' = symbols /\ validLen' = validLen
  BY DEF TryDecoder, buffer
<1>2. decoder \in 1 .. Len(Protocols) /\ Tried
  BY <1>1 DEF Popped, Typed
<1>3. p \in Range(Protocols)
  BY <1>2 DEF Range, Protocols
<1>4. IF p \in Received THEN a = Decode(p, symbols, validLen) ELSE ~a.ok
  <2>1. p \in Received => PktInfo(p).rxDecode
    BY NECInfo, SonyInfo, RC5Info DEF Received
  <2>2. p \notin Received => ~PktInfo(p).rxDecode
    BY <1>3, ProtocolsValue, RCMMInfo
  <2>3. ~Rejected.ok
    BY DEF Rejected
  <2> QED
    BY <2>1, <2>2, <2>3
<1> HIDE DEF a, p
<1>5. \A q : Accepts(q)' = Accepts(q)
  BY <1>1 DEF Accepts
<1>6. CASE a.ok
  <2>1. p \in Received /\ a = Decode(p, symbols, validLen)
    BY <1>4, <1>6
  <2>2. Accepts(p)
    BY <1>6, <2>1 DEF Accepts
  <2>3. PICK q \in Received : q = p
    BY <2>1
  <2>4. Answered'
    <3>1. Accepts(q)'
      BY <1>5, <2>2, <2>3
    <3>2. answer' = [protocol |-> q, ok |-> TRUE,
                     bits |-> Decode(q, symbols, validLen).bits]
      BY <1>1, <1>6, <2>1, <2>3
    <3>3. answer' = [protocol |-> q, ok |-> TRUE,
                     bits |-> Decode(q, symbols', validLen').bits]
      BY <1>1, <3>2
    <3> QED
      BY <3>1, <3>3 DEF Answered
  <2>5. stage' = "done"
    BY <1>1, <1>6
  <2> QED
    BY <2>4, <2>5
<1>7. CASE ~a.ok
  <2>1. p \in Received => ~Accepts(p)
    BY <1>4, <1>7 DEF Accepts
  <2>2. \A k \in 1 .. Len(Protocols) :
          k < decoder + 1 /\ Protocols[k] \in Received => ~Accepts(Protocols[k])
    <3> SUFFICES ASSUME NEW k \in 1 .. Len(Protocols), k < decoder + 1,
                        Protocols[k] \in Received
                 PROVE  ~Accepts(Protocols[k])
      OBVIOUS
    <3>0. Len(Protocols) \in Nat
      BY DEF Protocols
    <3>1. k < decoder \/ k = decoder
      BY <1>2, <3>0
    <3>2. CASE k < decoder
      BY <1>2, <3>2 DEF Tried
    <3>3. CASE k = decoder
      BY <2>1, <3>3 DEF p
    <3> QED
      BY <3>1, <3>2, <3>3
  <2>3. CASE decoder = Len(Protocols)
    <3>1. answer' = Nobody /\ stage' = "done"
      BY <1>1, <1>7, <2>3
    <3>2. \A q \in Received : ~Accepts(q)
      <4> SUFFICES ASSUME NEW q \in Received PROVE ~Accepts(q)
        OBVIOUS
      <4>1. PICK k \in 1 .. 5 : Protocols[k] = q
        BY DEF Received, Protocols
      <4>2. Len(Protocols) = 5 /\ k < decoder + 1
        BY <2>3 DEF Protocols
      <4> QED
        BY <2>2, <4>1, <4>2
    <3>3. \A q \in Received : ~Accepts(q)'
      BY <1>5, <3>2
    <3>4. Answered'
      BY <3>1, <3>3 DEF Answered
    <3> QED
      BY <3>1, <3>4
  <2>4. CASE decoder # Len(Protocols)
    <3>1. decoder' = decoder + 1 /\ stage' = "decode"
      BY <1>1, <1>7, <2>4
    <3>2. Tried'
      BY <1>5, <2>2, <3>1 DEF Tried
    <3> QED
      BY <3>1, <3>2
  <2> QED
    BY <2>3, <2>4
<1> QED
  BY <1>6, <1>7

\* Every step keeps Popped.
LEMMA PoppedStep ==
  ASSUME Popped, [Next]_vars
  PROVE  Popped'
<1>1. Typed' /\ Typed
  BY TypedStep DEF Popped
<1>2. CASE Send
  <2>1. stage' = "air" /\ hops' = hops /\ cut' = cut
    BY <1>2 DEF Send, Transmit, buffer
  <2> QED
    BY <1>1, <2>1 DEF Popped
<1>3. CASE Press
  <2>1. stage' = "air" /\ hops' = hops /\ cut' = cut
    BY <1>3 DEF Press, Transmit, buffer
  <2> QED
    BY <1>1, <2>1 DEF Popped
<1>4. CASE Arrive
  <2>1. Recording' /\ \E lost \in Nat : cut' = 2 * lost
    BY <1>1, <1>4, ArriveRecords
  <2>2. stage' = "decode" /\ decoder' = 1 /\ hops' = hops
    BY <1>4 DEF Arrive
  <2>3. Tried'
    <3>1. \A k \in 1 .. Len(Protocols) : ~(k < decoder')
      <4>1. \A k \in 1 .. Len(Protocols) : k \in Nat /\ k >= 1
        BY DEF Protocols
      <4> QED
        BY <2>2, <4>1
    <3> QED
      BY <3>1 DEF Tried
  <2> QED
    BY <1>1, <2>1, <2>2, <2>3 DEF Popped
<1>5. CASE TryDecoder
  <2>1. (stage' = "decode" => Tried') /\ (stage' = "done" => Answered')
    BY <1>5, TryTries
  <2>2. stage = "decode" /\ UNCHANGED <<tx, cut, symbols, validLen, hops>>
    BY <1>5 DEF TryDecoder, buffer
  <2>3. Recording'
    <3>1. Recording
      BY <2>2 DEF Popped
    <3> QED
      BY <2>2, <3>1 DEF Recording
  <2>4. stage' \in {"decode", "done"}
    BY <1>5 DEF TryDecoder
  <2> QED
    BY <1>1, <2>1, <2>2, <2>3, <2>4 DEF Popped
<1>6. CASE Repeat
  <2>1. stage' = "air" /\ hops' = hops + 1 /\ cut' = cut
    BY <1>6 DEF Repeat, buffer
  <2> QED
    BY <1>1, <2>1 DEF Popped
<1>7. CASE UNCHANGED vars
  <2>1. UNCHANGED <<stage, tx, cut, symbols, validLen, decoder, answer, hops>>
    BY <1>7 DEF vars
  <2>2. Recording' = Recording /\ Tried' = Tried /\ Answered' = Answered
    <3>1. \A q : Accepts(q)' = Accepts(q)
      BY <2>1 DEF Accepts
    <3> QED
      BY <2>1, <3>1 DEF Recording, Tried, Answered
  <2> QED
    BY <1>1, <2>1, <2>2 DEF Popped
<1> QED
  BY <1>2, <1>3, <1>4, <1>5, <1>6, <1>7 DEF Next

-----------------------------------------------------------------------------
(* Whole frames.                                                           *)

\* A sequence of which nothing is cut is the whole of it.
LEMMA WholeSeq ==
  ASSUME NEW S, NEW s \in Seq(S)
  PROVE  SubSeq(s, 1, Len(s) - 0) = s
<1> DEFINE n == Len(s)
<1>1. n \in Nat /\ n - 0 = n /\ s = [i \in 1 .. n |-> s[i]]
  OBVIOUS
<1>2. SubSeq(s, 1, n) = s
  BY <1>1 DEF SubSeq
<1> QED
  BY <1>1, <1>2

\* What the decoders say of a whole frame on the line.
LEMMA WholeUnderstood ==
  ASSUME Popped, Recording, cut = 0, NEW f, Standard(f), Carries(tx, f)
  PROVE  Understood(f, symbols, validLen)
<1>1. PICK old \in Samples, phase \in Nat :
        LET runs == SubSeq(Runs(tx), 1, Len(Runs(tx)) - cut)
        IN  symbols = Recorded(old, runs, phase) /\ validLen = ValidLen(runs)
  BY DEF Recording
<1>2. tx \in Seq(Int)
  BY DEF Popped, Typed
<1>3. Runs(tx) \in Seq(Int)
  BY <1>2, RunsType
<1>4. SubSeq(Runs(tx), 1, Len(Runs(tx)) - cut) = Runs(tx)
  BY <1>3, WholeSeq
<1>5. symbols = Recorded(old, Runs(tx), phase) /\ validLen = ValidLen(Runs(tx))
  BY <1>1, <1>4
<1> QED
  BY <1>2, <1>5, FrameUnderstood

\* PopMsg() returns what is understood.
LEMMA UnderstoodAnswer ==
  ASSUME NEW f, f.protocol \in Range(Protocols), Understood(f, symbols, validLen), Answered
  PROVE  IF f.protocol \in Received
         THEN answer = [protocol |-> f.protocol, ok |-> TRUE, bits |-> f.bits]
         ELSE ~answer.ok
<1>1. CASE f.protocol \in Received
  <2>1. Decode(f.protocol, symbols, validLen) = Accepted(f.bits)
    BY <1>1 DEF Understood
  <2>2. Accepts(f.protocol) /\ Decode(f.protocol, symbols, validLen).bits = f.bits
    BY <2>1 DEF Accepts, Accepted
  <2>3. \A p \in Received : Accepts(p) => p = f.protocol
    BY DEF Understood, Accepts
  <2> QED
    BY <1>1, <2>2, <2>3 DEF Answered
<1>2. CASE f.protocol \notin Received
  <2>1. \A p \in Received : ~Accepts(p)
    BY <1>2 DEF Understood, Accepts
  <2>2. answer = Nobody
    BY <2>1 DEF Answered
  <2> QED
    BY <1>2, <2>2 DEF Nobody
<1> QED
  BY <1>1, <1>2

\* Until the repeater sends, what is on the line is the frame that is meant.
Sourced ==
  stage # "idle" /\ hops = 0 => Standard(sent) /\ Carries(tx, sent)

\* What a sketch sends, a receiver is meant to understand; BuildRaw() cannot
\* build RC5.
GoodMessage(m) == m.protocol # RC5 /\ Standard(Meant(m))

\* Every step keeps Sourced, provided that frames and messages keep to their
\* protocols.
LEMMA SourcedStep ==
  ASSUME \A f \in Frames : Standard(f), \A m \in Messages : GoodMessage(m),
         Popped, Sourced, [Next]_vars
  PROVE  Sourced'
<1>1. CASE Send
  <2>1. PICK m \in Messages : Transmit(Meant(m), BuildRaw(m))
    BY <1>1 DEF Send
  <2> DEFINE f == Meant(m)
  <2>2. f.protocol = m.protocol /\ f.bits = HighBits(m.data, m.nbits)
    BY DEF Meant
  <2>3. /\ m.protocol \in Range(Protocols) \ {RC5} /\ m.data \in Uint32
        /\ m.nbits \in 0 .. MSGBITS_MAX
    BY LinkAssumption DEF GoodMessage
  <2>4. Standard(f)
    BY DEF GoodMessage
  <2>5. sent' = f /\ tx' = BuildRaw(m)
    BY <2>1 DEF Transmit
  <2> HIDE DEF f
  <2>6. Carries(BuildRaw(m), f)
    <3>1. CASE m.protocol = RCMM
      <4>1. m.nbits \in Nat
        BY <2>3 DEF MSGBITS_MAX
      <4> QED
        BY <2>2, <2>3, <3>1, <4>1, RCMMRawBegins DEF Carries
    <3>2. CASE m.protocol # RCMM
      <4>1. BuildRaw(m) = RemoteFrame(f)
        BY <2>2, <2>3, <3>2, RawPacket
      <4> QED
        BY <2>2, <3>2, <4>1 DEF Carries
    <3> QED
      BY <3>1, <3>2
  <2> QED
    BY <2>4, <2>5, <2>6 DEF Sourced
<1>2. CASE Press
  <2>1. PICK f \in Frames : Transmit(f, RemoteFrame(f))
    BY <1>2 DEF Press
  <2>2. Standard(f)
    OBVIOUS
  <2>3. Carries(RemoteFrame(f), f)
    BY <2>2, RCMMFrameBegins DEF Carries, Standard
  <2>4. sent' = f /\ tx' = RemoteFrame(f)
    BY <2>1 DEF Transmit
  <2> QED
    BY <2>2, <2>3, <2>4 DEF Sourced
<1>3. CASE Arrive
  BY <1>3 DEF Arrive, Sourced
<1>4. CASE TryDecoder
  BY <1>4 DEF TryDecoder, Sourced
<1>5. CASE Repeat
  <2>1. hops' # 0
    BY <1>5 DEF Repeat, Popped
  <2> QED
    BY <2>1 DEF Sourced
<1>6. CASE UNCHANGED vars
  BY <1>6 DEF vars, Sourced
<1> QED
  BY <1>1, <1>2, <1>3, <1>4, <1>5, <1>6 DEF Next

\* A whole frame of a protocol that is received is received as what it means,
\* whatever the buffer held and whenever it is sampled, and one of RCMM is not
\* taken for another: of remote controls that keep to their protocol, and of
\* sketches that send any number of bits of NEC or RCMM, or 12 or 24 of Sony.
THEOREM WholeFramesReceived ==
  ASSUME \A f \in Frames : Standard(f), \A m \in Messages : GoodMessage(m)
  PROVE  Spec => []ReceivedAsMeant
<1> DEFINE IInv == Popped /\ Sourced
<1>1. Init => IInv
  BY PoppedInit DEF Init, Sourced
<1>2. IInv /\ [Next]_vars => IInv'
  BY PoppedStep, SourcedStep
<1>3. IInv => ReceivedAsMeant
  <2> SUFFICES ASSUME Popped, Sourced, stage = "done", hops = 0, cut = 0
               PROVE  IF PktInfo(sent.protocol).rxDecode
                      THEN answer = [protocol |-> sent.protocol, ok |-> TRUE,
                                     bits |-> sent.bits]
                      ELSE ~answer.ok
    BY DEF ReceivedAsMeant
  <2>1. Recording /\ Answered
    BY DEF Popped
  <2>2. Standard(sent) /\ Carries(tx, sent)
    BY DEF Sourced
  <2>3. Understood(sent, symbols, validLen)
    BY <2>1, <2>2, WholeUnderstood
  <2>4. sent.protocol \in Range(Protocols)
    BY <2>2 DEF Standard
  <2>5. IF sent.protocol \in Received
        THEN answer = [protocol |-> sent.protocol, ok |-> TRUE, bits |-> sent.bits]
        ELSE ~answer.ok
    BY <2>1, <2>3, <2>4, UnderstoodAnswer
  <2>6. PktInfo(sent.protocol).rxDecode => sent.protocol \in Received
    BY <2>4, ProtocolsValue, RCMMInfo
  <2>7. sent.protocol \in Received => PktInfo(sent.protocol).rxDecode
    BY NECInfo, SonyInfo, RC5Info DEF Received
  <2> QED
    BY <2>5, <2>6, <2>7
<1> QED
  BY <1>1, <1>2, <1>3, PTL DEF Spec

-----------------------------------------------------------------------------
(* What the repeater sends on.                                             *)

\* An answer of a decoder: Sony and RC5 have only some lengths.
Decoded(a) ==
  /\ a = [protocol |-> a.protocol, ok |-> TRUE, bits |-> a.bits]
  /\ a.protocol \in Received
  /\ a.bits \in Seq(Bit)
  /\ a.protocol = SONY => Len(a.bits) \in {12, 24}
  /\ a.protocol = RC5 => Len(a.bits) = 14

\* What PopMsg() returns is the answer of a decoder.
LEMMA AnswerDecoded ==
  ASSUME Typed, Answered, answer.ok
  PROVE  Decoded(answer)
<1>1. ~Nobody.ok
  BY DEF Nobody
<1>2. PICK p \in Received :
        /\ Accepts(p)
        /\ answer = [protocol |-> p, ok |-> TRUE,
                     bits |-> Decode(p, symbols, validLen).bits]
  BY <1>1 DEF Answered
<1> DEFINE d == Decode(p, symbols, validLen)
<1>3. symbols \in Samples /\ d.ok
  BY <1>2 DEF Typed, Accepts
<1>4. d.bits \in Seq(Bit)
  BY <1>3, ProtocolsValue, DecodeBits
<1>5. p = SONY => Len(d.bits) \in {12, 24}
  <2> SUFFICES ASSUME p = SONY PROVE Len(d.bits) \in {12, 24}
    OBVIOUS
  <2>1. Decode(SONY, symbols, validLen) = DecodePktSony(SONY, symbols, validLen)
    BY DEF Decode, SONY, RC5
  <2>2. DecodePktSony(SONY, symbols, validLen).ok
    BY <1>3, <2>1
  <2>3. Len(DecodePktSony(SONY, symbols, validLen).bits) \in {12, 24}
    BY <2>2 DEF DecodePktSony, Rejected
  <2> QED
    BY <2>1, <2>3
<1>6. p = RC5 => Len(d.bits) = 14
  <2> SUFFICES ASSUME p = RC5 PROVE Len(d.bits) = 14
    OBVIOUS
  <2>1. Decode(RC5, symbols, validLen) = DecodePktRC5(RC5, symbols, validLen)
    BY DEF Decode, SONY, RC5
  <2>2. DecodePktRC5(RC5, symbols, validLen).ok
    BY <1>3, <2>1
  <2>3. Len(DecodePktRC5(RC5, symbols, validLen).bits) = 14
    BY <1>3, <2>2, RC5Value
  <2> QED
    BY <2>1, <2>3
<1> HIDE DEF d
<1>7. answer = [protocol |-> p, ok |-> TRUE, bits |-> d.bits]
  BY <1>2 DEF d
<1> QED
  BY <1>4, <1>5, <1>6, <1>7 DEF Decoded

\* A message that fills the register, or has no bits, is what its highest bits
\* are: one of NEC.
LEMMA FullRaw ==
  ASSUME NEW a, Decoded(a), Len(a.bits) \in {0, MSGBITS_MAX}
  PROVE  /\ Standard(a)
         /\ Carries(BuildRaw(Result(a)), a)
<1> DEFINE bits == a.bits
           n == Len(bits)
           m == Result(a)
<1>1. bits \in Seq(Bit) /\ n \in {0, 32}
  BY DEF Decoded, MSGBITS_MAX
<1>2. a.protocol \in {NEC, NEC_RPT}
  <2>1. a.protocol # SONY
    <3>1. a.protocol = SONY => n \in {12, 24}
      BY DEF Decoded
    <3> HIDE DEF n
    <3> QED
      BY <1>1, <3>1
  <2>2. a.protocol # RC5
    <3>1. a.protocol = RC5 => n = 14
      BY DEF Decoded
    <3> HIDE DEF n
    <3> QED
      BY <1>1, <3>1
  <2>3. a.protocol \in Received
    BY DEF Decoded
  <2> QED
    BY <2>1, <2>2, <2>3 DEF Received
<1>3. a.protocol \in Range(Protocols) \ {RC5} /\ a.protocol # RCMM /\ a.protocol # SONY
  BY <1>2, ProtocolsValue DEF Received, NEC, NEC_RPT, SONY, RCMM, RC5
<1>4. n <= MSGBITS_MAX /\ n \in 0 .. MSGBITS_MAX
  <2> HIDE DEF n
  <2> QED
    BY <1>1 DEF MSGBITS_MAX
<1>5. Standard(a)
  BY <1>1, <1>3, <1>4 DEF Standard
<1>6. m.protocol = a.protocol /\ m.data = Shifted(bits) /\ m.nbits = n
  BY DEF Result
<1>7. m.data \in Uint32
  BY <1>1, <1>6, ShiftedType
<1>8. HighBits(Shifted(bits), n) = bits
  <2>1. /\ HighBits(Shifted(bits), n) \in Seq(Bit)
        /\ Len(HighBits(Shifted(bits), n)) = n
        /\ \A i \in 1 .. n : HighBits(Shifted(bits), n)[i] = Shifted(bits)[i]
    BY <1>4, <1>6, <1>7, HighBitsValue
  <2>2. ASSUME NEW i \in 1 .. n PROVE Shifted(bits)[i] = bits[i]
    <3>1. Shifted(bits) = [j \in 1 .. 32 |-> LET k == n - 32 + j
                                             IN  IF k >= 1 THEN bits[k] ELSE 0]
      BY DEF Shifted, MSGBITS_MAX
    <3> HIDE DEF n, bits
    <3>2. n = 32 /\ i \in 1 .. 32
      BY <1>1
    <3>3. n - 32 + i = i /\ i >= 1
      BY <3>2
    <3> QED
      BY <3>1, <3>2, <3>3
  <2> DEFINE h == HighBits(Shifted(bits), n)
  <2>3. \A i \in 1 .. n : h[i] = bits[i]
    BY <2>1, <2>2
  <2>4. Len(h) = Len(bits) /\ h \in Seq(Bit) /\ bits \in Seq(Bit)
    BY <1>1, <2>1
  <2> HIDE DEF h, bits
  <2> QED
    BY <2>3, <2>4, SeqEqual DEF h, n
<1>9. BuildRaw(m) = RemoteFrame(a)
  <2> HIDE DEF m, n, bits
  <2>1. a.bits = HighBits(m.data, m.nbits)
    BY <1>6, <1>8 DEF bits
  <2>2. m.nbits \in 0 .. MSGBITS_MAX
    BY <1>4, <1>6
  <2> QED
    BY <1>3, <1>6, <1>7, <2>1, <2>2, RawPacket
<1> QED
  BY <1>3, <1>5, <1>9 DEF Carries

\* What the repeater sends is built from what it has received.
Relayed ==
  hops > 0 => Decoded(heard) /\ tx = BuildRaw(Result(heard))

\* Every step keeps Relayed.
LEMMA RelayedStep ==
  ASSUME Popped, Relayed, [Next]_vars
  PROVE  Relayed'
<1>1. CASE Send
  BY <1>1 DEF Send, Transmit, Relayed, Popped
<1>2. CASE Press
  BY <1>2 DEF Press, Transmit, Relayed, Popped
<1>3. CASE Arrive
  BY <1>3 DEF Arrive, Relayed
<1>4. CASE TryDecoder
  BY <1>4 DEF TryDecoder, Relayed
<1>5. CASE Repeat
  <2>1. Decoded(answer)
    BY <1>5, AnswerDecoded DEF Repeat, Popped
  <2> QED
    BY <1>5, <2>1 DEF Repeat, Relayed
<1>6. CASE UNCHANGED vars
  BY <1>6 DEF vars, Relayed
<1> QED
  BY <1>1, <1>2, <1>3, <1>4, <1>5, <1>6 DEF Next

\* A message that fills the register or has no bits is the same at every hop:
\* whoever receives it from the repeater receives what the repeater received.
THEOREM FullMessagesPassOn == Spec => []FullMessagesRepeat
<1> DEFINE IInv == Popped /\ Relayed
<1>1. Init => IInv
  BY PoppedInit DEF Init, Relayed
<1>2. IInv /\ [Next]_vars => IInv'
  BY PoppedStep, RelayedStep
<1>3. IInv => FullMessagesRepeat
  <2> SUFFICES ASSUME Popped, Relayed, stage = "done", hops > 0, cut = 0,
                      Len(heard.bits) \in {0, MSGBITS_MAX}
               PROVE  answer = heard
    BY DEF FullMessagesRepeat
  <2>1. Recording /\ Answered
    BY DEF Popped
  <2>2. Decoded(heard) /\ tx = BuildRaw(Result(heard))
    BY DEF Relayed
  <2>3. Standard(heard) /\ Carries(tx, heard)
    BY <2>2, FullRaw
  <2>4. Understood(heard, symbols, validLen)
    BY <2>1, <2>3, WholeUnderstood
  <2>5. heard.protocol \in Range(Protocols)
    BY <2>3 DEF Standard
  <2>6. answer = [protocol |-> heard.protocol, ok |-> TRUE, bits |-> heard.bits]
    BY <2>1, <2>2, <2>4, <2>5, UnderstoodAnswer DEF Decoded
  <2>7. heard = [protocol |-> heard.protocol, ok |-> TRUE, bits |-> heard.bits]
    BY <2>2 DEF Decoded
  <2> QED
    BY <2>6, <2>7
<1> QED
  BY <1>1, <1>2, <1>3, PTL DEF Spec

-----------------------------------------------------------------------------
(* Frames that are cut short.                                              *)

\* What is left of the runs of a frame.
LEMMA CutRuns ==
  ASSUME NEW whole \in Seq(Int), NEW lost \in Nat,
         SubSeq(whole, 1, Len(whole) - 2 * lost) # <<>>
  PROVE  LET runs == SubSeq(whole, 1, Len(whole) - 2 * lost)
         IN  /\ runs \in Seq(Int)
             /\ Len(runs) = Len(whole) - 2 * lost
             /\ Len(runs) \in 1 .. Len(whole)
             /\ \A i \in 1 .. Len(runs) : runs[i] = whole[i]
<1> DEFINE n == Len(whole)
           k == n - 2 * lost
           runs == SubSeq(whole, 1, k)
<1>1. n \in Nat /\ \A i \in 1 .. n : whole[i] \in Int
  OBVIOUS
<1>2. k \in Int /\ k <= n
  <2> HIDE DEF n
  <2> QED
    BY <1>1
<1>3. k >= 1
  <2> SUFFICES ASSUME ~(k >= 1) PROVE FALSE
    OBVIOUS
  <2>1. \A i \in 1 .. k : FALSE
    <3> HIDE DEF k
    <3> QED
      BY <1>2
  <2>2. runs = <<>>
    <3> HIDE DEF k
    <3>1. k < 1
      BY <1>2
    <3> QED
      BY <1>2, <3>1, SubSeqEmpty
  <2> QED
    BY <2>2
<1>4. \A i \in 1 .. k : whole[i] \in Int
  <2>1. \A i \in 1 .. k : i \in 1 .. n
    <3> HIDE DEF n, k
    <3> QED
      BY <1>1, <1>2
  <2> QED
    BY <1>1, <2>1
<1>5. runs \in Seq(Int) /\ Len(runs) = k /\ \A i \in 1 .. k : runs[i] = whole[i]
  <2> HIDE DEF k
  <2>1. 1 \in Int /\ k \in Int
    BY <1>2
  <2>2. /\ runs \in Seq(Int)
        /\ Len(runs) = IF 1 <= k THEN k - 1 + 1 ELSE 0
        /\ \A i \in 1 .. k - 1 + 1 : runs[i] = whole[1 + i - 1]
    BY <1>2, <1>3, <1>4, SubSeqProperties
  <2>3. k - 1 + 1 = k /\ \A i \in 1 .. k : 1 + i - 1 = i
    BY <1>2
  <2> QED
    BY <1>3, <2>2, <2>3
<1>6. k \in 1 .. n
  <2> HIDE DEF k, n
  <2> QED
    BY <1>1, <1>2, <1>3
<1> QED
  BY <1>5, <1>6

\* The first bits of a frame.
LEMMA FirstBits ==
  ASSUME NEW bits \in Seq(Bit), NEW k \in 0 .. Len(bits)
  PROVE  /\ SubSeq(bits, 1, k) \in Seq(Bit)
         /\ Len(SubSeq(bits, 1, k)) = k
         /\ \A i \in 1 .. k : SubSeq(bits, 1, k)[i] = bits[i]
<1> DEFINE n == Len(bits)
<1>1. n \in Nat /\ k \in 0 .. n /\ \A i \in 1 .. n : bits[i] \in Bit
  OBVIOUS
<1> HIDE DEF n
<1>2. \A i \in 1 .. k : bits[i] \in Bit
  BY <1>1
<1>3. CASE k = 0
  <2>1. SubSeq(bits, 1, k) = <<>>
    BY <1>3, SubSeqEmpty
  <2> QED
    BY <1>3, <2>1
<1>4. CASE k # 0
  <2>0. 1 <= k /\ k \in Int
    BY <1>1, <1>4
  <2>1. k - 1 + 1 = k /\ \A i \in 1 .. k : 1 + i - 1 = i
    BY <1>1
  <2>2. /\ SubSeq(bits, 1, k) \in Seq(Bit)
        /\ Len(SubSeq(bits, 1, k)) = IF 1 <= k THEN k - 1 + 1 ELSE 0
        /\ \A i \in 1 .. k - 1 + 1 : SubSeq(bits, 1, k)[i] = bits[1 + i - 1]
    BY <1>2, <2>0, SubSeqProperties
  <2> QED
    BY <2>0, <2>1, <2>2
<1> QED
  BY <1>3, <1>4

\* What a packet begins and ends with; a postamble is the mark of a bit.
LEMMA PacketEnds ==
  ASSUME NEW p \in {NEC, NEC_RPT, SONY}
  PROVE  /\ p \in Range(Protocols) \ {RC5} /\ SymbolsOf(p) = Bit
         /\ Len(PktInfo(p).preamble) \in 1 .. 2
         /\ Len(PktInfo(p).postamble) \in 0 .. 1
         /\ Len(PktInfo(p).postamble) = 1 =>
              \A b \in Bit : PktInfo(p).bits[b + 1][1] = PktInfo(p).postamble[1]
<1>1. p \in Range(Protocols) \ {RC5} /\ p # RCMM
  BY ProtocolsValue DEF Received, NEC, NEC_RPT, SONY, RCMM, RC5
<1>2. SymbolsOf(p) = Bit
  BY <1>1 DEF SymbolsOf, Bit
<1>3. CASE p \in {NEC, NEC_RPT}
  <2>1. /\ Len(PktInfo(p).preamble) = 2
        /\ PktInfo(p).postamble = <<563>>
        /\ PktInfo(p).bits = << <<563, -563>>, <<563, -1689>>, <<>>, <<>> >>
    BY <1>3, NECInfo DEF NEC_UNIT
  <2>2. PktInfo(p).bits[1] = <<563, -563>> /\ PktInfo(p).bits[2] = <<563, -1689>>
    BY <2>1
  <2>3. PktInfo(p).bits[1][1] = 563 /\ PktInfo(p).bits[2][1] = 563
    BY <2>2
  <2>4. \A b \in Bit : b + 1 = 1 \/ b + 1 = 2
    BY DEF Bit
  <2>5. Len(PktInfo(p).postamble) = 1 /\ PktInfo(p).postamble[1] = 563
    BY <2>1
  <2> QED
    BY <1>1, <1>2, <2>1, <2>3, <2>4, <2>5
<1>4. CASE p = SONY
  <2>1. Len(PktInfo(p).preamble) = 1 /\ Len(PktInfo(p).postamble) = 0
    BY <1>4, SonyInfo
  <2> QED
    BY <1>1, <1>2, <2>1
<1> QED
  BY <1>3, <1>4

\* What is left of a frame whose last runs are lost is a frame of the first bits:
\* the mark before the space that was lost is its end.
LEMMA CutPacket ==
  ASSUME NEW p \in {NEC, NEC_RPT, SONY}, NEW bits \in Seq(Bit), NEW k \in 0 .. Len(bits)
  PROVE  SubSeq(Packet(p, bits), 1, Len(Packet(p, bits)) - 2 * (Len(bits) - k))
           = Packet(p, SubSeq(bits, 1, k))
<1> DEFINE line == Packet(p, bits)
           first == SubSeq(bits, 1, k)
           short == Packet(p, first)
           n == Len(bits)
           m == Len(PktInfo(p).preamble)
           q == Len(PktInfo(p).postamble)
           size == Len(line) - 2 * (n - k)
           cutLine == SubSeq(line, 1, size)
<1>1. /\ p \in Range(Protocols) \ {RC5} /\ SymbolsOf(p) = Bit
      /\ m \in 1 .. 2 /\ q \in 0 .. 1
      /\ q = 1 => \A b \in Bit : PktInfo(p).bits[b + 1][1] = PktInfo(p).postamble[1]
  BY PacketEnds
<1>2. n \in Nat /\ k \in 0 .. n /\ \A i \in 1 .. n : bits[i] \in Bit
  OBVIOUS
<1>3. first \in Seq(Bit) /\ Len(first) = k /\ \A i \in 1 .. k : first[i] = bits[i]
  BY FirstBits
<1>4. line \in Seq(Int) /\ HasShape(line, p, bits, m, n)
  BY <1>1, PacketShape
<1>5. short \in Seq(Int) /\ HasShape(short, p, first, m, k)
  <2> HIDE DEF first
  <2> QED
    BY <1>1, <1>3, PacketShape
<1> HIDE DEF line, first, short, n, m
<1>6. /\ Len(line) = m + 2 * n + q
      /\ \A i \in 1 .. m : line[i] = PktInfo(p).preamble[i]
      /\ \A i \in 1 .. n : /\ line[m + 2 * i - 1] = PktInfo(p).bits[bits[i] + 1][1]
                           /\ line[m + 2 * i] = PktInfo(p).bits[bits[i] + 1][2]
      /\ \A i \in 1 .. q : line[m + 2 * n + i] = PktInfo(p).postamble[i]
  BY <1>4 DEF HasShape
<1>7. /\ Len(short) = m + 2 * k + q
      /\ \A i \in 1 .. m : short[i] = PktInfo(p).preamble[i]
      /\ \A i \in 1 .. k : /\ short[m + 2 * i - 1] = PktInfo(p).bits[first[i] + 1][1]
                           /\ short[m + 2 * i] = PktInfo(p).bits[first[i] + 1][2]
      /\ \A i \in 1 .. q : short[m + 2 * k + i] = PktInfo(p).postamble[i]
  BY <1>5 DEF HasShape
<1> HIDE DEF q
<1>8. size = m + 2 * k + q
  BY <1>1, <1>2, <1>6
<1>9. ASSUME NEW i \in 1 .. m + 2 * k + q PROVE line[i] = short[i]
  <2>1. CASE i \in 1 .. m
    BY <1>6, <1>7, <2>1
  <2>2. CASE i \in m + 1 .. m + 2 * k
    <3> DEFINE j == (i - m + 1) \div 2
    <3>1. j \in 1 .. k /\ (i = m + 2 * j - 1 \/ i = m + 2 * j)
      <4> DEFINE d == i - m
      <4>1. d \in 1 .. 2 * k /\ i = m + d /\ k \in Nat
        BY <1>1, <1>2, <2>2
      <4>2. (d + 1) \div 2 \in 1 .. k
            /\ (d = 2 * ((d + 1) \div 2) - 1 \/ d = 2 * ((d + 1) \div 2))
        <5> HIDE DEF d
        <5> QED
          BY <4>1
      <4> QED
        BY <1>1, <4>1, <4>2
    <3> HIDE DEF j
    <3>2. j \in 1 .. n /\ first[j] = bits[j]
      BY <1>2, <1>3, <3>1
    <3>3. /\ line[m + 2 * j - 1] = PktInfo(p).bits[bits[j] + 1][1]
          /\ line[m + 2 * j] = PktInfo(p).bits[bits[j] + 1][2]
      BY <1>6, <3>2
    <3>4. /\ short[m + 2 * j - 1] = PktInfo(p).bits[first[j] + 1][1]
          /\ short[m + 2 * j] = PktInfo(p).bits[first[j] + 1][2]
      BY <1>7, <3>1
    <3>5. line[m + 2 * j - 1] = short[m + 2 * j - 1] /\ line[m + 2 * j] = short[m + 2 * j]
      BY <3>2, <3>3, <3>4
    <3> QED
      BY <3>1, <3>5
  <2>3. CASE i = m + 2 * k + 1 /\ q = 1
    <3>1. short[m + 2 * k + 1] = PktInfo(p).postamble[1]
      BY <1>7, <2>3
    <3>2. CASE k = n
      BY <1>6, <2>3, <3>1, <3>2
    <3>3. CASE k # n
      <4>1. k + 1 \in 1 .. n /\ m + 2 * (k + 1) - 1 = m + 2 * k + 1
        BY <1>1, <1>2, <3>3
      <4>2. line[m + 2 * (k + 1) - 1] = PktInfo(p).bits[bits[k + 1] + 1][1]
        BY <1>6, <4>1
      <4>3. PktInfo(p).bits[bits[k + 1] + 1][1] = PktInfo(p).postamble[1]
        BY <1>1, <1>2, <2>3, <4>1
      <4> QED
        BY <2>3, <3>1, <4>1, <4>2, <4>3
    <3> QED
      BY <3>2, <3>3
  <2>4. i \in 1 .. m \/ i \in m + 1 .. m + 2 * k \/ (i = m + 2 * k + 1 /\ q = 1)
    BY <1>1, <1>2
  <2> QED
    BY <2>1, <2>2, <2>3, <2>4
<1>10. cutLine = short
  <2> DEFINE s == m + 2 * k + q
  <2>1. s \in Nat /\ 1 <= s /\ s - 1 + 1 = s /\ \A i \in 1 .. s : 1 + i - 1 = i
    BY <1>1, <1>2
  <2>2. \A i \in 1 .. s : line[i] \in Int
    <3>1. \A i \in 1 .. s : short[i] \in Int
      BY <1>5, <1>7
    <3> QED
      BY <1>9, <3>1
  <2> HIDE DEF s
  <2>3. /\ SubSeq(line, 1, s) \in Seq(Int)
        /\ Len(SubSeq(line, 1, s)) = IF 1 <= s THEN s - 1 + 1 ELSE 0
        /\ \A i \in 1 .. s - 1 + 1 : SubSeq(line, 1, s)[i] = line[1 + i - 1]
    BY <2>1, <2>2, SubSeqProperties
  <2>4. size = s /\ Len(short) = s
    BY <1>7, <1>8 DEF s
  <2>5. cutLine \in Seq(Int) /\ Len(cutLine) = s /\ \A i \in 1 .. s : cutLine[i] = line[i]
    <3>1. cutLine = SubSeq(line, 1, s)
      BY <2>4
    <3> HIDE DEF cutLine
    <3> QED
      BY <2>1, <2>3, <3>1
  <2>6. \A i \in 1 .. s : line[i] = short[i]
    BY <1>9 DEF s
  <2> HIDE DEF cutLine
  <2>7. \A i \in 1 .. Len(cutLine) : cutLine[i] = short[i]
    BY <2>5, <2>6
  <2> QED
    BY <1>5, <2>4, <2>5, <2>7, SeqEqual
<1> QED
  BY <1>10 DEF cutLine, size, short, line, first, n

\* Who accepts the message is the decoder of the frame's protocol, and what it
\* makes of it are the first bits of the frame.
Grasped(p, bits, msg, v) ==
  \A q \in Received :
    Decode(q, msg, v).ok =>
      /\ q = p
      /\ \E k \in 0 .. Len(bits) : Decode(q, msg, v).bits = SubSeq(bits, 1, k)

\* How a frame begins tells its protocol.
LEMMA FirstTells ==
  ASSUME NEW msg \in Samples, NEW v, NEW p \in Received, Decode(p, msg, v).ok,
         NEW x \in {9008, 2400} \cup RunLengths, Near(x, msg[1])
  PROVE  /\ x = 9008 => p \in {NEC, NEC_RPT} /\ msg[2] >= -5348
         /\ x = 2400 => p = SONY
         /\ x \in RunLengths => p = RC5
<1>1. msg[1] \in Int /\ x - 105 < msg[1] /\ msg[1] < x + 105
  BY DEF Near
<1>2. x \in Int /\ (x = 9008 \/ x = 2400 \/ x = 889 \/ x = -889 \/ x = 1778 \/ x = -1778)
  BY DEF RunLengths
<1>3. CASE p \in {NEC, NEC_RPT}
  <2>1. msg[1] >= 7319 /\ msg[2] >= -5348
    BY <1>3, NECAccepts
  <2>2. x = 9008
    BY <1>1, <1>2, <2>1
  <2>3. x # 2400 /\ x \notin RunLengths
    BY <2>2 DEF RunLengths
  <2> QED
    BY <1>3, <2>1, <2>3
<1>4. CASE p = SONY
  <2>1. msg[1] >= 1950 /\ msg[1] <= 2850
    BY <1>4, SonyAccepts
  <2>2. x = 2400
    BY <1>1, <1>2, <2>1
  <2>3. x # 9008 /\ x \notin RunLengths
    BY <2>2 DEF RunLengths
  <2> QED
    BY <1>4, <2>3
<1>5. CASE p = RC5
  <2>1. HalfBits(msg[1]) # 0
    BY <1>5, RC5Accepts
  <2>2. Abs(msg[1]) <= 2111
    BY <1>1, <2>1, HalfBitsValue, AbsValue
  <2>3. msg[1] <= 2111
    BY <1>1, <2>2 DEF Abs
  <2>4. x # 9008 /\ x # 2400
    BY <1>1, <2>3
  <2> QED
    BY <1>5, <2>4
<1> QED
  BY <1>3, <1>4, <1>5 DEF Received

\* The last of these cases on its own.
LEMMA FirstIsRC5 ==
  ASSUME NEW msg \in Samples, NEW v, NEW p \in Received, Decode(p, msg, v).ok,
         NEW x \in RunLengths, Near(x, msg[1])
  PROVE  p = RC5
<1>1. x \in {9008, 2400} \cup RunLengths
  OBVIOUS
<1>2. /\ x = 9008 => p \in {NEC, NEC_RPT} /\ msg[2] >= -5348
      /\ x = 2400 => p = SONY
      /\ x \in RunLengths => p = RC5
  BY <1>1, FirstTells
<1> QED
  BY <1>2

\* The first mark of a NEC frame, and a gap.
LEMMA OneMark ==
  ASSUME NEW runs \in Seq(Int), Len(runs) = 1, NEW old, NEW phase
  PROVE  IsGap(Recorded(old, runs, phase)[2])
<1>1. Len(runs) < RX_SYMBOLS /\ Len(runs) + 1 = 2
  BY DEF RX_SYMBOLS
<1>2. IsGap(Recorded(old, runs, phase)[Len(runs) + 1])
  BY <1>1, GapBehind, Zenon
<1> QED
  BY <1>1, <1>2

\* Nothing but a beginning of the bits is made of a NEC frame that is cut short.
LEMMA NECCut ==
  ASSUME NEW p \in {NEC, NEC_RPT}, NEW bits \in Seq(Bit), Len(bits) <= MSGBITS_MAX,
         NEW lost \in Nat, NEW runs,
         runs = SubSeq(Packet(p, bits), 1, Len(Packet(p, bits)) - 2 * lost), runs # <<>>,
         NEW old \in Samples, NEW phase \in Nat
  PROVE  Grasped(p, bits, Recorded(old, runs, phase), ValidLen(runs))
<1> SUFFICES ASSUME NEW q \in Received,
                    Decode(q, Recorded(old, runs, phase), ValidLen(runs)).ok
             PROVE  /\ q = p
                    /\ \E k \in 0 .. Len(bits) :
                         Decode(q, Recorded(old, runs, phase), ValidLen(runs)).bits
                           = SubSeq(bits, 1, k)
  BY DEF Grasped
<1> DEFINE line == Packet(p, bits)
           n == Len(bits)
           msg == Recorded(old, runs, phase)
           v == ValidLen(runs)
<1>1. /\ p \in Range(Protocols) \ {RC5} /\ SymbolsOf(p) = Bit /\ p \in Received
      /\ Len(PktInfo(p).preamble) = 2 /\ Len(PktInfo(p).postamble) = 1
      /\ PktInfo(p).preamble[1] = 9008
  <2>1. p \in Range(Protocols) \ {RC5} /\ SymbolsOf(p) = Bit
    BY PacketEnds
  <2>2. /\ PktInfo(p).preamble = <<16 * NEC_UNIT, -(IF p = NEC THEN 8 ELSE 4) * NEC_UNIT>>
        /\ PktInfo(p).postamble = <<NEC_UNIT>>
    BY NECInfo
  <2>3. 16 * NEC_UNIT = 9008
    BY DEF NEC_UNIT
  <2> QED
    BY <2>1, <2>2, <2>3 DEF Received
<1>2. line \in Seq(Int) /\ HasShape(line, p, bits, 2, n)
  <2>1. bits \in Seq(SymbolsOf(p))
    BY <1>1
  <2>2. /\ Packet(p, bits) \in Seq(Int)
        /\ HasShape(Packet(p, bits), p, bits, Len(PktInfo(p).preamble), Len(bits))
    <3>1. p \in Range(Protocols)
      BY <1>1
    <3> QED
      BY <2>1, <3>1, PacketShape, Zenon
  <2> QED
    BY <1>1, <2>2
<1>3. n \in Nat /\ n <= MSGBITS_MAX
  OBVIOUS
<1> HIDE DEF line, n
<1>4. Len(line) = 3 + 2 * n /\ line[1] = 9008
  <2>1. /\ Len(line) = 2 + 2 * n + Len(PktInfo(p).postamble)
        /\ \A i \in 1 .. 2 : line[i] = PktInfo(p).preamble[i]
    BY <1>2 DEF HasShape
  <2> QED
    BY <1>1, <1>3, <2>1
<1>5. /\ runs \in Seq(Int) /\ Len(runs) = Len(line) - 2 * lost
      /\ Len(runs) \in 1 .. Len(line)
      /\ \A i \in 1 .. Len(runs) : runs[i] = line[i]
  <2>1. runs = SubSeq(line, 1, Len(line) - 2 * lost)
    BY DEF line
  <2>2. line \in Seq(Int) /\ SubSeq(line, 1, Len(line) - 2 * lost) # <<>>
    BY <1>2, <2>1
  <2>3. LET cutRuns == SubSeq(line, 1, Len(line) - 2 * lost)
        IN  /\ cutRuns \in Seq(Int)
            /\ Len(cutRuns) = Len(line) - 2 * lost
            /\ Len(cutRuns) \in 1 .. Len(line)
            /\ \A i \in 1 .. Len(cutRuns) : cutRuns[i] = line[i]
    BY <2>2, CutRuns
  <2> QED
    BY <2>1, <2>3
<1>6. msg \in Samples
  BY <1>5, RecordedType DEF Samples
<1>7. CASE lost <= n
  <2> DEFINE k == n - lost
             first == SubSeq(bits, 1, k)
             f == [protocol |-> p, bits |-> first]
  <2>1. k \in 0 .. n /\ n - k = lost /\ k <= MSGBITS_MAX
    BY <1>3, <1>7 DEF MSGBITS_MAX
  <2>2. first \in Seq(Bit) /\ Len(first) = k
    <3> HIDE DEF k
    <3> QED
      BY <2>1, FirstBits DEF n
  <2>3. runs = Packet(p, first)
    <3> HIDE DEF k
    <3>1. SubSeq(line, 1, Len(line) - 2 * (n - k)) = Packet(p, first)
      BY <2>1, CutPacket DEF n, line
    <3> QED
      BY <2>1, <3>1 DEF line
  <2>4. Decode(p, msg, v) = Accepted(first)
    <3> HIDE DEF first
    <3> QED
      BY <2>1, <2>2, <2>3, NECFrame
  <2>5. f.protocol = p /\ f.bits = first
    OBVIOUS
  <2> HIDE DEF f, msg, v, first, k
  <2>6. Understood(f, msg, v)
    BY <1>1, <1>6, <2>4, <2>5, OnlyOne
  <2>7. q = p
    BY <2>5, <2>6 DEF Understood, msg, v
  <2>8. Decode(q, msg, v).bits = first
    BY <2>4, <2>7 DEF Accepted
  <2> QED
    BY <2>1, <2>7, <2>8 DEF msg, v, first, n
<1>8. CASE ~(lost <= n)
  <2> DEFINE r == Len(runs)
  <2>1. r = 1
    <3>1. r = 3 + 2 * n - 2 * lost /\ r >= 1
      <4> DEFINE m == Len(line)
      <4>1. r = m - 2 * lost /\ r \in 1 .. m /\ m = 3 + 2 * n
        BY <1>4, <1>5
      <4> HIDE DEF r, m
      <4> QED
        BY <1>3, <4>1
    <3> HIDE DEF r
    <3> QED
      BY <1>3, <1>8, <3>1
  <2>2. runs[1] = 9008 /\ r < RX_SYMBOLS
    BY <1>4, <1>5, <2>1 DEF RX_SYMBOLS
  <2>3. Near(9008, msg[1])
    <3>1. 1 \in 1 .. Len(runs) /\ 1 <= RX_SYMBOLS
      BY <2>1 DEF RX_SYMBOLS
    <3>2. Near(runs[1], Recorded(old, runs, phase)[1])
      BY <1>5, <3>1, RecordedNear
    <3> QED
      BY <2>2, <3>2
  <2>4. msg[2] \in Int /\ msg[2] < -5348
    <3>1. runs \in Seq(Int) /\ Len(runs) = 1
      BY <1>5, <2>1, Zenon
    <3>2. IsGap(msg[2])
      BY <3>1, OneMark, Zenon
    <3> QED
      BY <3>2 DEF IsGap
  <2>5. Decode(q, msg, v).ok
    OBVIOUS
  <2> HIDE DEF msg, v
  <2>6. msg[2] >= -5348
    BY <1>6, <2>3, <2>5, FirstTells
  <2> QED
    BY <2>4, <2>6
<1> QED
  BY <1>7, <1>8

\* The same for Sony.
LEMMA SonyCut ==
  ASSUME NEW bits \in Seq(Bit), Len(bits) <= MSGBITS_MAX,
         NEW lost \in Nat, NEW runs,
         runs = SubSeq(Packet(SONY, bits), 1, Len(Packet(SONY, bits)) - 2 * lost), runs # <<>>,
         NEW old \in Samples, NEW phase \in Nat
  PROVE  Grasped(SONY, bits, Recorded(old, runs, phase), ValidLen(runs))
<1> SUFFICES ASSUME NEW q \in Received,
                    Decode(q, Recorded(old, runs, phase), ValidLen(runs)).ok
             PROVE  /\ q = SONY
                    /\ \E k \in 0 .. Len(bits) :
                         Decode(q, Recorded(old, runs, phase), ValidLen(runs)).bits
                           = SubSeq(bits, 1, k)
  BY DEF Grasped
<1> DEFINE line == Packet(SONY, bits)
           n == Len(bits)
           msg == Recorded(old, runs, phase)
           v == ValidLen(runs)
           k == n - lost
           first == SubSeq(bits, 1, k)
<1>1. /\ SONY \in Range(Protocols) \ {RC5} /\ SymbolsOf(SONY) = Bit
      /\ Len(PktInfo(SONY).preamble) = 1 /\ Len(PktInfo(SONY).postamble) = 0
      /\ PktInfo(SONY).preamble[1] = 2400
  <2>1. SONY \in Range(Protocols) \ {RC5} /\ SymbolsOf(SONY) = Bit
    BY PacketEnds
  <2> QED
    BY <2>1, SonyInfo DEF SONY_UNIT
<1>2. line \in Seq(Int) /\ HasShape(line, SONY, bits, 1, n)
  <2>1. bits \in Seq(SymbolsOf(SONY))
    BY <1>1
  <2>2. /\ Packet(SONY, bits) \in Seq(Int)
        /\ HasShape(Packet(SONY, bits), SONY, bits, Len(PktInfo(SONY).preamble), Len(bits))
    <3>1. SONY \in Range(Protocols)
      BY <1>1
    <3> QED
      BY <2>1, <3>1, PacketShape, Zenon
  <2> QED
    BY <1>1, <2>2
<1>3. n \in Nat /\ n <= MSGBITS_MAX
  OBVIOUS
<1> HIDE DEF line, n
<1>4. Len(line) = 1 + 2 * n /\ line[1] = 2400
  <2>1. /\ Len(line) = 1 + 2 * n + Len(PktInfo(SONY).postamble)
        /\ \A i \in 1 .. 1 : line[i] = PktInfo(SONY).preamble[i]
    BY <1>2 DEF HasShape
  <2> QED
    BY <1>1, <1>3, <2>1
<1>5. /\ runs \in Seq(Int) /\ Len(runs) = Len(line) - 2 * lost
      /\ Len(runs) \in 1 .. Len(line)
      /\ \A i \in 1 .. Len(runs) : runs[i] = line[i]
  <2>1. runs = SubSeq(line, 1, Len(line) - 2 * lost)
    BY DEF line
  <2>2. line \in Seq(Int) /\ SubSeq(line, 1, Len(line) - 2 * lost) # <<>>
    BY <1>2, <2>1
  <2>3. LET cutRuns == SubSeq(line, 1, Len(line) - 2 * lost)
        IN  /\ cutRuns \in Seq(Int)
            /\ Len(cutRuns) = Len(line) - 2 * lost
            /\ Len(cutRuns) \in 1 .. Len(line)
            /\ \A i \in 1 .. Len(cutRuns) : cutRuns[i] = line[i]
    BY <2>2, CutRuns
  <2> QED
    BY <2>1, <2>3
<1>6. msg \in Samples
  BY <1>5, RecordedType DEF Samples
<1>7. k \in 0 .. n /\ n - k = lost /\ k <= MSGBITS_MAX
  <2> DEFINE r == Len(runs)
  <2>1. r = 1 + 2 * n - 2 * lost /\ r >= 1
    <3> DEFINE m == Len(line)
    <3>1. r = m - 2 * lost /\ r \in 1 .. m /\ m = 1 + 2 * n
      BY <1>4, <1>5
    <3> HIDE DEF r, m
    <3> QED
      BY <1>3, <3>1
  <2> HIDE DEF r
  <2> QED
    BY <1>3, <2>1 DEF MSGBITS_MAX
<1> HIDE DEF k
<1>8. first \in Seq(Bit) /\ Len(first) = k
  BY <1>7, FirstBits DEF n
<1>9. runs = Packet(SONY, first)
  <2>1. SubSeq(line, 1, Len(line) - 2 * (n - k)) = Packet(SONY, first)
    BY <1>7, CutPacket DEF n, line
  <2> QED
    BY <1>7, <2>1 DEF line
<1>10. DecodePktDefault(SONY, msg, v) = Accepted(first)
  <2> HIDE DEF first
  <2> QED
    BY <1>7, <1>8, <1>9, SonyFrame
<1>11. Near(2400, msg[1])
  <2>0. Len(line) \in Nat
    BY <1>3, <1>4
  <2>1. 1 \in 1 .. Len(runs) /\ 1 <= RX_SYMBOLS
    <3> DEFINE r == Len(runs)
    <3>1. r \in 1 .. Len(line)
      BY <1>5
    <3> HIDE DEF r
    <3>2. 1 \in 1 .. r
      BY <2>0, <3>1
    <3> QED
      BY <3>2 DEF RX_SYMBOLS, r
  <2>2. runs[1] = 2400
    BY <1>4, <1>5, <2>1
  <2>3. Near(runs[1], Recorded(old, runs, phase)[1])
    BY <1>5, <2>1, RecordedNear
  <2> QED
    BY <2>2, <2>3
<1>12. Decode(q, msg, v).ok
  OBVIOUS
<1> HIDE DEF msg, v, first
<1>13. q = SONY
  <2>1. 2400 \in {9008, 2400} \cup RunLengths
    OBVIOUS
  <2> QED
    BY <1>6, <1>11, <1>12, <2>1, FirstTells
<1>14. Decode(q, msg, v).bits = first
  <2>1. Decode(SONY, msg, v) = DecodePktSony(SONY, msg, v)
    BY DEF Decode, SONY, RC5
  <2>2. DecodePktSony(SONY, msg, v).ok
    BY <1>12, <1>13, <2>1
  <2>3. DecodePktSony(SONY, msg, v) = DecodePktDefault(SONY, msg, v)
    BY <2>2 DEF DecodePktSony, Rejected
  <2> QED
    BY <1>10, <1>13, <2>1, <2>3 DEF Accepted
<1> QED
  BY <1>7, <1>13, <1>14 DEF msg, v, first, n

\* No decoder accepts an RC5 frame of which runs are lost: every decoder of RC5
\* needs all its half-bits.
LEMMA RC5Cut ==
  ASSUME NEW line, IsRC5(line), NEW lost \in Nat \ {0}, NEW runs,
         runs = SubSeq(Runs(line), 1, Len(Runs(line)) - 2 * lost), runs # <<>>,
         NEW old \in Samples, NEW phase \in Nat, NEW p \in Received
  PROVE  ~Decode(p, Recorded(old, runs, phase), ValidLen(runs)).ok
<1> DEFINE whole == Runs(line)
           n == Len(whole)
           m == Len(runs)
           msg == Recorded(old, runs, phase)
           v == ValidLen(runs)
           pos == GetBitSeq(msg).pos
<1>1. RunsTo(whole, line, LastMark(line)) /\ LastMark(line) \in 1 .. 28
  BY RC5Runs DEF LastMark
<1>2. whole \in Seq(Int) /\ n \in 1 .. 27 /\ \A k \in 1 .. n : whole[k] \in RunLengths
  BY <1>1, RunsFew
<1>3. Len(Halves(whole, n)) <= 27
  <2>1. Halves(whole, n) = Levels(line, LastMark(line))
    BY <1>1 DEF RunsTo
  <2>2. LastMark(line) \in Nat \ {0} /\ LastMark(line) - 1 <= 27
    <3> DEFINE e == LastMark(line)
    <3>1. e \in 1 .. 28
      BY <1>1
    <3> HIDE DEF e
    <3>2. e \in Nat \ {0} /\ e - 1 <= 27
      BY <3>1
    <3> QED
      BY <3>2 DEF e
  <2>3. Len(Levels(line, LastMark(line))) = LastMark(line) - 1
    BY <2>2, LevelType
  <2> QED
    BY <2>1, <2>2, <2>3
<1>4. /\ runs \in Seq(Int) /\ m = n - 2 * lost /\ m \in 1 .. n
      /\ \A i \in 1 .. m : runs[i] = whole[i]
  <2>1. runs = SubSeq(whole, 1, Len(whole) - 2 * lost) /\ runs # <<>>
    OBVIOUS
  <2> HIDE DEF whole
  <2>2. SubSeq(whole, 1, Len(whole) - 2 * lost) # <<>>
    BY <2>1
  <2>3. LET cutRuns == SubSeq(whole, 1, Len(whole) - 2 * lost)
        IN  /\ cutRuns \in Seq(Int)
            /\ Len(cutRuns) = Len(whole) - 2 * lost
            /\ Len(cutRuns) \in 1 .. Len(whole)
            /\ \A i \in 1 .. Len(cutRuns) : cutRuns[i] = whole[i]
    BY <1>2, <2>2, CutRuns
  <2> QED
    BY <2>1, <2>3
<1> HIDE DEF whole
<1>5. msg \in Samples
  BY <1>4, RecordedType DEF Samples
<1>6. m \in 1 .. 25 /\ n \in 1 .. 27 /\ n - m >= 2
  <2> HIDE DEF m, n
  <2>1. m = n - 2 * lost /\ m \in 1 .. n
    BY <1>4, Zenon
  <2>2. n \in 1 .. 27
    BY <1>2, Zenon
  <2>3. lost \in Nat /\ lost # 0
    OBVIOUS
  <2> QED
    BY <2>1, <2>2, <2>3
<1>7. ASSUME NEW k \in 1 .. m
      PROVE  /\ Near(runs[k], msg[k]) /\ runs[k] \in RunLengths
             /\ msg[k] \in Int /\ Piece(msg[k]) = Piece(whole[k])
             /\ HalfBits(msg[k]) # 0
  <2>1. k \in 1 .. n /\ k <= RX_SYMBOLS /\ k \in Nat
    <3> HIDE DEF m, n
    <3> QED
      BY <1>6 DEF RX_SYMBOLS
  <2>2. runs[k] = whole[k] /\ whole[k] \in RunLengths
    BY <1>2, <1>4, <2>1
  <2>3. Near(runs[k], msg[k])
    BY <1>4, <2>1, RecordedNear
  <2> HIDE DEF msg
  <2>4. msg[k] \in Int /\ Piece(msg[k]) = Piece(runs[k]) /\ HalfBits(msg[k]) # 0
    BY <2>2, <2>3, PieceRecorded
  <2> QED
    BY <2>2, <2>3, <2>4
<1>8. msg[m + 1] \in Int /\ msg[m + 1] < -SIGFREE_MIN
  <2>1. Len(runs) < RX_SYMBOLS
    <3> HIDE DEF m
    <3>1. m < RX_SYMBOLS
      BY <1>6 DEF RX_SYMBOLS
    <3> QED
      BY <3>1 DEF m
  <2>2. runs \in Seq(Int)
    BY <1>4
  <2>3. IsGap(msg[m + 1])
    BY <2>1, <2>2, GapBehind, Zenon
  <2> QED
    BY <2>3 DEF IsGap
<1>9. CASE p # RC5
  <2>1. runs[1] \in RunLengths /\ Near(runs[1], msg[1])
    <3> HIDE DEF m, msg
    <3>1. 1 \in 1 .. m
      BY <1>6
    <3> QED
      BY <1>7, <3>1
  <2> HIDE DEF msg, v
  <2>2. Decode(p, msg, v).ok => p = RC5
    BY <1>5, <2>1, FirstIsRC5, Zenon
  <2> QED
    BY <1>9, <2>2 DEF msg, v
<1>10. CASE p = RC5
  <2> SUFFICES ASSUME Decode(RC5, msg, v).ok PROVE FALSE
    BY <1>10
  <2>1. DecodePktRC5(RC5, msg, v).ok
    BY DEF Decode, SONY, RC5
  <2> HIDE DEF msg, v
  <2>2. Len(GetBitSeq(msg).levels) \in {26, 27, 28}
    BY <1>5, <2>1, RC5Value
  <2>3. /\ pos \in 1 .. RX_SYMBOLS
        /\ GetBitSeq(msg).levels = Halves(msg, pos - 1)
        /\ \A k \in 1 .. pos - 1 : HalfBits(msg[k]) # 0 /\ msg[k] > -SIGFREE_MIN
    BY <1>5, BitSeqValue
  <2> HIDE DEF pos, m, n
  <2>4. ~(pos > m + 1)
    <3> SUFFICES ASSUME pos > m + 1 PROVE FALSE
      OBVIOUS
    <3>1. m + 1 \in 1 .. pos - 1
      BY <1>6, <2>3 DEF RX_SYMBOLS
    <3>2. msg[m + 1] > -SIGFREE_MIN
      BY <2>3, <3>1
    <3>3. SIGFREE_MIN \in Nat
      BY CodecAssumption
    <3> QED
      BY <1>8, <3>2, <3>3
  <2>5. pos - 1 \in 0 .. m /\ pos - 1 \in 0 .. n /\ pos - 1 \in Nat /\ n \in Nat
    BY <1>6, <2>3, <2>4 DEF RX_SYMBOLS
  <2>6. Halves(msg, pos - 1) = Halves(whole, pos - 1)
    <3>1. \A k \in 1 .. pos - 1 : Piece(msg[k]) = Piece(whole[k])
      <4>1. \A k \in 1 .. pos - 1 : k \in 1 .. m
        BY <1>6, <2>5
      <4> QED
        BY <1>7, <4>1
    <3> QED
      BY <2>5, <3>1, HalvesSame
  <2>7. \A k \in 1 .. n : whole[k] \in Int /\ HalfBits(whole[k]) # 0
    <3>1. \A x \in RunLengths : x \in Int /\ HalfBits(x) # 0
      BY DEF RunLengths, HalfBits, Tolerance, Abs, RC5_UNIT
    <3> QED
      BY <1>2, <3>1
  <2>8. Len(Halves(whole, pos - 1)) + (n - (pos - 1)) <= Len(Halves(whole, n))
    BY <2>5, <2>7, HalvesGrow
  <2> DEFINE a == Len(Halves(whole, pos - 1))
             b == Len(Halves(whole, n))
  <2>9. a \in {26, 27, 28} /\ b <= 27 /\ a + (n - (pos - 1)) <= b
    BY <1>3, <2>2, <2>3, <2>6, <2>8 DEF n
  <2>10. b \in Int
    <3>1. Halves(whole, n) \in Seq(Bit)
      BY <2>5, <2>7, HalvesType
    <3> QED
      BY <3>1
  <2> HIDE DEF a, b
  <2>11. a \in Int /\ a >= 26
    BY <2>9
  <2>12. n - (pos - 1) >= 2 /\ n - (pos - 1) \in Int
    BY <1>6, <2>5
  <2> QED
    BY <2>9, <2>10, <2>11, <2>12
<1> QED
  BY <1>9, <1>10 DEF msg, v

\* What is understood is grasped.
LEMMA UnderstoodGrasped ==
  ASSUME NEW f, f.bits \in Seq(Bit), NEW msg, NEW v, Understood(f, msg, v)
  PROVE  Grasped(f.protocol, f.bits, msg, v)
<1> SUFFICES ASSUME NEW p \in Received, Decode(p, msg, v).ok
             PROVE  /\ p = f.protocol
                    /\ \E k \in 0 .. Len(f.bits) :
                         Decode(p, msg, v).bits = SubSeq(f.bits, 1, k)
  BY DEF Grasped
<1>1. p = f.protocol
  BY DEF Understood
<1>2. Decode(p, msg, v).bits = f.bits
  BY <1>1 DEF Understood, Accepted
<1>3. SubSeq(f.bits, 1, Len(f.bits)) = f.bits /\ Len(f.bits) \in 0 .. Len(f.bits)
  <2> DEFINE s == f.bits
  <2>1. s \in Seq(Bit) /\ Len(s) - 0 = Len(s) /\ Len(s) \in 0 .. Len(s)
    OBVIOUS
  <2> HIDE DEF s
  <2>2. SubSeq(s, 1, Len(s) - 0) = s
    BY <2>1, WholeSeq
  <2> QED
    BY <2>1, <2>2 DEF s
<1> QED
  BY <1>1, <1>2, <1>3

\* Every frame is grasped, however much of its end is lost.
LEMMA CutGrasped ==
  ASSUME NEW f, Standard(f), NEW line \in Seq(Int), Carries(line, f),
         NEW lost \in Nat, NEW runs,
         runs = SubSeq(Runs(line), 1, Len(Runs(line)) - 2 * lost), runs # <<>>,
         NEW old \in Samples, NEW phase \in Nat
  PROVE  Grasped(f.protocol, f.bits, Recorded(old, runs, phase), ValidLen(runs))
<1> DEFINE p == f.protocol
           bits == f.bits
           whole == Runs(line)
<1>1. p \in Range(Protocols) /\ bits \in Seq(Bit) /\ Len(bits) <= MSGBITS_MAX
  BY DEF Standard
<1>2. whole \in Seq(Int)
  BY RunsType
<1>3. CASE p \in {NEC, NEC_RPT, SONY}
  <2>1. p # RCMM /\ p # RC5
    BY <1>3 DEF NEC, NEC_RPT, SONY, RCMM, RC5
  <2>2. line = RemoteFrame(f) /\ FrameSymbols(f) = bits
    BY <2>1 DEF Carries, FrameSymbols
  <2>3. line = Packet(p, bits)
    <3>1. RemoteFrame(f) = Packet(p, FrameSymbols(f))
      BY <1>1, RemotePacket
    <3> QED
      BY <2>2, <3>1
  <2>4. bits \in Seq(SymbolsOf(p))
    <3>1. Bit = 0 .. 1 /\ SymbolsOf(p) = 0 .. 1
      BY <2>1 DEF Bit, SymbolsOf
    <3> QED
      BY <1>1, <3>1
  <2>5. Alternates(Packet(p, bits))
    BY <1>1, <2>1, <2>4, PacketAlternates
  <2>6. whole = Packet(p, bits)
    BY <2>3, <2>5, AlternatingRuns
  <2>7. runs = SubSeq(Packet(p, bits), 1, Len(Packet(p, bits)) - 2 * lost)
    BY <2>6
  <2>8. CASE p \in {NEC, NEC_RPT}
    <3>1. /\ p \in {NEC, NEC_RPT} /\ bits \in Seq(Bit) /\ Len(bits) <= MSGBITS_MAX
          /\ runs = SubSeq(Packet(p, bits), 1, Len(Packet(p, bits)) - 2 * lost)
      BY <1>1, <2>7, <2>8
    <3> HIDE DEF p, bits
    <3>2. Grasped(p, bits, Recorded(old, runs, phase), ValidLen(runs))
      BY <3>1, NECCut, Zenon
    <3> QED
      BY <3>2 DEF p, bits
  <2>9. CASE p = SONY
    <3>1. runs = SubSeq(Packet(SONY, bits), 1, Len(Packet(SONY, bits)) - 2 * lost)
      BY <2>7, <2>9
    <3> HIDE DEF p, bits
    <3>2. Grasped(SONY, bits, Recorded(old, runs, phase), ValidLen(runs))
      BY <1>1, <3>1, SonyCut, Zenon
    <3> QED
      BY <2>9, <3>2 DEF p, bits
  <2> QED
    BY <1>3, <2>8, <2>9
<1>4. CASE p = RC5
  <2>1. CASE lost = 0
    <3>1. runs = SubSeq(whole, 1, Len(whole) - 0)
      BY <2>1
    <3>2. SubSeq(whole, 1, Len(whole) - 0) = whole
      <4> HIDE DEF whole
      <4> QED
        BY <1>2, WholeSeq
    <3>3. runs = Runs(line)
      BY <3>1, <3>2
    <3>4. Understood(f, Recorded(old, runs, phase), ValidLen(runs))
      BY <3>3, FrameUnderstood
    <3> QED
      BY <1>1, <3>4, UnderstoodGrasped
  <2>2. CASE lost # 0
    <3>1. Len(bits) = 14 /\ bits[1] = 1
      BY <1>4 DEF Standard
    <3>2. line = RemoteFrame(f)
      BY <1>4 DEF Carries, RCMM, RC5
    <3>3. IsRC5(line)
      BY <1>1, <1>4, <3>1, <3>2, RC5Line
    <3>4. \A q \in Received : ~Decode(q, Recorded(old, runs, phase), ValidLen(runs)).ok
      BY <2>2, <3>3, RC5Cut
    <3> QED
      BY <3>4 DEF Grasped
  <2> QED
    BY <2>1, <2>2
<1>5. CASE p = RCMM
  <2>1. Begins(line)
    BY <1>5 DEF Carries
  <2>2. Len(whole) >= 1 /\ whole[1] = 420
    BY <2>1, FirstRun
  <2>3. /\ runs \in Seq(Int) /\ Len(runs) \in 1 .. Len(whole)
        /\ \A i \in 1 .. Len(runs) : runs[i] = whole[i]
    <3>1. runs = SubSeq(whole, 1, Len(whole) - 2 * lost) /\ runs # <<>>
      OBVIOUS
    <3> HIDE DEF whole
    <3>2. SubSeq(whole, 1, Len(whole) - 2 * lost) # <<>>
      BY <3>1
    <3>3. LET cutRuns == SubSeq(whole, 1, Len(whole) - 2 * lost)
          IN  /\ cutRuns \in Seq(Int)
              /\ Len(cutRuns) \in 1 .. Len(whole)
              /\ \A i \in 1 .. Len(cutRuns) : cutRuns[i] = whole[i]
      BY <1>2, <3>2, CutRuns
    <3> QED
      BY <3>1, <3>3
  <2>4. Near(420, Recorded(old, runs, phase)[1])
    <3> DEFINE r == Len(runs)
    <3>1. r \in 1 .. Len(whole) /\ Len(whole) \in Nat
      BY <1>2, <2>3
    <3> HIDE DEF r
    <3>2. 1 \in 1 .. r /\ 1 <= RX_SYMBOLS
      BY <3>1 DEF RX_SYMBOLS
    <3>3. Near(runs[1], Recorded(old, runs, phase)[1])
      BY <2>3, <3>2, RecordedNear DEF r
    <3>4. runs[1] = 420
      BY <2>2, <2>3, <3>2 DEF r
    <3> QED
      BY <3>3, <3>4
  <2>5. Recorded(old, runs, phase) \in Samples
    BY <2>3, RecordedType DEF Samples
  <2>6. \A q \in Received : ~Decode(q, Recorded(old, runs, phase), ValidLen(runs)).ok
    BY <2>4, <2>5, RCMMRejected
  <2> QED
    BY <2>6 DEF Grasped
<1> QED
  BY <1>1, <1>3, <1>4, <1>5, ProtocolsValue DEF Received

\* No decoder invents bits: what is received of a frame, whole or cut short, at
\* whatever run, are the first bits of that frame.
THEOREM NoBitsInvented ==
  ASSUME \A f \in Frames : Standard(f), \A m \in Messages : GoodMessage(m)
  PROVE  Spec => []OnlyBitsSent
<1> DEFINE IInv == Popped /\ Sourced
<1>1. Init => IInv
  BY PoppedInit DEF Init, Sourced
<1>2. IInv /\ [Next]_vars => IInv'
  BY PoppedStep, SourcedStep
<1>3. IInv => OnlyBitsSent
  <2> SUFFICES ASSUME Popped, Sourced, stage = "done", answer.ok, hops = 0
               PROVE  /\ answer.protocol = sent.protocol
                      /\ Len(answer.bits) <= Len(sent.bits)
                      /\ answer.bits = SubSeq(sent.bits, 1, Len(answer.bits))
    BY DEF OnlyBitsSent
  <2>1. Recording /\ Answered
    BY DEF Popped
  <2>2. Standard(sent) /\ Carries(tx, sent)
    BY DEF Sourced
  <2>3. PICK lost \in Nat : cut = 2 * lost
    BY DEF Popped
  <2>4. PICK old \in Samples, phase \in Nat :
          LET runs == SubSeq(Runs(tx), 1, Len(Runs(tx)) - cut)
          IN  /\ runs # <<>>
              /\ symbols = Recorded(old, runs, phase)
              /\ validLen = ValidLen(runs)
    BY <2>1 DEF Recording
  <2>5. tx \in Seq(Int)
    BY DEF Popped, Typed
  <2>6. Grasped(sent.protocol, sent.bits, symbols, validLen)
    <3> DEFINE runs == SubSeq(Runs(tx), 1, Len(Runs(tx)) - 2 * lost)
    <3>1. /\ runs # <<>>
          /\ symbols = Recorded(old, runs, phase)
          /\ validLen = ValidLen(runs)
      BY <2>3, <2>4
    <3>2. Grasped(sent.protocol, sent.bits, Recorded(old, runs, phase), ValidLen(runs))
      BY <2>2, <2>5, <3>1, CutGrasped
    <3> QED
      BY <3>1, <3>2
  <2>7. PICK p \in Received :
          /\ Accepts(p)
          /\ answer = [protocol |-> p, ok |-> TRUE,
                       bits |-> Decode(p, symbols, validLen).bits]
    BY <2>1 DEF Answered, Nobody
  <2>8. PICK k \in 0 .. Len(sent.bits) :
          p = sent.protocol /\ Decode(p, symbols, validLen).bits = SubSeq(sent.bits, 1, k)
    BY <2>6, <2>7 DEF Grasped, Accepts
  <2>9. answer.protocol = sent.protocol /\ answer.bits = SubSeq(sent.bits, 1, k)
    BY <2>7, <2>8
  <2>10. sent.bits \in Seq(Bit)
    BY <2>2 DEF Standard
  <2>11. Len(SubSeq(sent.bits, 1, k)) = k /\ k <= Len(sent.bits)
    <3> DEFINE bits == sent.bits
    <3>1. bits \in Seq(Bit) /\ k \in 0 .. Len(bits)
      BY <2>10
    <3> HIDE DEF bits
    <3>2. Len(SubSeq(bits, 1, k)) = k /\ k <= Len(bits)
      BY <3>1, FirstBits
    <3> QED
      BY <3>2 DEF bits
  <2> QED
    BY <2>9, <2>11
<1> QED
  BY <1>1, <1>2, <1>3, PTL DEF Spec

-----------------------------------------------------------------------------
(* The types of Link: a packet puts a mark beside a space at every other   *)
(* index, so no three symbols become one run and no run overflows.         *)

\* No symbol is longer than the first of NEC.
Short(x) == -16 * NEC_UNIT <= x /\ x <= 16 * NEC_UNIT

\* A sequence of such symbols.
Bounded(s) == s \in Seq(Int) /\ \A i \in 1 .. Len(s) : Short(s[i])

\* One of the two is a mark, the other a space.
Opposite(a, b) == a > 0 <=> ~(b > 0)

\* From the first index on whose remainder by 2 is k, symbols pair up: a mark and a
\* space, in either order.
InPairs(s, k) == \A i \in 1 .. Len(s) - 1 : i % 2 = k => Opposite(s[i], s[i + 1])

\* What stands for a symbol, nothing included.
IsPiece(s) == Bounded(s) /\ Len(s) \in {0, 2} /\ InPairs(s, 1)

\* n pieces one behind the other.
Woven(s, n) == Bounded(s) /\ InPairs(s, 1) /\ \E h \in 0 .. n : Len(s) = 2 * h

\* A line as a packet, or the beginning of one, makes it.
OnAir(line) ==
  /\ Bounded(line)
  /\ Len(line) <= TX_SYMBOLS
  /\ \E k \in 0 .. 1 : InPairs(line, k)

\* A piece behind others makes one piece more.
LEMMA WovenNext ==
  ASSUME NEW n \in Nat, NEW a, Woven(a, n), NEW b, IsPiece(b)
  PROVE  Woven(a \o b, n + 1)
<1>1. a \in Seq(Int) /\ b \in Seq(Int)
  BY DEF Woven, IsPiece, Bounded
<1> DEFINE c == a \o b
           la == Len(a)
           lb == Len(b)
<1>2. /\ c \in Seq(Int)
      /\ Len(c) = la + lb
      /\ \A i \in 1 .. la + lb : c[i] = IF i <= la THEN a[i] ELSE b[i - la]
  BY <1>1, ConcatProperties
<1>3. /\ la \in Nat /\ lb \in Nat
      /\ \A i \in 1 .. la : Short(a[i])
      /\ \A i \in 1 .. lb : Short(b[i])
      /\ lb \in {0, 2}
      /\ \A i \in 1 .. lb - 1 : i % 2 = 1 => Opposite(b[i], b[i + 1])
      /\ \A i \in 1 .. la - 1 : i % 2 = 1 => Opposite(a[i], a[i + 1])
  BY <1>1 DEF Woven, IsPiece, Bounded, InPairs
<1>4. PICK h \in 0 .. n : la = 2 * h
  BY DEF Woven
<1> HIDE DEF c, la, lb
<1>5. \A i \in 1 .. la + lb : Short(c[i])
  <2> SUFFICES ASSUME NEW i \in 1 .. la + lb PROVE Short(c[i])
    OBVIOUS
  <2>1. CASE i <= la
    <3>1. i \in 1 .. la
      BY <1>3, <2>1
    <3> QED
      BY <1>2, <1>3, <2>1, <3>1
  <2>2. CASE ~(i <= la)
    <3>1. i - la \in 1 .. lb
      BY <1>3, <2>2
    <3> QED
      BY <1>2, <1>3, <2>2, <3>1
  <2> QED
    BY <2>1, <2>2
<1>6. \A i \in 1 .. la + lb - 1 : i % 2 = 1 => Opposite(c[i], c[i + 1])
  <2> SUFFICES ASSUME NEW i \in 1 .. la + lb - 1, i % 2 = 1
               PROVE  Opposite(c[i], c[i + 1])
    OBVIOUS
  <2>1. i \in 1 .. la + lb /\ i + 1 \in 1 .. la + lb /\ i \in Nat /\ i >= 1
    BY <1>3
  <2>2. CASE i < la
    <3>1. i \in 1 .. la - 1 /\ i <= la /\ i + 1 <= la
      BY <1>3, <2>1, <2>2
    <3>2. c[i] = a[i] /\ c[i + 1] = a[i + 1]
      BY <1>2, <2>1, <3>1
    <3> QED
      BY <1>3, <3>1, <3>2
  <2>3. CASE ~(i < la)
    <3>1. i # la
      <4>1. \A x \in Nat : x % 2 = 1 => x # 2 * h
        OBVIOUS
      <4> QED
        BY <1>4, <2>1, <4>1
    <3> DEFINE j == i - la
    <3>2. i = la + 1 /\ lb = 2
      BY <1>3, <2>1, <2>3, <3>1
    <3>3. ~(i <= la) /\ ~(i + 1 <= la) /\ (i + 1) - la = j + 1
      BY <1>3, <3>2
    <3>4. c[i] = b[j] /\ c[i + 1] = b[j + 1]
      BY <1>2, <2>1, <3>3
    <3>5. j \in 1 .. lb - 1 /\ j % 2 = 1
      BY <1>3, <3>2
    <3> HIDE DEF j
    <3> QED
      BY <1>3, <3>4, <3>5
  <2> QED
    BY <2>2, <2>3
<1>7. \E g \in 0 .. n + 1 : la + lb = 2 * g
  <2>1. CASE lb = 0
    BY <1>3, <1>4, <2>1
  <2>2. CASE lb = 2
    <3>1. h + 1 \in 0 .. n + 1 /\ la + lb = 2 * (h + 1)
      BY <1>3, <1>4, <2>2
    <3> QED
      BY <3>1
  <2> QED
    BY <1>3, <2>1, <2>2
<1>8. Woven(c, n + 1)
  <2>1. Bounded(c)
    BY <1>2, <1>5 DEF Bounded
  <2>2. InPairs(c, 1)
    <3> DEFINE len == Len(c)
    <3>1. len = la + lb
      BY <1>2
    <3>2. \A i \in 1 .. len - 1 : i % 2 = 1 => Opposite(c[i], c[i + 1])
      <4> HIDE DEF len
      <4> SUFFICES ASSUME NEW i \in 1 .. len - 1, i % 2 = 1
                   PROVE  Opposite(c[i], c[i + 1])
        OBVIOUS
      <4>1. i \in 1 .. la + lb - 1
        BY <3>1, <1>3
      <4> QED
        BY <1>6, <4>1
    <3> QED
      BY <3>2 DEF InPairs
  <2> QED
    BY <1>2, <1>7, <2>1, <2>2 DEF Woven
<1> QED
  BY <1>8 DEF c

\* Any pieces one behind the other pair up, whatever symbols they stand for.
LEMMA FlattenWoven ==
  ASSUME NEW n \in Nat, NEW seqs \in [1 .. n -> Seq(Int)],
         \A i \in 1 .. n : IsPiece(seqs[i])
  PROVE  Woven(FlattenSeq(seqs), n)
<1>0. Woven(<<>>, 0)
  BY DEF Woven, Bounded, InPairs
<1>1. CASE n = 0
  <2>1. Len(seqs) = 0 /\ seqs \in Seq(Seq(Int))
    BY <1>1, FunctionIsSeq
  <2>2. FlattenSeq(seqs) = <<>>
    BY <2>1, FlattenEmpty
  <2> QED
    BY <1>0, <1>1, <2>2
<1>2. CASE n # 0
  <2>1. PICK f \in [1 .. n -> Seq(Int)] : FlattenSeq(seqs) = f[n] /\ Joins(f, n, seqs)
    BY <1>2, FlattenPartial
  <2> DEFINE T == {i \in 1 .. n : Woven(f[i], i)}
  <2>2. 1 \in T
    <3>1. 1 \in 1 .. n /\ f[1] = seqs[1]
      BY <1>2, <2>1 DEF Joins
    <3>2. seqs[1] \in Seq(Int) /\ <<>> \o seqs[1] = seqs[1]
      BY <3>1
    <3>3. IsPiece(seqs[1]) /\ 0 + 1 = 1 /\ 0 \in Nat
      BY <3>1
    <3>4. Woven(<<>> \o seqs[1], 0 + 1)
      BY <1>0, <3>3, WovenNext, Zenon
    <3> QED
      BY <3>1, <3>2, <3>3, <3>4
  <2>3. ASSUME NEW i \in 1 .. n, i # 1, i - 1 \in T PROVE i \in T
    <3>1. i \in 2 .. n /\ i - 1 \in Nat /\ (i - 1) + 1 = i
      BY <2>3
    <3>2. Woven(f[i - 1], i - 1) /\ IsPiece(seqs[i])
      BY <2>3
    <3>3. Woven(f[i - 1] \o seqs[i], (i - 1) + 1)
      BY <3>1, <3>2, WovenNext, Zenon
    <3>4. f[i] = f[i - 1] \o seqs[i]
      BY <2>1, <3>1 DEF Joins
    <3> QED
      BY <3>1, <3>3, <3>4
  <2>4. n \in T
    <3>1. 1 \in Nat /\ n \in 1 .. n
      BY <1>2
    <3> HIDE DEF T
    <3> QED
      BY <2>2, <2>3, <3>1, IntervalInduction
  <2> QED
    BY <2>1, <2>4
<1> QED
  BY <1>1, <1>2

\* The table of protocols holds such pieces, and neither preamble nor postamble
\* breaks the pairs.
LEMMA TablePairs ==
  ASSUME NEW p \in Range(Protocols)
  PROVE  /\ \A b \in 1 .. 4 : IsPiece(PktInfo(p).bits[b])
         /\ Bounded(PktInfo(p).preamble) /\ Len(PktInfo(p).preamble) <= 2
         /\ InPairs(PktInfo(p).preamble, 1)
         /\ Bounded(PktInfo(p).postamble) /\ Len(PktInfo(p).postamble) <= 1
<1> USE DEF IsPiece, Bounded, Opposite, InPairs, Short
<1>1. CASE p \in {NEC, NEC_RPT}
  <2>1. PktInfo(p).bits = << <<563, -563>>, <<563, -1689>>, <<>>, <<>> >>
    BY <1>1, NECInfo DEF NEC_UNIT
  <2>2. PktInfo(p).postamble = <<563>>
    BY <1>1, NECInfo DEF NEC_UNIT
  <2>3. \E s \in {-4504, -2252} : PktInfo(p).preamble = <<9008, s>>
    BY <1>1, NECInfo DEF NEC_UNIT
  <2> QED
    BY <2>1, <2>2, <2>3 DEF NEC_UNIT
<1>2. CASE p = SONY
  BY <1>2, SonyInfo DEF SONY_UNIT, NEC_UNIT
<1>3. CASE p = RCMM
  BY <1>3, RCMMInfo DEF RCMM_UNIT, NEC_UNIT
<1>4. CASE p = RC5
  BY <1>4, RC5Info DEF RC5_UNIT, NEC_UNIT
<1> QED
  BY <1>1, <1>2, <1>3, <1>4, ProtocolsValue DEF Received

\* Preamble, pieces and postamble of any protocol pair up.
LEMMA PacketPairs ==
  ASSUME NEW p \in Range(Protocols), NEW n \in Nat, NEW middle, Woven(middle, n)
  PROVE  LET all == PktInfo(p).preamble \o middle \o PktInfo(p).postamble
         IN  /\ Bounded(all)
             /\ Len(all) <= 2 * n + 3
             /\ \E k \in 0 .. 1 : InPairs(all, k)
<1> DEFINE a == PktInfo(p).preamble
           c == PktInfo(p).postamble
           all == a \o middle \o c
           la == Len(a)
           lb == Len(middle)
           lc == Len(c)
<1>1. a \in Seq(Int) /\ middle \in Seq(Int) /\ c \in Seq(Int)
  BY TablePairs DEF Woven, Bounded
<1>2. all \in Seq(Int) /\ Consists(all, a, middle, c)
  <2> HIDE DEF a, c
  <2> QED
    BY <1>1, ConcatThree
<1>3. /\ la \in 0 .. 2 /\ lb \in Nat /\ lc \in 0 .. 1
      /\ \A i \in 1 .. la : Short(a[i])
      /\ \A i \in 1 .. lb : Short(middle[i])
      /\ \A i \in 1 .. lc : Short(c[i])
      /\ \A i \in 1 .. la - 1 : i % 2 = 1 => Opposite(a[i], a[i + 1])
      /\ \A i \in 1 .. lb - 1 : i % 2 = 1 => Opposite(middle[i], middle[i + 1])
  <2>1. /\ Bounded(a) /\ la <= 2 /\ InPairs(a, 1)
        /\ Bounded(c) /\ lc <= 1
    BY TablePairs
  <2>2. Bounded(middle) /\ InPairs(middle, 1)
    BY DEF Woven
  <2>3. la \in Nat /\ lb \in Nat /\ lc \in Nat
    BY <1>1
  <2> HIDE DEF a, c
  <2>4. la \in 0 .. 2 /\ lc \in 0 .. 1
    <3> HIDE DEF la, lc
    <3> QED
      BY <2>1, <2>3
  <2> QED
    BY <2>1, <2>2, <2>3, <2>4 DEF Bounded, InPairs
<1>4. PICK h \in 0 .. n : lb = 2 * h
  BY DEF Woven
<1> HIDE DEF a, c, all
<1>5. /\ Len(all) = la + lb + lc
      /\ \A i \in 1 .. la : all[i] = a[i]
      /\ \A i \in 1 .. lb : all[la + i] = middle[i]
      /\ \A i \in 1 .. lc : all[la + lb + i] = c[i]
  BY <1>2 DEF Consists
<1> DEFINE len == Len(all)
<1>5a. len = la + lb + lc
  BY <1>5
<1> HIDE DEF la, lb, lc, len
<1>6. ASSUME NEW i \in 1 .. len PROVE Short(all[i])
  <2>1. CASE i <= la
    <3>1. i \in 1 .. la
      BY <1>3, <2>1
    <3> QED
      BY <1>3, <1>5, <3>1
  <2>2. CASE ~(i <= la) /\ i <= la + lb
    <3>1. i - la \in 1 .. lb /\ la + (i - la) = i
      BY <1>3, <2>2
    <3>2. all[i] = middle[i - la]
      BY <1>5, <3>1
    <3> QED
      BY <1>3, <3>1, <3>2
  <2>3. CASE ~(i <= la + lb)
    <3>1. i - (la + lb) \in 1 .. lc /\ la + lb + (i - (la + lb)) = i
      BY <1>3, <1>5a, <2>3
    <3>2. all[i] = c[i - (la + lb)]
      BY <1>5, <3>1
    <3> QED
      BY <1>3, <3>1, <3>2
  <2> QED
    BY <1>3, <2>1, <2>2, <2>3
<1> DEFINE k == IF la = 1 THEN 0 ELSE 1
<1>7. ASSUME NEW i \in 1 .. len - 1, i % 2 = k PROVE Opposite(all[i], all[i + 1])
  <2>1. CASE i <= la
    <3>1. la = 2 /\ i = 1
      <4>1. la = 1 => i = 1
        BY <1>3, <2>1
      <4>2. la = 2 => i \in 1 .. 2
        BY <1>3, <2>1
      <4>3. la # 0
        BY <1>3, <2>1
      <4>4. 1 % 2 = 1 /\ 2 % 2 = 0
        OBVIOUS
      <4> QED
        BY <1>3, <1>7, <4>1, <4>2, <4>3, <4>4
    <3>2. i \in 1 .. la /\ i + 1 \in 1 .. la /\ i \in 1 .. la - 1 /\ i % 2 = 1
      BY <3>1
    <3>3. all[i] = a[i] /\ all[i + 1] = a[i + 1]
      BY <1>5, <3>2
    <3> QED
      BY <1>3, <3>2, <3>3
  <2>2. CASE ~(i <= la)
    <3> DEFINE j == i - la
    <3>1. j \in Nat /\ j >= 1 /\ la + j = i /\ la + (j + 1) = i + 1
      BY <1>3, <2>2
    <3>2. j % 2 = 1
      <4>1. CASE la = 1
        <5>1. i % 2 = 0 /\ j = i - 1
          BY <1>7, <4>1
        <5> QED
          BY <5>1
      <4>2. CASE la # 1
        <5>1. i % 2 = 1 /\ (j = i \/ j = i - 2)
          BY <1>3, <1>7, <4>2
        <5> QED
          BY <5>1
      <4> QED
        BY <4>1, <4>2
    <3> HIDE DEF j
    <3>3. j # lb
      <4>1. \A x \in Nat : x % 2 = 1 => x # 2 * h
        OBVIOUS
      <4> QED
        BY <1>4, <3>1, <3>2, <4>1
    <3>4. j <= lb
      BY <1>3, <1>5a, <3>1, <3>3
    <3>5. j \in 1 .. lb - 1 /\ j \in 1 .. lb /\ j + 1 \in 1 .. lb
      BY <1>3, <3>1, <3>3, <3>4
    <3>6. all[la + j] = middle[j] /\ all[la + (j + 1)] = middle[j + 1]
      BY <1>5, <3>5
    <3> QED
      BY <1>3, <3>1, <3>2, <3>5, <3>6
  <2> QED
    BY <2>1, <2>2
<1>8. InPairs(all, k) /\ k \in 0 .. 1
  <2>1. k \in 0 .. 1
    OBVIOUS
  <2> HIDE DEF k
  <2> QED
    BY <1>7, <2>1 DEF InPairs, len
<1>9. Bounded(all)
  BY <1>2, <1>6 DEF Bounded, len
<1>10. Len(all) <= 2 * n + 3
  <2>1. len <= 2 * n + 3
    BY <1>3, <1>4, <1>5a
  <2> QED
    BY <2>1 DEF len
<1> QED
  BY <1>8, <1>9, <1>10 DEF all, a, c

\* BuildRaw() puts such a line on the air, whatever the message, even if the
\* packet does not fit or there are no symbols for its bits.
LEMMA RawOnAir ==
  ASSUME NEW msg, msg.protocol \in Range(Protocols), msg.data \in Uint32,
         msg.nbits \in Nat
  PROVE  OnAir(BuildRaw(msg))
<1> DEFINE p == msg.protocol
           n == NumSymbols(p, msg.nbits)
           seqs == [i \in 1 .. n |-> PktInfo(p).bits[SymbolAt(p, msg.data, i) + 1]]
           all == PktInfo(p).preamble \o FlattenSeq(seqs) \o PktInfo(p).postamble
<1>1. n \in Nat
  BY NumSymbolsType
<1>2. \A i \in 1 .. n : SymbolAt(p, msg.data, i) + 1 \in 1 .. 4
  <2> HIDE DEF n
  <2>1. ASSUME NEW i \in 1 .. n PROVE SymbolAt(p, msg.data, i) \in 0 .. 3
    BY <1>1, SymbolType
  <2> QED
    BY <2>1
<1>3. \A b \in 1 .. 4 : IsPiece(PktInfo(p).bits[b]) /\ PktInfo(p).bits[b] \in Seq(Int)
  BY TablePairs, InfoTypes
<1>4. Woven(FlattenSeq(seqs), n)
  <2> HIDE DEF n, p
  <2>1. seqs \in [1 .. n -> Seq(Int)] /\ \A i \in 1 .. n : IsPiece(seqs[i])
    BY <1>2, <1>3
  <2> HIDE DEF seqs
  <2> QED
    BY <1>1, <2>1, FlattenWoven
<1>5. Bounded(all) /\ \E k \in 0 .. 1 : InPairs(all, k)
  <2> HIDE DEF seqs, n
  <2> QED
    BY <1>1, <1>4, PacketPairs
<1>6. BuildRaw(msg) = IF Len(all) > TX_SYMBOLS THEN SubSeq(all, 1, TX_SYMBOLS) ELSE all
  BY DEF BuildRaw
<1> HIDE DEF all
<1>7. CASE Len(all) > TX_SYMBOLS
  <2> DEFINE s == SubSeq(all, 1, TX_SYMBOLS)
  <2>1. all \in Seq(Int) /\ \A i \in 1 .. Len(all) : Short(all[i])
    BY <1>5 DEF Bounded
  <2>2. s \in Seq(Int) /\ Len(s) = 74 /\ \A i \in 1 .. 74 : s[i] = all[i]
    <3>1. 74 <= Len(all) /\ TX_SYMBOLS = 74 /\ \A i \in 1 .. 74 : i \in 1 .. Len(all)
      BY <1>7, <2>1 DEF TX_SYMBOLS
    <3>2. \A i \in 1 .. 74 : all[i] \in Int
      <4>1. all \in Seq(Int)
        BY <2>1
      <4>2. \A i \in 1 .. Len(all) : all[i] \in Int
        BY <4>1
      <4> QED
        BY <3>1, <4>2
    <3> QED
      BY <2>1, <3>1, <3>2, SubSeqProperties
  <2>3. \A i \in 1 .. 74 : i \in 1 .. Len(all)
    BY <1>7, <2>1 DEF TX_SYMBOLS
  <2>4. Bounded(s)
    <3> HIDE DEF s
    <3> QED
      BY <2>1, <2>2, <2>3 DEF Bounded
  <2>5. PICK k \in 0 .. 1 : InPairs(all, k)
    BY <1>5
  <2>6. InPairs(s, k)
    <3>1. \A i \in 1 .. 73 : i \in 1 .. 74 /\ i + 1 \in 1 .. 74 /\ i \in 1 .. Len(all) - 1
      BY <1>7, <2>1 DEF TX_SYMBOLS
    <3>2. \A i \in 1 .. 73 : i % 2 = k => Opposite(all[i], all[i + 1])
      BY <2>5, <3>1 DEF InPairs
    <3>3. \A i \in 1 .. 73 : i % 2 = k => Opposite(s[i], s[i + 1])
      <4> HIDE DEF s
      <4> QED
        BY <2>2, <3>1, <3>2
    <3>4. Len(s) - 1 = 73
      BY <2>2
    <3> HIDE DEF s
    <3> QED
      BY <3>3, <3>4 DEF InPairs
  <2>7. BuildRaw(msg) = s /\ Len(s) <= TX_SYMBOLS
    BY <1>6, <1>7, <2>2 DEF TX_SYMBOLS
  <2> HIDE DEF s
  <2> QED
    BY <2>4, <2>6, <2>7 DEF OnAir
<1>8. CASE ~(Len(all) > TX_SYMBOLS)
  <2>1. Len(all) <= TX_SYMBOLS
    <3>1. Len(all) \in Nat /\ TX_SYMBOLS \in Nat
      BY <1>5 DEF Bounded, TX_SYMBOLS
    <3> QED
      BY <1>8, <3>1
  <2> QED
    BY <1>5, <1>6, <1>8, <2>1 DEF OnAir
<1> QED
  BY <1>7, <1>8

\* So does a remote control that sends at most 32 bits.
LEMMA FrameOnAir ==
  ASSUME NEW f, f.protocol \in Range(Protocols), f.bits \in Seq(Bit),
         Len(f.bits) <= MSGBITS_MAX
  PROVE  OnAir(RemoteFrame(f))
<1> DEFINE p == f.protocol
           bits == f.bits
           n == Len(bits)
           singles == [i \in 1 .. Len(bits) |->
                     IF p = RC5
                     THEN <<RC5_UNIT * (1 - 2 * bits[i]), RC5_UNIT * (2 * bits[i] - 1)>>
                     ELSE PktInfo(p).bits[bits[i] + 1]]
           pairs == [i \in 1 .. Len(bits) \div 2 |->
                     PktInfo(p).bits[2 * bits[2 * i - 1] + bits[2 * i] + 1]]
           middle == IF p = RCMM THEN FlattenSeq(pairs) ELSE FlattenSeq(singles)
           all == PktInfo(p).preamble \o middle \o PktInfo(p).postamble
<1>1. \A b \in 1 .. 4 : IsPiece(PktInfo(p).bits[b]) /\ PktInfo(p).bits[b] \in Seq(Int)
  BY TablePairs, InfoTypes
<1>2. /\ n \in 0 .. 32 /\ n \div 2 \in 0 .. 32
      /\ \A i \in 1 .. n : bits[i] \in 0 .. 1
      /\ \A i \in 1 .. n \div 2 : 2 * i - 1 \in 1 .. n /\ 2 * i \in 1 .. n
  <2>1. n \in Nat /\ n <= 32 /\ \A i \in 1 .. n : bits[i] \in 0 .. 1
    BY DEF Bit, MSGBITS_MAX
  <2> HIDE DEF n
  <2> QED
    BY <2>1
<1>3. Woven(FlattenSeq(singles), n)
  <2>1. \A b \in 0 .. 1 :
          LET s == <<RC5_UNIT * (1 - 2 * b), RC5_UNIT * (2 * b - 1)>>
          IN  IsPiece(s) /\ s \in Seq(Int)
    <3>1. IsPiece(<<889, -889>>) /\ IsPiece(<<-889, 889>>)
      BY DEF IsPiece, Bounded, Short, InPairs, Opposite, NEC_UNIT
    <3>2. \A b \in 0 .. 1 : RC5_UNIT * (1 - 2 * b) = (IF b = 0 THEN 889 ELSE -889)
                            /\ RC5_UNIT * (2 * b - 1) = (IF b = 0 THEN -889 ELSE 889)
      BY DEF RC5_UNIT
    <3>3. \A s : IsPiece(s) => s \in Seq(Int)
      BY DEF IsPiece, Bounded
    <3>4. ASSUME NEW b \in 0 .. 1
          PROVE  IsPiece(<<RC5_UNIT * (1 - 2 * b), RC5_UNIT * (2 * b - 1)>>)
      BY <3>1, <3>2
    <3> QED
      BY <3>3, <3>4
  <2>2. ASSUME NEW i \in 1 .. n PROVE IsPiece(singles[i]) /\ singles[i] \in Seq(Int)
    <3>1. bits[i] \in 0 .. 1 /\ bits[i] + 1 \in 1 .. 4
      <4>1. \A b \in 0 .. 1 : b + 1 \in 1 .. 4
        OBVIOUS
      <4> QED
        BY <1>2, <4>1
    <3>2. CASE p = RC5
      <4>1. singles[i] = <<RC5_UNIT * (1 - 2 * bits[i]), RC5_UNIT * (2 * bits[i] - 1)>>
        BY <3>2
      <4> HIDE DEF singles
      <4> QED
        BY <2>1, <3>1, <4>1
    <3>3. CASE p # RC5
      <4>1. singles[i] = PktInfo(p).bits[bits[i] + 1]
        BY <3>3
      <4> HIDE DEF singles
      <4> QED
        BY <1>1, <3>1, <4>1
    <3> QED
      BY <3>2, <3>3
  <2>3. singles \in [1 .. n -> Seq(Int)]
    BY <2>2
  <2>4. n \in Nat
    BY <1>2
  <2> HIDE DEF singles, n
  <2> QED
    BY <2>2, <2>3, <2>4, FlattenWoven
<1>4. Woven(FlattenSeq(pairs), n \div 2)
  <2>1. \A a, b \in 0 .. 1 : 2 * a + b + 1 \in 1 .. 4
    OBVIOUS
  <2>2. ASSUME NEW i \in 1 .. n \div 2 PROVE IsPiece(pairs[i]) /\ pairs[i] \in Seq(Int)
    <3>1. 2 * bits[2 * i - 1] + bits[2 * i] + 1 \in 1 .. 4
      <4> HIDE DEF n
      <4> QED
        BY <1>2, <2>1
    <3>2. pairs[i] = PktInfo(p).bits[2 * bits[2 * i - 1] + bits[2 * i] + 1]
      OBVIOUS
    <3> HIDE DEF pairs
    <3> QED
      BY <1>1, <3>1, <3>2
  <2>3. pairs \in [1 .. n \div 2 -> Seq(Int)]
    BY <2>2
  <2>4. n \div 2 \in Nat
    <3> HIDE DEF n
    <3> QED
      BY <1>2
  <2> HIDE DEF pairs, n
  <2> QED
    BY <2>2, <2>3, <2>4, FlattenWoven
<1>5. PICK h \in 0 .. 32 : Woven(middle, h)
  <2> HIDE DEF singles, pairs, n
  <2> QED
    BY <1>2, <1>3, <1>4
<1>6. Bounded(all) /\ Len(all) <= 2 * h + 3 /\ \E k \in 0 .. 1 : InPairs(all, k)
  <2> HIDE DEF middle
  <2>1. h \in Nat
    OBVIOUS
  <2> QED
    BY <1>5, <2>1, PacketPairs
<1>7. RemoteFrame(f) = all
  BY DEF RemoteFrame
<1>8. Len(all) <= TX_SYMBOLS
  <2> DEFINE len == Len(all)
  <2>1. len \in Nat /\ len <= 2 * h + 3
    <3> HIDE DEF all
    <3>1. all \in Seq(Int)
      BY <1>6 DEF Bounded
    <3> QED
      BY <1>6, <3>1
  <2> HIDE DEF len
  <2>2. len <= TX_SYMBOLS
    BY <2>1 DEF TX_SYMBOLS
  <2> QED
    BY <2>2 DEF len
<1> HIDE DEF all
<1> QED
  BY <1>6, <1>7, <1>8 DEF OnAir

\* A run joins at most two symbols.
Twice(x) == -32 * NEC_UNIT <= x /\ x <= 32 * NEC_UNIT

\* Both are marks, or neither is.
Same(a, b) == a > 0 <=> b > 0

\* What joining a symbol does to the last run.
LEMMA JoinedLast ==
  ASSUME NEW b \in Seq(Int), NEW x \in Int, Short(x),
         \A j \in 1 .. Len(b) : Twice(b[j]),
         Len(b) > 0 /\ Same(b[Len(b)], x) => Short(b[Len(b)])
  PROVE  LET c == Joined(b, x)
         IN  /\ c \in Seq(Int)
             /\ Len(c) \in 1 .. Len(b) + 1
             /\ \A j \in 1 .. Len(c) : Twice(c[j])
             /\ \/ c[Len(c)] = x
                \/ /\ Len(b) > 0 /\ Same(b[Len(b)], x)
                   /\ c[Len(c)] = b[Len(b)] + x
<1> DEFINE c == Joined(b, x)
           n == Len(b)
<1>1. n \in Nat /\ c \in Seq(Int)
  BY JoinedType
<1>2. CASE n > 0 /\ Same(b[n], x)
  <2>1. n \in 1 .. n /\ b[n] \in Int /\ b[n] + x \in Int
    BY <1>2
  <2>2. c = [b EXCEPT ![n] = @ + x]
    BY <1>2, <2>1 DEF Joined, Same
  <2>3. /\ Len(c) = n /\ c[n] = b[n] + x
        /\ \A j \in 1 .. n : c[j] = IF j = n THEN b[n] + x ELSE b[j]
    <3>1. DOMAIN b = 1 .. n
      OBVIOUS
    <3>2. Len([b EXCEPT ![n] = b[n] + x]) = n
      BY <2>1, ExceptSeq
    <3>3. c = [b EXCEPT ![n] = b[n] + x]
      BY <2>2
    <3>4. \A j \in 1 .. n : [b EXCEPT ![n] = b[n] + x][j] = IF j = n THEN b[n] + x ELSE b[j]
      <4> HIDE DEF n
      <4> QED
        BY <3>1
    <3> HIDE DEF c, n
    <3> QED
      BY <2>1, <3>2, <3>3, <3>4
  <2>4. Short(b[n])
    BY <1>2
  <2>5. Twice(b[n] + x)
    <3>1. \A y \in Int : Short(y) => Twice(y + x)
      BY DEF Short, Twice, NEC_UNIT
    <3> HIDE DEF n
    <3> QED
      BY <2>1, <2>4, <3>1
  <2>6. \A j \in 1 .. n : Twice(b[j])
    OBVIOUS
  <2> HIDE DEF c, n
  <2>7. \A j \in 1 .. n : Twice(c[j])
    BY <2>3, <2>5, <2>6
  <2>8. Len(c) \in 1 .. n + 1
    BY <1>1, <1>2, <2>3
  <2> QED
    BY <1>1, <1>2, <2>3, <2>7, <2>8 DEF c, n
<1>3. CASE ~(n > 0 /\ Same(b[n], x))
  <2>1. c = Append(b, x)
    BY <1>3 DEF Joined, Same
  <2>2. Len(c) = n + 1 /\ c[n + 1] = x /\ \A j \in 1 .. n : c[j] = b[j]
    <3> HIDE DEF c
    <3> QED
      BY <2>1, AppendProperties
  <2>3. Twice(x)
    BY DEF Short, Twice, NEC_UNIT
  <2>4. \A j \in 1 .. n : Twice(b[j])
    OBVIOUS
  <2> HIDE DEF c, n
  <2>5. \A j \in 1 .. n + 1 : j \in 1 .. n \/ j = n + 1
    BY <1>1
  <2>6. \A j \in 1 .. n + 1 : Twice(c[j])
    BY <2>2, <2>3, <2>4, <2>5
  <2>7. Len(c) \in 1 .. n + 1
    BY <1>1, <2>2
  <2> QED
    BY <1>1, <2>2, <2>6, <2>7 DEF c, n
<1> QED
  BY <1>2, <1>3

\* The last of the runs of the first i symbols: one symbol or two.
Ends(s, line, i) ==
  /\ Len(s) > 0
  /\ Same(s[Len(s)], line[i])
  /\ Short(s[Len(s)]) \/ (i >= 2 /\ Same(line[i - 1], line[i]))

\* The runs of the first i symbols, of which those from lo to hi are heard.
ShortRuns(s, line, i, lo, hi) ==
  /\ s \in Seq(Int)
  /\ Len(s) <= i
  /\ \A j \in 1 .. Len(s) : Twice(s[j])
  /\ i < lo => Len(s) = 0
  /\ lo <= i /\ i <= hi => Ends(s, line, i)

\* A symbol more keeps the runs short, as of three in a row two are a pair.
LEMMA ShortRunsNext ==
  ASSUME NEW line, OnAir(line), NEW lo \in Nat, NEW hi \in Nat, NEW i \in 1 .. Len(line),
         NEW s, ShortRuns(s, line, i - 1, lo, hi)
  PROVE  ShortRuns(IF i \notin lo .. hi THEN s ELSE Joined(s, line[i]), line, i, lo, hi)
<1> DEFINE n == Len(line)
           m == Len(s)
           x == line[i]
<1>1. n \in Nat /\ \A j \in 1 .. n : line[j] \in Int /\ Short(line[j])
  <2>1. line \in Seq(Int) /\ \A j \in 1 .. Len(line) : Short(line[j])
    BY DEF OnAir, Bounded
  <2> QED
    BY <2>1
<1>2. /\ s \in Seq(Int) /\ m \in Nat /\ m <= i - 1
      /\ \A j \in 1 .. m : Twice(s[j])
      /\ i - 1 < lo => m = 0
      /\ lo <= i - 1 /\ i - 1 <= hi => Ends(s, line, i - 1)
  BY DEF ShortRuns
<1>3. i \in Nat /\ i >= 1 /\ i <= n /\ i \in 1 .. n
  BY <1>1
<1>4. CASE i \notin lo .. hi
  <2>1. m <= i /\ (i < lo => m = 0) /\ ~(lo <= i /\ i <= hi)
    <3> HIDE DEF m, n
    <3> QED
      BY <1>2, <1>3, <1>4
  <2> QED
    BY <1>2, <1>4, <2>1 DEF ShortRuns
<1>5. CASE i \in lo .. hi
  <2> DEFINE c == Joined(s, x)
             e == s[m]
  <2>1. x \in Int /\ Short(x)
    BY <1>1, <1>3
  <2>2. m > 0 => lo <= i - 1 /\ i - 1 <= hi /\ i - 1 \in 1 .. n /\ i \in 2 .. n
    <3>1. m \in Nat /\ m <= i - 1 /\ (i - 1 < lo => m = 0)
      BY <1>2
    <3>2. i \in Nat /\ i <= n /\ lo <= i /\ i <= hi /\ n \in Nat
      BY <1>1, <1>3, <1>5
    <3> HIDE DEF m, n
    <3> QED
      BY <3>1, <3>2
  <2>3. m > 0 => Ends(s, line, i - 1)
    BY <1>2, <2>2
  <2>4. m > 0 /\ Same(e, x) => Short(e)
    <3> SUFFICES ASSUME m > 0, Same(e, x), ~Short(e) PROVE FALSE
      OBVIOUS
    <3>1. Same(e, line[i - 1]) /\ i - 1 >= 2 /\ Same(line[(i - 1) - 1], line[i - 1])
      BY <2>3 DEF Ends
    <3>2. i \in 3 .. n /\ i - 1 \in 1 .. n /\ i - 2 \in 1 .. n /\ (i - 1) - 1 = i - 2
      <4>1. i \in Nat /\ i <= n /\ i - 1 >= 2 /\ n \in Nat
        BY <1>1, <1>3, <3>1
      <4> HIDE DEF n
      <4> QED
        BY <4>1
    <3>3. Same(line[i - 2], line[i - 1]) /\ Same(line[i - 1], line[i])
      <4>1. Same(line[i - 2], line[i - 1])
        BY <3>1, <3>2
      <4>2. Same(line[i - 1], line[i])
        BY <3>1 DEF Same
      <4> QED
        BY <4>1, <4>2
    <3>4. PICK k \in 0 .. 1 : InPairs(line, k)
      BY DEF OnAir
    <3>5. \A j \in 1 .. n - 1 : j % 2 = k => Opposite(line[j], line[j + 1])
      BY <3>4 DEF InPairs
    <3>6. /\ i - 2 \in 1 .. n - 1 /\ (i - 2) + 1 = i - 1
          /\ i - 1 \in 1 .. n - 1 /\ (i - 1) + 1 = i
      <4> HIDE DEF n
      <4> QED
        BY <1>1, <3>2
    <3>7. (i - 2) % 2 = k \/ (i - 1) % 2 = k
      BY <3>2
    <3>8. Opposite(line[i - 2], line[i - 1]) \/ Opposite(line[i - 1], line[i])
      <4> HIDE DEF n
      <4> QED
        BY <3>5, <3>6, <3>7
    <3> QED
      BY <3>3, <3>8 DEF Same, Opposite
  <2>5. /\ c \in Seq(Int) /\ Len(c) \in 1 .. m + 1
        /\ \A j \in 1 .. Len(c) : Twice(c[j])
        /\ c[Len(c)] = x \/ (m > 0 /\ Same(e, x) /\ c[Len(c)] = e + x)
    <3> HIDE DEF x
    <3> QED
      BY <1>2, <2>1, <2>4, JoinedLast
  <2>6. Len(c) > 0 /\ Len(c) <= i /\ ~(i < lo)
    <3> DEFINE len == Len(c)
    <3>1. len \in 1 .. m + 1
      BY <2>5
    <3> HIDE DEF len, m, n
    <3>2. len > 0 /\ len <= i
      BY <1>2, <1>3, <3>1
    <3> QED
      BY <1>3, <1>5, <3>2 DEF len
  <2>7. Ends(c, line, i)
    <3>1. CASE c[Len(c)] = x
      BY <2>1, <2>6, <3>1 DEF Ends, Same
    <3>2. CASE m > 0 /\ Same(e, x) /\ c[Len(c)] = e + x
      <4>1. Same(e, line[i - 1]) /\ i >= 2
        BY <2>2, <2>3, <3>2 DEF Ends
      <4>2. Same(line[i - 1], line[i])
        BY <3>2, <4>1 DEF Same
      <4>3. e \in Int
        <5>1. m \in 1 .. m
          BY <1>2, <3>2
        <5> QED
          BY <1>2, <5>1
      <4>4. \A y \in Int : Same(y, x) => Same(y + x, x)
        BY <2>1 DEF Same
      <4>5. Same(c[Len(c)], line[i])
        <5>1. Same(e + x, x)
          <6> HIDE DEF e, x
          <6> QED
            BY <3>2, <4>3, <4>4
        <5> QED
          BY <3>2, <5>1
      <4> QED
        BY <2>6, <4>1, <4>2, <4>5 DEF Ends
    <3> QED
      BY <2>5, <3>1, <3>2
  <2>8. ShortRuns(c, line, i, lo, hi)
    BY <2>5, <2>6, <2>7 DEF ShortRuns
  <2> QED
    BY <1>5, <2>8
<1> QED
  BY <1>4, <1>5

\* No run of what is on the air is longer than two symbols, and there are no
\* more runs than symbols.
LEMMA RunsShort ==
  ASSUME NEW line, OnAir(line)
  PROVE  /\ Runs(line) \in Seq(Int)
         /\ Len(Runs(line)) <= TX_SYMBOLS
         /\ \A j \in 1 .. Len(Runs(line)) : Twice(Runs(line)[j])
<1> DEFINE n == Len(line)
           marks == {i \in 1 .. n : line[i] > 0}
           lo == Min(marks)
           hi == Max(marks)
<1>1. line \in Seq(Int) /\ n \in Nat /\ n <= TX_SYMBOLS
  BY DEF OnAir, Bounded
<1>2. PICK f \in [0 .. n -> Seq(Int)] :
        /\ Runs(line) = IF marks = {} THEN <<>> ELSE f[n]
        /\ Hears(f, line)
  BY <1>1, RunsPartial
<1>3. CASE marks = {}
  <2>1. Runs(line) = <<>>
    BY <1>2, <1>3
  <2>2. <<>> \in Seq(Int) /\ Len(<<>>) = 0 /\ \A j \in 1 .. 0 : FALSE
    OBVIOUS
  <2> QED
    BY <2>1, <2>2 DEF TX_SYMBOLS
<1>4. CASE marks # {}
  <2>1. lo \in Nat /\ hi \in Nat /\ lo >= 1
    <3>1. marks \subseteq 1 .. n /\ marks \in SUBSET Nat
      OBVIOUS
    <3> HIDE DEF marks
    <3>2. lo \in marks /\ hi \in marks
      BY <1>1, <1>4, <3>1, NatMin, MaxExists
    <3> HIDE DEF lo, hi, n
    <3> QED
      BY <1>1, <3>1, <3>2
  <2>2. Heard(line) = lo .. hi
    BY DEF Heard
  <2> HIDE DEF lo, hi, marks
  <2> DEFINE T == {i \in 0 .. n : ShortRuns(f[i], line, i, lo, hi)}
  <2>3. 0 <= n => 0 \in T
    <3>1. f[0] = <<>> /\ <<>> \in Seq(Int) /\ Len(<<>>) = 0 /\ \A j \in 1 .. 0 : FALSE
      BY <1>2 DEF Hears
    <3>2. ShortRuns(<<>>, line, 0, lo, hi)
      BY <2>1, <3>1 DEF ShortRuns
    <3> QED
      BY <1>1, <3>1, <3>2
  <2>4. ASSUME NEW i \in 0 .. n, i # 0, i - 1 \in T PROVE i \in T
    <3>1. i \in 1 .. n
      BY <1>1, <2>4
    <3>2. f[i] = IF i \notin lo .. hi THEN f[i - 1] ELSE Joined(f[i - 1], line[i])
      BY <1>2, <2>2, <3>1 DEF Hears
    <3>3. ShortRuns(f[i - 1], line, i - 1, lo, hi)
      BY <2>4
    <3>4. ShortRuns(IF i \notin lo .. hi THEN f[i - 1] ELSE Joined(f[i - 1], line[i]), line, i, lo, hi)
      BY <2>1, <3>1, <3>3, ShortRunsNext
    <3> QED
      BY <3>2, <3>4
  <2>5. n \in T
    <3>1. 0 \in Nat /\ n \in 0 .. n
      BY <1>1
    <3> HIDE DEF T, n
    <3> QED
      BY <1>1, <2>3, <2>4, <3>1, IntervalInduction
  <2>6. ShortRuns(f[n], line, n, lo, hi) /\ Runs(line) = f[n]
    BY <1>2, <1>4, <2>5
  <2> DEFINE r == Runs(line)
  <2>7. r \in Seq(Int) /\ Len(r) <= n /\ \A j \in 1 .. Len(r) : Twice(r[j])
    BY <2>6 DEF ShortRuns
  <2>8. Len(r) <= TX_SYMBOLS
    <3> DEFINE len == Len(r)
    <3>1. len \in Nat /\ len <= n
      <4> HIDE DEF r
      <4> QED
        BY <2>7
    <3> HIDE DEF len, n
    <3>2. len <= TX_SYMBOLS
      BY <1>1, <3>1 DEF TX_SYMBOLS
    <3> QED
      BY <3>2 DEF len
  <2> QED
    BY <2>7, <2>8
<1> QED
  BY <1>3, <1>4

\* SymCount, as the bounds of an integer.
LEMMA SymCountValue ==
  ASSUME NEW x \in Int
  PROVE  x \in SymCount <=> (-32768 <= x /\ x <= 32767)
<1> DEFINE a == -32768
           b == 32767
<1>1. SymCount = a .. b
  BY DEF SymCount
<1>2. a \in Int /\ b \in Int
  OBVIOUS
<1>3. x \in SymCount <=> (a <= x /\ x <= b)
  <2> HIDE DEF a, b
  <2> QED
    BY <1>1, <1>2
<1> QED
  BY <1>3

\* A recording of such runs, and the gaps before and behind it, fit into a buffer.
LEMMA RecordedFits ==
  ASSUME NEW runs \in Seq(Int), \A j \in 1 .. Len(runs) : Twice(runs[j]),
         NEW phase \in Nat, NEW old \in [0 .. RX_SYMBOLS -> SymCount]
  PROVE  Recorded(old, runs, phase) \in [0 .. RX_SYMBOLS -> SymCount]
<1>1. POLL_INTERVAL \in 1 .. 105 /\ SIGFREE_MIN \in Nat /\ SIGFREE_MIN + POLL_INTERVAL <= 32767
  <2>1. Tolerance(NEC_UNIT) = 105
    BY DEF Tolerance, NEC_UNIT, Abs
  <2> QED
    BY <2>1, CodecAssumption, SamplingAssumption
<1>2. ASSUME NEW i \in 0 .. RX_SYMBOLS PROVE Recorded(old, runs, phase)[i] \in SymCount
  <2> DEFINE r == Recorded(old, runs, phase)[i]
  <2>1. CASE i \in 1 .. Len(runs)
    <3>1. i <= RX_SYMBOLS
      <4>1. RX_SYMBOLS \in Int
        BY DEF RX_SYMBOLS
      <4> QED
        BY <4>1
    <3>2. r \in Int /\ Abs(r) < Abs(runs[i]) + POLL_INTERVAL
      BY <2>1, <3>1, RecordedRuns
    <3>3. runs[i] \in Int /\ Twice(runs[i])
      BY <2>1
    <3>4. ASSUME NEW x \in Int, NEW y \in Int, Twice(y), Abs(x) < Abs(y) + POLL_INTERVAL
          PROVE  x \in SymCount
      <4>1. -32768 <= x /\ x <= 32767
        BY <1>1, <3>4 DEF Twice, NEC_UNIT, Abs
      <4> QED
        BY <4>1, SymCountValue
    <3> HIDE DEF r
    <3>5. r \in SymCount
      BY <3>2, <3>3, <3>4
    <3> QED
      BY <3>5 DEF r
  <2>2. CASE i \notin 1 .. Len(runs)
    <3> DEFINE g == (SIGFREE_MIN \div POLL_INTERVAL + 1) * POLL_INTERVAL
    <3>1. -g \in SymCount
      <4> DEFINE d == SIGFREE_MIN \div POLL_INTERVAL
      <4>1. d \in Int /\ POLL_INTERVAL * d <= SIGFREE_MIN /\ SIGFREE_MIN < POLL_INTERVAL * d + POLL_INTERVAL
        <5>1. SIGFREE_MIN \in Int /\ POLL_INTERVAL \in Nat \ {0}
          BY CodecAssumption
        <5> QED
          BY <5>1, DivBounds
      <4> HIDE DEF d
      <4>2. (d + 1) * POLL_INTERVAL = POLL_INTERVAL * d + POLL_INTERVAL
        BY <1>1, <4>1
      <4>3. g = POLL_INTERVAL * d + POLL_INTERVAL
        BY <4>2 DEF d
      <4>4. POLL_INTERVAL * d \in Int
        BY <1>1, <4>1
      <4> HIDE DEF g
      <4>5. -g \in Int /\ -32768 <= -g /\ -g <= 32767
        BY <1>1, <4>1, <4>3, <4>4
      <4> QED
        BY <4>5, SymCountValue
    <3>2. r \in {-g, 0, old[i]}
      BY <2>2 DEF Recorded
    <3>3. 0 \in SymCount
      BY SymCountValue
    <3> HIDE DEF g, r
    <3>4. r \in SymCount
      BY <3>1, <3>2, <3>3
    <3> QED
      BY <3>4 DEF r
  <2> QED
    BY <2>1, <2>2
<1> QED
  BY <1>2 DEF Recorded

\* What the type invariant rests on: the line is one that a packet makes.
Wired == Typed /\ TypeOK /\ OnAir(tx)

\* It holds at first.
LEMMA WiredInit ==
  ASSUME Init
  PROVE  Wired
<1>1. EmptyBuffer \in [0 .. RX_SYMBOLS -> SymCount]
  <2>1. 0 \in SymCount
    BY SymCountValue
  <2> QED
    BY <2>1 DEF EmptyBuffer
<1>2. ASSUME NEW f \in Earlier
      PROVE  Recorded(EmptyBuffer, Runs(RemoteFrame(f)), 0) \in [0 .. RX_SYMBOLS -> SymCount]
  <2>1. /\ f.protocol \in Range(Protocols) /\ f.bits \in Seq(Bit)
        /\ Len(f.bits) <= MSGBITS_MAX
    BY LinkAssumption
  <2>2. OnAir(RemoteFrame(f))
    BY <2>1, FrameOnAir
  <2> DEFINE runs == Runs(RemoteFrame(f))
  <2>3. runs \in Seq(Int) /\ \A j \in 1 .. Len(runs) : Twice(runs[j])
    BY <2>2, RunsShort
  <2>4. 0 \in Nat
    OBVIOUS
  <2> HIDE DEF runs
  <2>5. Recorded(EmptyBuffer, runs, 0) \in [0 .. RX_SYMBOLS -> SymCount]
    BY <1>1, <2>3, <2>4, RecordedFits
  <2> QED
    BY <2>5 DEF runs
<1>3. symbols \in [0 .. RX_SYMBOLS -> SymCount]
  BY <1>1, <1>2 DEF Init
<1>4. tx = <<>> /\ Len(<<>>) = 0
  BY DEF Init
<1>5. OnAir(<<>>)
  BY DEF OnAir, Bounded, InPairs, TX_SYMBOLS
<1>6. Typed
  BY TypedInit
<1>7. TypeOK
  <2>1. validLen = 0 /\ decoder = 1 /\ hops = 0 /\ stage = "idle"
    BY DEF Init
  <2>2. 0 \in 0 .. RX_SYMBOLS /\ 1 \in 1 .. Len(Protocols) /\ 0 \in 0 .. MaxHops
        /\ 0 <= TX_SYMBOLS
    BY LinkAssumption DEF RX_SYMBOLS, Protocols, TX_SYMBOLS
  <2> QED
    BY <1>3, <1>4, <2>1, <2>2 DEF TypeOK
<1> QED
  BY <1>4, <1>5, <1>6, <1>7 DEF Wired

\* Every step keeps it.
LEMMA WiredStep ==
  ASSUME Wired, [Next]_vars
  PROVE  Wired'
<1>1. /\ Typed' /\ OnAir(tx)
      /\ stage \in {"idle", "air", "decode", "done"}
      /\ symbols \in [0 .. RX_SYMBOLS -> SymCount]
      /\ Len(tx) <= TX_SYMBOLS
      /\ validLen \in 0 .. RX_SYMBOLS
      /\ decoder \in 1 .. Len(Protocols)
      /\ hops \in 0 .. MaxHops
  BY TypedStep DEF Wired, TypeOK
<1> DEFINE Kept == /\ symbols' \in [0 .. RX_SYMBOLS -> SymCount]
                   /\ OnAir(tx')
                   /\ validLen' \in 0 .. RX_SYMBOLS
                   /\ hops' \in 0 .. MaxHops
<1>2. SUFFICES Kept
  <2> SUFFICES ASSUME Kept PROVE Wired'
    OBVIOUS
  <2>1. Len(tx') <= TX_SYMBOLS
    BY DEF OnAir
  <2>2. TypeOK'
    <3>1. stage' \in {"idle", "air", "decode", "done"} /\ decoder' \in 1 .. Len(Protocols)
      BY <1>1 DEF Typed
    <3> QED
      BY <2>1, <3>1 DEF TypeOK
  <2> QED
    BY <1>1, <2>2 DEF Wired, OnAir
<1>3. CASE Send
  <2>1. PICK m \in Messages : Transmit(Meant(m), BuildRaw(m))
    BY <1>3 DEF Send
  <2>2. m.protocol \in Range(Protocols) /\ m.data \in Uint32 /\ m.nbits \in Nat
    <3>1. m.protocol \in Range(Protocols) /\ m.data \in Uint32 /\ m.nbits \in 0 .. MSGBITS_MAX
      BY LinkAssumption
    <3> QED
      BY <3>1 DEF MSGBITS_MAX
  <2>3. OnAir(BuildRaw(m))
    BY <2>2, RawOnAir
  <2>4. tx' = BuildRaw(m) /\ UNCHANGED <<symbols, validLen, hops>>
    BY <2>1 DEF Transmit, buffer
  <2> QED
    BY <1>1, <2>3, <2>4
<1>4. CASE Press
  <2>1. PICK f \in Frames : Transmit(f, RemoteFrame(f))
    BY <1>4 DEF Press
  <2>2. /\ f.protocol \in Range(Protocols) /\ f.bits \in Seq(Bit)
        /\ Len(f.bits) <= MSGBITS_MAX
    BY LinkAssumption
  <2>3. OnAir(RemoteFrame(f))
    BY <2>2, FrameOnAir
  <2>4. tx' = RemoteFrame(f) /\ UNCHANGED <<symbols, validLen, hops>>
    BY <2>1 DEF Transmit, buffer
  <2> QED
    BY <1>1, <2>3, <2>4
<1>5. CASE Arrive
  <2> DEFINE whole == Runs(tx)
             runs(l) == SubSeq(whole, 1, Len(whole) - 2 * l)
  <2>1. PICK phase \in Phases, lost \in Lost \cup {0} :
          symbols' = Recorded(symbols, runs(lost), phase) /\ validLen' = ValidLen(runs(lost))
    BY <1>5 DEF Arrive
  <2> DEFINE n == Len(whole)
             k == n - 2 * lost
             rest == runs(lost)
  <2>2. /\ whole \in Seq(Int) /\ n \in Nat /\ n <= TX_SYMBOLS
        /\ \A j \in 1 .. n : whole[j] \in Int /\ Twice(whole[j])
    <3>1. whole \in Seq(Int) /\ n <= TX_SYMBOLS /\ \A j \in 1 .. n : Twice(whole[j])
      BY <1>1, RunsShort
    <3> HIDE DEF whole
    <3>2. n \in Nat /\ \A j \in 1 .. n : whole[j] \in Int
      BY <3>1
    <3> QED
      BY <3>1, <3>2
  <2>3. k \in Int /\ k <= n
    <3>1. lost \in Nat
      BY LinkAssumption
    <3> HIDE DEF n
    <3> QED
      BY <2>2, <3>1
  <2>4. \A j \in 1 .. k : j \in 1 .. n
    <3> HIDE DEF k, n
    <3> QED
      BY <2>2, <2>3
  <2>5. /\ rest \in Seq(Int) /\ Len(rest) = (IF 1 <= k THEN k ELSE 0)
        /\ \A j \in 1 .. k : rest[j] = whole[j]
    <3>1. \A j \in 1 .. k : whole[j] \in Int
      <4> HIDE DEF whole, k, n
      <4> QED
        BY <2>2, <2>4
    <3>2. rest = SubSeq(whole, 1, k)
      OBVIOUS
    <3> HIDE DEF whole, k, rest
    <3> QED
      BY <2>2, <2>3, <3>1, <3>2, SubSeqProperties
  <2>6. \A j \in 1 .. Len(rest) : Twice(rest[j])
    <3>1. \A j \in 1 .. Len(rest) : j \in 1 .. k
      <4> DEFINE len == Len(rest)
      <4>1. len = IF 1 <= k THEN k ELSE 0
        BY <2>5
      <4> HIDE DEF len, k
      <4>2. \A j \in 1 .. len : j \in 1 .. k
        BY <2>3, <4>1
      <4> QED
        BY <4>2 DEF len
    <3> HIDE DEF rest, whole, n, k
    <3> QED
      BY <2>2, <2>4, <2>5, <3>1
  <2>7. phase \in Nat
    BY LinkAssumption, CodecAssumption
  <2>8. symbols' \in [0 .. RX_SYMBOLS -> SymCount]
    <3>1. symbols' = Recorded(symbols, rest, phase)
      BY <2>1
    <3> HIDE DEF rest
    <3> QED
      BY <1>1, <2>5, <2>6, <2>7, <3>1, RecordedFits
  <2>9. validLen' \in 0 .. RX_SYMBOLS
    <3> DEFINE len == Len(rest)
    <3>1. validLen' = len + 1
      BY <2>1 DEF ValidLen
    <3>2. len = IF 1 <= k THEN k ELSE 0
      BY <2>5
    <3> HIDE DEF len, k, n
    <3> QED
      BY <2>2, <2>3, <3>1, <3>2 DEF TX_SYMBOLS, RX_SYMBOLS
  <2>10. UNCHANGED <<tx, hops>>
    BY <1>5 DEF Arrive
  <2> QED
    BY <1>1, <2>8, <2>9, <2>10
<1>6. CASE TryDecoder
  <2>1. UNCHANGED <<tx, symbols, validLen, hops>>
    BY <1>6 DEF TryDecoder, buffer
  <2> QED
    BY <1>1, <2>1
<1>7. CASE Repeat
  <2>1. answer.protocol \in Received /\ answer.bits \in Seq(Bit)
    BY <1>7 DEF Repeat, Wired, Typed
  <2>2. /\ Result(answer).protocol \in Range(Protocols)
        /\ Result(answer).data \in Uint32
        /\ Result(answer).nbits \in Nat
    BY <2>1, ShiftedType, ProtocolsValue DEF Result
  <2>3. OnAir(BuildRaw(Result(answer)))
    BY <2>2, RawOnAir
  <2>4. /\ tx' = BuildRaw(Result(answer)) /\ hops < MaxHops /\ hops' = hops + 1
        /\ UNCHANGED <<symbols, validLen>>
    BY <1>7 DEF Repeat, buffer
  <2>5. hops' \in 0 .. MaxHops
    BY <1>1, <2>4, LinkAssumption
  <2> QED
    BY <1>1, <2>3, <2>4, <2>5
<1>8. CASE UNCHANGED vars
  <2>1. UNCHANGED <<tx, symbols, validLen, hops>>
    BY <1>8 DEF vars
  <2> QED
    BY <1>1, <2>1
<1> QED
  BY <1>3, <1>4, <1>5, <1>6, <1>7, <1>8 DEF Next

\* Whatever is sent, in full or cut off by the end of the buffer, and whatever is
\* lost of it, the line holds no more than PKTSYMB_MAX symbols, no run that the
\* receiver records and no gap overflows its int16_t, and the index behind the
\* frame stays in the buffer.
THEOREM LinkTypeCorrect == Spec => []TypeOK
<1>1. Init => Wired
  BY WiredInit
<1>2. Wired /\ [Next]_vars => Wired'
  BY WiredStep
<1>3. Wired => TypeOK
  BY DEF Wired
<1> QED
  BY <1>1, <1>2, <1>3, PTL DEF Spec

-----------------------------------------------------------------------------
(* The table is built as it is written: a list is copied without its 0 (or, *)
(* if it is empty, with up to two elements of what lies behind it), no copy *)
(* leaves its member, and members begin as zeros, so that each one reads as *)
(* its list.                                                                *)

\* The greatest of some numbers up to n.
LEMMA MaxBound ==
  ASSUME NEW n \in Nat, NEW S, S \subseteq 1 .. n, S # {}
  PROVE  Max(S) \in S /\ \A y \in S : y <= Max(S)
<1>1. Max(S) \in S
  BY MaxExists
<1>2. PICK m \in S : \A y \in S : m >= y
  <2> DEFINE D == {n - y : y \in S}
  <2>1. D \in SUBSET Nat /\ D # {}
    <3>1. \A y \in S : n - y \in Nat
      OBVIOUS
    <3>2. PICK y \in S : TRUE
      OBVIOUS
    <3> QED
      BY <3>1, <3>2
  <2>2. PICK d \in D : \A y \in D : d <= y
    BY <2>1, LeastElement
  <2>3. PICK m \in S : d = n - m
    BY <2>2
  <2>4. ASSUME NEW y \in S PROVE m >= y
    <3>1. n - y \in D /\ n - m <= n - y
      BY <2>2, <2>3
    <3>2. y \in 1 .. n /\ m \in 1 .. n
      OBVIOUS
    <3> QED
      BY <3>1, <3>2
  <2> QED
    BY <2>4
<1>3. S \subseteq Int
  OBVIOUS
<1>4. Max(S) = m
  BY <1>2, <1>3, MaxIs
<1> QED
  BY <1>1, <1>2, <1>4

\* The greatest of the numbers up to j is j.
LEMMA MaxUpTo ==
  ASSUME NEW j \in Nat \ {0}
  PROVE  Max(1 .. j) = j /\ (1 .. j) \ {j} = 1 .. j - 1
<1>1. j \in 1 .. j /\ 1 .. j \subseteq Int /\ \A y \in 1 .. j : j >= y
  OBVIOUS
<1>2. Max(1 .. j) = j
  BY <1>1, MaxIs
<1> QED
  BY <1>2

\* Where the six members of an object begin, and where the last one ends.
Starts == <<0, 6, 12, 15, 18, 21, 24>>

\* The sum of the sizes that are in t, member by member.
PartOf(t, i) == IF i \in t THEN Sizes[i] ELSE 0
SizeOf(t) == PartOf(t, 1) + PartOf(t, 2) + PartOf(t, 3)
             + PartOf(t, 4) + PartOf(t, 5) + PartOf(t, 6)

\* A member less: its size less.
LEMMA SizeOfLess ==
  ASSUME NEW t \in SUBSET (1 .. 6), NEW x \in t
  PROVE  SizeOf(t) = SizeOf(t \ {x}) + Sizes[x]
<1>1. \A i \in 1 .. 6 : Sizes[i] \in Int
  BY DEF Sizes, PREAMB_MAX, POSTAMB_MAX, BIT_MAX
<1>2. \A i \in 1 .. 6 :
        /\ PartOf(t, i) \in Int /\ PartOf(t \ {x}, i) \in Int
        /\ PartOf(t, i) = IF i = x THEN PartOf(t \ {x}, i) + Sizes[x]
                          ELSE PartOf(t \ {x}, i)
  BY <1>1 DEF PartOf
<1>3. Sizes[x] \in Int /\ x \in 1 .. 6
  BY <1>1
<1>4. x = 1 \/ x = 2 \/ x = 3 \/ x = 4 \/ x = 5 \/ x = 6
  BY <1>3
<1> QED
  BY <1>2, <1>3, <1>4 DEF SizeOf

\* The sizes in order.
LEMMA SizesValue ==
  /\ Sizes \in Seq(Int) /\ Len(Sizes) = 6
  /\ \A i \in 1 .. 6 : Sizes[i] = IF i <= 2 THEN 6 ELSE 3
BY DEF Sizes, PREAMB_MAX, POSTAMB_MAX, BIT_MAX

\* A member begins where the one before it ends.
LEMMA OffsetValue ==
  ASSUME NEW k \in 1 .. 7
  PROVE  Offset(k) = Starts[k]
<1> DEFINE s == SubSeq(Sizes, 1, k - 1)
           D == DOMAIN s
           Eq(h) == h = [t \in SUBSET D |->
                           IF t = {} THEN 0
                           ELSE LET x == Max(t) IN h[t \ {x}] + s[x]]
           F == CHOOSE h : Eq(h)
           g == [t \in SUBSET D |-> SizeOf(t)]
<1>1. D = 1 .. k - 1 /\ \A i \in 1 .. k - 1 : s[i] = Sizes[i]
  <2>1. \A i \in 1 .. k - 1 : Sizes[i] \in Int /\ 1 + i - 1 = i
    BY SizesValue
  <2>2. /\ s \in Seq(Int) /\ Len(s) = (IF 1 <= k - 1 THEN k - 1 - 1 + 1 ELSE 0)
        /\ \A i \in 1 .. k - 1 - 1 + 1 : s[i] = Sizes[1 + i - 1]
    <3>1. 1 \in Int /\ k - 1 \in Int
      OBVIOUS
    <3> QED
      BY <2>1, <3>1, SubSeqProperties
  <2>3. Len(s) = k - 1 /\ \A i \in 1 .. k - 1 : s[i] = Sizes[i]
    BY <2>1, <2>2
  <2> HIDE DEF s
  <2> QED
    BY <2>2, <2>3
<1>2. Eq(g)
  <2> HIDE DEF D, s
  <2>1. ASSUME NEW t \in SUBSET D, t # {}
        PROVE  SizeOf(t) = g[t \ {Max(t)}] + s[Max(t)]
    <3>1. t \subseteq 1 .. 6 /\ t \subseteq 1 .. k - 1 /\ 6 \in Nat
      BY <1>1
    <3>2. Max(t) \in t
      BY <2>1, <3>1, MaxExists
    <3>3. g[t \ {Max(t)}] = SizeOf(t \ {Max(t)})
      OBVIOUS
    <3>4. s[Max(t)] = Sizes[Max(t)]
      BY <1>1, <3>1, <3>2
    <3>5. SizeOf(t) = SizeOf(t \ {Max(t)}) + Sizes[Max(t)]
      <4>1. t \in SUBSET (1 .. 6)
        BY <3>1
      <4> QED
        BY <3>2, <4>1, SizeOfLess
    <3> QED
      BY <3>3, <3>4, <3>5
  <2>2. SizeOf({}) = 0
    BY DEF SizeOf, PartOf
  <2> QED
    BY <2>1, <2>2
<1>3. Eq(F)
  <2> HIDE DEF Eq
  <2> QED
    BY <1>2, Zenon
<1>4. Offset(k) = F[D]
  BY DEF Offset, FoldLeft, MapThenFoldSet
<1>5. \A t \in SUBSET (1 .. k - 1) :
        F[t] = IF t = {} THEN 0 ELSE LET x == Max(t) IN F[t \ {x}] + s[x]
  <2> HIDE DEF F, s, D
  <2> QED
    BY <1>1, <1>3
<1>6. F[{}] = 0
  <2> HIDE DEF F, s
  <2>1. {} \in SUBSET (1 .. k - 1)
    OBVIOUS
  <2> QED
    BY <1>5, <2>1
<1>7. ASSUME NEW j \in 1 .. 6, j <= k - 1
      PROVE  F[1 .. j] = F[1 .. j - 1] + Sizes[j]
  <2> HIDE DEF F, s
  <2>1. 1 .. j \in SUBSET (1 .. k - 1) /\ 1 .. j # {} /\ j \in 1 .. k - 1
    BY <1>7
  <2>2. Max(1 .. j) = j /\ (1 .. j) \ {j} = 1 .. j - 1
    BY MaxUpTo
  <2>3. F[1 .. j] = F[(1 .. j) \ {j}] + s[j]
    BY <1>5, <2>1, <2>2
  <2> QED
    BY <1>1, <2>1, <2>2, <2>3
<1>8. 1 .. 0 = {}
  OBVIOUS
<1> DEFINE c(j) == F[1 .. j]
<1>9. /\ c(0) = 0
      /\ \A j \in 1 .. 6 : j <= k - 1 => c(j) = c(j - 1) + Sizes[j]
      /\ Offset(k) = c(k - 1)
  <2> HIDE DEF F
  <2> QED
    BY <1>1, <1>4, <1>6, <1>7, <1>8
<1> HIDE DEF c
<1>10. \A i \in 1 .. 6 : Sizes[i] = IF i <= 2 THEN 6 ELSE 3
  BY SizesValue
<1> QED
  BY <1>9, <1>10 DEF Starts

\* What the constructor does for the k-th member.
Fill(layout, p, cells, k) == CopyNTA(cells, Offset(k), From(layout, p, k))

\* The members in t only.
FillIf(layout, p, t, cells, k) == IF k \in t THEN Fill(layout, p, cells, k) ELSE cells

\* The constructor fills the six members in turn.
LEMMA ConstructValue ==
  ASSUME NEW layout, NEW p
  PROVE  \E f : /\ f[0] = Zeroed
                /\ \A k \in 1 .. 6 : f[k] = Fill(layout, p, f[k - 1], k)
                /\ Construct(layout, p) = f[6]
<1> DEFINE s == [k \in 1 .. Len(Sizes) |-> k]
           D == DOMAIN s
           Eq(h) == h = [t \in SUBSET D |->
                           IF t = {} THEN Zeroed
                           ELSE LET x == Max(t)
                                IN  CopyNTA(h[t \ {x}], Offset(s[x]), From(layout, p, s[x]))]
           F == CHOOSE h : Eq(h)
           G(t, c, k) == FillIf(layout, p, t, c, k)
           All(t) == G(t, G(t, G(t, G(t, G(t, G(t, Zeroed, 1), 2), 3), 4), 5), 6)
           g == [t \in SUBSET D |-> All(t)]
<1>1. D = 1 .. 6 /\ \A i \in 1 .. 6 : s[i] = i
  BY SizesValue
<1>2. ASSUME NEW t \in SUBSET (1 .. 6), t # {}
      PROVE  LET x == Max(t) IN All(t) = Fill(layout, p, All(t \ {x}), x)
  <2> DEFINE x == Max(t)
             u == t \ {x}
  <2>1. x \in t /\ \A y \in t : y <= x
    <3>1. t \subseteq 1 .. 6 /\ 6 \in Nat
      OBVIOUS
    <3> QED
      BY <1>2, <3>1, MaxBound
  <2> HIDE DEF x
  <2>2. x \in 1 .. 6
    BY <2>1
  <2>3. \A k \in 1 .. 6 : k < x => (k \in t <=> k \in u)
    BY <2>2
  <2>4. \A k \in 1 .. 6 : k >= x => k \notin u
    BY <2>1, <2>2
  <2>5. \A k \in 1 .. 6 : k > x => k \notin t
    BY <2>1, <2>2
  <2> HIDE DEF u
  <2>6. ASSUME NEW c, NEW k \in 1 .. 6, k < x PROVE G(t, c, k) = G(u, c, k)
    BY <2>3, <2>6 DEF FillIf
  <2>7. ASSUME NEW c PROVE G(t, c, x) = Fill(layout, p, c, x) /\ G(u, c, x) = c
    BY <2>1, <2>2, <2>4 DEF FillIf
  <2>8. ASSUME NEW c, NEW k \in 1 .. 6, k > x PROVE G(t, c, k) = c /\ G(u, c, k) = c
    BY <2>2, <2>4, <2>5, <2>8 DEF FillIf
  <2> HIDE DEF G
  <2>9. All(t) = Fill(layout, p, All(u), x)
    <3>1. x = 1 \/ x = 2 \/ x = 3 \/ x = 4 \/ x = 5 \/ x = 6
      BY <2>2
    <3>2. CASE x = 1
      BY <2>7, <2>8, <3>2
    <3>3. CASE x = 2
      BY <2>6, <2>7, <2>8, <3>3
    <3>4. CASE x = 3
      BY <2>6, <2>7, <2>8, <3>4
    <3>5. CASE x = 4
      BY <2>6, <2>7, <2>8, <3>5
    <3>6. CASE x = 5
      BY <2>6, <2>7, <2>8, <3>6
    <3>7. CASE x = 6
      BY <2>6, <2>7, <3>7
    <3> QED
      BY <3>1, <3>2, <3>3, <3>4, <3>5, <3>6, <3>7
  <2> QED
    BY <2>9 DEF u, x
<1>3. Eq(g)
  <2>1. All({}) = Zeroed
    BY DEF FillIf
  <2> HIDE DEF D, s, All
  <2>2. ASSUME NEW t \in SUBSET D, t # {}
        PROVE  All(t) = CopyNTA(g[t \ {Max(t)}], Offset(s[Max(t)]), From(layout, p, s[Max(t)]))
    <3>1. t \subseteq 1 .. 6 /\ 6 \in Nat /\ t \in SUBSET (1 .. 6)
      BY <1>1
    <3>2. Max(t) \in t
      BY <2>2, <3>1, MaxExists
    <3>3. g[t \ {Max(t)}] = All(t \ {Max(t)})
      OBVIOUS
    <3>4. s[Max(t)] = Max(t)
      BY <1>1, <3>1, <3>2
    <3>5. All(t) = Fill(layout, p, All(t \ {Max(t)}), Max(t))
      BY <1>2, <2>2, <3>1
    <3> QED
      BY <3>3, <3>4, <3>5 DEF Fill
  <2> QED
    BY <2>1, <2>2
<1>4. Eq(F)
  <2> HIDE DEF Eq
  <2> QED
    BY <1>3, Zenon
<1>5. Construct(layout, p) = F[D]
  BY DEF Construct, FoldLeft, MapThenFoldSet
<1>6. \A t \in SUBSET (1 .. 6) :
        F[t] = IF t = {} THEN Zeroed
               ELSE LET x == Max(t)
                    IN  CopyNTA(F[t \ {x}], Offset(s[x]), From(layout, p, s[x]))
  <2> HIDE DEF F, s, D
  <2> QED
    BY <1>1, <1>4
<1>7. F[{}] = Zeroed
  <2> HIDE DEF F, s
  <2>1. {} \in SUBSET (1 .. 6)
    OBVIOUS
  <2> QED
    BY <1>6, <2>1
<1>8. ASSUME NEW j \in 1 .. 6
      PROVE  F[1 .. j] = Fill(layout, p, F[1 .. j - 1], j)
  <2> HIDE DEF F, s
  <2>1. 1 .. j \in SUBSET (1 .. 6) /\ 1 .. j # {}
    OBVIOUS
  <2>2. Max(1 .. j) = j /\ (1 .. j) \ {j} = 1 .. j - 1 /\ s[j] = j
    BY <1>1, MaxUpTo
  <2>3. F[1 .. j] = CopyNTA(F[(1 .. j) \ {j}], Offset(s[j]), From(layout, p, s[j]))
    BY <1>6, <2>1, <2>2
  <2> QED
    BY <2>2, <2>3 DEF Fill
<1>9. 1 .. 0 = {}
  OBVIOUS
<1> DEFINE f == [j \in 0 .. 6 |-> F[1 .. j]]
<1>10. /\ f[0] = Zeroed
       /\ \A k \in 1 .. 6 : f[k] = Fill(layout, p, f[k - 1], k)
       /\ Construct(layout, p) = f[6]
  <2> HIDE DEF F
  <2>1. f[0] = F[1 .. 0] /\ f[6] = F[1 .. 6]
    OBVIOUS
  <2>2. ASSUME NEW k \in 1 .. 6 PROVE f[k] = F[1 .. k] /\ f[k - 1] = F[1 .. k - 1]
    OBVIOUS
  <2> HIDE DEF f
  <2> QED
    BY <1>1, <1>5, <1>7, <1>8, <1>9, <2>1, <2>2
<1> QED
  <2> HIDE DEF f
  <2> QED
    BY <1>10

\* A list without a 0 in it, short enough for any member.
IsList(L) ==
  /\ L \in Seq(Int)
  /\ Len(L) <= 2
  /\ \A i \in 1 .. Len(L) : L[i] # 0

\* What lies in memory from a list on: the list, its 0, and, if the list is
\* empty, another 0 somewhere.
BeginsWith(src, L) ==
  /\ src \in Seq(Int)
  /\ Len(L) + 1 \in 1 .. Len(src)
  /\ \A i \in 1 .. Len(L) : src[i] = L[i]
  /\ src[Len(L) + 1] = 0
  /\ Len(L) = 0 => \E j \in 2 .. Len(src) : src[j] = 0

\* That other 0 comes soon.
Soon(src) == \E j \in 2 .. 4 : j \in 1 .. Len(src) /\ src[j] = 0

\* CopyNTA() copies a list without its 0, but of an empty one the 0 and what lies
\* behind, up to the next 0: two more elements at most if that comes soon, and more
\* than two if it does not.
LEMMA CopiesValue ==
  ASSUME NEW L, IsList(L), NEW src, BeginsWith(src, L)
  PROVE  /\ Copies(src) \in Nat \ {0}
         /\ Len(L) # 0 => Copies(src) = Len(L)
         /\ Len(L) # 0 \/ Soon(src) => Copies(src) \in 1 .. 3
         /\ Len(L) = 0 /\ ~Soon(src) => Copies(src) > 3
<1> DEFINE n == Len(L)
           len == Len(src)
           S == {k \in 1 .. len - 1 : src[k + 1] = 0}
<1>1. /\ n \in 0 .. 2 /\ len \in Nat /\ n + 1 <= len
      /\ \A i \in 1 .. n : src[i] # 0
      /\ src[n + 1] = 0
      /\ n = 0 => \E j \in 2 .. len : src[j] = 0
  <2>1. L \in Seq(Int) /\ src \in Seq(Int) /\ n <= 2 /\ \A i \in 1 .. n : L[i] # 0
    BY DEF IsList, BeginsWith
  <2>2. n + 1 \in 1 .. len /\ src[n + 1] = 0 /\ \A i \in 1 .. n : src[i] = L[i]
    BY DEF BeginsWith
  <2>3. n = 0 => \E j \in 2 .. len : src[j] = 0
    BY DEF BeginsWith
  <2>4. n \in Nat /\ len \in Nat
    BY <2>1
  <2> HIDE DEF n, len
  <2>5. n \in 0 .. 2 /\ n + 1 <= len
    BY <2>1, <2>2, <2>4
  <2>6. \A i \in 1 .. n : src[i] # 0
    BY <2>1, <2>2
  <2> QED
    BY <2>2, <2>3, <2>4, <2>5, <2>6
<1>2. Copies(src) = Min(S)
  BY DEF Copies
<1>3. /\ Soon(src) => \E j \in 2 .. 4 : j <= len /\ src[j] = 0
      /\ ~Soon(src) => \A j \in 2 .. 4 : j \in 1 .. len => src[j] # 0
  BY DEF Soon
<1> HIDE DEF n, len
<1>4. S \in SUBSET Nat
  OBVIOUS
<1>5. CASE n # 0
  <2>1. n \in S
    BY <1>1, <1>5
  <2>2. \A k \in S : n <= k
    <3> SUFFICES ASSUME NEW k \in S, ~(n <= k) PROVE FALSE
      OBVIOUS
    <3>1. k + 1 \in 1 .. n /\ src[k + 1] = 0
      BY <1>1
    <3> QED
      BY <1>1, <3>1
  <2>3. S \subseteq Int
    OBVIOUS
  <2> HIDE DEF S
  <2>4. Min(S) = n
    BY <2>1, <2>2, <2>3, MinIs
  <2> QED
    BY <1>1, <1>2, <1>5, <2>4 DEF n
<1>6. CASE n = 0
  <2>1. ASSUME NEW j \in 2 .. len, src[j] = 0
        PROVE  Min(S) \in Nat \ {0} /\ Min(S) <= j - 1
    <3>1. j - 1 \in 1 .. len - 1 /\ (j - 1) + 1 = j
      BY <1>1, <2>1
    <3>2. j - 1 \in S
      BY <2>1, <3>1
    <3>3. S \subseteq 1 .. len - 1
      OBVIOUS
    <3> HIDE DEF S
    <3>4. Min(S) \in S /\ Min(S) <= j - 1
      BY <1>4, <3>2, NatMin
    <3>5. Min(S) \in 1 .. len - 1
      BY <3>3, <3>4
    <3> QED
      BY <3>4, <3>5
  <2> HIDE DEF S
  <2>2. Min(S) \in Nat \ {0}
    <3>1. PICK j \in 2 .. len : src[j] = 0
      BY <1>1, <1>6
    <3> QED
      BY <2>1, <3>1
  <2>3. ASSUME Soon(src) PROVE Min(S) \in 1 .. 3
    <3>1. PICK j \in 2 .. 4 : j <= len /\ src[j] = 0
      BY <1>3, <2>3
    <3>2. j \in 2 .. len
      BY <1>1, <3>1
    <3>3. Min(S) <= j - 1
      BY <2>1, <3>1, <3>2
    <3> QED
      BY <2>2, <3>1, <3>3
  <2>4. ASSUME ~Soon(src) PROVE Min(S) > 3
    <3>1. Min(S) \in S
      <4>1. PICK j \in 2 .. len : src[j] = 0
        BY <1>1, <1>6
      <4>2. j - 1 \in 1 .. len - 1 /\ (j - 1) + 1 = j
        BY <1>1
      <4>3. j - 1 \in S
        BY <4>1, <4>2 DEF S
      <4> QED
        BY <1>4, <4>3, NatMin
    <3>2. Min(S) \in 1 .. len - 1 /\ src[Min(S) + 1] = 0
      BY <3>1 DEF S
    <3> DEFINE m == Min(S)
    <3> HIDE DEF m
    <3>3. m \in 1 .. len - 1 /\ src[m + 1] = 0
      BY <3>2 DEF m
    <3>4. m > 3
      <4> SUFFICES ASSUME ~(m > 3) PROVE FALSE
        OBVIOUS
      <4>1. m + 1 \in 2 .. 4 /\ m + 1 \in 1 .. len
        BY <1>1, <3>3
      <4> QED
        BY <1>3, <2>4, <3>3, <4>1
    <3> QED
      BY <3>4 DEF m
  <2> QED
    BY <1>2, <1>6, <2>2, <2>3, <2>4 DEF n
<1> QED
  BY <1>5, <1>6

\* The cells of the k-th member.
Member(k) == Starts[k] .. Starts[k + 1] - 1

\* The k-th member holds what was copied, and behind it nothing has changed.
Holds(cells, src, k) ==
  \A c \in Member(k) :
    cells[c] = IF c < Starts[k] + Copies(src) THEN src[c - Starts[k] + 1] ELSE 0

\* The first k members have been filled, the others not yet.
FilledTo(cells, srcs, k) ==
  /\ DOMAIN cells = 0 .. 23
  /\ \A i \in 1 .. k : Holds(cells, srcs[i], i)
  /\ \A c \in Starts[k + 1] .. 23 : cells[c] = 0

\* Members in order, none smaller than three.
LEMMA StartsValue ==
  /\ \A k \in 1 .. 7 : Starts[k] \in 0 .. 24
  /\ \A k \in 1 .. 6 : Starts[k] + 3 <= Starts[k + 1]
  /\ \A k \in 1 .. 6, i \in 1 .. 6 : i < k => Starts[i + 1] <= Starts[k]
  /\ Starts[1] = 0 /\ Starts[7] = 24
<1>1. \A k \in 1 .. 7 : Starts[k] \in 0 .. 24
  BY DEF Starts
<1>2. \A k \in 1 .. 6 : Starts[k] + 3 <= Starts[k + 1]
  BY DEF Starts
<1>3. Starts[1] = 0 /\ Starts[7] = 24
  BY DEF Starts
<1>4. /\ Starts[2] <= Starts[3] /\ Starts[3] <= Starts[4] /\ Starts[4] <= Starts[5]
      /\ Starts[5] <= Starts[6]
  BY DEF Starts
<1>5. ASSUME NEW k \in 1 .. 6, NEW i \in 1 .. 6, i < k PROVE Starts[i + 1] <= Starts[k]
  BY <1>5 DEF Starts
<1> QED
  BY <1>1, <1>2, <1>3, <1>5

\* A copy of at most three elements stays in its member, and behind the last
\* member there is none that it could spoil.
LEMMA FillNext ==
  ASSUME NEW cells, NEW srcs, NEW k \in 1 .. 6, FilledTo(cells, srcs, k - 1),
         Copies(srcs[k]) \in Nat \ {0}, k # 6 => Copies(srcs[k]) <= 3
  PROVE  FilledTo(CopyNTA(cells, Starts[k], srcs[k]), srcs, k)
<1> DEFINE after == CopyNTA(cells, Starts[k], srcs[k])
           n == Copies(srcs[k])
           a == Starts[k]
           b == Starts[k + 1]
           src == srcs[k]
<1>1. /\ n \in Nat \ {0} /\ a \in 0 .. 24 /\ b \in 0 .. 24 /\ a + 3 <= b
      /\ n <= 3 \/ b = 24
      /\ \A i \in 1 .. 6 : i < k => Starts[i + 1] <= a
      /\ \A i \in 1 .. 6 : Starts[i] \in 0 .. 24 /\ Starts[i + 1] \in 0 .. 24
  <2>1. k \in 1 .. 7 /\ k + 1 \in 1 .. 7 /\ \A i \in 1 .. 6 : i \in 1 .. 7 /\ i + 1 \in 1 .. 7
    OBVIOUS
  <2>2. n <= 3 \/ b = 24
    BY StartsValue
  <2> QED
    BY <2>1, <2>2, StartsValue
<1>2. /\ DOMAIN cells = 0 .. 23
      /\ \A i \in 1 .. k - 1 : Holds(cells, srcs[i], i)
      /\ \A c \in a .. 23 : cells[c] = 0
  <2>1. (k - 1) + 1 = k
    OBVIOUS
  <2> QED
    BY <2>1 DEF FilledTo
<1>3. /\ DOMAIN after = 0 .. 23
      /\ \A c \in 0 .. 23 : after[c] = IF c \in a .. a + n - 1 THEN src[c - a + 1] ELSE cells[c]
  BY <1>2 DEF CopyNTA
<1> HIDE DEF after, n, a, b, src
<1>4. ASSUME NEW i \in 1 .. k - 1 PROVE Holds(after, srcs[i], i)
  <2>1. i \in 1 .. 6 /\ i < k
    OBVIOUS
  <2>2. ASSUME NEW c \in Member(i) PROVE after[c] = cells[c]
    <3>1. c \in 0 .. 23 /\ c \notin a .. a + n - 1
      BY <1>1, <2>1 DEF Member
    <3> QED
      BY <1>3, <3>1
  <2>3. Holds(cells, srcs[i], i)
    BY <1>2
  <2> QED
    BY <2>2, <2>3 DEF Holds
<1>5. Holds(after, src, k)
  <2> SUFFICES ASSUME NEW c \in a .. b - 1
               PROVE  after[c] = IF c < a + n THEN src[c - a + 1] ELSE 0
    BY DEF Holds, Member, a, b, n, src
  <2>1. c \in 0 .. 23 /\ c \in a .. 23 /\ (c \in a .. a + n - 1 <=> c < a + n)
    BY <1>1
  <2> QED
    BY <1>2, <1>3, <2>1
<1>6. \A c \in b .. 23 : after[c] = 0
  <2> SUFFICES ASSUME NEW c \in b .. 23 PROVE after[c] = 0
    OBVIOUS
  <2>1. c \in 0 .. 23 /\ c \in a .. 23 /\ c \notin a .. a + n - 1
    BY <1>1
  <2> QED
    BY <1>2, <1>3, <2>1
<1>7. \A i \in 1 .. k : Holds(after, srcs[i], i)
  <2>1. \A i \in 1 .. k : i \in 1 .. k - 1 \/ i = k
    OBVIOUS
  <2> QED
    BY <1>4, <1>5, <2>1 DEF src
<1>8. FilledTo(after, srcs, k)
  BY <1>3, <1>6, <1>7 DEF FilledTo, b
<1> QED
  BY <1>8 DEF after, a

\* The rest of the code reads back the list.
LEMMA ReadValue ==
  ASSUME NEW cells, DOMAIN cells = 0 .. 23, NEW k \in 1 .. 6,
         NEW L, IsList(L), NEW src, BeginsWith(src, L), Holds(cells, src, k)
  PROVE  Read(cells, Starts[k]) = L
<1> DEFINE n == Len(L)
           a == Starts[k]
           b == Starts[k + 1]
           copied == Copies(src)
           ends == {c \in DOMAIN cells : c >= a /\ cells[c] = 0}
                   \cup {Cardinality(DOMAIN cells)}
<1>1. a \in 0 .. 24 /\ b \in 0 .. 24 /\ a + 3 <= b
  <2>1. k \in 1 .. 7 /\ k + 1 \in 1 .. 7
    OBVIOUS
  <2> QED
    BY <2>1, StartsValue
<1>2. n \in 0 .. 2 /\ L \in Seq(Int) /\ \A i \in 1 .. n : L[i] # 0
  <2>1. L \in Seq(Int) /\ n <= 2 /\ \A i \in 1 .. n : L[i] # 0
    BY DEF IsList
  <2>2. n \in Nat
    BY <2>1
  <2> HIDE DEF n
  <2> QED
    BY <2>1, <2>2
<1>3. copied \in Nat \ {0} /\ (n # 0 => copied = n)
  BY CopiesValue
<1>4. \A c \in a .. b - 1 : cells[c] = IF c < a + copied THEN src[c - a + 1] ELSE 0
  BY DEF Holds, Member
<1>5. src[n + 1] = 0 /\ \A i \in 1 .. n : src[i] = L[i]
  BY DEF BeginsWith
<1>6. Read(cells, a) = [i \in 1 .. Min(ends) - a |-> cells[a + i - 1]]
  BY DEF Read
<1>7. Cardinality(DOMAIN cells) = 24
  <2>1. 0 \in Int /\ 23 \in Int
    OBVIOUS
  <2> DEFINE m == 23
  <2>2. Cardinality(0 .. m) = IF 0 > m THEN 0 ELSE m - 0 + 1
    <3> HIDE DEF m
    <3>1. m \in Int
      BY <2>1 DEF m
    <3> QED
      BY <2>1, <3>1, FS_Interval
  <2> QED
    BY <2>2
<1> HIDE DEF n, a, b, copied
<1>8. ASSUME NEW i \in 1 .. n PROVE cells[a + i - 1] = L[i]
  <2>1. a + i - 1 \in a .. b - 1 /\ a + i - 1 < a + copied /\ (a + i - 1) - a + 1 = i
    BY <1>1, <1>2, <1>3
  <2>2. cells[a + i - 1] = src[i]
    BY <1>4, <2>1
  <2> QED
    BY <1>5, <2>2
<1>9. cells[a + n] = 0
  <2>1. a + n \in a .. b - 1
    BY <1>1, <1>2
  <2>2. CASE n = 0
    <3>1. a + n < a + copied /\ (a + n) - a + 1 = n + 1
      BY <1>1, <1>3, <2>2
    <3> QED
      BY <1>4, <1>5, <2>1, <3>1
  <2>3. CASE n # 0
    <3>1. ~(a + n < a + copied)
      BY <1>1, <1>2, <1>3, <2>3
    <3> QED
      BY <1>4, <2>1, <3>1
  <2> QED
    BY <2>2, <2>3
<1>10. a + n \in ends /\ ends \subseteq Int /\ \A y \in ends : a + n <= y
  <2>1. a + n \in 0 .. 23 /\ a + n >= a
    BY <1>1, <1>2
  <2>2. a + n \in ends
    BY <1>9, <2>1
  <2>3. ends \subseteq Int
    BY <1>7
  <2>4. ASSUME NEW y \in ends PROVE a + n <= y
    <3>1. CASE y = 24
      BY <2>1, <3>1
    <3>2. CASE y # 24
      <4>1. y \in 0 .. 23 /\ y >= a /\ cells[y] = 0
        BY <1>7, <3>2
      <4>2. SUFFICES ASSUME ~(a + n <= y) PROVE FALSE
        OBVIOUS
      <4>3. y - a + 1 \in 1 .. n /\ a + (y - a + 1) - 1 = y
        BY <1>1, <1>2, <4>1, <4>2
      <4>4. cells[y] = L[y - a + 1]
        BY <1>8, <4>3
      <4> QED
        BY <1>2, <4>1, <4>3, <4>4
    <3> QED
      BY <3>1, <3>2
  <2> QED
    BY <2>2, <2>3, <2>4
<1> HIDE DEF ends
<1>11. Min(ends) = a + n
  BY <1>10, MinIs
<1>12. Min(ends) - a = n
  BY <1>1, <1>2, <1>11
<1>13. Read(cells, a) = [i \in 1 .. n |-> L[i]]
  BY <1>6, <1>8, <1>12
<1>14. L = [i \in 1 .. n |-> L[i]]
  BY <1>2 DEF n
<1> QED
  BY <1>13, <1>14 DEF a

\* The lists of the table.
LEMMA TableLists ==
  ASSUME NEW p \in Range(Protocols)
  PROVE  /\ IsList(PktInfo(p).preamble)
         /\ IsList(PktInfo(p).postamble)
         /\ PktInfo(p).bits \in Seq(Seq(Int)) /\ Len(PktInfo(p).bits) = 4
         /\ \A b \in 1 .. 4 : IsList(PktInfo(p).bits[b])
<1>1. CASE p \in {NEC, NEC_RPT}
  <2>1. PktInfo(p).bits = << <<563, -563>>, <<563, -1689>>, <<>>, <<>> >>
    BY <1>1, NECInfo DEF NEC_UNIT
  <2>2. PktInfo(p).postamble = <<563>>
    BY <1>1, NECInfo DEF NEC_UNIT
  <2>3. \E s \in {-4504, -2252} : PktInfo(p).preamble = <<9008, s>>
    BY <1>1, NECInfo DEF NEC_UNIT
  <2>4. IsList(PktInfo(p).preamble) /\ IsList(PktInfo(p).postamble)
    BY <2>2, <2>3 DEF IsList
  <2>5. PktInfo(p).bits \in Seq(Seq(Int)) /\ Len(PktInfo(p).bits) = 4
    BY <2>1
  <2>6. IsList(<<563, -563>>) /\ IsList(<<563, -1689>>) /\ IsList(<<>>)
    BY DEF IsList
  <2>7. \A b \in 1 .. 4 : IsList(PktInfo(p).bits[b])
    <3>1. ASSUME NEW b \in 1 .. 4
          PROVE  PktInfo(p).bits[b] \in {<<563, -563>>, <<563, -1689>>, <<>>}
      <4>1. b = 1 \/ b = 2 \/ b = 3 \/ b = 4
        OBVIOUS
      <4> QED
        BY <2>1, <4>1
    <3> QED
      BY <2>6, <3>1
  <2> QED
    BY <2>4, <2>5, <2>7
<1>2. CASE p = SONY
  BY <1>2, SonyInfo DEF SONY_UNIT, IsList
<1>3. CASE p = RCMM
  BY <1>3, RCMMInfo DEF RCMM_UNIT, IsList
<1>4. CASE p = RC5
  BY <1>4, RC5Info DEF RC5_UNIT, IsList
<1> QED
  BY <1>1, <1>2, <1>3, <1>4, ProtocolsValue DEF Received

\* The six lists of a protocol.
LEMMA ListsValue ==
  ASSUME NEW p \in Range(Protocols)
  PROVE  /\ Lists(p) \in Seq(Seq(Int)) /\ Len(Lists(p)) = 6
         /\ \A k \in 1 .. 6 : IsList(Lists(p)[k])
<1> DEFINE a == PktInfo(p).preamble
           b == PktInfo(p).postamble
           c == PktInfo(p).bits
           two == <<a, b>>
<1>1. /\ IsList(a) /\ IsList(b)
      /\ c \in Seq(Seq(Int)) /\ Len(c) = 4 /\ \A k \in 1 .. 4 : IsList(c[k])
  BY TableLists
<1>2. a \in Seq(Int) /\ b \in Seq(Int)
  BY <1>1 DEF IsList
<1> HIDE DEF a, b, c
<1>3. two \in Seq(Seq(Int)) /\ Len(two) = 2 /\ two[1] = a /\ two[2] = b
  BY <1>2
<1> HIDE DEF two
<1> DEFINE d == two \o c
<1>4. /\ d \in Seq(Seq(Int)) /\ Len(d) = Len(two) + Len(c)
      /\ \A i \in 1 .. Len(two) + Len(c) :
           d[i] = IF i <= Len(two) THEN two[i] ELSE c[i - Len(two)]
  <2>1. two \in Seq(Seq(Int)) /\ c \in Seq(Seq(Int))
    BY <1>1, <1>3
  <2> QED
    BY <2>1, ConcatProperties
<1> HIDE DEF d
<1>5. ASSUME NEW k \in 1 .. 6 PROVE IsList(d[k])
  <2>1. Len(two) = 2 /\ Len(c) = 4
    BY <1>1, <1>3
  <2>2. d[k] = IF k <= 2 THEN two[k] ELSE c[k - 2]
    BY <1>4, <2>1
  <2>3. CASE k = 1
    BY <1>1, <1>3, <2>2, <2>3
  <2>4. CASE k = 2
    BY <1>1, <1>3, <2>2, <2>4
  <2>5. CASE k # 1 /\ k # 2
    <3>1. k - 2 \in 1 .. 4 /\ ~(k <= 2)
      BY <2>5
    <3>2. d[k] = c[k - 2]
      BY <2>2, <3>1
    <3>3. IsList(c[k - 2])
      BY <1>1, <3>1
    <3> QED
      BY <3>2, <3>3
  <2> QED
    BY <2>3, <2>4, <2>5
<1>6. Lists(p) = d
  BY DEF Lists, two, a, b, c, d
<1>7. Len(d) = 6 /\ d \in Seq(Seq(Int))
  <2>1. Len(d) = Len(two) + Len(c) /\ Len(two) = 2 /\ Len(c) = 4
    BY <1>1, <1>3, <1>4
  <2> QED
    BY <1>4, <2>1
<1> QED
  BY <1>5, <1>6, <1>7

\* The place of the j-th element of the i-th piece, if all have six.
Six(i, j) == 6 * (i - 1) + j

\* Pieces of six elements each.
LEMMA FlattenSixes ==
  ASSUME NEW S, NEW n \in Nat \ {0}, NEW seqs \in [1 .. n -> Seq(S)],
         \A i \in 1 .. n : Len(seqs[i]) = 6
  PROVE  /\ FlattenSeq(seqs) \in Seq(S) /\ Len(FlattenSeq(seqs)) = 6 * n
         /\ \A i \in 1 .. n, j \in 1 .. 6 : FlattenSeq(seqs)[Six(i, j)] = seqs[i][j]
<1> USE DEF Six
<1>1. PICK f \in [1 .. n -> Seq(S)] : FlattenSeq(seqs) = f[n] /\ Joins(f, n, seqs)
  BY FlattenPartial
<1> DEFINE Good(k) == /\ Len(f[k]) = 6 * k
                      /\ \A i \in 1 .. k, j \in 1 .. 6 : f[k][6 * (i - 1) + j] = seqs[i][j]
           T == {k \in 1 .. n : Good(k)}
<1>2. 1 <= n => 1 \in T
  <2>1. 1 \in 1 .. n /\ f[1] = seqs[1]
    BY <1>1 DEF Joins
  <2>2. Len(f[1]) = 6 * 1
    BY <2>1
  <2>3. ASSUME NEW i \in 1 .. 1, NEW j \in 1 .. 6 PROVE f[1][6 * (i - 1) + j] = seqs[i][j]
    <3>1. i = 1 /\ 6 * (i - 1) + j = j
      OBVIOUS
    <3> QED
      BY <2>1, <3>1
  <2> QED
    BY <2>1, <2>2, <2>3
<1>3. ASSUME NEW k \in 1 .. n, k # 1, k - 1 \in T PROVE k \in T
  <2>1. k \in 2 .. n /\ k - 1 \in 1 .. n
    BY <1>3
  <2> DEFINE a == f[k - 1]
             b == seqs[k]
             c == a \o b
             la == Len(a)
             lb == Len(b)
  <2>2. a \in Seq(S) /\ b \in Seq(S) /\ la = 6 * k - 6 /\ lb = 6
        /\ \A i \in 1 .. k - 1, j \in 1 .. 6 : a[6 * (i - 1) + j] = seqs[i][j]
    <3>1. Good(k - 1)
      BY <1>3
    <3>2. la = 6 * (k - 1) /\ \A i \in 1 .. k - 1, j \in 1 .. 6 : a[6 * (i - 1) + j] = seqs[i][j]
      BY <3>1
    <3>3. a \in Seq(S) /\ b \in Seq(S) /\ lb = 6
      BY <2>1
    <3> HIDE DEF a, b, la, lb
    <3>4. la = 6 * k - 6
      BY <3>2
    <3> QED
      BY <3>2, <3>3, <3>4
  <2>3. f[k] = c
    BY <1>1, <2>1 DEF Joins
  <2>4. Len(c) = la + lb /\ \A i \in 1 .. la + lb : c[i] = IF i <= la THEN a[i] ELSE b[i - la]
    <3>1. a \in Seq(S) /\ b \in Seq(S)
      BY <2>2
    <3> HIDE DEF a, b
    <3> QED
      BY <3>1, ConcatProperties
  <2> HIDE DEF a, c, la, lb
  <2>5. Len(f[k]) = 6 * k
    BY <2>2, <2>3, <2>4
  <2>6. ASSUME NEW i \in 1 .. k, NEW j \in 1 .. 6 PROVE f[k][6 * (i - 1) + j] = seqs[i][j]
    <3>1. CASE i = k
      <4>1. /\ 6 * (i - 1) + j \in 1 .. la + lb /\ ~(6 * (i - 1) + j <= la)
            /\ (6 * (i - 1) + j) - la = j
        BY <2>2, <3>1
      <4> QED
        BY <2>3, <2>4, <3>1, <4>1
    <3>2. CASE i # k
      <4>1. i \in 1 .. k - 1
        BY <3>2
      <4>2. 6 * (i - 1) + j \in 1 .. la + lb /\ 6 * (i - 1) + j <= la
        BY <2>2, <4>1
      <4>3. f[k][6 * (i - 1) + j] = a[6 * (i - 1) + j]
        BY <2>3, <2>4, <4>2
      <4> QED
        BY <2>2, <4>1, <4>3
    <3> QED
      BY <3>1, <3>2
  <2> QED
    BY <2>5, <2>6
<1>4. n \in T
  <2>1. 1 \in Nat /\ n \in Nat /\ n \in 1 .. n
    OBVIOUS
  <2> HIDE DEF T
  <2> QED
    BY <1>2, <1>3, <2>1, IntervalInduction
<1> QED
  BY <1>1, <1>4

\* Two sequences or more one behind the other begin with the first two.
LEMMA FlattenTwo ==
  ASSUME NEW S, NEW n \in Nat, n >= 2, NEW seqs \in [1 .. n -> Seq(S)]
  PROVE  LET all == FlattenSeq(seqs)
             two == seqs[1] \o seqs[2]
         IN  /\ all \in Seq(S)
             /\ Len(two) <= Len(all)
             /\ \A i \in 1 .. Len(two) : all[i] = two[i]
<1>1. PICK f \in [1 .. n -> Seq(S)] : FlattenSeq(seqs) = f[n] /\ Joins(f, n, seqs)
  BY FlattenPartial
<1> DEFINE two == seqs[1] \o seqs[2]
           m == Len(two)
           T == {k \in 2 .. n : m <= Len(f[k]) /\ \A i \in 1 .. m : f[k][i] = two[i]}
<1>2. 1 \in 1 .. n /\ 2 \in 2 .. n /\ two \in Seq(S)
  OBVIOUS
<1>3. 2 <= n => 2 \in T
  <2>1. f[1] = seqs[1] /\ f[2] = f[1] \o seqs[2]
    <3>1. 2 - 1 = 1
      OBVIOUS
    <3> QED
      BY <1>1, <1>2, <3>1 DEF Joins
  <2>2. f[2] = two
    BY <2>1
  <2>3. m <= Len(two)
    BY <1>2
  <2> QED
    BY <1>2, <2>2, <2>3
<1>4. ASSUME NEW k \in 2 .. n, k # 2, k - 1 \in T PROVE k \in T
  <2> DEFINE a == f[k - 1]
             b == seqs[k]
             la == Len(a)
             lb == Len(b)
  <2>1. k \in 1 .. n /\ k - 1 \in 1 .. n
    OBVIOUS
  <2>2. f[k] = a \o b /\ a \in Seq(S) /\ b \in Seq(S)
    BY <1>1, <2>1 DEF Joins
  <2>3. /\ Len(a \o b) = la + lb
        /\ \A i \in 1 .. la + lb : (a \o b)[i] = IF i <= la THEN a[i] ELSE b[i - la]
    BY <2>2, ConcatProperties
  <2>4. m <= la /\ \A i \in 1 .. m : a[i] = two[i]
    BY <1>4
  <2>5. m \in Nat /\ la \in Nat /\ lb \in Nat
    BY <1>2, <2>2
  <2> HIDE DEF a, b, la, lb, m, two
  <2>6. m <= la + lb /\ \A i \in 1 .. m : i \in 1 .. la + lb /\ i <= la
    BY <2>4, <2>5
  <2>7. m <= Len(f[k]) /\ \A i \in 1 .. m : f[k][i] = two[i]
    BY <2>2, <2>3, <2>4, <2>6
  <2> QED
    BY <2>7
<1>5. n \in T
  <2>1. 2 \in Nat /\ n \in 2 .. n
    OBVIOUS
  <2> HIDE DEF T
  <2> QED
    BY <1>3, <1>4, <2>1, IntervalInduction
<1> QED
  BY <1>1, <1>5

\* The literals of the table in the order of the source, six for each protocol.
Literals == FlattenSeq([i \in 1 .. Len(Protocols) |-> Lists(Protocols[i])])

\* What has a 0, and what has one among its first three elements.
HasZero(s) == s \in Seq(Int) /\ \E j \in 1 .. Len(s) : s[j] = 0

Closed(s) ==
  /\ s \in Seq(Int)
  /\ \E j \in 1 .. 3 : j <= Len(s) /\ s[j] = 0

\* Thirty lists, those of the n-th protocol from the place Six(n, 1) on.
LEMMA LiteralsValue ==
  /\ Literals \in Seq(Seq(Int)) /\ Len(Literals) = 30
  /\ \A n \in 1 .. 5, k \in 1 .. 6 : Literals[Six(n, k)] = Lists(Protocols[n])[k]
  /\ \A m \in 1 .. 30 : IsList(Literals[m])
<1> DEFINE seqs == [i \in 1 .. 5 |-> Lists(Protocols[i])]
<1>1. Len(Protocols) = 5 /\ \A i \in 1 .. 5 : Protocols[i] \in Range(Protocols)
  BY DEF Protocols, Range
<1>2. \A i \in 1 .. 5 : /\ Lists(Protocols[i]) \in Seq(Seq(Int)) /\ Len(Lists(Protocols[i])) = 6
                        /\ \A k \in 1 .. 6 : IsList(Lists(Protocols[i])[k])
  BY <1>1, ListsValue
<1>3. Literals = FlattenSeq(seqs)
  BY <1>1 DEF Literals
<1>4. /\ seqs \in [1 .. 5 -> Seq(Seq(Int))]
      /\ \A i \in 1 .. 5 : seqs[i] = Lists(Protocols[i]) /\ Len(seqs[i]) = 6
  BY <1>2
<1> HIDE DEF seqs
<1> DEFINE S == Seq(Int)
           n == 5
<1>5. n = 5
  OBVIOUS
<1>6. seqs \in [1 .. n -> Seq(S)]
  BY <1>4
<1>7. \A i \in 1 .. n : Len(seqs[i]) = 6
  BY <1>4
<1>8. n \in Nat \ {0}
  OBVIOUS
<1>9. /\ FlattenSeq(seqs) \in Seq(S) /\ Len(FlattenSeq(seqs)) = 6 * n
      /\ \A i \in 1 .. n, k \in 1 .. 6 : FlattenSeq(seqs)[Six(i, k)] = seqs[i][k]
  <2> HIDE DEF S, n
  <2> QED
    BY <1>6, <1>7, <1>8, FlattenSixes
<1>10. Literals \in Seq(Seq(Int))
  BY <1>3, <1>9
<1>11. Len(Literals) = 30
  BY <1>3, <1>9
<1>12. ASSUME NEW i \in 1 .. 5, NEW k \in 1 .. 6
       PROVE  Literals[Six(i, k)] = Lists(Protocols[i])[k]
  <2>1. FlattenSeq(seqs)[Six(i, k)] = seqs[i][k]
    <3>1. i \in 1 .. n
      OBVIOUS
    <3> HIDE DEF n
    <3> QED
      BY <1>9, <3>1
  <2>2. seqs[i] = Lists(Protocols[i])
    BY <1>4
  <2> QED
    BY <1>3, <2>1, <2>2
<1>13. ASSUME NEW m \in 1 .. 30 PROVE IsList(Literals[m])
  <2>1. \E i \in 1 .. 5 : m - 6 * (i - 1) \in 1 .. 6
    <3>1. CASE m <= 6
      <4>1. 1 \in 1 .. 5 /\ m - 6 * (1 - 1) \in 1 .. 6
        BY <3>1
      <4> QED
        BY <4>1
    <3>2. CASE m \in 7 .. 12
      <4>1. 2 \in 1 .. 5 /\ m - 6 * (2 - 1) \in 1 .. 6
        BY <3>2
      <4> QED
        BY <4>1
    <3>3. CASE m \in 13 .. 18
      <4>1. 3 \in 1 .. 5 /\ m - 6 * (3 - 1) \in 1 .. 6
        BY <3>3
      <4> QED
        BY <4>1
    <3>4. CASE m \in 19 .. 24
      <4>1. 4 \in 1 .. 5 /\ m - 6 * (4 - 1) \in 1 .. 6
        BY <3>4
      <4> QED
        BY <4>1
    <3>5. CASE m >= 25
      <4>1. 5 \in 1 .. 5 /\ m - 6 * (5 - 1) \in 1 .. 6
        BY <3>5
      <4> QED
        BY <4>1
    <3> QED
      BY <3>1, <3>2, <3>3, <3>4, <3>5
  <2>2. PICK i \in 1 .. 5 : m - 6 * (i - 1) \in 1 .. 6
    BY <2>1
  <2> DEFINE k == m - 6 * (i - 1)
  <2>3. k \in 1 .. 6 /\ Six(i, k) = m
    BY <2>2 DEF Six
  <2> HIDE DEF k
  <2>4. Literals[m] = Lists(Protocols[i])[k]
    BY <1>12, <2>3
  <2> QED
    BY <1>2, <2>3, <2>4
<1> QED
  BY <1>10, <1>11, <1>12, <1>13

\* A list and its 0.
LEMMA ListEnds ==
  ASSUME NEW L, IsList(L)
  PROVE  /\ Append(L, 0) \in Seq(Int) /\ Len(Append(L, 0)) = Len(L) + 1
         /\ \A i \in 1 .. Len(L) : Append(L, 0)[i] = L[i]
         /\ Append(L, 0)[Len(L) + 1] = 0
         /\ Closed(Append(L, 0))
<1> DEFINE s == Append(L, 0)
           n == Len(L)
<1>1. L \in Seq(Int) /\ n \in Nat /\ n <= 2
  BY DEF IsList
<1>2. /\ s \in Seq(Int) /\ Len(s) = n + 1
      /\ \A i \in 1 .. n : s[i] = L[i]
      /\ s[n + 1] = 0
  BY <1>1, AppendProperties
<1> HIDE DEF s, n
<1>3. Closed(s)
  <2>1. n + 1 \in 1 .. 3 /\ n + 1 <= Len(s)
    BY <1>1, <1>2
  <2> QED
    BY <1>2, <2>1 DEF Closed
<1> QED
  BY <1>2, <1>3 DEF s, n

\* Soon is somewhere.
LEMMA ClosedHasZero ==
  ASSUME NEW s, Closed(s)
  PROVE  HasZero(s)
<1>1. PICK j \in 1 .. 3 : j <= Len(s) /\ s[j] = 0
  BY DEF Closed
<1>2. s \in Seq(Int) /\ Len(s) \in Nat
  BY DEF Closed
<1>3. j \in 1 .. Len(s)
  BY <1>1, <1>2
<1> QED
  BY <1>1, <1>2, <1>3 DEF HasZero

\* The first list of the table is not empty.
LEMMA FirstList == Len(Lists(NEC)[1]) # 0
<1> DEFINE a == PktInfo(NEC).preamble
           b == PktInfo(NEC).postamble
           c == PktInfo(NEC).bits
<1>1. /\ IsList(a) /\ IsList(b)
      /\ c \in Seq(Seq(Int)) /\ Len(c) = 4
  <2>1. NEC \in Range(Protocols)
    BY ProtocolsValue DEF Received
  <2> QED
    BY <2>1, TableLists
<1>2. Len(a) = 2
  BY NECInfo
<1>3. Lists(NEC) = <<a, b>> \o c
  BY DEF Lists
<1> HIDE DEF a, b, c
<1>4. <<a, b>> \in Seq(Seq(Int)) /\ Len(<<a, b>>) = 2 /\ <<a, b>>[1] = a
  BY <1>1 DEF IsList
<1>5. (<<a, b>> \o c)[1] = a
  <2> DEFINE S == Seq(Int)
             two == <<a, b>>
  <2>1. two \in Seq(S) /\ c \in Seq(S) /\ Len(two) = 2 /\ Len(c) = 4 /\ two[1] = a
    BY <1>1, <1>4
  <2> HIDE DEF S, two
  <2>2. \A i \in 1 .. Len(two) + Len(c) :
          (two \o c)[i] = IF i <= Len(two) THEN two[i] ELSE c[i - Len(two)]
    BY <2>1, ConcatProperties
  <2>3. 1 \in 1 .. Len(two) + Len(c) /\ 1 <= Len(two)
    BY <2>1
  <2>4. (two \o c)[1] = a
    BY <2>1, <2>2, <2>3
  <2> QED
    BY <2>4 DEF two
<1> DEFINE two == <<a, b>>
<1> HIDE DEF two
<1>6. Lists(NEC) = two \o c /\ (two \o c)[1] = a
  BY <1>3, <1>5 DEF two
<1>7. Lists(NEC)[1] = a
  BY <1>6
<1> QED
  BY <1>2, <1>7

\* The table does end in an empty list.
LEMMA LastList == Len(Lists(RC5)[6]) = 0
<1> DEFINE a == PktInfo(RC5).preamble
           b == PktInfo(RC5).postamble
           c == PktInfo(RC5).bits
<1>1. a = <<>> /\ b = <<>> /\ c = << <<-889, 889>>, <<889, -889>>, <<>>, <<>> >>
  BY RC5Info DEF RC5_UNIT
<1>2. Lists(RC5) = <<a, b>> \o c
  BY DEF Lists
<1> HIDE DEF a, b, c
<1>3. Lists(RC5) = << <<>>, <<>> >> \o << <<-889, 889>>, <<889, -889>>, <<>>, <<>> >>
  BY <1>1, <1>2
<1>4. Lists(RC5)[6] = <<>>
  BY <1>3
<1> QED
  BY <1>4

\* The literals as the compiler lays them out.
InOrder(layout) == IF layout[1] = "forward" THEN Literals ELSE Reverse(Literals)

\* In either order they are the thirty lists.
LEMMA InOrderValue ==
  ASSUME NEW layout \in Layouts
  PROVE  /\ Len(InOrder(layout)) = 30
         /\ \A m \in 1 .. 30 :
              /\ IsList(InOrder(layout)[m])
              /\ InOrder(layout)[m] = Literals[IF layout[1] = "forward" THEN m ELSE 31 - m]
<1>1. Len(Literals) = 30 /\ \A m \in 1 .. 30 : IsList(Literals[m])
  BY LiteralsValue
<1>2. CASE layout[1] = "forward"
  BY <1>1, <1>2 DEF InOrder
<1>3. CASE layout[1] # "forward"
  <2>1. InOrder(layout) = [i \in 1 .. 30 |-> Literals[(30 - i) + 1]]
    BY <1>1, <1>3 DEF InOrder, Reverse
  <2>2. Len(InOrder(layout)) = 30
    BY <2>1
  <2>3. ASSUME NEW m \in 1 .. 30 PROVE InOrder(layout)[m] = Literals[31 - m] /\ 31 - m \in 1 .. 30
    <3>1. (30 - m) + 1 = 31 - m /\ 31 - m \in 1 .. 30
      OBVIOUS
    <3> QED
      BY <2>1, <3>1
  <2> QED
    BY <1>1, <1>3, <2>2, <2>3
<1> QED
  BY <1>2, <1>3

\* Memory: each list with its 0, and behind them the other data.
LEMMA MemoryValue ==
  ASSUME NEW layout \in Layouts
  PROVE  /\ Memory(layout) \in Seq(Seq(Int)) /\ Len(Memory(layout)) = 31
         /\ \A m \in 1 .. 30 : Memory(layout)[m] = Append(InOrder(layout)[m], 0)
         /\ \A m \in 1 .. 30 : Closed(Memory(layout)[m])
         /\ HasZero(Memory(layout)[31]) /\ Memory(layout)[31] = layout[2]
<1> DEFINE all == Memory(layout)
           ended == [i \in 1 .. 30 |-> Append(InOrder(layout)[i], 0)]
           last == layout[2]
<1>1. Len(InOrder(layout)) = 30 /\ \A m \in 1 .. 30 : IsList(InOrder(layout)[m])
  BY InOrderValue
<1>2. \A m \in 1 .. 30 : /\ Append(InOrder(layout)[m], 0) \in Seq(Int)
                         /\ Closed(Append(InOrder(layout)[m], 0))
  BY <1>1, ListEnds
<1>3. HasZero(last) /\ last \in Seq(Int)
  BY BehindAssumption DEF Layouts, HasZero
<1>4. all = Append(ended, last)
  BY <1>1 DEF Memory, Literals, InOrder
<1>5. /\ ended \in Seq(Seq(Int)) /\ Len(ended) = 30
      /\ \A m \in 1 .. 30 : ended[m] = Append(InOrder(layout)[m], 0)
  <2> DEFINE x(i) == Append(InOrder(layout)[i], 0)
             S == Seq(Int)
  <2>1. \A i \in 1 .. 30 : x(i) \in S
    BY <1>2
  <2>2. ended = [i \in 1 .. 30 |-> x(i)]
    OBVIOUS
  <2> HIDE DEF x, S, ended
  <2>3. ended \in Seq(S) /\ Len(ended) = 30 /\ \A m \in 1 .. 30 : ended[m] = x(m)
    BY <2>1, <2>2
  <2> QED
    BY <2>3 DEF x, S
<1> HIDE DEF ended, last, all
<1>6. /\ all \in Seq(Seq(Int)) /\ Len(all) = 30 + 1
      /\ \A m \in 1 .. 30 : all[m] = ended[m]
      /\ all[30 + 1] = last
  <2> DEFINE S == Seq(Int)
             n == Len(ended)
  <2>1. ended \in Seq(S) /\ last \in S
    BY <1>3, <1>5
  <2>3. n = 30
    BY <1>5
  <2> HIDE DEF S
  <2>2. /\ Append(ended, last) \in Seq(S) /\ Len(Append(ended, last)) = n + 1
        /\ \A m \in 1 .. n : Append(ended, last)[m] = ended[m]
        /\ Append(ended, last)[n + 1] = last
    BY <2>1, AppendProperties
  <2> HIDE DEF n
  <2> QED
    BY <1>4, <2>2, <2>3 DEF S
<1>7. ASSUME NEW m \in 1 .. 30 PROVE Closed(all[m])
  <2>1. all[m] = Append(InOrder(layout)[m], 0)
    BY <1>5, <1>6
  <2> QED
    BY <1>2, <2>1
<1>8. Len(all) = 31
  BY <1>6
<1>9. all \in Seq(Seq(Int)) /\ \A m \in 1 .. 30 : all[m] = Append(InOrder(layout)[m], 0)
  BY <1>5, <1>6
<1>10. HasZero(all[31]) /\ all[31] = last
  <2>1. 30 + 1 = 31
    OBVIOUS
  <2> QED
    BY <1>3, <1>6, <2>1
<1> QED
  BY <1>7, <1>8, <1>9, <1>10 DEF all, last

\* What begins with two pieces, a list with its 0 and another that has a 0, begins
\* with the list; if that is empty, a 0 comes soon if the other has one early.
LEMMA BeginsTwo ==
  ASSUME NEW L, IsList(L), NEW next, HasZero(next), NEW src \in Seq(Int),
         Len(Append(L, 0) \o next) <= Len(src),
         \A i \in 1 .. Len(Append(L, 0) \o next) : src[i] = (Append(L, 0) \o next)[i]
  PROVE  /\ BeginsWith(src, L)
         /\ Len(L) = 0 => (Soon(src) <=> Closed(next))
<1> DEFINE first == Append(L, 0)
           two == first \o next
           n == Len(L)
           m == Len(next)
           len == Len(src)
<1>1. L \in Seq(Int) /\ n \in Nat /\ m \in Nat /\ len \in Nat /\ next \in Seq(Int)
  BY DEF IsList, HasZero
<1>2. /\ \E j \in 1 .. m : next[j] = 0
      /\ Closed(next) => \E j \in 1 .. 3 : j <= m /\ next[j] = 0
  BY DEF HasZero, Closed
<1>3. /\ first \in Seq(Int) /\ Len(first) = n + 1
      /\ \A i \in 1 .. n : first[i] = L[i]
      /\ first[n + 1] = 0
  BY ListEnds
<1> HIDE DEF first
<1>4. /\ Len(two) = Len(first) + m
      /\ \A i \in 1 .. Len(first) + m :
           two[i] = IF i <= Len(first) THEN first[i] ELSE next[i - Len(first)]
  <2>1. first \in Seq(Int) /\ next \in Seq(Int)
    BY <1>1, <1>3
  <2> QED
    BY <2>1, ConcatProperties
<1>5. Len(two) <= len /\ \A i \in 1 .. Len(two) : src[i] = two[i]
  BY DEF first
<1> HIDE DEF two, n, m, len
<1>6. n + 1 + m <= len /\ \A i \in 1 .. n + 1 + m :
        src[i] = IF i <= n + 1 THEN first[i] ELSE next[i - (n + 1)]
  BY <1>3, <1>4, <1>5
<1>7. n + 1 \in 1 .. len
  BY <1>1, <1>6
<1>8. ASSUME NEW i \in 1 .. n PROVE src[i] = L[i]
  <2>1. i \in 1 .. n + 1 + m /\ i <= n + 1
    BY <1>1
  <2> QED
    BY <1>3, <1>6, <2>1
<1>9. src[n + 1] = 0
  <2>1. n + 1 \in 1 .. n + 1 + m /\ n + 1 <= n + 1
    BY <1>1
  <2> QED
    BY <1>3, <1>6, <2>1
<1>10. ASSUME n = 0, NEW j \in 1 .. m, next[j] = 0
       PROVE  j + 1 \in 2 .. len /\ src[j + 1] = 0
  <2>1. /\ j + 1 \in 1 .. n + 1 + m /\ ~(j + 1 <= n + 1) /\ (j + 1) - (n + 1) = j
        /\ j + 1 \in 2 .. len
    BY <1>1, <1>6, <1>10
  <2>2. src[j + 1] = next[j]
    BY <1>6, <2>1
  <2> QED
    BY <1>10, <2>1, <2>2
<1>11. n = 0 => \E j \in 2 .. len : src[j] = 0
  BY <1>2, <1>10
<1>12. ASSUME n = 0, Closed(next) PROVE Soon(src)
  <2>1. PICK j \in 1 .. 3 : j <= m /\ next[j] = 0
    BY <1>2, <1>12
  <2>2. j \in 1 .. m
    BY <1>1, <2>1
  <2>3. j + 1 \in 2 .. len /\ src[j + 1] = 0
    BY <1>10, <1>12, <2>1, <2>2
  <2>4. j + 1 \in 2 .. 4 /\ j + 1 \in 1 .. len
    BY <1>1, <2>1, <2>3
  <2> QED
    BY <2>3, <2>4 DEF Soon, len
<1>13. ASSUME n = 0, Soon(src) PROVE Closed(next)
  <2>1. PICK j \in 2 .. 4 : j \in 1 .. len /\ src[j] = 0
    BY <1>13 DEF Soon, len
  <2>2. PICK z \in 1 .. m : next[z] = 0
    BY <1>2
  <2>3. CASE j - 1 <= m
    <3>1. /\ j \in 1 .. n + 1 + m /\ ~(j <= n + 1) /\ j - (n + 1) = j - 1
          /\ j - 1 \in 1 .. 3
      BY <1>1, <1>13, <2>1, <2>3
    <3>2. src[j] = next[j - 1]
      BY <1>6, <3>1
    <3>3. next[j - 1] = 0
      BY <2>1, <3>2
    <3> QED
      BY <1>1, <2>3, <3>1, <3>3 DEF Closed, m
  <2>4. CASE ~(j - 1 <= m)
    <3>1. z \in 1 .. 3 /\ z <= m
      BY <1>1, <2>1, <2>4
    <3> QED
      BY <1>1, <2>2, <3>1 DEF Closed, m
  <2> QED
    BY <2>3, <2>4
<1> QED
  BY <1>7, <1>8, <1>9, <1>11, <1>12, <1>13 DEF BeginsWith, n, len

\* Where the constructor finds a list, memory begins with it, and unless it is the
\* last literal and no 0 comes in time behind it, little is copied.
LEMMA FromList ==
  ASSUME NEW layout \in Layouts, NEW p \in Range(Protocols), NEW k \in 1 .. 6
  PROVE  /\ BeginsWith(From(layout, p, k), Lists(p)[k])
         /\ EndsInTime(layout, p, k) <=> Len(Lists(p)[k]) # 0 \/ Soon(From(layout, p, k))
<1> DEFINE n == CHOOSE n \in 1 .. Len(Protocols) : Protocols[n] = p
           place == 6 * (n - 1) + k
           all == Memory(layout)
           at == IF layout[1] = "forward" THEN place ELSE Len(all) - place
           sub == SubSeq(all, at, Len(all))
           L == Lists(p)[k]
<1>1. n \in 1 .. 5 /\ Protocols[n] = p
  <2>1. DOMAIN Protocols = 1 .. 5 /\ Len(Protocols) = 5
    BY DEF Protocols
  <2>2. \E i \in 1 .. Len(Protocols) : Protocols[i] = p
    BY <2>1 DEF Range
  <2>3. n \in 1 .. Len(Protocols) /\ Protocols[n] = p
    BY <2>2
  <2> HIDE DEF n
  <2> QED
    BY <2>1, <2>3
<1>2. From(layout, p, k) = FlattenSeq(sub)
  BY DEF From
<1> HIDE DEF n
<1>3. place = Six(n, k) /\ place \in 1 .. 30
  BY <1>1 DEF Six
<1> HIDE DEF place
<1>4. /\ all \in Seq(Seq(Int)) /\ Len(all) = 31
      /\ \A m \in 1 .. 30 : all[m] = Append(InOrder(layout)[m], 0)
      /\ \A m \in 1 .. 30 : Closed(all[m])
      /\ HasZero(all[31]) /\ all[31] = layout[2]
  BY MemoryValue
<1> HIDE DEF all
<1>5. at = (IF layout[1] = "forward" THEN place ELSE 31 - place) /\ at \in 1 .. 30
  <2>1. Len(all) = 31
    BY <1>4
  <2> QED
    BY <1>3, <2>1
<1>6. all[at] = Append(L, 0) /\ IsList(L)
  <2>1. at \in 1 .. 30 /\ (IF layout[1] = "forward" THEN at ELSE 31 - at) = place
    <3>1. CASE layout[1] = "forward"
      BY <1>5, <3>1
    <3>2. CASE layout[1] # "forward"
      <4>1. at = 31 - place
        BY <1>5, <3>2
      <4>2. 31 - at = place
        BY <1>3, <4>1
      <4> QED
        BY <1>5, <3>2, <4>2
    <3> QED
      BY <3>1, <3>2
  <2> HIDE DEF at
  <2>2. /\ IsList(InOrder(layout)[at])
        /\ InOrder(layout)[at] = Literals[IF layout[1] = "forward" THEN at ELSE 31 - at]
    BY <2>1, InOrderValue
  <2>3. Literals[place] = L
    BY <1>1, <1>3, LiteralsValue
  <2>4. all[at] = Append(InOrder(layout)[at], 0)
    BY <1>4, <2>1
  <2> QED
    BY <2>1, <2>2, <2>3, <2>4
<1>7. at \in 1 .. 30
  BY <1>5
<1>8. sub = SubSeq(all, at, 31)
  BY <1>4
<1> DEFINE S == Seq(Int)
           len == 31 - at + 1
<1> HIDE DEF at, sub, L, S
<1>9. \A i \in at .. 31 : all[i] \in S
  <2> TAKE i \in at .. 31
  <2>1. i \in 1 .. 30 \/ i = 31
    BY <1>7
  <2> QED
    BY <1>4, <2>1 DEF S, Closed, HasZero
<1>10. /\ sub \in Seq(S) /\ Len(sub) = len
       /\ \A i \in 1 .. len : sub[i] = all[at + i - 1]
  <2>1. at \in Int /\ 31 \in Int /\ at <= 31
    BY <1>7
  <2>2. /\ sub \in Seq(S) /\ Len(sub) = IF at <= 31 THEN 31 - at + 1 ELSE 0
        /\ \A i \in 1 .. 31 - at + 1 : sub[i] = all[at + i - 1]
    BY <1>8, <1>9, <2>1, SubSeqProperties
  <2> QED
    BY <2>1, <2>2
<1>11. len \in Nat /\ len >= 2
  BY <1>7
<1> HIDE DEF len
<1>12. sub \in [1 .. len -> S]
  BY <1>10
<1>13. sub[1] = Append(L, 0)
  <2>1. 1 \in 1 .. len /\ at + 1 - 1 = at
    BY <1>7, <1>11
  <2>2. sub[1] = all[at]
    BY <1>10, <2>1
  <2> QED
    BY <1>6, <2>2
<1>14. HasZero(sub[2]) /\ (at # 30 => Closed(sub[2])) /\ (at = 30 => sub[2] = layout[2])
  <2>1. 2 \in 1 .. len /\ at + 2 - 1 = at + 1
    BY <1>7, <1>11
  <2>2. sub[2] = all[at + 1]
    BY <1>10, <2>1
  <2>3. CASE at = 30
    <3>1. at + 1 = 31
      BY <2>3
    <3>2. sub[2] = all[31]
      BY <2>2, <3>1
    <3> QED
      BY <1>4, <2>3, <3>2
  <2>4. CASE at # 30
    <3>1. at + 1 \in 1 .. 30
      BY <1>7, <2>4
    <3>2. Closed(all[at + 1])
      BY <1>4, <3>1
    <3>3. Closed(sub[2])
      BY <2>2, <3>2
    <3> QED
      BY <2>4, <3>3, ClosedHasZero
  <2> QED
    BY <2>3, <2>4
<1> DEFINE src == FlattenSeq(sub)
           two == sub[1] \o sub[2]
<1>15. src \in Seq(Int) /\ Len(two) <= Len(src) /\ \A i \in 1 .. Len(two) : src[i] = two[i]
  <2>1. sub \in [1 .. len -> Seq(Int)]
    BY <1>12 DEF S
  <2> QED
    BY <1>11, <2>1, FlattenTwo
<1> HIDE DEF src
<1>16. BeginsWith(src, L) /\ (Len(L) = 0 => (Soon(src) <=> Closed(sub[2])))
  BY <1>6, <1>13, <1>14, <1>15, BeginsTwo
<1>17. ASSUME at = 30, Len(L) = 0
       PROVE  p = RC5 /\ k = 6 /\ layout[1] = "forward"
  <2>1. CASE layout[1] = "forward"
    <3>1. place = 30
      BY <1>5, <1>17, <2>1
    <3>2. n = 5 /\ k = 6
      BY <1>1, <1>3, <3>1 DEF Six
    <3>3. Protocols[5] = RC5
      BY DEF Protocols
    <3> QED
      BY <1>1, <2>1, <3>2, <3>3
  <2>2. CASE layout[1] # "forward"
    <3>1. place = 1
      BY <1>3, <1>5, <1>17, <2>2
    <3>2. n = 1 /\ k = 1
      BY <1>1, <1>3, <3>1 DEF Six
    <3>3. Protocols[1] = NEC
      BY DEF Protocols
    <3>4. p = NEC /\ L = Lists(NEC)[1]
      BY <1>1, <3>2, <3>3 DEF L
    <3> QED
      BY <1>17, <3>4, FirstList
  <2> QED
    BY <2>1, <2>2
<1>18. Len(L) \in Nat
  BY <1>6 DEF IsList
<1>19. ASSUME p = RC5, k = 6, layout[1] = "forward"
       PROVE  at = 30 /\ Len(L) = 0
  <2>1. Protocols[1] = NEC /\ Protocols[2] = NEC_RPT /\ Protocols[3] = SONY /\ Protocols[4] = RCMM
    BY DEF Protocols
  <2>2. n = 5
    <3>1. n = 1 \/ n = 2 \/ n = 3 \/ n = 4 \/ n = 5
      BY <1>1
    <3>2. RC5 # NEC /\ RC5 # NEC_RPT /\ RC5 # SONY /\ RC5 # RCMM
      BY DEF RC5, NEC, NEC_RPT, SONY, RCMM
    <3> QED
      BY <1>1, <1>19, <2>1, <3>1, <3>2
  <2>3. place = 30
    BY <1>3, <1>19, <2>2 DEF Six
  <2>4. L = Lists(RC5)[6]
    BY <1>19 DEF L
  <2> QED
    BY <1>5, <1>19, <2>3, <2>4, LastList
<1>20. layout[1] \in {"forward", "backward"}
  BY DEF Layouts
<1> DEFINE early == \E i \in 1 .. 3 : i <= Len(layout[2]) /\ layout[2][i] = 0
<1>21. EndsInTime(layout, p, k) <=> ~(p = RC5 /\ k = 6 /\ layout[1] = "forward") \/ early
  <2>1. Len(Sizes) = 6 /\ BIT_MAX + 1 = 3
    BY SizesValue DEF BIT_MAX
  <2> QED
    BY <1>20, <2>1 DEF EndsInTime
<1>22. layout[2] \in Seq(Int) /\ (Closed(layout[2]) <=> early)
  BY BehindAssumption DEF Layouts, Closed
<1> HIDE DEF early
<1>23. CASE p = RC5 /\ k = 6 /\ layout[1] = "forward"
  BY <1>2, <1>14, <1>16, <1>19, <1>21, <1>22, <1>23 DEF src, L
<1>24. CASE ~(p = RC5 /\ k = 6 /\ layout[1] = "forward")
  <2>1. Len(L) # 0 \/ Soon(src)
    BY <1>14, <1>16, <1>17, <1>24
  <2> QED
    BY <1>2, <1>16, <1>21, <1>24, <2>1 DEF src, L
<1> QED
  BY <1>23, <1>24

\* The constructor leaves every list of the table where it belongs.
LEMMA ConstructedValue ==
  ASSUME NEW layout \in Layouts, NEW p \in Range(Protocols)
  PROVE  /\ AsWritten(layout, p)
         /\ \A k \in 1 .. Len(Sizes) :
              StaysInMember(layout, p, k) <=> EndsInTime(layout, p, k)
<1> DEFINE src(k) == From(layout, p, k)
           srcs == [k \in 1 .. 6 |-> src(k)]
           L(k) == Lists(p)[k]
<1>1. ASSUME NEW k \in 1 .. 6
      PROVE  /\ IsList(L(k)) /\ BeginsWith(src(k), L(k))
             /\ Copies(src(k)) \in Nat \ {0}
             /\ EndsInTime(layout, p, k) => Copies(src(k)) \in 1 .. 3
             /\ ~EndsInTime(layout, p, k) => k = 6 /\ Copies(src(k)) > 3
             /\ srcs[k] = src(k) /\ Offset(k) = Starts[k]
  <2>1. IsList(L(k)) /\ BeginsWith(src(k), L(k))
    BY ListsValue, FromList
  <2>2. /\ Copies(src(k)) \in Nat \ {0}
        /\ Len(L(k)) # 0 \/ Soon(src(k)) => Copies(src(k)) \in 1 .. 3
        /\ Len(L(k)) = 0 /\ ~Soon(src(k)) => Copies(src(k)) > 3
    BY <2>1, CopiesValue
  <2>5. EndsInTime(layout, p, k) <=> Len(L(k)) # 0 \/ Soon(src(k))
    BY FromList
  <2>6. ~EndsInTime(layout, p, k) => k = 6
    <3>1. Len(Sizes) = 6
      BY SizesValue
    <3> QED
      BY <3>1 DEF EndsInTime
  <2>3. Offset(k) = Starts[k]
    BY OffsetValue
  <2>4. srcs[k] = src(k)
    OBVIOUS
  <2> QED
    BY <2>1, <2>2, <2>3, <2>4, <2>5, <2>6
<1>2. PICK f : /\ f[0] = Zeroed
               /\ \A k \in 1 .. 6 : f[k] = Fill(layout, p, f[k - 1], k)
               /\ Construct(layout, p) = f[6]
  BY ConstructValue
<1>3. Zeroed = [c \in 0 .. 23 |-> 0]
  <2>1. Len(Sizes) + 1 = 7 /\ 7 \in 1 .. 7
    BY SizesValue
  <2>2. Offset(7) = 24
    BY <2>1, OffsetValue, StartsValue
  <2>3. Offset(Len(Sizes) + 1) - 1 = 23
    BY <2>1, <2>2
  <2> QED
    BY <2>3 DEF Zeroed
<1> HIDE DEF src, srcs, L
<1> DEFINE T == {k \in 0 .. 6 : FilledTo(f[k], srcs, k)}
<1>4. 0 \in T
  <2>1. DOMAIN f[0] = 0 .. 23 /\ \A c \in 0 .. 23 : f[0][c] = 0
    BY <1>2, <1>3
  <2>2. Starts[0 + 1] = 0 /\ 1 .. 0 = {}
    BY StartsValue
  <2> QED
    BY <2>1, <2>2 DEF FilledTo
<1>5. ASSUME NEW k \in 0 .. 6, k # 0, k - 1 \in T PROVE k \in T
  <2>1. k \in 1 .. 6 /\ FilledTo(f[k - 1], srcs, k - 1)
    BY <1>5
  <2>2. f[k] = CopyNTA(f[k - 1], Starts[k], srcs[k])
    BY <1>1, <1>2, <2>1 DEF Fill, src
  <2>3. Copies(srcs[k]) \in Nat \ {0} /\ (k # 6 => Copies(srcs[k]) <= 3)
    <3>1. k # 6 => EndsInTime(layout, p, k)
      BY <1>1, <2>1
    <3> QED
      BY <1>1, <2>1, <3>1
  <2>4. FilledTo(f[k], srcs, k)
    BY <2>1, <2>2, <2>3, FillNext
  <2> QED
    BY <2>4
<1>6. FilledTo(f[6], srcs, 6)
  <2>1. 0 \in Nat /\ 6 \in Nat /\ 6 \in 0 .. 6
    OBVIOUS
  <2>2. 6 \in T
    <3> HIDE DEF T
    <3> QED
      BY <1>4, <1>5, <2>1, IntervalInduction
  <2> QED
    BY <2>2
<1> DEFINE cells == Construct(layout, p)
<1>7. DOMAIN cells = 0 .. 23 /\ \A k \in 1 .. 6 : Holds(cells, srcs[k], k)
  BY <1>2, <1>6 DEF FilledTo
<1> HIDE DEF cells
<1>8. ASSUME NEW k \in 1 .. 6
      PROVE  /\ Read(cells, Offset(k)) = L(k)
             /\ Copies(src(k)) <= Sizes[k] <=> EndsInTime(layout, p, k)
  <2>1. Holds(cells, src(k), k)
    BY <1>1, <1>7
  <2>2. Read(cells, Starts[k]) = L(k)
    BY <1>1, <1>7, <2>1, ReadValue
  <2>3. Sizes[k] \in {3, 6} /\ Sizes[6] = 3
    BY SizesValue
  <2>4. Copies(src(k)) <= Sizes[k] <=> EndsInTime(layout, p, k)
    <3>1. CASE EndsInTime(layout, p, k)
      BY <1>1, <2>3, <3>1
    <3>2. CASE ~EndsInTime(layout, p, k)
      <4>1. k = 6 /\ Copies(src(k)) > 3 /\ Copies(src(k)) \in Nat
        BY <1>1, <3>2
      <4> QED
        BY <2>3, <3>2, <4>1
    <3> QED
      BY <3>1, <3>2
  <2> QED
    BY <1>1, <2>2, <2>4
<1>9. Len(Sizes) = 6
  BY SizesValue
<1> QED
  BY <1>8, <1>9 DEF AsWritten, StaysInMember, cells, src, L

\* What is sent is a message of a protocol of the table.
OfTable ==
  /\ hops \in Nat
  /\ stage = "air" /\ hops = 0 => sent.protocol \in Range(Protocols)

\* Every step keeps the protocol of what is sent in the table.
LEMMA OfTableStep ==
  ASSUME OfTable, [Next]_vars
  PROVE  OfTable'
<1> USE DEF OfTable
<1>1. CASE Send
  <2>1. PICK m \in Messages : Transmit(Meant(m), BuildRaw(m))
    BY <1>1 DEF Send
  <2>2. m.protocol \in Range(Protocols)
    BY LinkAssumption
  <2>3. sent'.protocol = m.protocol /\ hops' = hops
    BY <2>1 DEF Transmit, Meant
  <2> QED
    BY <2>2, <2>3
<1>2. CASE Press
  <2>1. PICK f \in Frames : Transmit(f, RemoteFrame(f))
    BY <1>2 DEF Press
  <2>2. f.protocol \in Range(Protocols)
    BY LinkAssumption
  <2> QED
    BY <2>1, <2>2 DEF Transmit
<1>3. CASE Arrive
  BY <1>3 DEF Arrive
<1>4. CASE TryDecoder
  <2>1. stage' # "air" /\ hops' = hops
    BY <1>4 DEF TryDecoder
  <2> QED
    BY <2>1
<1>5. CASE Repeat
  <2>1. hops' \in Nat /\ hops' # 0
    BY <1>5 DEF Repeat
  <2> QED
    BY <2>1
<1>6. CASE UNCHANGED vars
  BY <1>6 DEF vars
<1> QED
  BY <1>1, <1>2, <1>3, <1>4, <1>5, <1>6 DEF Next

\* If the literals of the table lie side by side, in either order, then whatever
\* lies behind them the constructors leave every list as the source has it, with a
\* 0 behind it, and the one copy that leaves its member, exactly when no 0 comes in
\* time, is that of the last literal.
THEOREM TableIsWritten == Spec => []TableAsWritten
<1>1. Init => OfTable
  BY DEF Init, OfTable
<1>2. OfTable /\ [Next]_vars => OfTable'
  BY OfTableStep
<1>3. OfTable => TableAsWritten
  BY ConstructedValue DEF OfTable, TableAsWritten
<1> QED
  BY <1>1, <1>2, <1>3, PTL DEF Spec
=============================================================================
