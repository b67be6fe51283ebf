------------------------------ MODULE PktTable ------------------------------
(***************************************************************************)
(* How pktInfo[] comes to hold what Codec says of it: the constructors of  *)
(* PktInfo copy lists that end in a 0, with a loop that copies before it   *)
(* tests.  It copies no 0 behind a list of symbols, and of an empty list   *)
(* it copies the 0 and then whatever lies behind it in memory.             *)
(***************************************************************************)
EXTENDS Codec

CONSTANT Behind \* what may lie in memory behind the literals of the table

\* No source file says what that is; somewhere in it there is a 0.
ASSUME BehindAssumption ==
  \A s \in Behind : s \in Seq(Int) /\ \E i \in 1 .. Len(s) : s[i] = 0

PREAMB_MAX == 5
POSTAMB_MAX == 5
BIT_MAX == 2

\* The lists of a protocol, in the order of the constructor.
Lists(p) == <<PktInfo(p).preamble, PktInfo(p).postamble>> \o PktInfo(p).bits

\* Mutant: no room for the trailing NULL.
SizesWithoutNull ==
  <<PREAMB_MAX, POSTAMB_MAX, BIT_MAX, BIT_MAX, BIT_MAX, BIT_MAX>>

\* The members that take them: one element more than symbols.
Sizes ==
  <<PREAMB_MAX + 1, POSTAMB_MAX + 1,
    BIT_MAX + 1, BIT_MAX + 1, BIT_MAX + 1, BIT_MAX + 1>>

\* The element of the object at which the k-th member begins.
Offset(k) == FoldLeft(LAMBDA a, b : a + b, 0, SubSeq(Sizes, 1, k - 1))

\* pktInfo[] has static storage: all of it is 0 before its constructors run.
Zeroed == [c \in 0 .. Offset(Len(Sizes) + 1) - 1 |-> 0]

\* The compiler lays the literals of the table out side by side, in the order
\* of the source or from the last to the first, and other data behind them.
Layouts == {"forward", "backward"} \X Behind

Memory(layout) ==
  LET literals == FlattenSeq([i \in 1 .. Len(Protocols) |-> Lists(Protocols[i])])
      inOrder == IF layout[1] = "forward" THEN literals ELSE Reverse(literals)
  IN  Append([i \in 1 .. Len(inOrder) |-> Append(inOrder[i], 0)], layout[2])

\* What lies in memory from the k-th list of a protocol on.
From(layout, p, k) ==
  LET i == 6 * ((CHOOSE n \in 1 .. Len(Protocols) : Protocols[n] = p) - 1) + k
      all == Memory(layout)
      at == IF layout[1] = "forward" THEN i ELSE Len(all) - i
  IN  FlattenSeq(SubSeq(all, at, Len(all)))

\* do copy an element while the next one is not 0
Copies(src) == Min({n \in 1 .. Len(src) - 1 : src[n + 1] = 0})

\* (What is copied beyond the object is not looked at.)
CopyNTA(cells, at, src) ==
  [c \in DOMAIN cells |->
     IF c \in at .. at + Copies(src) - 1 THEN src[c - at + 1] ELSE cells[c]]

\* The object after its constructor.
Construct(layout, p) ==
  FoldLeft(LAMBDA cells, k : CopyNTA(cells, Offset(k), From(layout, p, k)),
           Zeroed, [k \in 1 .. Len(Sizes) |-> k])

\* A list as the rest of the code reads it: up to the first 0.
Read(cells, at) ==
  LET ends == {c \in DOMAIN cells : c >= at /\ cells[c] = 0} \cup {Cardinality(DOMAIN cells)}
  IN  [i \in 1 .. Min(ends) - at |-> cells[at + i - 1]]

\* The constructor leaves what the source says.
AsWritten(layout, p) ==
  \A k \in 1 .. Len(Sizes) : Read(Construct(layout, p), Offset(k)) = Lists(p)[k]

\* The copy of the k-th list stays in the k-th member.
StaysInMember(layout, p, k) == Copies(From(layout, p, k)) <= Sizes[k]
=============================================================================
