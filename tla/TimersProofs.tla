---------------------------- MODULE TimersProofs ----------------------------
(***************************************************************************)
(* Theorems about Timers: the timer is in the mode that was asked for, at  *)
(* the clock that was asked for, and its pin is driven as was asked for,   *)
(* in whatever order the parts of a configuration have been set.           *)
(***************************************************************************)
EXTENDS Timers, TLAPS

Byte == 0 .. 255

\* A byte is made of a field, what is above it and what is below it.
LEMMA FieldOfByte ==
  ASSUME NEW reg \in Byte, NEW value \in Nat,
         NEW field \in {WGM10, WGM12, WGM22, CS10, COM1A0, COM1B0}
  PROVE  /\ WriteField(reg, field, value) \in Byte
         /\ ReadField(WriteField(reg, field, value), field) = value % field.size
  <1>1. CASE field = WGM10 BY <1>1, SMT DEF ReadField, WriteField, WGM10, Byte
  <1>2. CASE field = WGM12 BY <1>2, SMT DEF ReadField, WriteField, WGM12, Byte
  <1>3. CASE field = WGM22 BY <1>3, SMT DEF ReadField, WriteField, WGM22, Byte
  <1>4. CASE field = CS10 BY <1>4, SMT DEF ReadField, WriteField, CS10, Byte
  <1>5. CASE field = COM1A0 BY <1>5, SMT DEF ReadField, WriteField, COM1A0, Byte
  <1>6. CASE field = COM1B0 BY <1>6, SMT DEF ReadField, WriteField, COM1B0, Byte
  <1> QED BY <1>1, <1>2, <1>3, <1>4, <1>5, <1>6

\* The mode bits of TCCRnA and the bits of either output stay out of each
\* other's way.
LEMMA OutputKeepsMode ==
  ASSUME NEW reg \in Byte, NEW value \in Nat
  PROVE  /\ ReadField(WriteField(reg, COM1A0, value), WGM10) = ReadField(reg, WGM10)
         /\ ReadField(WriteField(reg, COM1B0, value), WGM10) = ReadField(reg, WGM10)
         /\ ReadField(WriteField(reg, COM1A0, value), COM1B0) = ReadField(reg, COM1B0)
         /\ ReadField(WriteField(reg, COM1B0, value), COM1A0) = ReadField(reg, COM1A0)
  BY SMT DEF ReadField, WriteField, WGM10, COM1A0, COM1B0, Byte

\* The prescaler is written behind the upper bits of the mode.
LEMMA PrescKeepsMode ==
  ASSUME NEW reg \in Byte, NEW value \in Nat
  PROVE  /\ ReadField(WriteField(reg, CS10, value), WGM12) = ReadField(reg, WGM12)
         /\ ReadField(WriteField(reg, CS10, value), WGM22) = ReadField(reg, WGM22)
  BY SMT DEF ReadField, WriteField, WGM12, WGM22, CS10, Byte

\* SetMode() of a 16-bit timer: the timer then is in that mode and counts at
\* that prescaler, and neither output is under its control.
THEOREM Mode16bAsAsked ==
  ASSUME NEW mode \in 0 .. 15, NEW presc \in 0 .. 7
  PROVE  LET cfg == SetMode16b(mode, presc)
         IN  /\ cfg \in Configuration
             /\ ModeOf16b(cfg) = mode
             /\ PrescOf(cfg) = presc
             /\ ReadField(cfg.TCCRnA, COM1A0) = CmpOMode.Normal
             /\ ReadField(cfg.TCCRnA, COM1B0) = CmpOMode.Normal
  <1> DEFINE low == WriteField(0, WGM10, mode)
             high == WriteField(0, WGM12, mode \div 4)
             cfg == SetMode16b(mode, presc)
  <1>1. mode \in Nat /\ presc \in Nat /\ mode \div 4 \in Nat /\ 0 \in Byte
    BY SMT DEF Byte
  <1>2. low \in Byte /\ ReadField(low, WGM10) = mode % 4
    BY <1>1, FieldOfByte DEF WGM10
  <1>3. high \in Byte /\ ReadField(high, WGM12) = (mode \div 4) % 4
    BY <1>1, FieldOfByte DEF WGM12
  <1>4. cfg = [TCCRnA |-> low, TCCRnB |-> WriteField(high, CS10, presc)]
    BY DEF SetMode16b
  <1>5. /\ WriteField(high, CS10, presc) \in Byte
        /\ ReadField(WriteField(high, CS10, presc), CS10) = presc % 8
    BY <1>1, <1>3, FieldOfByte DEF CS10
  <1>6. ReadField(WriteField(high, CS10, presc), WGM12) = (mode \div 4) % 4
    BY <1>1, <1>3, PrescKeepsMode
  <1>7. ReadField(low, COM1A0) = 0 /\ ReadField(low, COM1B0) = 0
    BY SMT DEF ReadField, WriteField, WGM10, COM1A0, COM1B0
  <1>8. (mode % 4) + 4 * ((mode \div 4) % 4) = mode /\ presc % 8 = presc
    BY SMT
  <1> QED
    BY <1>2, <1>4, <1>5, <1>6, <1>7, <1>8
    DEF ModeOf16b, PrescOf, Configuration, CmpOMode, Byte

\* The same of an 8-bit timer, whose mode has three bits.
THEOREM Mode8bAsAsked ==
  ASSUME NEW mode \in 0 .. 7, NEW presc \in 0 .. 7
  PROVE  LET cfg == SetMode8b(mode, presc)
         IN  /\ cfg \in Configuration
             /\ ModeOf8b(cfg) = mode
             /\ PrescOf(cfg) = presc
             /\ ReadField(cfg.TCCRnA, COM1A0) = CmpOMode.Normal
             /\ ReadField(cfg.TCCRnA, COM1B0) = CmpOMode.Normal
  <1> DEFINE low == WriteField(0, WGM10, mode)
             high == WriteField(0, WGM22, mode \div 4)
             cfg == SetMode8b(mode, presc)
  <1>1. mode \in Nat /\ presc \in Nat /\ mode \div 4 \in Nat /\ 0 \in Byte
    BY SMT DEF Byte
  <1>2. low \in Byte /\ ReadField(low, WGM10) = mode % 4
    BY <1>1, FieldOfByte DEF WGM10
  <1>3. high \in Byte /\ ReadField(high, WGM22) = (mode \div 4) % 2
    BY <1>1, FieldOfByte DEF WGM22
  <1>4. cfg = [TCCRnA |-> low, TCCRnB |-> WriteField(high, CS10, presc)]
    BY DEF SetMode8b
  <1>5. /\ WriteField(high, CS10, presc) \in Byte
        /\ ReadField(WriteField(high, CS10, presc), CS10) = presc % 8
    BY <1>1, <1>3, FieldOfByte DEF CS10
  <1>6. ReadField(WriteField(high, CS10, presc), WGM22) = (mode \div 4) % 2
    BY <1>1, <1>3, PrescKeepsMode
  <1>7. ReadField(low, COM1A0) = 0 /\ ReadField(low, COM1B0) = 0
    BY SMT DEF ReadField, WriteField, WGM10, COM1A0, COM1B0
  <1>8. (mode % 4) + 4 * ((mode \div 4) % 2) = mode /\ presc % 8 = presc
    BY SMT
  <1> QED
    BY <1>2, <1>4, <1>5, <1>6, <1>7, <1>8
    DEF ModeOf8b, PrescOf, Configuration, CmpOMode, Byte

\* SetCOMnA() and SetCOMnB() change their own output only: not the other one,
\* nor the mode nor the prescaler of a timer of either kind.
THEOREM OutputAsAsked ==
  ASSUME NEW cfg \in Configuration, NEW oMode \in 0 .. 3
  PROVE  /\ LET a == SetCOMnA(cfg, oMode)
            IN  /\ a \in Configuration
                /\ ReadField(a.TCCRnA, COM1A0) = oMode
                /\ ReadField(a.TCCRnA, COM1B0) = ReadField(cfg.TCCRnA, COM1B0)
                /\ ModeOf8b(a) = ModeOf8b(cfg) /\ ModeOf16b(a) = ModeOf16b(cfg)
                /\ PrescOf(a) = PrescOf(cfg)
         /\ LET b == SetCOMnB(cfg, oMode)
            IN  /\ b \in Configuration
                /\ ReadField(b.TCCRnA, COM1B0) = oMode
                /\ ReadField(b.TCCRnA, COM1A0) = ReadField(cfg.TCCRnA, COM1A0)
                /\ ModeOf8b(b) = ModeOf8b(cfg) /\ ModeOf16b(b) = ModeOf16b(cfg)
                /\ PrescOf(b) = PrescOf(cfg)
  <1>1. /\ cfg.TCCRnA \in Byte /\ cfg.TCCRnB \in Byte
        /\ oMode \in Nat /\ oMode % 4 = oMode
    BY SMT DEF Configuration, Byte
  <1>2. /\ WriteField(cfg.TCCRnA, COM1A0, oMode) \in Byte
        /\ ReadField(WriteField(cfg.TCCRnA, COM1A0, oMode), COM1A0) = oMode
    BY <1>1, FieldOfByte DEF COM1A0
  <1>3. /\ WriteField(cfg.TCCRnA, COM1B0, oMode) \in Byte
        /\ ReadField(WriteField(cfg.TCCRnA, COM1B0, oMode), COM1B0) = oMode
    BY <1>1, FieldOfByte DEF COM1B0
  <1>4. /\ SetCOMnA(cfg, oMode)
             = [TCCRnA |-> WriteField(cfg.TCCRnA, COM1A0, oMode), TCCRnB |-> cfg.TCCRnB]
        /\ SetCOMnB(cfg, oMode)
             = [TCCRnA |-> WriteField(cfg.TCCRnA, COM1B0, oMode), TCCRnB |-> cfg.TCCRnB]
    BY DEF SetCOMnA, SetCOMnB, Configuration
  <1> QED
    BY <1>1, <1>2, <1>3, <1>4, OutputKeepsMode
    DEF ModeOf8b, ModeOf16b, PrescOf, Configuration, Byte
=============================================================================
