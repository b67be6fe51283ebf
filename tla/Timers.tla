------------------------------- MODULE Timers -------------------------------
(***************************************************************************)
(* The timer abstraction of arduino_timers.h: configuration objects whose  *)
(* two bytes are put together from bit fields, and what those bytes mean   *)
(* to an Atmel timer.  Registers are numbers; a field of a register is     *)
(* given by the weight of its lowest bit and the number of its values.     *)
(***************************************************************************)
EXTENDS Integers

-----------------------------------------------------------------------------
(* Writing a field: arduino_hwext.h.                                       *)

ReadField(reg, field) == (reg \div field.lsb) % field.size

\* _AHW_WRITE8_nB: the field takes the low bits of the value, the other bits
\* of the byte stay.
WriteField(reg, field, value) ==
  (reg + ((value % field.size) - ReadField(reg, field)) * field.lsb) % 256

\* Where avr-libc puts the fields that the code writes.  Timer 1 stands for
\* every 16-bit timer.
WGM10 == [lsb |-> 1, size |-> 4]
WGM12 == [lsb |-> 8, size |-> 4]
WGM22 == [lsb |-> 8, size |-> 2]
CS10 == [lsb |-> 1, size |-> 8]
COM1A0 == [lsb |-> 64, size |-> 4]
COM1B0 == [lsb |-> 16, size |-> 4]
OCIE1A == [lsb |-> 2, size |-> 2]

-----------------------------------------------------------------------------
(* The enumerations.                                                       *)

Mode16b ==
  [Normal |-> 0, PhaseCorrectPWM_8bit |-> 1, PhaseCorrectPWM_9bit |-> 2,
   PhaseCorrectPWM_10bit |-> 3, CTC_OCRnA |-> 4, FastPWM_8bit |-> 5,
   FastPWM_9bit |-> 6, FastPWM_10bit |-> 7, PhaseFreqCorrectPWM_ICR |-> 8,
   PhaseFreqCorrectPWM_OCRnA |-> 9, PhaseCorrectPWM_ICR |-> 10,
   PhaseCorrectPWM_OCRnA |-> 11, CTC_ICR |-> 12, RESERVED |-> 13,
   FastPWM_ICR |-> 14, FastPWM_OCRnA |-> 15]

Mode8b ==
  [Normal |-> 0, PWM_PhaseCorrectPWM_8bit |-> 1, CTC_OCR |-> 2,
   FastPWM_8bit |-> 3, Reserved1 |-> 4, PhaseCorrectPWM_OCR |-> 5,
   Reserved2 |-> 6, FastPWM_OCR |-> 7]

Presc ==
  [Select0 |-> 0, Div1 |-> 1, Div8 |-> 2, Div64 |-> 3, Div256 |-> 4,
   Div1024 |-> 5, SyncInv |-> 6, Sync |-> 7]

CmpOMode ==
  [Normal |-> 0, ToggleOnMatch |-> 1, ClearOnMatch_SetOnBottom |-> 2,
   SetOnMatch_ClearOnBottom |-> 3]

-----------------------------------------------------------------------------
(* Configuration objects.                                                  *)

Configuration == [TCCRnA : 0 .. 255, TCCRnB : 0 .. 255]

\* SetMode() starts from zeroed bytes: it overwrites what SetCOMnx() has set.
\* The lower two bits of the mode go to one register, the others to the other.
SetMode8b(mode, presc) ==
  [TCCRnA |-> WriteField(0, WGM10, mode),
   TCCRnB |-> WriteField(WriteField(0, WGM22, mode \div 4), CS10, presc)]

SetMode16b(mode, presc) ==
  [TCCRnA |-> WriteField(0, WGM10, mode),
   TCCRnB |-> WriteField(WriteField(0, WGM12, mode \div 4), CS10, presc)]

SetCOMnA(cfg, oMode) == [cfg EXCEPT !.TCCRnA = WriteField(@, COM1A0, oMode)]

SetCOMnB(cfg, oMode) == [cfg EXCEPT !.TCCRnA = WriteField(@, COM1B0, oMode)]

-----------------------------------------------------------------------------
(* What the timer makes of its registers: their names stand for the fields *)
(* of a record that holds them.                                            *)

ModeOf8b(regs) == ReadField(regs.TCCRnA, WGM10) + 4 * ReadField(regs.TCCRnB, WGM22)

ModeOf16b(regs) == ReadField(regs.TCCRnA, WGM10) + 4 * ReadField(regs.TCCRnB, WGM12)

PrescOf(regs) == ReadField(regs.TCCRnB, CS10)
=============================================================================
