------------------------------ MODULE ButtonTx ------------------------------
(***************************************************************************)
(* The sketch ir_tx_onbutton.ino: while its push button is held down it    *)
(* sends a message, waits for the end of BUTTONINVALID_PERIOD and sends it *)
(* again.  The period begins before Send(), which blocks loop() until the  *)
(* message is on the line.  Time passes in milliseconds.                   *)
(***************************************************************************)
EXTENDS Integers, Sequences

CONSTANTS
  Msgs,      \* the messages: marks and spaces in milliseconds, marks positive
  SETUPTIME, \* what Send() waits before the first mark
  BUTTONINVALID_PERIOD,
  CLOCK      \* number of values of millis(); 2^32, scaled down

Abs(x) == IF x < 0 THEN -x ELSE x

\* How long Send() has kept the caller waiting when the first symbols are over.
Times(m) ==
  LET t[i \in 0 .. Len(m)] == IF i = 0 THEN SETUPTIME ELSE t[i - 1] + Abs(m[i]) IN t

\* How long Send() keeps the caller waiting.
Duration(m) == Times(m)[Len(m)]

VARIABLES
  button,      \* is the button held down?
  buttonState, \* BUTTONSTATE_VALID or BUTTONSTATE_INVALID
  buttonInvalidStart, \* when the button was invalidated
  now,         \* millis()
  sending      \* what Send() has still to put on the line; <<>> outside Send()

vars == <<button, buttonState, buttonInvalidStart, now, sending>>

BUTTONSTATE_VALID == "valid"
BUTTONSTATE_INVALID == "invalid"

\* Is the transmitter's light on?
Light == sending # <<>> /\ Head(sending) > 0

-----------------------------------------------------------------------------
\* After setup().
Init ==
  /\ button \in BOOLEAN
  /\ buttonState = BUTTONSTATE_VALID
  /\ now = 0
  /\ buttonInvalidStart = now
  /\ sending = <<>>

\* Somebody pushes the button or lets go of it; the contacts bounce.
Push ==
  /\ button' = ~button
  /\ UNCHANGED <<buttonState, buttonInvalidStart, now, sending>>

\* Mutant: the button stays valid.
SendMsgUndebounced(m) ==
  /\ sending = <<>> /\ buttonState = BUTTONSTATE_VALID /\ button
  /\ buttonInvalidStart' = now
  /\ sending' = <<-SETUPTIME>> \o m
  /\ UNCHANGED <<button, buttonState, now>>

\* loop() finds the button pushed and calls Send().  (Which message the sketch
\* is compiled with does not matter; here each may be another.)
SendMsg(m) ==
  /\ sending = <<>> /\ buttonState = BUTTONSTATE_VALID /\ button
  /\ buttonInvalidStart' = now
  /\ buttonState' = BUTTONSTATE_INVALID
  /\ sending' = <<-SETUPTIME>> \o m
  /\ UNCHANGED <<button, now>>

\* Mutant: the clock is compared with the end of the period.
ExpiredByDeadline == now > buttonInvalidStart + BUTTONINVALID_PERIOD

\* now_msec()-buttonInvalidStart > BUTTONINVALID_PERIOD, in unsigned arithmetic.
Expired == (now - buttonInvalidStart) % CLOCK > BUTTONINVALID_PERIOD

Validate ==
  /\ sending = <<>> /\ buttonState = BUTTONSTATE_INVALID /\ Expired
  /\ buttonState' = BUTTONSTATE_VALID
  /\ UNCHANGED <<button, buttonInvalidStart, now, sending>>

\* The next call of loop() changes something.
Due ==
  /\ sending = <<>>
  /\ IF buttonState = BUTTONSTATE_VALID THEN button ELSE Expired

\* A millisecond passes; loop() takes much less, so it never lags behind.
Elapse ==
  /\ ~Due
  /\ now' = (now + 1) % CLOCK
  /\ sending' = IF sending = <<>> THEN <<>>
                ELSE LET d == Head(sending)
                     IN  IF d \in {-1, 1} THEN Tail(sending)
                         ELSE <<IF d > 0 THEN d - 1 ELSE d + 1>> \o Tail(sending)
  /\ UNCHANGED <<button, buttonState, buttonInvalidStart>>

Loop == Validate \/ \E m \in Msgs : SendMsg(m)

Next == Push \/ Loop \/ Elapse

Spec == Init /\ [][Next]_vars
=============================================================================
