------------------------------ MODULE Repeater ------------------------------
(***************************************************************************)
(* Two Arduinos in a room: one with the sketch ir_tx_onbutton, and one     *)
(* with ir_repeater.ino, which sends every message its receiver pops.      *)
(* While the repeater waits in Send(), the interrupt handler of its        *)
(* receiver goes on recording, into the only buffer there is.  The light   *)
(* of the repeater does not fall on its own receiver.                      *)
(*                                                                         *)
(* PopMsg() takes a fraction of the time between two interrupts, so it is  *)
(* one action here; Receiver shows why it may be interrupted.              *)
(***************************************************************************)
EXTENDS Receiver

CONSTANTS Msgs, SETUPTIME, BUTTONINVALID_PERIOD, CLOCK

VARIABLES
  button, buttonState, buttonInvalidStart, now, sending, \* of ButtonTx
  relaying, \* how long the repeater's Send() will still block loop()
  owed      \* history: the messages sent that have not been relayed

sender == <<button, buttonState, buttonInvalidStart, now, sending>>
roomVars == <<vars, sender, relaying, owed>>

Button == INSTANCE ButtonTx

\* What BUTTONINVALID_PERIOD owes its value to: the longest message is over, and
\* its gap has been seen, before the button is valid again.  A message begins and
\* ends with a mark (a space at its end would be one with the gap), and rxBuf has
\* room for it, its gap and a terminator.
ASSUME RoomAssumption ==
  /\ POLL_INTERVAL = 1
  /\ {SETUPTIME, BUTTONINVALID_PERIOD, CLOCK} \subseteq Nat \ {0}
  /\ BUTTONINVALID_PERIOD + 1 < CLOCK
  /\ \A m \in Msgs :
       /\ m \in Seq(Int)
       /\ Button!Duration(m) + SIGFREE_MIN < BUTTONINVALID_PERIOD
       /\ Len(m) % 2 = 1
       /\ Len(m) + 2 <= PKTSYMB_MAX
       /\ \A i \in DOMAIN m :
            IF i % 2 = 1 THEN m[i] \in 1 .. SIGFREE_MIN ELSE m[i] \in 1 - SIGFREE_MIN .. -1

\* The level of the receiver module's output.
Level == IF Button!Light # invSig THEN 1 ELSE 0

-----------------------------------------------------------------------------
RoomInit ==
  /\ Init
  /\ Button!Init
  /\ pin = Level
  /\ relaying = 0
  /\ owed = <<>>

\* What the decoders accept: the recorded symbols are those of a message, and
\* the next one is not a symbol of any.
Recorded(m) ==
  /\ Len(m) < rxPos + 1
  /\ \A i \in 1 .. Len(m) : symbols[i] = m[i]
  /\ ~Matchable(symbols[Len(m) + 1])

\* Mutant: the receiver is not reset after a message it has recognised.
RelayWithoutReset ==
  /\ relaying = 0 /\ MsgAvailable
  /\ \/ \E m \in Msgs : Recorded(m) /\ relaying' = Button!Duration(m)
     \/ (\A m \in Msgs : ~Recorded(m)) /\ UNCHANGED relaying
  /\ owed' = IF relaying' = 0 \/ owed = <<>> THEN owed ELSE Tail(owed)
  /\ UNCHANGED <<pin, rxState, rxLast, rxPos, rxAccum, symbols, client, quiet, gap, seen, sender>>

\* loop(): PopMsg() decodes and resets the receiver; Send() begins.
Relay ==
  /\ relaying = 0 /\ MsgAvailable
  /\ \/ \E m \in Msgs : Recorded(m) /\ relaying' = Button!Duration(m)
     \/ (\A m \in Msgs : ~Recorded(m)) /\ UNCHANGED relaying
  /\ owed' = IF relaying' = 0 \/ owed = <<>> THEN owed ELSE Tail(owed)
  /\ rxState' = RXSTATE_READY
  /\ rxLast' = 0
  /\ rxPos' = 0
  /\ symbols' = [symbols EXCEPT ![PKTSYMB_MAX] = 0]
  /\ gap' = 0
  /\ UNCHANGED <<pin, rxAccum, client, quiet, seen, sender>>

\* The light reaches the receiver at once.
Shine ==
  /\ pin # Level
  /\ PinChange
  /\ UNCHANGED <<sender, relaying, owed>>

\* The sketch of the sender runs.
Press ==
  /\ \/ Button!Push \/ Button!Validate
     \/ \E m \in Msgs : Button!SendMsg(m)
  /\ owed' = IF sending' = sending THEN owed
             ELSE Append(owed, Tail(sending'))
  /\ UNCHANGED <<vars, relaying>>

\* An interval passes: the receiver is polled.  Neither loop() lags behind.
Elapse ==
  /\ pin = Level
  /\ ~(MsgAvailable /\ relaying = 0)
  /\ Button!Elapse
  /\ ProcessISR
  /\ relaying' = IF relaying = 0 THEN 0 ELSE relaying - 1
  /\ UNCHANGED owed

RoomNext == Relay \/ Shine \/ Press \/ Elapse

RoomSpec == RoomInit /\ [][RoomNext]_roomVars

\* Time passes and both sketches run; nobody has to push the button.
FairRoomSpec ==
  RoomSpec /\ WF_roomVars(Relay) /\ WF_roomVars(Shine) /\ WF_roomVars(Elapse)
           /\ WF_roomVars(UNCHANGED button /\ Press)

-----------------------------------------------------------------------------
(* Properties.                                                             *)

RoomTypeOK ==
  /\ TypeOK
  /\ button \in BOOLEAN
  /\ buttonState \in {Button!BUTTONSTATE_VALID, Button!BUTTONSTATE_INVALID}
  /\ {buttonInvalidStart, now} \subseteq 0 .. CLOCK - 1
  /\ sending \in Seq(Int \ {0})
  /\ relaying \in Nat
  /\ owed \in Seq(Msgs)

\* However often the button bounces and wherever the clock wraps, the line has
\* been silent for longer than SIGFREE_MIN when the sender sends again while the
\* repeater is not done with an earlier message: it can tell the two apart.
MessagesSeparated ==
  [][sending = <<>> /\ sending' # <<>> /\ (rxPos >= 1 \/ relaying > 0)
       => quiet * POLL_INTERVAL > SIGFREE_MIN]_roomVars

\* The repeater relays what was sent, in that order, without leaving one out:
\* although it cannot look at the buffer while it sends, the buffer holds the
\* oldest message that it owes whenever it does.
RelayedInOrder ==
  [][Relay => /\ owed # <<>>
              /\ Recorded(Head(owed))
              /\ relaying' = Button!Duration(Head(owed))]_roomVars

\* It never owes more than the message in the buffer and the one on the line,
\* and nothing once the line is silent and its loop() has nothing to do.
NothingLost ==
  /\ Len(owed) <= 2
  /\ sending = <<>> /\ quiet = QuietCap /\ ~MsgAvailable => owed = <<>>

\* Every message is relayed, and the button answers again for ever.
EveryMessageRelayed == owed # <<>> ~> relaying > 0

ButtonAnswers ==
  buttonState = Button!BUTTONSTATE_INVALID ~> buttonState = Button!BUTTONSTATE_VALID
=============================================================================
