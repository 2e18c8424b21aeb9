-------------------------------- MODULE Keys --------------------------------
(* Keys that act by how long they are held: LongPressButton and RepeatButton *)
(* (Controls.cpp), polled by emit() between the press and the release, as    *)
(* the steering controls (Controls/Steering.cpp, Vehicle/Steering.cpp) and   *)
(* the last key of the power panel (Power.cpp) use them.                     *)
EXTENDS Integers, FiniteSetsExt

CONSTANTS
  Ladder,     \* the resistor ladder of each steering key, one key at a time each
  LongUnits,  \* the long presses, in units of time, for the keys that have one
  Repeat      \* the repeat interval

ASSUME KeyTimes ==
  /\ Repeat \in Nat \ {0}
  /\ {"POWER", "NAV"} \cap DOMAIN Ladder \subseteq DOMAIN LongUnits
  /\ \A k \in DOMAIN LongUnits : LongUnits[k] \in Nat \ {0}

VARIABLES
  held,    \* the keys the driver holds
  told,    \* the keys whose press the ladder has reported
  button,  \* state_ and pressed_ of each button
  sent     \* history: commands since the last press of each key, 2 for more

keyVars == <<held, told, button, sent>>

LongKeys   == {"POWER", "NAV"} \cap DOMAIN Ladder
RepeatKeys == {"SEEK_UP", "SEEK_DOWN", "VOLUME_UP", "VOLUME_DOWN"} \cap DOMAIN Ladder
AllKeys    == DOMAIN Ladder   \* "MODE" has no button: it acts when released
Held(k)    == IF k \in LongKeys THEN LongUnits[k] ELSE Repeat

KeysInit ==
  /\ held = {} /\ told = {}
  /\ button = [k \in AllKeys |-> [state |-> 0, since |-> 0]]
  /\ sent = [k \in AllKeys |-> 1]

\* LongPressButton::press(), RepeatButton::press()
Press(k) == [button EXCEPT ![k] = [state |-> 1, since |-> 0]]

\* LongPressButton::trigger() once, RepeatButton::trigger() again and again.
Due(k, b) ==
  /\ b.since >= Held(k)
  /\ IF k \in LongKeys THEN b.state = 1 ELSE b.state # 0

Triggered(k, b) == [state |-> 2, since |-> IF k \in RepeatKeys THEN 0 ELSE b.since]

\* Fault: a release acts although the long press has.
ShortHeld(b) == b.state # 0

\* What release() returns: nothing was sent for this press yet.
Short(b) == b.state = 1

Sent(k, n) == [sent EXCEPT ![k] = Min({@ + n, 2})]

\* The driver; a ladder sees a key released before the next one is pressed.
Hold ==
  /\ \E k \in AllKeys :
       /\ \A j \in held \cup told : Ladder[j] # Ladder[k]
       /\ held' = held \cup {k}
  /\ UNCHANGED <<told, button, sent>>

LetGo ==
  /\ \E k \in held : held' = held \ {k}
  /\ UNCHANGED <<told, button, sent>>

\* SteeringKeypad::emit() reports a press, and handle() of the controls takes it.
KeyPressed ==
  /\ \E k \in held \ told :
       /\ told' = told \cup {k}
       /\ button' = Press(k)
       /\ sent' = [sent EXCEPT ![k] = 0]
  /\ UNCHANGED held

\* It reports a release: the command of a short press, or of MODE.
KeyReleased ==
  /\ \E k \in told \ held :
       /\ told' = told \ {k}
       /\ sent' = IF k = "MODE" \/ Short(button[k]) THEN Sent(k, 1) ELSE sent
       /\ button' = [button EXCEPT ![k].state = 0]
  /\ UNCHANGED held

\* emit() of the controls: the commands of all the buttons that are due.
KeysEmit ==
  LET due == {k \in LongKeys \cup RepeatKeys : Due(k, button[k])}
  IN  /\ button' = [k \in AllKeys |-> IF k \in due THEN Triggered(k, button[k]) ELSE button[k]]
      /\ sent' = [k \in AllKeys |-> IF k \in due THEN Min({sent[k] + 1, 2}) ELSE sent[k]]
      /\ UNCHANGED <<held, told>>

\* Time passes.
Elapse ==
  /\ button' = [k \in AllKeys |->
                  [button[k] EXCEPT !.since = IF button[k].state = 0 \/ k = "MODE" THEN 0 ELSE Min({@ + 1, Held(k)})]]
  /\ UNCHANGED <<held, told, sent>>

KeysNext == Hold \/ LetGo \/ KeyPressed \/ KeyReleased \/ KeysEmit \/ Elapse

KeysSpec == KeysInit /\ [][KeysNext]_keyVars
-----------------------------------------------------------------------------
\* Whenever the poll finds a held key, every press is answered: a key with a
\* long press by one command, short or long and never both, and a key that
\* repeats by at least one.
EveryPressAnswered ==
  \A k \in AllKeys :
    /\ k \notin told => sent[k] >= 1
    /\ k \notin RepeatKeys => sent[k] <= 1

\* The induction needs how the state of a button remembers what was sent.
KeysTypeOK ==
  /\ held \subseteq AllKeys /\ told \subseteq AllKeys
  /\ button \in [AllKeys -> [state : 0 .. 2, since : Nat]]
  /\ sent \in [AllKeys -> 0 .. 2]

KeysInductive ==
  /\ KeysTypeOK
  /\ \A k \in AllKeys :
       /\ k \in told <=> button[k].state # 0
       /\ button[k].state = 1 <=> sent[k] = 0
       /\ button[k].state = 2 => k \in LongKeys \cup RepeatKeys
       /\ k \notin RepeatKeys => sent[k] <= 1
=============================================================================
