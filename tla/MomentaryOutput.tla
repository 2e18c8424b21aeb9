-------------------------- MODULE MomentaryOutput --------------------------
(* An output pin that is pressed like a button (MomentaryOutput.cpp), and    *)
(* the defrost node that presses it (Defrost in BCM.cpp).  Time advances in  *)
(* milliseconds; update() is called from the loop of the I/O core, at least  *)
(* every MaxGap of them.                                                     *)
EXTENDS Integers

CONSTANTS
  Mode,        \* "HIGH", "LOW" or "DRAIN"
  TriggerMs,   \* trigger_ms_
  CooldownMs,  \* cooldown_ms_
  MaxGap       \* the longest time between two calls of update()

ASSUME ModeAssumption == Mode \in {"HIGH", "LOW", "DRAIN"}
ASSUME TimesAssumption == TriggerMs \in Nat \ {0} /\ CooldownMs \in Nat \ {0}
ASSUME GapAssumption   == MaxGap \in Nat \ {0}

VARIABLES
  pin,        \* direction and level of the pin
  triggered,  \* triggered_: 0 idle, 1 on, 2 cooling down
  elapsed,    \* clock_->millis() - trigger_time_ while triggered
  gap         \* time since the last call of update()

pinVars == <<pin, triggered, elapsed, gap>>

Out(level) == [dir |-> "OUTPUT", level |-> level]
In(level)  == [dir |-> "INPUT", level |-> level]

On  == CASE Mode = "HIGH" -> Out("HIGH")
         [] Mode = "LOW" -> Out("LOW")
         [] Mode = "DRAIN" -> Out("LOW")
Off == CASE Mode = "HIGH" -> Out("LOW")
         [] Mode = "LOW" -> Out("HIGH")
         [] Mode = "DRAIN" -> In("HIGH")

\* init(): a pin that is not drained is driven to the level it has when it is
\* triggered.
PinInit ==
  /\ pin = IF Mode = "DRAIN" THEN Off ELSE On
  /\ triggered = 0
  /\ elapsed = 0
  /\ gap = 0

\* trigger(), by TOGGLE_DEFROST_CMD.
Trigger ==
  /\ IF triggered = 0
       THEN pin' = On /\ triggered' = 1 /\ elapsed' = 0
       ELSE UNCHANGED <<pin, triggered, elapsed>>
  /\ UNCHANGED gap

\* Fault: the cooldown is over as soon as the trigger time is.
UpdateEarly ==
  /\ gap' = 0
  /\ CASE triggered # 0 /\ elapsed >= TriggerMs ->
            triggered' = 0 /\ elapsed' = 0 /\ UNCHANGED pin
       [] OTHER -> UNCHANGED <<pin, triggered, elapsed>>

\* update(), called by emit().
Update ==
  /\ gap' = 0
  /\ CASE triggered # 0 /\ elapsed >= TriggerMs + CooldownMs ->
            triggered' = 0 /\ elapsed' = 0 /\ UNCHANGED pin
       [] triggered = 1 /\ elapsed >= TriggerMs /\ elapsed < TriggerMs + CooldownMs ->
            triggered' = 2 /\ pin' = Off /\ UNCHANGED elapsed
       [] OTHER -> UNCHANGED <<pin, triggered, elapsed>>

\* A millisecond passes; a loop that is held up longer than MaxGap is left out.
Millisecond ==
  /\ gap < MaxGap
  /\ gap' = gap + 1
  /\ elapsed' = IF triggered = 0 THEN 0 ELSE elapsed + 1
  /\ UNCHANGED <<pin, triggered>>

PinNext == Trigger \/ Update \/ Millisecond

PinSpec == PinInit /\ [][PinNext]_pinVars
-----------------------------------------------------------------------------
PinTypeOK ==
  /\ pin \in {On, Off}
  /\ triggered \in 0 .. 2
  /\ elapsed \in Nat
  /\ gap \in 0 .. MaxGap

\* The button is held exactly while a press is under way, and no longer than
\* the trigger time and one gap: a press that was forgotten would hold it for
\* ever.  The gap must not exceed the cooldown.
PressEnds ==
  /\ pin = On <=> triggered = 1
  /\ triggered = 1 => elapsed < TriggerMs + MaxGap

\* The induction needs where the gap began: no update has been called since
\* the trigger time passed.
PressInductive ==
  /\ PinTypeOK
  /\ pin = On <=> triggered = 1
  /\ triggered = 1 => elapsed < TriggerMs + gap
=============================================================================
