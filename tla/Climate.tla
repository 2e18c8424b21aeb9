------------------------------ MODULE Climate ------------------------------
(* The climate node (Climate.cpp, ClimateFrames.cpp) between the displays    *)
(* and the vehicle's A/C amplifier.  Commands travel as bits that change in  *)
(* two frames sent over and over; the state comes back in status frames.     *)
EXTENDS Integers, FiniteSets, FiniteSetsExt

CONSTANTS
  StatusFrames,     \* status frames 0x54B the vehicle may send
  TempFrames,       \* temperature frames 0x54A the vehicle may send
  ClimateCommands,  \* commands the user may give
  CounterMod,       \* the temperature counters count modulo this, 256 in the code
  MaxCommands,      \* bound: commands in one behaviour
  MaxLost,          \* bound: control frames the bus loses
  MaxReboots        \* bound: restarts of the ECU

ASSUME ClimateBounds ==
  /\ CounterMod \in Nat \ {0, 1}
  /\ {MaxCommands, MaxLost, MaxReboots} \subseteq Nat

VARIABLES
  ready,     \* control_init_; the frames have left their initial content
  age,       \* time since startup_, in units of CONTROL_INIT_TICK
  frameDue,  \* control_ticker_: units until it is active
  idle,      \* emit() was called in this unit of time
  control,   \* the bits and counters of system_control_ and fan_control_
  state,     \* temp_state_, system_state_, airflow_state_
  shown,     \* the last publication of each of them
  seen,      \* vehicle: content of the last frames it received
  credit,    \* history: commands given and not yet taken by the vehicle
  phantom,   \* history: the vehicle took a command nobody gave
  budget     \* commands, losses and reboots so far

nodeVars    == <<ready, age, frameDue, idle, control, state>>
climateVars == <<nodeVars, shown, seen, credit, phantom, budget>>

SystemBits == {"OFF", "AUTO", "AC", "DUAL", "MODE", "DEFOG", "TEMP"}
FanBits    == {"RECIRC", "FAN_INC", "FAN_DEC"}
Counters   == {"DRIVER", "PASSENGER"}
Fields     == SystemBits \cup FanBits \cup Counters

\* The bit of each command that flips a bit.
FlippedBit(c) ==
  CASE c = "TURN_OFF_CMD" -> "OFF"
    [] c = "TOGGLE_AUTO_CMD" -> "AUTO"
    [] c = "TOGGLE_AC_CMD" -> "AC"
    [] c = "TOGGLE_DUAL_CMD" -> "DUAL"
    [] c = "TOGGLE_DEFOG_CMD" -> "DEFOG"
    [] c = "CYCLE_AIRFLOW_MODE_CMD" -> "MODE"
    [] c = "TOGGLE_RECIRCULATE_CMD" -> "RECIRC"
    [] c = "INC_FAN_SPEED_CMD" -> "FAN_INC"
    [] c = "DEC_FAN_SPEED_CMD" -> "FAN_DEC"
    [] OTHER -> "TEMP"

\* The temperature commands, with the counter they move and by how much.
TempCommands ==
  {"INC_DRIVER_TEMP_CMD", "DEC_DRIVER_TEMP_CMD", "INC_PASSENGER_TEMP_CMD", "DEC_PASSENGER_TEMP_CMD"}
TempZone(c)  == IF c \in {"INC_DRIVER_TEMP_CMD", "DEC_DRIVER_TEMP_CMD"} THEN "DRIVER" ELSE "PASSENGER"
TempDelta(c) == IF c \in {"INC_DRIVER_TEMP_CMD", "INC_PASSENGER_TEMP_CMD"} THEN 1 ELSE CounterMod - 1

NodeBoot ==
  [ready |-> FALSE, control |-> [f \in Fields |-> 0],
   state |-> [temp |-> <<0, 0, 0, "METRIC">>,
              system |-> [mode |-> "OFF", ac |-> FALSE, dual |-> FALSE],
              airflow |-> [fan |-> 0, recirc |-> FALSE, face |-> FALSE, feet |-> FALSE, windshield |-> FALSE]]]

\* Climate::Climate(), the vehicle having no frame yet.
ClimateInit ==
  /\ ready = NodeBoot.ready
  /\ age = 0
  /\ frameDue = 1
  /\ idle = TRUE
  /\ control = NodeBoot.control
  /\ state = NodeBoot.state
  /\ shown = state
  /\ seen = control
  /\ credit = [b \in SystemBits \cup FanBits |-> 0]
  /\ phantom = FALSE
  /\ budget = [commands |-> 0, lost |-> 0, reboots |-> 0]
-----------------------------------------------------------------------------
(* The vehicle.  A frame with the initial content only tells it where the   *)
(* bits stand; later a bit that differs from the last frame is a command.   *)

\* The node sends frames, each a set of fields, and the bus loses some of them;
\* given and spent are the credit and the budget of the step before that.
SendControl(frames, given, spent) ==
  \E got \in SUBSET frames :
    LET fs    == UNION got
        lost  == spent.lost + Cardinality(frames \ got)
        taken == {b \in fs \ Counters : ready' /\ seen[b] # control'[b]}
    IN  /\ lost <= MaxLost
        /\ budget' = [spent EXCEPT !.lost = lost]
        /\ seen' = [f \in Fields |-> IF f \in fs THEN control'[f] ELSE seen[f]]
        /\ credit' = [b \in DOMAIN given |-> IF b \in taken THEN Max({given[b] - 1, 0}) ELSE given[b]]
        /\ phantom' = (phantom \/ \E b \in taken : given[b] = 0)

SystemFrame == SystemBits \cup Counters
FanFrame    == FanBits
-----------------------------------------------------------------------------
(* The node.                                                               *)

\* handleTempFrame().
HandleTempFrame(f) ==
  /\ state' = [state EXCEPT !.temp = f]
  /\ shown' = IF state'.temp # state.temp THEN [shown EXCEPT !.temp = f] ELSE shown

Faces       == {"FACE", "FACE_FEET", "AUTO_FACE", "AUTO_FACE_FEET"}
Feets       == {"FACE_FEET", "AUTO_FACE_FEET", "FEET", "AUTO_FEET", "FEET_WINDSHIELD"}
Windshields == {"FEET_WINDSHIELD", "WINDSHIELD"}
KnownVents  == {"OFF", "AUTO_FACE"} \cup Faces \cup Feets \cup Windshields

\* The airflow that a status frame reports.  An unknown code of the vents
\* changes the fan and the recirculation only.
AirflowOf(f) ==
  LET a == [state.airflow EXCEPT !.fan = Min({(f.fan + 1) \div 2, 7}), !.recirc = f.recirc]
  IN  IF f.vents \in KnownVents
        THEN [a EXCEPT !.face = f.vents \in Faces, !.feet = f.vents \in Feets,
                       !.windshield = f.vents \in Windshields]
        ELSE a

\* The system state it reports, given the airflow.
SystemOf(f, airflow) ==
  LET mode == CASE airflow.windshield -> "DEFOG"
                [] ~airflow.windshield /\ f.off -> "OFF"
                [] ~airflow.windshield /\ ~f.off /\ f.auto -> "AUTO"
                [] OTHER -> "MANUAL"
  IN  [mode |-> mode, ac |-> f.ac, dual |-> ~f.single /\ mode # "OFF"]

\* handleSystemFrame(): the system state is published when the A/C or the dual
\* zone changed; what mode() said of a change is overwritten.
HandleSystemFrame(f) ==
  LET a == AirflowOf(f)
      s == SystemOf(f, a)
  IN  /\ state' = [state EXCEPT !.airflow = a, !.system = s]
      /\ shown' = [shown EXCEPT !.airflow = IF a # state.airflow THEN a ELSE @,
                                !.system = IF <<s.ac, s.dual>> # <<state.system.ac, state.system.dual>>
                                             THEN s ELSE @]

\* A status frame of the vehicle arrives.
Status ==
  /\ \/ \E f \in TempFrames : HandleTempFrame(f)
     \/ \E f \in StatusFrames : HandleSystemFrame(f)
  /\ UNCHANGED <<ready, age, frameDue, idle, control, seen, credit, phantom, budget>>

\* handleControllerEvent(): a display asks for the state.
RequestClimate ==
  /\ \E e \in {"temp", "system", "airflow"} : shown' = [shown EXCEPT ![e] = state[e]]
  /\ UNCHANGED <<nodeVars, seen, credit, phantom, budget>>

\* The control frames after command c; the flips do nothing in initial frames.
Controlled(c) ==
  IF ~ready THEN control
  ELSE LET flipped == [control EXCEPT ![FlippedBit(c)] = 1 - @]
       IN  IF c \in TempCommands
             THEN [flipped EXCEPT ![TempZone(c)] = (@ + TempDelta(c)) % CounterMod]
             ELSE flipped

\* handleClimateEvent(): a temperature command does nothing while the system is
\* off.  Any other is sent at once in its frame.
HandleClimateEvent(c) ==
  /\ c \in TempCommands => state.system.mode # "OFF"
  /\ budget.commands < MaxCommands
  /\ control' = Controlled(c)
  /\ UNCHANGED <<ready, age, frameDue, idle, state, shown>>
  /\ SendControl({IF FlippedBit(c) \in FanBits THEN FanFrame ELSE SystemFrame},
                 IF ready THEN [credit EXCEPT ![FlippedBit(c)] = @ + 1] ELSE credit,
                 [budget EXCEPT !.commands = @ + 1])

InitUnits  == 4   \* CONTROL_INIT_EXPIRE
FrameUnits == 2   \* CONTROL_FRAME_TICK

\* Fault: the frames are not sent again once they left their initial content.
EmitOnce ==
  /\ idle' = FALSE
  /\ UNCHANGED <<age, control, state, shown>>
  /\ CASE ~ready /\ age >= InitUnits ->
            /\ ready' = TRUE
            /\ frameDue' = FrameUnits
            /\ SendControl({SystemFrame, FanFrame}, credit, budget)
       [] ~ready /\ age < InitUnits /\ frameDue = 0 ->
            /\ frameDue' = 1
            /\ UNCHANGED ready
            /\ SendControl({SystemFrame, FanFrame}, credit, budget)
       [] OTHER -> UNCHANGED <<ready, frameDue, seen, credit, phantom, budget>>

\* Fault: the initial content is given up with the first frame.
EmitSoon ==
  /\ idle' = FALSE
  /\ UNCHANGED <<age, control, state, shown>>
  /\ ready' = (ready \/ age >= 1)
  /\ IF frameDue = 0
       THEN /\ frameDue' = FrameUnits
            /\ SendControl({SystemFrame, FanFrame}, credit, budget)
       ELSE UNCHANGED <<frameDue, seen, credit, phantom, budget>>

\* emit(): both control frames whenever their ticker is active; for the first
\* 400 ms with the initial content.  The state ticker is off: the sketches give
\* the node no period.
Emit ==
  /\ idle' = FALSE
  /\ UNCHANGED <<age, control, state, shown>>
  /\ CASE ~ready /\ age >= InitUnits ->
            /\ ready' = TRUE
            /\ frameDue' = FrameUnits
            /\ SendControl({SystemFrame, FanFrame}, credit, budget)
       [] (ready \/ age < InitUnits) /\ frameDue = 0 ->
            /\ frameDue' = IF ready THEN FrameUnits ELSE 1
            /\ UNCHANGED ready
            /\ SendControl({SystemFrame, FanFrame}, credit, budget)
       [] OTHER -> UNCHANGED <<ready, frameDue, seen, credit, phantom, budget>>

\* A unit of time passes; emit() is called in each.
Hundred ==
  /\ ~idle
  /\ idle' = TRUE
  /\ age' = Min({age + 1, InitUnits})
  /\ frameDue' = Max({frameDue - 1, 0})
  /\ UNCHANGED <<ready, control, state, shown, seen, credit, phantom, budget>>

\* The ECU restarts; the vehicle keeps what it last saw.
Restart ==
  /\ budget.reboots < MaxReboots
  /\ budget' = [budget EXCEPT !.reboots = @ + 1]
  /\ ready' = FALSE /\ age' = 0 /\ frameDue' = 1 /\ idle' = TRUE
  /\ control' = NodeBoot.control
  /\ state' = NodeBoot.state
  /\ shown' = NodeBoot.state
  /\ credit' = [b \in DOMAIN credit |-> 0]
  /\ UNCHANGED <<seen, phantom>>

ClimateCommand == \E c \in ClimateCommands : HandleClimateEvent(c)

ClimateNext ==
  \/ Status \/ RequestClimate \/ ClimateCommand
  \/ Emit \/ Hundred \/ Restart

\* The loop of the core that hosts the node does not stop, and time passes.
ClimateSpec ==
  ClimateInit /\ [][ClimateNext]_climateVars /\ WF_climateVars(Emit) /\ WF_climateVars(Hundred)
-----------------------------------------------------------------------------
\* The displays show the system state that the node keeps.
SystemShown == shown.system = state.system

\* The vehicle never takes a command that nobody gave: a restart returns every
\* bit to zero, and the frames of the first 400 ms tell the vehicle so, unless
\* the bus loses all of them.
NoPhantom == ~phantom

\* What the node asks of the vehicle reaches it, whatever frames are lost.
CommandsArrive == (seen # control) ~> (seen = control)
=============================================================================
