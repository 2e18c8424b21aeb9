----------------------------- MODULE PowerPanel -----------------------------
(* The keypad that switches the vehicle's extra devices: the nodes of the    *)
(* Blink keypad and keybox, the power controls between them on the same bus  *)
(* (Keypad.cpp, Keybox.cpp, Power.cpp), and the two devices on J1939.        *)
(* A panel p is one record: what the nodes keep, and what the devices do.    *)
EXTENDS Integers, Sequences, FiniteSets, SequencesExt

CONSTANTS
  Address,        \* the address the gateway claims
  NoAddress,      \* the null address
  PressedKeys,    \* keys of the keypad that the driver uses
  FaultyPins,     \* outputs that may trip
  FullDuty, NoDuty,   \* duty cycles 0xFF and 0
  DimDuty,        \* a duty cycle between them
  MaxFaults       \* bound: trips in one behaviour

ASSUME PanelBounds == MaxFaults \in Nat /\ FullDuty # NoDuty /\ DimDuty \notin {FullDuty, NoDuty}

VARIABLES
  panel,  \* the record
  news,   \* fault reports of the keybox on their way
  trips   \* trips so far

panelVars == <<panel, news, trips>>

Pins    == 0 .. 12
PwmPins == {11, 12}
Leds    == 0 .. 7

\* PDMDevice
LIGHT_BAR == 5        LEFT_SPOT_LIGHT == 8   RIGHT_SPOT_LIGHT == 9   RUNNING_LIGHTS == 11
ROCK_LIGHTS == 3      CHASE_LIGHTS == 12     AIR_COMP == 2
FRONT_LOCKER == 10    REAR_LOCKER == 7

\* The devices that a key toggles, in their order.
KeyDevices(k) ==
  CASE k = 0 -> <<LIGHT_BAR>>
    [] k = 1 -> <<LEFT_SPOT_LIGHT, RIGHT_SPOT_LIGHT>>
    [] k = 2 -> <<CHASE_LIGHTS>>
    [] k = 3 -> <<ROCK_LIGHTS>>
    [] k = 4 -> <<FRONT_LOCKER>>
    [] k = 5 -> <<REAR_LOCKER>>
    [] k = 6 -> <<AIR_COMP>>
    [] OTHER -> << >>

\* The devices that a key's LED shows, by LED: one of the two spot lights.
Indicated ==
  [l \in 0 .. 6 |-> CASE l = 0 -> LIGHT_BAR
                     [] l = 1 -> LEFT_SPOT_LIGHT
                     [] l = 2 -> CHASE_LIGHTS
                     [] l = 3 -> ROCK_LIGHTS
                     [] l = 4 -> FRONT_LOCKER
                     [] l = 5 -> REAR_LOCKER
                     [] OTHER -> AIR_COMP]

FreshPanel ==
  [addr |-> NoAddress,
   state |-> {}, fault |-> {},                   \* pin_state_, pin_fault_
   pwm |-> [n \in PwmPins |-> NoDuty],           \* pin11_pwm_, pin12_pwm_
   cmd |-> [n \in PwmPins |-> NoDuty],           \* data of pwm_cmd_
   power |-> TRUE, illum |-> FALSE,              \* of PowerControls
   on |-> {}, tripped |-> {},                    \* keybox: outputs driven, outputs tripped
   duty |-> [n \in PwmPins |-> NoDuty],
   led |-> [l \in Leds |-> "OFF"], bright |-> "HIGH", backlight |-> FALSE,  \* keypad
   doubt |-> {}]                                 \* history: see LedsTrue

PanelInit == panel = FreshPanel /\ news = << >> /\ trips = 0
-----------------------------------------------------------------------------
(* BlinkKeypad: a command without an address is dropped.                    *)

HandleIndicatorCommand(p, led, mode) ==
  IF p.addr = NoAddress THEN p ELSE [p EXCEPT !.led[led] = mode]

HandleBrightness(p, value) ==
  IF p.addr = NoAddress THEN p ELSE [p EXCEPT !.bright = value]

HandleBacklight(p, value) ==
  IF p.addr = NoAddress THEN p ELSE [p EXCEPT !.backlight = value]

\* handleJ1939Claim of the keypad: the keypad starts again with its LEDs off.
\* Frames without an address do not leave the gateway.
KeypadClaim(p) ==
  IF p.addr = NoAddress THEN p
  ELSE [p EXCEPT !.led = [l \in Leds |-> "OFF"], !.bright = "HIGH", !.backlight = FALSE]

-----------------------------------------------------------------------------
(* PowerControls.                                                          *)

\* handlePower, sendIndicatorCmd
HandlePower(p, pin, mode, duty) ==
  LET shown == CASE mode = "PWM" -> (IF duty = NoDuty THEN "OFF" ELSE "ON")
                 [] mode = "FAULT" -> "BLINK"
                 [] OTHER -> mode
      leds == {l \in DOMAIN Indicated : Indicated[l] = pin}
  IN  IF leds = {} THEN p ELSE HandleIndicatorCommand(p, CHOOSE l \in leds : TRUE, shown)

\* illum()
Illum(p) ==
  IF p.illum THEN HandleBacklight(HandleBrightness(p, "LOW"), p.power)
             ELSE HandleBacklight(HandleBrightness(p, "HIGH"), FALSE)

-----------------------------------------------------------------------------
(* BlinkKeybox, and the keybox that takes its commands.                     *)

\* The keybox drives an output; one that tripped stays off until it is reset.
Drive(p, pin, value) ==
  IF value THEN [p EXCEPT !.on = IF pin \in p.tripped THEN @ ELSE @ \cup {pin}]
           ELSE [p EXCEPT !.on = @ \ {pin}]

\* Fault: an output with a fault is commanded and reported like any other.
SetOutputFaulted(p, pin, value) ==
  IF (pin \in p.state) = value THEN p
  ELSE LET q == [p EXCEPT !.state = IF value THEN @ \cup {pin} ELSE @ \ {pin}]
       IN  HandlePower(Drive(q, pin, value), pin, IF value THEN "ON" ELSE "OFF", FullDuty)

\* setOutput(): nothing when the output has that state already or a fault.
SetOutput(p, pin, value) ==
  IF (pin \in p.state) = value \/ pin \in p.fault THEN p
  ELSE LET q == [p EXCEPT !.state = IF value THEN @ \cup {pin} ELSE @ \ {pin}]
       IN  HandlePower(Drive(q, pin, value), pin, IF value THEN "ON" ELSE "OFF", FullDuty)

\* setPWM(): both duty cycles travel in one command, and a fault does not stop
\* it.  Equal to the duty cycle kept, nothing is sent.
SetPWM(p, pin, duty) ==
  IF pin \notin PwmPins THEN p
  ELSE LET q == [p EXCEPT !.cmd[pin] = duty, !.pwm[pin] = duty]
       IN  IF p.pwm[pin] = duty THEN q
           ELSE HandlePower([q EXCEPT !.duty = q.cmd], pin, "PWM", duty)

\* reset(): the output is reported off, and pin_state_ keeps what it was.
Reset(p, pin) ==
  IF pin \notin p.fault THEN p
  ELSE HandlePower([p EXCEPT !.fault = @ \ {pin}, !.tripped = @ \ {pin}, !.on = @ \ {pin}], pin, "OFF", FullDuty)

\* handlePowerCommand()
HandlePowerCommand(p, pin, cmd) ==
  IF p.addr = NoAddress \/ pin > 12 THEN p
  ELSE CASE cmd \in {"ON", "OFF"} ->
              IF pin \in PwmPins THEN SetPWM(p, pin, IF cmd = "ON" THEN FullDuty ELSE NoDuty)
                                 ELSE SetOutput(p, pin, cmd = "ON")
         [] cmd = "TOGGLE" ->
              IF pin \in PwmPins THEN SetPWM(p, pin, IF p.cmd[pin] = NoDuty THEN FullDuty ELSE NoDuty)
                                 ELSE SetOutput(p, pin, pin \notin p.state)
         [] cmd = "RESET" -> Reset(p, pin)
         [] cmd = "PWM" -> SetPWM(p, pin, DimDuty)

\* handlePowerStateRequest(): pins 0 to 11, each report for an LED of its own.
HandlePowerStateRequest(p) ==
  LET Reported(pin) ==
        HandlePower(p, pin, CASE pin \in p.fault -> "FAULT"
                              [] pin \notin p.fault /\ pin = 11 -> "PWM"
                              [] pin \notin p.fault /\ pin # 11 /\ pin \in p.state -> "ON"
                              [] OTHER -> "OFF",
                    IF pin = 11 THEN p.pwm[11] ELSE FullDuty)
  IN  [p EXCEPT !.led = [l \in Leds |-> IF l \in DOMAIN Indicated /\ Indicated[l] <= 11
                                          THEN Reported(Indicated[l]).led[l] ELSE p.led[l]]]

\* handleJ1939Message(): the keybox reports that an output tripped or recovered.
HandleFaultReport(p, pin, value) ==
  CASE p.addr = NoAddress -> [p EXCEPT !.doubt = @ \cup {pin}]
    [] p.addr # NoAddress /\ (pin \in p.fault) = value -> p
    [] OTHER ->
         LET q == IF value
                    THEN [p EXCEPT !.fault = @ \cup {pin},
                                   !.cmd = [n \in PwmPins |-> IF n = pin THEN NoDuty ELSE @[n]]]
                    ELSE [p EXCEPT !.fault = @ \ {pin}]
         IN  HandlePower(q, pin, IF value THEN "FAULT" ELSE "OFF", FullDuty)

\* The claim reaches both nodes; after the first one the LEDs start again and
\* nobody reports the devices that are on.
HandleClaim(p, a) ==
  KeypadClaim([p EXCEPT !.addr = a,
                        !.doubt = @ \cup {pin \in Pins : \E l \in DOMAIN Indicated :
                                            Indicated[l] = pin /\ p.led[l] # "OFF"}])

-----------------------------------------------------------------------------
\* Outputs that command cmd turned on while a report of their fault was on its
\* way are in doubt.
Crossed(p, q) ==
  [q EXCEPT !.doubt = @ \cup {news[i].pin : i \in {j \in DOMAIN news : news[j].pin \in q.on \ p.on}}]

Claim ==
  /\ \E a \in {Address, NoAddress} : panel' = HandleClaim(panel, a)
  /\ UNCHANGED <<news, trips>>

\* handleKey(): a key acts when it is released, on one device or two.
ToggledAll(p, devices) ==
  LET first == IF Len(devices) >= 1 THEN HandlePowerCommand(p, devices[1], "TOGGLE") ELSE p
  IN  IF Len(devices) >= 2 THEN HandlePowerCommand(first, devices[2], "TOGGLE") ELSE first

Key ==
  /\ \E k \in PressedKeys : panel' = Crossed(panel, ToggledAll(panel, KeyDevices(k)))
  /\ UNCHANGED <<news, trips>>

\* handleIPDM(): the running lights follow those of the vehicle.
RunningLights ==
  /\ \E cmd \in {"ON", "OFF"} : panel' = HandlePowerCommand(panel, RUNNING_LIGHTS, cmd)
  /\ UNCHANGED <<news, trips>>

\* The screen and the headlights.
Lights ==
  /\ \/ \E on \in BOOLEAN : panel' = Illum([panel EXCEPT !.power = on])
     \/ \E on \in BOOLEAN : panel' = Illum([panel EXCEPT !.illum = on])
  /\ UNCHANGED <<news, trips>>

\* Commands and requests from outside: a console or an app.
Remote ==
  /\ \E pin \in FaultyPins, cmd \in {"ON", "OFF", "RESET", "PWM"} :
       /\ panel' = Crossed(panel, HandlePowerCommand(panel, pin, cmd))
       /\ news' = IF pin \in panel.tripped \ panel'.tripped
                    THEN Append(news, [pin |-> pin, value |-> FALSE]) ELSE news
  /\ UNCHANGED trips

RequestPower ==
  /\ panel' = HandlePowerStateRequest(panel)
  /\ UNCHANGED <<news, trips>>

\* An output of the keybox trips or recovers, and the keybox says so.
Trip ==
  /\ trips < MaxFaults
  /\ trips' = trips + 1
  /\ \E pin \in FaultyPins \ panel.tripped :
       /\ panel' = [panel EXCEPT !.tripped = @ \cup {pin}, !.on = @ \ {pin}]
       /\ news' = Append(news, [pin |-> pin, value |-> TRUE])

Recover ==
  /\ \E pin \in panel.tripped :
       /\ panel' = [panel EXCEPT !.tripped = @ \ {pin}]
       /\ news' = Append(news, [pin |-> pin, value |-> FALSE])
  /\ UNCHANGED trips

FaultReport ==
  /\ news # << >>
  /\ panel' = HandleFaultReport(panel, Head(news).pin, Head(news).value)
  /\ news' = Tail(news)
  /\ UNCHANGED trips

PanelNext ==
  \/ Claim \/ Key \/ RunningLights \/ Lights \/ Remote \/ RequestPower
  \/ Trip \/ Recover \/ FaultReport

PanelSpec == PanelInit /\ [][PanelNext]_panelVars
-----------------------------------------------------------------------------
\* When no report is on its way, the LED of a switched output shows what the
\* output does: it blinks when the output tripped, and else it is on when the
\* output is.  Left out are outputs that the node believes on after a reset or a
\* recovery (pin_state_ survives both), outputs that were shown when an address
\* was claimed again, and outputs whose report met no address or crossed a command.
LedsTrue ==
  news = << >> =>
    \A l \in DOMAIN Indicated :
      LET pin == Indicated[l]
          stale == pin \in panel.state \ panel.on
      IN  pin \notin PwmPins \cup panel.doubt =>
            /\ panel.led[l] = "BLINK" <=> pin \in panel.tripped
            /\ pin \notin panel.tripped /\ ~stale => (panel.led[l] = "ON" <=> pin \in panel.on)
=============================================================================
