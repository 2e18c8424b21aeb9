------------------------------- MODULE Screen -------------------------------
(* The node of the touch display (HMI.cpp) and the rotary knobs that steer   *)
(* it (Nav.cpp), both on one bus, and the display at the end of a serial     *)
(* line.  The display changes its page on its own or on command, and says so *)
(* in reports that wait in the line until the node reads them.               *)
EXTENDS Integers, Sequences, FiniteSets, SequencesExt

CONSTANTS
  StartPages,  \* pages a behaviour begins with
  TouchPages,  \* pages the driver reaches by touch, or the display by itself
  Buttons,     \* buttons the driver touches
  ScreenEvents,\* events from other nodes
  KnobInputs,  \* turns and presses of the knobs
  LongHold,    \* kPowerLongPressTimeout in units of time
  MaxInputs,   \* bound: inputs of the driver and events, time included
  MaxReports   \* bound: reports that wait in the line

ASSUME ScreenBounds == LongHold \in Nat \ {0} /\ MaxInputs \in Nat /\ MaxReports \in Nat \ {0}

VARIABLES
  hmi,        \* what the display's node keeps
  nav,        \* what the knobs' node keeps
  display,    \* page, page before it, selected row of each page with rows, line in a step
  rx,         \* reports that the node has not read
  inputs,     \* inputs so far
  swallowed,  \* history: a report was read in the place of an answer
  wrong       \* history: the knobs gave a command the display did not show

screenVars == <<hmi, nav, display, rx, inputs, swallowed, wrong>>

RowPages == {"AUDIO_SOURCE", "AUDIO_SETTINGS", "AUDIO_EQ", "SETTINGS_1", "SETTINGS_2", "SETTINGS_3"}
NoRow    == "none"

FreshHMI == [page |-> "SPLASH", power |-> TRUE, bright |-> "HIGH",
             system |-> "OFF", fan |-> 255, temps |-> <<255, 255>>, mute |-> FALSE, volume |-> 0,
             stereo |-> "UNAVAILABLE", source |-> "AM", count |-> 0,
             out |-> << >>,   \* commands to the display
             cmds |-> << >>]  \* commands to other nodes

FreshNav == [power |-> TRUE, illum |-> FALSE, page |-> "NONE", state |-> 0, since |-> 0]

Page(h, p)         == [h EXCEPT !.out = Append(@, <<"page", p>>)]
Back(h)            == [h EXCEPT !.out = Append(@, <<"back", NoRow>>)]
Select(h, p, n)    == [h EXCEPT !.out = Append(@, <<"select", p, n>>)]
SelectHere(h, n)   == Select(h, "here", n)   \* on the page that is shown
SendCmd(h, c)      == [h EXCEPT !.cmds = Append(@, <<c, 0>>)]
SelectItem(h, n)   == [h EXCEPT !.cmds = Append(@, <<"SETTINGS_SELECT_CMD", n>>)]
-----------------------------------------------------------------------------
(* Navigation by the knobs.  Each command of one row asks the display for    *)
(* the selected row first.                                                   *)

\* navUp()
NavUp(h, row) ==
  LET last == CASE h.page = "AUDIO_SETTINGS" -> h.count
                [] h.page = "SETTINGS_3" -> 1
                [] OTHER -> 5
  IN  CASE h.page \in RowPages /\ row < last -> SelectHere(h, row + 1)
        [] h.page = "SETTINGS_1" /\ row >= last -> Page(Select(h, "SETTINGS_2", 1), "SETTINGS_2")
        [] h.page = "SETTINGS_2" /\ row >= last -> Page(Select(h, "SETTINGS_3", 1), "SETTINGS_3")
        [] OTHER -> h

\* navDown(): from the third page of the settings to the first.
NavDown(h, row) ==
  CASE h.page \in RowPages \ {"SETTINGS_3"} /\ row > 1 -> SelectHere(h, row - 1)
    [] h.page = "SETTINGS_2" /\ row <= 1 -> Page(Select(h, "SETTINGS_1", 5), "SETTINGS_1")
    [] h.page = "SETTINGS_3" /\ row <= 1 -> Page(Select(h, "SETTINGS_2", 5), "SETTINGS_1")
    [] OTHER -> h

\* The commands of navLeft(), navRight() and navActivate() by row.
LeftRows ==
  [AUDIO_EQ |-> <<"TONE_BASS_DEC_CMD", "TONE_MID_DEC_CMD", "TONE_TREBLE_DEC_CMD", "FADE_REAR_CMD",
                  "BALANCE_LEFT_CMD">>,
   SETTINGS_1 |-> <<NoRow, "PREV_AUTO_HEADLIGHT_SENS_CMD", "PREV_AUTO_HEADLIGHT_OFF_DELAY_CMD">>,
   SETTINGS_2 |-> <<"PREV_REMOTE_KEY_RESP_LIGHTS_CMD", "PREV_AUTO_RELOCK_TIME_CMD">>]

RightRows ==
  [AUDIO_EQ |-> <<"TONE_BASS_INC_CMD", "TONE_MID_INC_CMD", "TONE_TREBLE_INC_CMD", "FADE_FRONT_CMD",
                  "BALANCE_RIGHT_CMD">>,
   SETTINGS_1 |-> <<NoRow, "NEXT_AUTO_HEADLIGHT_SENS_CMD", "NEXT_AUTO_HEADLIGHT_OFF_DELAY_CMD">>,
   SETTINGS_2 |-> <<"NEXT_REMOTE_KEY_RESP_LIGHTS_CMD", "NEXT_AUTO_RELOCK_TIME_CMD">>]

ActivateRows ==
  [AUDIO_SOURCE |-> <<"BLUETOOTH", "AM", "FM", "AUX", "OPTICAL">>,
   SETTINGS_1 |-> <<"TOGGLE_AUTO_INTERIOR_ILLUM_CMD", NoRow, NoRow, "TOGGLE_SPEED_SENSING_WIPER_CMD",
                    "TOGGLE_REMOTE_KEY_RESP_HORN_CMD">>,
   SETTINGS_2 |-> <<NoRow, NoRow, "TOGGLE_SELECTIVE_DOOR_UNLOCK_CMD", "TOGGLE_SLIDE_DRIVER_SEAT_CMD",
                    "FORGET_CMD">>,
   SETTINGS_3 |-> <<"FACTORY_RESET_CMD">>]

RowCommand(rows, p, row) ==
  IF p \in DOMAIN rows /\ row \in DOMAIN rows[p] THEN rows[p][row] ELSE NoRow

SendRow(h, c) == IF c = NoRow THEN h ELSE SendCmd(h, c)

NavLeft(h, row)  == SendRow(h, RowCommand(LeftRows, h.page, row))
NavRight(h, row) == SendRow(h, RowCommand(RightRows, h.page, row))

\* navActivate(): a row of the stereo's menu is sent as its number, from 0; no
\* row selected becomes 255.
NavActivate(h, row) ==
  IF h.page = "AUDIO_SETTINGS"
    THEN IF row <= h.count THEN SelectItem(h, IF row = 0 THEN 255 ELSE row - 1) ELSE h
    ELSE SendRow(h, RowCommand(ActivateRows, h.page, row))

SourcePages == {"AUDIO_TRACK", "AUDIO_RADIO", "AUDIO_AUX", "AUDIO_POWER_OFF", "AUDIO_NO_STEREO"}
LeftByBack  == {"HOME", "SETTINGS_1", "SETTINGS_2", "SETTINGS_3", "AUDIO_VOLUME", "AUDIO_SOURCE", "BLANK"}

\* navPageNext()
NavPageNext(h) ==
  CASE h.page \in LeftByBack -> Back(h)
    [] h.page = "AUDIO_SETTINGS" -> SendCmd(h, "SETTINGS_EXIT_CMD")
    [] h.page = "CLIMATE" -> Page(h, "AUDIO")
    [] h.page \in SourcePages \cup {"AUDIO", "AUDIO_EQ", "VEHICLE"} -> Page(h, "CLIMATE")
    [] OTHER -> h

\* navPagePrev()
NavPagePrev(h) ==
  CASE h.page \in LeftByBack \cup {"AUDIO_AUX"} -> Back(h)
    [] h.page = "AUDIO_SETTINGS" -> SendCmd(h, "SETTINGS_EXIT_CMD")
    [] h.page = "CLIMATE" -> Page(h, "VEHICLE")
    [] h.page = "VEHICLE" -> Page(h, IF h.stereo # "UNAVAILABLE" THEN "AUDIO" ELSE "CLIMATE")
    [] h.page \in (SourcePages \ {"AUDIO_AUX"}) \cup {"AUDIO", "AUDIO_EQ"} -> Page(h, "CLIMATE")
    [] OTHER -> h

-----------------------------------------------------------------------------
(* Events of the other nodes.  What they write into the display's fields is *)
(* left out: only its page matters here.                                    *)

HeaderPages   == SourcePages \cup {"HOME", "CLIMATE", "AUDIO_VOLUME", "VEHICLE"}
SettingsPages == RowPages \cup {"SETTINGS"}
AudioPages    == SourcePages \cup {"AUDIO", "AUDIO_VOLUME", "AUDIO_SOURCE", "AUDIO_SETTINGS", "AUDIO_EQ"}
AudioSourcePages == SourcePages \cup {"AUDIO_VOLUME", "AUDIO_SOURCE"}

MaybeClimatePopup(h) == IF h.page \in SettingsPages \cup {"CLIMATE"} THEN h ELSE Page(h, "CLIMATE")

Unknown == 255

\* A value that the node knew is another one now.
Moved(old, new) == old # Unknown /\ old # new

HandleClimateAirflow(h, fan) ==
  LET popup == h.page # "CLIMATE" /\ Moved(h.fan, fan) /\ h.system # "AUTO"
  IN  [IF popup THEN MaybeClimatePopup(h) ELSE h EXCEPT !.fan = fan]

HandleClimateTemp(h, temps) ==
  LET popup == h.page # "CLIMATE" /\ \E z \in 1 .. 2 : Moved(h.temps[z], temps[z])
  IN  [IF popup THEN MaybeClimatePopup(h) ELSE h EXCEPT !.temps = temps]

HandleAudioSystem(h, state) ==
  LET g == [h EXCEPT !.stereo = state]
  IN  IF h.page \in AudioPages THEN Page(g, "AUDIO") ELSE g

HandleAudioVolume(h, volume, mute) ==
  LET popup == h.stereo = "ON" /\ h.volume # 0 /\ volume # h.volume /\ ~h.mute /\ ~mute /\ h.page # "SPLASH"
  IN  [IF popup THEN Page(h, "AUDIO_VOLUME") ELSE h EXCEPT !.volume = volume, !.mute = mute]

SourcePage(source) ==
  CASE source \in {"AM", "FM"} -> "AUDIO_RADIO"
    [] source \in {"AUX", "OPTICAL"} -> "AUDIO_AUX"
    [] OTHER -> "AUDIO_TRACK"

HandleAudioSource(h, source) ==
  LET g == [h EXCEPT !.source = source]
  IN  IF h.page \in AudioSourcePages \ {SourcePage(source)} THEN Page(g, "AUDIO") ELSE g

HandleAudioSettingsMenu(h, count) ==
  LET g == [h EXCEPT !.count = count]
  IN  IF h.page = "AUDIO_SETTINGS" THEN Select(g, "AUDIO_SETTINGS", 0) ELSE Page(g, "AUDIO_SETTINGS")

\* power()
Power(h, on) ==
  CASE on /\ h.page = "BLANK" -> Back(h)
    [] ~on /\ h.page # "BLANK" -> Page(h, "BLANK")
    [] OTHER -> h

HandleEvent(h, e) ==
  CASE e.id = "FAN" -> HandleClimateAirflow(h, e.value)
    [] e.id = "TEMPS" -> HandleClimateTemp(h, e.value)
    [] e.id = "CLIMATE" -> [h EXCEPT !.system = e.value]
    [] e.id = "STEREO" -> HandleAudioSystem(h, e.value)
    [] e.id = "VOLUME" -> HandleAudioVolume(h, e.value, FALSE)
    [] e.id = "MUTE" -> HandleAudioVolume(h, h.volume, e.value)
    [] e.id = "SOURCE" -> HandleAudioSource(h, e.value)
    [] e.id = "MENU" -> HandleAudioSettingsMenu(h, e.value)
    [] e.id = "MENU_EXIT" -> Page(h, "AUDIO")
    [] e.id = "POWER_CMD" -> Power(h, e.value)
    [] e.id = "NAV_HOME_CMD" -> Page(h, "HOME")
    [] e.id = "NAV_PAGE_NEXT_CMD" -> NavPageNext(h)
    [] e.id = "NAV_PAGE_PREV_CMD" -> NavPagePrev(h)
    [] e.id \in {"ILLUM", "BRIGHTNESS_CMD"} -> [h EXCEPT !.bright = e.value]
    [] OTHER -> h

-----------------------------------------------------------------------------
(* Touched buttons, by page.                                               *)

ButtonTable ==
  [HOME |-> 6 :> "REQUEST_SETTINGS",
   CLIMATE |-> 2 :> "TURN_OFF_CMD" @@ 17 :> "TOGGLE_AC_CMD" @@ 36 :> "TOGGLE_DEFOG_CMD"
     @@ 37 :> "TOGGLE_DEFROST_CMD" @@ 18 :> "TOGGLE_RECIRCULATE_CMD" @@ 19 :> "CYCLE_AIRFLOW_MODE_CMD"
     @@ 39 :> "INC_FAN_SPEED_CMD" @@ 40 :> "DEC_FAN_SPEED_CMD",
   AUDIO_RADIO |-> 14 :> "POWER_OFF_CMD" @@ 10 :> "RADIO_TOGGLE_SEEK_CMD",
   AUDIO_TRACK |-> 19 :> "POWER_OFF_CMD" @@ 14 :> "SETTINGS_OPEN_CMD",
   AUDIO_AUX |-> 12 :> "POWER_OFF_CMD",
   AUDIO_SOURCE |-> 1 :> "BLUETOOTH" @@ 2 :> "AM" @@ 3 :> "FM" @@ 4 :> "AUX" @@ 10 :> "OPTICAL",
   AUDIO_SETTINGS |-> 30 :> "SETTINGS_EXIT_CMD" @@ 9 :> "SETTINGS_BACK_CMD",
   AUDIO_EQ |-> 9 :> "TONE_BASS_DEC_CMD" @@ 11 :> "TONE_BASS_INC_CMD" @@ 3 :> "TONE_MID_DEC_CMD"
     @@ 6 :> "TONE_MID_INC_CMD" @@ 4 :> "TONE_TREBLE_DEC_CMD" @@ 2 :> "TONE_TREBLE_INC_CMD"
     @@ 5 :> "FADE_REAR_CMD" @@ 7 :> "FADE_FRONT_CMD" @@ 10 :> "BALANCE_LEFT_CMD" @@ 8 :> "BALANCE_RIGHT_CMD",
   AUDIO_POWER_OFF |-> 2 :> "POWER_ON_CMD",
   VEHICLE |-> 28 :> "FRONT_LOCKER" @@ 29 :> "REAR_LOCKER" @@ 27 :> "AIR_COMP",
   SETTINGS_1 |-> 4 :> "TOGGLE_AUTO_INTERIOR_ILLUM_CMD" @@ 6 :> "PREV_AUTO_HEADLIGHT_SENS_CMD"
     @@ 7 :> "NEXT_AUTO_HEADLIGHT_SENS_CMD" @@ 10 :> "PREV_AUTO_HEADLIGHT_OFF_DELAY_CMD"
     @@ 11 :> "NEXT_AUTO_HEADLIGHT_OFF_DELAY_CMD" @@ 14 :> "TOGGLE_SPEED_SENSING_WIPER_CMD"
     @@ 16 :> "TOGGLE_REMOTE_KEY_RESP_HORN_CMD",
   SETTINGS_2 |-> 10 :> "PREV_REMOTE_KEY_RESP_LIGHTS_CMD" @@ 4 :> "NEXT_REMOTE_KEY_RESP_LIGHTS_CMD"
     @@ 6 :> "PREV_AUTO_RELOCK_TIME_CMD" @@ 7 :> "NEXT_AUTO_RELOCK_TIME_CMD"
     @@ 11 :> "TOGGLE_SELECTIVE_DOOR_UNLOCK_CMD" @@ 14 :> "TOGGLE_SLIDE_DRIVER_SEAT_CMD" @@ 16 :> "FORGET_CMD",
   SETTINGS_3 |-> 3 :> "FACTORY_RESET_CMD"]

\* The items of the stereo's menu that the display lists.
ItemButtons == 21 :> 0 @@ 2 :> 1 @@ 3 :> 2 @@ 4 :> 3 @@ 10 :> 4

HandleButton(h, p, button) ==
  CASE p \in DOMAIN ButtonTable /\ button \in DOMAIN ButtonTable[p] -> SendCmd(h, ButtonTable[p][button])
    [] p = "AUDIO_SETTINGS" /\ button \in DOMAIN ItemButtons -> SelectItem(h, ItemButtons[button])
    [] OTHER -> h

-----------------------------------------------------------------------------
(* NavControls.                                                            *)

NavPageOf(p) ==
  CASE p = "CLIMATE" -> "CLIMATE"
    [] p \in (SourcePages \ {"AUDIO_NO_STEREO"}) \cup {"AUDIO", "AUDIO_VOLUME"} -> "AUDIO"
    [] p \in SettingsPages -> "SETTINGS"
    [] OTHER -> "NONE"

\* Fault: a press survives the change of the page.
SetPageHeld(n, p) == [n EXCEPT !.page = p]

\* setPage(): a press that began on another page is dropped.
SetPage(n, p) ==
  [n EXCEPT !.state = IF p = "NONE" \/ p # n.page THEN 0 ELSE @, !.page = p]

\* The knobs after the display's node published its page and its power.
Told(n, h) == [SetPage(n, NavPageOf(h.page)) EXCEPT !.power = h.power]

\* handlePowerInput, handleAudioInput, handleClimateInput, handleSettingsInput:
\* the command of an input, "none" for an input without one.  Inputs are the
\* first knob's press and release, the second's release, and turns of both.
KnobCommand(n, i) ==
  CASE ~n.power -> (IF i \in {"PRESS"} THEN NoRow ELSE "NAV_PAGE_NEXT_CMD")
    [] n.power /\ n.page = "AUDIO" ->
         (CASE i = "RELEASE" -> (IF n.state = 1 THEN "VOLUME_TOGGLE_MUTE_CMD" ELSE NoRow)
            [] i = "RELEASE2" -> "PLAYBACK_TOGGLE_CMD"
            [] i = "UP" -> "VOLUME_INC_CMD"
            [] i = "DOWN" -> "VOLUME_DEC_CMD"
            [] i = "RIGHT" -> "PLAYBACK_NEXT_CMD"
            [] i = "LEFT" -> "PLAYBACK_PREV_CMD"
            [] OTHER -> NoRow)
    [] n.power /\ n.page = "CLIMATE" ->
         (CASE i = "RELEASE" -> "TOGGLE_AUTO_CMD"
            [] i = "RELEASE2" -> "TOGGLE_DUAL_CMD"
            [] i = "UP" -> "INC_DRIVER_TEMP_CMD"
            [] i = "DOWN" -> "DEC_DRIVER_TEMP_CMD"
            [] i = "RIGHT" -> "INC_PASSENGER_TEMP_CMD"
            [] i = "LEFT" -> "DEC_PASSENGER_TEMP_CMD"
            [] OTHER -> NoRow)
    [] n.power /\ n.page = "SETTINGS" ->
         (CASE i = "RELEASE" -> "NAV_ACTIVATE_CMD"
            [] i = "UP" -> "NAV_UP_CMD"
            [] i = "DOWN" -> "NAV_DOWN_CMD"
            [] i = "RIGHT" -> "NAV_RIGHT_CMD"
            [] i = "LEFT" -> "NAV_LEFT_CMD"
            [] OTHER -> NoRow)
    [] OTHER -> NoRow

\* The button of the first knob is followed on the audio page only.
KnobButton(n, i) ==
  CASE n.power /\ n.page = "AUDIO" /\ i = "PRESS" -> [n EXCEPT !.state = 1, !.since = 0]
    [] n.power /\ n.page = "AUDIO" /\ i = "RELEASE" -> [n EXCEPT !.state = 0]
    [] OTHER -> n

-----------------------------------------------------------------------------
(* The display, and the line between it and the node.                       *)

Report(p)       == [type |-> "PAGE", page |-> p]
Touch(p, b)     == [type |-> "BUTTON", page |-> p, button |-> b]
Row(d)          == IF d.page \in RowPages THEN d.row[d.page] ELSE 0

\* The display shows page p; the audio page is a door to the page of the stereo's state.
Shows(d, p) == [d EXCEPT !.before = d.page, !.page = p, !.news = Append(@, Report(p))]
Obeys(d, c, door) ==
  CASE c[1] = "page" -> Shows(d, IF c[2] = "AUDIO" THEN door ELSE c[2])
    [] c[1] = "back" -> Shows(d, d.before)
    [] OTHER -> LET p == IF c[2] = "here" THEN d.page ELSE c[2]
                IN  IF p \in RowPages THEN [d EXCEPT !.row[p] = c[3]] ELSE d

\* What one message makes the node write is two commands at most.
ObeysAll(d, out, door) ==
  LET first == IF Len(out) >= 1 THEN Obeys(d, out[1], door) ELSE d
  IN  IF Len(out) >= 2 THEN Obeys(first, out[2], door) ELSE first

\* The display carries out what the node h wrote, and its reports join the line.
Written(h, line) ==
  LET doors == IF <<"page", "AUDIO">> \in Range(h.out) THEN SourcePages ELSE {"AUDIO_RADIO"}
  IN  \E door \in doors :
        LET d == ObeysAll([display EXCEPT !.news = line], h.out, door)
        IN  /\ display' = [d EXCEPT !.news = << >>]
            /\ rx' = d.news
            /\ Len(rx') <= MaxReports
            /\ hmi' = [h EXCEPT !.out = << >>, !.cmds = << >>]

ScreenInit ==
  /\ \E p \in StartPages :
       /\ hmi = [FreshHMI EXCEPT !.page = p, !.stereo = "ON", !.volume = 1, !.count = 2, !.fan = 1, !.temps = <<1, 1>>]
       /\ nav = SetPage(FreshNav, NavPageOf(p))
       /\ display = [page |-> p, before |-> "HOME", row |-> [q \in RowPages |-> 1], news |-> << >>]
  /\ rx = << >>
  /\ inputs = 0
  /\ swallowed = FALSE
  /\ wrong = FALSE

Input == inputs < MaxInputs /\ inputs' = inputs + 1

\* Fault: whatever message comes is taken for the answer, its first number for a row.
AnsweredUnchecked(value, line) ==
  IF line = << >> THEN [value |-> value, line |-> << >>]
                  ELSE [value |-> IF Head(line).type = "VALUE" THEN Head(line).value ELSE 1,
                        line |-> Append(Tail(line), [type |-> "VALUE", value |-> value])]

\* getVal() blocks until a message came, whatever it is: the oldest in the line.
\* One that is not the answer counts as 0 and is gone, and the answer stays.
Answered(value, line) ==
  IF line = << >> THEN [value |-> value, line |-> << >>]
                  ELSE [value |-> IF Head(line).type = "VALUE" THEN Head(line).value ELSE 0,
                        line |-> Append(Tail(line), [type |-> "VALUE", value |-> value])]

RowCommands == {"NAV_UP_CMD", "NAV_DOWN_CMD", "NAV_LEFT_CMD", "NAV_RIGHT_CMD", "NAV_ACTIVATE_CMD"}

Navigated(h, c, row) ==
  CASE c = "NAV_UP_CMD" -> NavUp(h, row)
    [] c = "NAV_DOWN_CMD" -> NavDown(h, row)
    [] c = "NAV_LEFT_CMD" -> NavLeft(h, row)
    [] c = "NAV_RIGHT_CMD" -> NavRight(h, row)
    [] c = "NAV_ACTIVATE_CMD" -> NavActivate(h, row)

NoItem == <<"SETTINGS_SELECT_CMD", 255>>

\* A knob is turned or pressed: NavControls commands, and the display's node or
\* another one obeys.
Knob ==
  /\ Input
  /\ \E i \in KnobInputs :
       LET c == KnobCommand(nav, i)
           a == Answered(Row(display), rx)
           h == Navigated(hmi, c, a.value)
           meant == Navigated([hmi EXCEPT !.page = display.page], c, Row(display)).cmds
       IN  /\ nav' = KnobButton(nav, i)
           /\ CASE c \in RowCommands ->
                     /\ Written(h, a.line)
                     /\ swallowed' = (swallowed \/ rx # << >>)
                     /\ wrong' = (wrong \/ (~swallowed /\ h.cmds \notin {<< >>, <<NoItem>>, meant}))
                [] c = "NAV_PAGE_NEXT_CMD" ->
                     Written(NavPageNext(hmi), rx) /\ UNCHANGED <<swallowed, wrong>>
                [] OTHER -> UNCHANGED <<hmi, display, rx, swallowed, wrong>>

\* emit() of NavControls: the long press, once.
KnobHeld ==
  /\ nav.state = 1 /\ nav.since >= LongHold
  /\ nav' = [nav EXCEPT !.state = 2]
  /\ UNCHANGED <<hmi, display, rx, inputs, swallowed, wrong>>

KnobTime ==
  /\ nav.state = 1 /\ nav.since < LongHold
  /\ nav' = [nav EXCEPT !.since = @ + 1]
  /\ UNCHANGED <<hmi, display, rx, inputs, swallowed, wrong>>

\* An event of another node.
Notified ==
  /\ Input
  /\ \E e \in ScreenEvents :
       /\ Written(HandleEvent(hmi, e), rx)
       /\ nav' = CASE e.id = "ILLUM" -> [nav EXCEPT !.illum = (e.value = "LOW")]
                   [] e.id = "REQUEST" -> Told(nav, hmi)
                   [] OTHER -> nav
  /\ UNCHANGED <<swallowed, wrong>>

\* The display changes its page by itself, or the driver touches a button.
Touched ==
  /\ Input
  /\ Len(rx) < MaxReports
  /\ \/ \E p \in TouchPages \ {display.page} :
          /\ display' = [Shows(display, p) EXCEPT !.news = << >>]
          /\ rx' = Append(rx, Report(p))
     \/ \E b \in Buttons :
          /\ rx' = Append(rx, Touch(display.page, b))
          /\ UNCHANGED display
  /\ UNCHANGED <<hmi, nav, swallowed, wrong>>

\* handleSerial(), a page report: a new page is published, and with it the power
\* of the display.
PageReport(p) ==
  LET h == IF p = hmi.page THEN hmi ELSE [hmi EXCEPT !.page = p, !.power = (p # "BLANK")]
  IN  /\ hmi' = h
      /\ nav' = IF p = hmi.page THEN nav ELSE Told(nav, h)
      /\ rx' = Tail(rx)
      /\ UNCHANGED <<display, swallowed>>

SwapButton == 23

\* handleVehicleButton(), the swap of tires: its value is asked for as rows are.
SwapTouched ==
  \E value \in {0, 1} :
    LET a == Answered(value, Tail(rx))
    IN  /\ Written(IF a.value = 0 THEN hmi ELSE SendCmd(hmi, "TIRE_SWAP_CMD"), a.line)
        /\ swallowed' = (swallowed \/ Tail(rx) # << >>)
        /\ UNCHANGED nav

\* emit() of HMI: one message of the line.
Reads ==
  /\ rx # << >>
  /\ LET m == Head(rx)
     IN  \/ m.type = "PAGE" /\ PageReport(m.page)
         \/ m.type = "BUTTON" /\ m.page = "VEHICLE" /\ m.button = SwapButton /\ SwapTouched
         \/ /\ m.type = "BUTTON" /\ ~(m.page = "VEHICLE" /\ m.button = SwapButton)
            /\ Written(HandleButton(hmi, m.page, m.button), Tail(rx))
            /\ UNCHANGED <<nav, swallowed>>
         \/ m.type = "VALUE" /\ rx' = Tail(rx) /\ UNCHANGED <<hmi, nav, display, swallowed>>
  /\ UNCHANGED <<inputs, wrong>>

ScreenNext == Knob \/ KnobHeld \/ KnobTime \/ Notified \/ Touched \/ Reads

ScreenSpec == ScreenInit /\ [][ScreenNext]_screenVars
-----------------------------------------------------------------------------
(* Up to the first report that was read in the place of an answer, and in that *)
(* read too, the command that a knob gives on a page of rows is the one of the *)
(* row the driver sees selected, or none.  Reports of a new page and touches   *)
(* wait in the line while navLeft(), navRight() and navActivate() ask for the  *)
(* row; that getVal() makes them a 0, which is no row, is what keeps the row   *)
(* of the old page from being taken for one of the new page.  (The stereo's    *)
(* menu turns no row into item 255, which the stereo does not have.)           *)
EncoderMeant == ~wrong

(* A press of the first knob is followed only while the audio page is shown: a *)
(* page that came meanwhile ends it, so that the timeout of a press begun on   *)
(* the audio page never turns the climate control off, and a release on        *)
(* another page is never taken for the end of that press.                      *)
KnobPressInPage == nav.state # 0 => nav.page = "AUDIO"
=============================================================================
