------------------------------- MODULE Fusion -------------------------------
(* The stereo node (libraries/Controls/src/Controls/Fusion.cpp): discovery   *)
(* and boot of a Fusion head unit, the reassembly of its state frames, the   *)
(* events they become, and the commands of the user that become frames.      *)
(*                                                                           *)
(* The node is one record s.  A handler is an operator that maps the record  *)
(* before a message to the record after it; what it yields on the bus goes   *)
(* into s.shown (the last event of each kind that the displays have seen)    *)
(* and s.sent (the frames it writes to the head unit, in order).             *)
EXTENDS Integers, Sequences, FiniteSetsExt

CONSTANTS
  None,            \* Canny::NullAddress
  VolumeMax,       \* kVolumeMax
  BalanceMax,      \* kBalanceMax
  FadeMax,         \* kFadeMax
  ToneMax,         \* kToneMax
  FadeMultiplier,  \* kFadeMultiplier
  TextMax,         \* data frames of a string that fit in a scratch buffer
  ResetResumes     \* whether Ticker::reset() starts a paused ticker

ASSUME LimitsAssumption ==
  {VolumeMax, BalanceMax, FadeMax, ToneMax, TextMax} \subseteq Nat \ {0}
ASSUME MultiplierAssumption == FadeMultiplier \in Nat \ {0}
ASSUME FadeAssumption       == VolumeMax \div FadeMultiplier <= FadeMax
ASSUME ResetAssumption      == ResetResumes \in BOOLEAN

Systems    == {"UNAVAILABLE", "OFF", "BOOT", "ON", "POWER_ON"}
BootStates == {"UNKNOWN", "DISCOVERED", "ANNOUNCED", "REQUESTED", "POWERING"}
Tickers    == {"paused", "running", "due"}
Texts      == {"TRACK_TITLE", "TRACK_ARTIST", "TRACK_ALBUM"}

BlankItem == [item |-> 0, reload |-> FALSE, type |-> "NONE", text |-> 0]

Fresh == [address |-> None, hu |-> None, system |-> "UNAVAILABLE", boot |-> "UNKNOWN",
         disco |-> "running", timer |-> "paused",
         state |-> "INVALID", ignore |-> FALSE, pgn |-> "NONE", id |-> None, seq |-> 31,
         volume |-> 0, fade |-> 0, balance |-> 0, mute |-> FALSE,
         tone |-> <<0, 0, 0>>, source |-> "AM", secondary |-> None, bt |-> FALSE,
         playback |-> "NO_TRACK", seek |-> "AUTO", frequency |-> 0, gain |-> 0,
         text |-> [k \in Texts |-> 0],
         page |-> 0, item |-> 0, count |-> 0,
         entry |-> BlankItem,
         shown |-> [e \in {} |-> 0], sent |-> << >>]

\* The content of an event that the node keeps.
Kept(s, e) ==
  CASE e = "SYSTEM_STATE" -> s.system
    [] e = "VOLUME_STATE" -> <<s.volume, s.fade, s.balance, s.mute>>
    [] e = "TONE_STATE" -> s.tone
    [] e = "SOURCE_STATE" -> <<s.source, s.bt>>
    [] e = "TRACK_PLAYBACK_STATE" -> s.playback
    [] e = "RADIO_STATE" -> <<s.seek, s.frequency>>
    [] e = "INPUT_STATE" -> s.gain
    [] e = "SETTINGS_MENU_STATE" -> <<s.page, s.item, s.count>>
    [] e = "SETTINGS_ITEM_STATE" -> s.entry
    [] e = "SETTINGS_EXIT_STATE" -> TRUE
    [] OTHER -> s.text[e]

Requestable == {"SYSTEM_STATE", "VOLUME_STATE", "TONE_STATE", "SOURCE_STATE",
                "TRACK_PLAYBACK_STATE", "RADIO_STATE", "INPUT_STATE"} \cup Texts

Yield(s, es)   == [s EXCEPT !.shown = [e \in DOMAIN @ \cup es |->
                                         IF e \in es THEN Kept(s, e) ELSE @[e]]]
YieldIf(c, s, es) == IF c THEN Yield(s, es) ELSE s
Send(s, frame) == [s EXCEPT !.sent = Append(@, frame)]

Reset(ticker) == IF ticker = "paused" /\ ~ResetResumes THEN "paused" ELSE "running"

-----------------------------------------------------------------------------
(* Discovery and boot.                                                       *)

SendStereoDiscovery(s) == Send([s EXCEPT !.disco = Reset(@)], <<"REQUEST", "PRODUCT">>)

SendStateRequests(s) == Send(Send(s, <<"STEREO">>), <<"0C">>)

BootInit(s, hu) ==
  Yield([s EXCEPT !.hu = hu, !.disco = "paused", !.boot = "DISCOVERED",
                  !.timer = "running", !.system = "BOOT"], {"SYSTEM_STATE"})

BootAnnounce(s) ==
  Send([s EXCEPT !.boot = "ANNOUNCED", !.timer = Reset(@)], <<"REQUEST", "ANNOUNCE">>)

BootRequest(s) ==
  SendStateRequests([s EXCEPT !.boot = "REQUESTED", !.timer = Reset(@)])

SourceEvents(source) ==
  CASE source \in {"AM", "FM"} -> {"RADIO_STATE"}
    [] source \in {"AUX", "OPTICAL"} -> {"INPUT_STATE"}
    [] source = "BLUETOOTH" -> {"TRACK_PLAYBACK_STATE"} \cup Texts
    [] OTHER -> {}

\* Fault: the timer is left running.
BootCompleteTimed(s) ==
  Yield([s EXCEPT !.boot = "UNKNOWN"],
        {"VOLUME_STATE", "TONE_STATE", "SOURCE_STATE", "SYSTEM_STATE"} \cup SourceEvents(s.source))

\* Fault: the volume is not among the events sent at the end of a boot.
BootCompleteNoVolume(s) ==
  Yield([s EXCEPT !.boot = "UNKNOWN", !.timer = "paused"],
        {"TONE_STATE", "SOURCE_STATE", "SYSTEM_STATE"} \cup SourceEvents(s.source))

BootComplete(s) ==
  Yield([s EXCEPT !.boot = "UNKNOWN", !.timer = "paused"],
        {"VOLUME_STATE", "TONE_STATE", "SOURCE_STATE", "SYSTEM_STATE"} \cup SourceEvents(s.source))

BootPower(s, power) ==
  IF power
    THEN IF s.system = "POWER_ON" THEN s ELSE
         LET on == Yield([s EXCEPT !.timer = Reset(@), !.system = "POWER_ON"], {"SYSTEM_STATE"})
         IN  [(IF s.boot = "REQUESTED" THEN on ELSE SendStateRequests(on))
                EXCEPT !.boot = "POWERING"]
    ELSE LET off == [s EXCEPT !.system = "OFF"]
         IN  IF s.system = "BOOT" THEN BootComplete(off) ELSE Yield(off, {"SYSTEM_STATE"})

UpdatePower(s, power) ==
  IF s.system = "UNAVAILABLE" THEN SendStereoDiscovery(s)
  ELSE IF s.system # (IF power THEN "ON" ELSE "OFF") THEN BootPower(s, power)
  ELSE s

HandleJ1939Claim(s, address) ==
  LET t == [s EXCEPT !.address = address]
  IN  IF address # None /\ s.hu = None THEN SendStereoDiscovery(t) ELSE t

\* Fault: nothing happens when the stereo does not answer the announcement.
EmitPatient(s) ==
  CASE s.address = None -> s
    [] s.address # None /\ s.hu = None ->
         IF s.disco = "due" THEN SendStereoDiscovery(s) ELSE s
    [] OTHER ->
         IF s.timer # "due" THEN s ELSE
         CASE s.boot = "DISCOVERED" -> BootAnnounce(s)
           [] s.boot \in {"REQUESTED", "POWERING"} -> BootComplete([s EXCEPT !.system = "OFF"])
           [] OTHER -> s

Emit(s) ==
  CASE s.address = None -> s
    [] s.address # None /\ s.hu = None ->
         IF s.disco = "due" THEN SendStereoDiscovery(s) ELSE s
    [] OTHER ->
         IF s.timer # "due" THEN s ELSE
         CASE s.boot = "DISCOVERED" -> BootAnnounce(s)
           [] s.boot = "ANNOUNCED" -> BootRequest(s)
           [] s.boot \in {"REQUESTED", "POWERING"} -> BootComplete([s EXCEPT !.system = "OFF"])
           [] OTHER -> s

-----------------------------------------------------------------------------
(* State frames.  A frame f has its PGN, its source address f.src, counter   *)
(* (f.id, f.seq), the state f.kind that only the first frame of a message    *)
(* names, two bytes of content f.x and f.y, and f.end where the message      *)
(* ends.                                                                     *)

HandleProduct(s, f) ==
  LET t == IF f.seq = 0 THEN BootInit(s, f.src) ELSE s
  IN  IF f.end /\ t.boot = "DISCOVERED" THEN BootAnnounce(t) ELSE t

HandleAnnounce(s, f) == IF f.end /\ s.boot = "ANNOUNCED" THEN BootRequest(s) ELSE s

HandleVolume(s, f) ==
  IF f.seq # 0 THEN s ELSE
  LET volume == IF f.x > f.y THEN f.x ELSE f.y
      gap    == f.x - f.y
      fade   == IF gap # 0 /\ s.fade = 0
                  THEN IF gap > 0 THEN gap \div FadeMultiplier
                                  ELSE - ((- gap) \div FadeMultiplier)
                  ELSE s.fade
      t      == [s EXCEPT !.volume = volume, !.fade = fade]
  IN  YieldIf(t # s, t, {"VOLUME_STATE"})

HandleMute(s, f) ==
  LET t == [s EXCEPT !.mute = (f.x = 1)]
  IN  IF f.seq = 0 THEN YieldIf(t # s /\ s.system = "ON", t, {"VOLUME_STATE"}) ELSE s

HandleBalance(s, f) ==
  LET t == [s EXCEPT !.balance = f.y]
  IN  IF f.seq = 0 /\ f.x = 0 THEN YieldIf(t # s /\ s.system = "ON", t, {"VOLUME_STATE"}) ELSE s

\* The first zone stands for all; the rest of another zone's message is to be
\* ignored.
HandleTone(s, f) ==
  IF f.seq = 0 /\ f.x # 0 THEN [s EXCEPT !.ignore = TRUE] ELSE
  LET t == CASE f.seq = 0 -> [s EXCEPT !.tone[1] = f.y]
             [] f.seq = 1 -> [s EXCEPT !.tone = [@ EXCEPT ![2] = f.x, ![3] = f.y]]
             [] OTHER -> s
  IN  YieldIf(t # s /\ s.system = "ON", t, {"TONE_STATE"})

Connected    == 165  \* 0xA5
Disconnected == 133  \* 0x85

\* Two sources are reported; the one that both agree on is playing.  The
\* second frame ends a power on.
HandleSource(s, f) ==
  CASE f.seq = 0 ->
         [s EXCEPT !.secondary = f.x, !.source = IF f.x = f.y THEN f.y ELSE @]
    [] f.seq = 1 /\ s.source = s.secondary ->
         LET t == IF s.source = "BLUETOOTH" /\ f.x \in {Connected, Disconnected}
                    THEN [s EXCEPT !.bt = (f.x = Connected)] ELSE s
         IN  (CASE s.system = "POWER_ON" -> BootComplete([t EXCEPT !.system = "ON"])
                [] s.system = "ON" -> Yield(t, {"SOURCE_STATE"})
                [] OTHER -> t)
    [] OTHER -> s

\* The times are not kept; a report of them is yielded like the state.
HandleTrackPlayback(s, f) ==
  CASE f.seq = 0 -> [s EXCEPT !.playback = f.y]
    [] f.seq = 2 -> YieldIf(s.system = "ON", s, {"TRACK_PLAYBACK_STATE"})
    [] OTHER -> s

HandleTrackTimeElapsed(s, f) ==
  YieldIf(f.seq = 1 /\ s.system = "ON", s, {"TRACK_PLAYBACK_STATE"})

\* handleString: how many frames of text the buffer holds.  A string whose end
\* does not fit is never complete.
Text(size, f)     == IF f.seq = 0 THEN 0 ELSE Min({size + 1, TextMax})
Complete(size, f) == f.seq > 0 /\ f.end /\ size < TextMax

HandleTrackString(s, f) ==
  YieldIf(Complete(s.text[s.state], f),
          [s EXCEPT !.text[s.state] = Text(@, f)], {s.state})

HandleRadioFrequency(s, f) ==
  IF f.seq = 1
    THEN YieldIf(s.system = "ON", [s EXCEPT !.frequency = f.x], {"RADIO_STATE"})
    ELSE s

HandleInputGain(s, f) ==
  IF f.seq = 0
    THEN YieldIf(s.system = "ON", [s EXCEPT !.gain = f.y], {"INPUT_STATE"})
    ELSE s

-----------------------------------------------------------------------------
(* The settings menu: 1 and 2 load a page, 3 refreshes an item, 4 leaves.    *)

SendMenu(s, page, item) == Send(s, <<"MENU", s.source, page, item>>)

HandleMenuLoad(s, f) ==
  CASE f.seq = 0 -> [s EXCEPT !.item = f.y]
    [] f.seq = 1 ->
         LET t == [s EXCEPT !.page = f.x]
         IN  (CASE f.x \in {1, 2} -> Send(t, <<"COUNT", s.source>>)
                [] f.x = 4 -> Yield(t, {"SETTINGS_EXIT_STATE"})
                [] OTHER -> t)
    [] OTHER -> s

MenuRows == 5

\* Fault: more rows than the display has.
HandleMenuItemCountAll(s, f) ==
  IF f.seq # 0 THEN s ELSE
  Send(Yield([s EXCEPT !.count = f.y], {"SETTINGS_MENU_STATE"}), <<"LIST", s.source, f.y>>)

HandleMenuItemCount(s, f) ==
  IF f.seq # 0 THEN s ELSE
  LET rows == Min({f.y, MenuRows})
  IN  Send(Yield([s EXCEPT !.count = rows], {"SETTINGS_MENU_STATE"}),
           <<"LIST", s.source, rows>>)

ItemType(code, old) ==
  CASE code = 73 -> "SUBMENU"               \* 0x49
    [] code = 17 -> "SELECT"                \* 0x11
    [] code \in {129, 137} -> "CHECKBOX_OFF" \* 0x81, 0x89
    [] code \in {131, 139} -> "CHECKBOX_ON"  \* 0x83, 0x8B
    [] OTHER -> old

HandleMenuItemList(s, f) ==
  LET t == CASE f.seq = 0 -> [s.entry EXCEPT !.item = f.y, !.reload = (s.page = 3)]
             [] f.seq = 1 -> [s.entry EXCEPT !.type = ItemType(f.x, @)]
             [] OTHER -> s.entry
  IN  YieldIf(Complete(t.text, f),
              [s EXCEPT !.entry = [t EXCEPT !.text = Text(@, f)]], {"SETTINGS_ITEM_STATE"})

-----------------------------------------------------------------------------
(* handleJ1939Message.                                                       *)

\* Fault: a frame is taken whatever its place in the message.
DetectAnySeq(s, f) ==
  LET follows == f.seq # 0
      first   == f.seq = 0 /\ (s.pgn # "STATE" \/ f.id # s.id)
  IN  [s EXCEPT !.state = CASE first -> f.kind
                            [] follows /\ ~s.ignore -> @
                            [] OTHER -> "INVALID",
                !.ignore = IF follows THEN FALSE ELSE @,
                !.pgn = "STATE", !.id = f.id, !.seq = f.seq]

\* Which state a frame of the head unit belongs to: the first frame of a
\* message says so, the others follow the frame before them.
Detect(s, f) ==
  LET follows == f.seq # 0 /\ f.seq = s.seq + 1
      first   == f.seq = 0 /\ (s.pgn # "STATE" \/ f.id # s.id)
  IN  [s EXCEPT !.state = CASE first -> f.kind
                            [] follows /\ ~s.ignore -> @
                            [] OTHER -> "INVALID",
                !.ignore = IF follows THEN FALSE ELSE @,
                !.pgn = "STATE", !.id = f.id, !.seq = f.seq]

HandleState(s, f) ==
  CASE s.state = "POWER" -> IF f.seq = 0 THEN UpdatePower(s, f.x # 0) ELSE s
    [] s.state = "HEARTBEAT" -> IF f.seq = 0 THEN UpdatePower(s, f.x # 2) ELSE s
    [] s.state = "VOLUME" -> HandleVolume(s, f)
    [] s.state = "MUTE" -> HandleMute(s, f)
    [] s.state = "BALANCE" -> HandleBalance(s, f)
    [] s.state = "TONE" -> HandleTone(s, f)
    [] s.state = "SOURCE" -> HandleSource(s, f)
    [] s.state = "TRACK_PLAYBACK" -> HandleTrackPlayback(s, f)
    [] s.state \in Texts -> HandleTrackString(s, f)
    [] s.state = "TRACK_ELAPSED" -> HandleTrackTimeElapsed(s, f)
    [] s.state = "RADIO_FREQUENCY" -> HandleRadioFrequency(s, f)
    [] s.state = "INPUT_GAIN" -> HandleInputGain(s, f)
    [] s.state = "MENU_LOAD" -> HandleMenuLoad(s, f)
    [] s.state = "MENU_ITEM_COUNT" -> HandleMenuItemCount(s, f)
    [] s.state = "MENU_ITEM_LIST" -> HandleMenuItemList(s, f)
    [] OTHER -> s

HandleJ1939Message(s, f) ==
  CASE s.address = None -> s
    [] s.address # None /\ f.pgn \in {"PRODUCT", "ANNOUNCE"} ->
         LET t == [s EXCEPT !.state = f.pgn, !.pgn = f.pgn, !.id = f.id, !.seq = f.seq]
         IN  IF f.pgn = "PRODUCT" THEN HandleProduct(t, f) ELSE HandleAnnounce(t, f)
    [] s.address # None /\ f.pgn = "STATE" /\ f.src = s.hu -> HandleState(Detect(s, f), f)
    [] OTHER -> s

-----------------------------------------------------------------------------
(* Commands of the user.  A command c has a name and an argument c.arg.      *)

Clamp(v, lo, hi) == IF v < lo THEN lo ELSE IF v > hi THEN hi ELSE v

SendSourceSet(s, source) == Send(s, <<"SOURCE", source>>)
SendTrack(s, cmd)        == Send(s, <<"TRACK", cmd>>)
SendRadio(s, cmd, freq)  == Send(s, <<"RADIO", s.source, cmd, freq>>)
SendInputGain(s, gain)   == Send(s, <<"GAIN", s.source, gain>>)
SendPower(s, on)         == Send(s, <<"POWER", on>>)
SendMute(s, mute)        == Send(s, <<"MUTE", mute>>)

\* Fault: a fade to the rear reduces the rear.
SendVolumeOneWay(s, volume, f) ==
  LET fade  == Clamp(f, -FadeMax, FadeMax)
      cut   == FadeMultiplier * fade
      zone2 == Clamp(volume - cut, 0, VolumeMax)
      t     == [s EXCEPT !.fade = fade]
  IN  Yield(Send(t, <<"VOLUME", volume, zone2>>), {"VOLUME_STATE"})

\* The fade is kept by the node and sent as the difference of two volumes: the
\* zone that is faded away is reduced.
SendVolume(s, volume, f) ==
  LET fade  == Clamp(f, -FadeMax, FadeMax)
      cut   == FadeMultiplier * fade
      zone1 == IF cut < 0 THEN Clamp(volume + cut, 0, VolumeMax) ELSE volume
      zone2 == IF cut >= 0 THEN Clamp(volume - cut, 0, VolumeMax) ELSE volume
      t     == [s EXCEPT !.fade = fade]
  IN  Yield(Send(t, <<"VOLUME", zone1, zone2>>), {"VOLUME_STATE"})

SendBalance(s, b) ==
  LET balance == Clamp(b, -BalanceMax, BalanceMax)
  IN  Send(Send(s, <<"BALANCE", 0, balance>>), <<"BALANCE", 1, balance>>)

SendTone(s, tone) ==
  LET level == [i \in 1 .. 3 |-> Clamp(tone[i], -ToneMax, ToneMax)]
  IN  Send(Send(s, <<"TONE", 0, level>>), <<"TONE", 1, level>>)

NextSource(source) ==
  CASE source = "BLUETOOTH" -> "AM" [] source = "AM" -> "FM" [] OTHER -> "BLUETOOTH"
PrevSource(source) ==
  CASE source = "AM" -> "BLUETOOTH" [] source = "FM" -> "AM" [] OTHER -> "FM"

SourceCommand(s, c) ==
  CASE c.name = "SOURCE_SET" -> SendSourceSet(s, c.arg)
    [] c.name = "SOURCE_NEXT" -> SendSourceSet(s, NextSource(s.source))
    [] c.name = "SOURCE_PREV" -> SendSourceSet(s, PrevSource(s.source))

ToggleSeek(s) ==
  Yield([s EXCEPT !.seek = IF @ = "AUTO" THEN "MANUAL" ELSE "AUTO"], {"RADIO_STATE"})

Seek(s, direction) == SendRadio(s, <<direction, s.seek>>, s.frequency)

\* In manual mode RADIO_PREV asks for the next frequency, as the code does.
RadioCommand(s, c) ==
  CASE c.name = "RADIO_TUNE" -> SendRadio(s, <<"TUNE">>, c.arg)
    [] c.name = "RADIO_NEXT_AUTO" -> SendRadio(s, <<"NEXT", "AUTO">>, s.frequency)
    [] c.name = "RADIO_PREV_AUTO" -> SendRadio(s, <<"PREV", "AUTO">>, s.frequency)
    [] c.name = "RADIO_NEXT_MANUAL" -> SendRadio(s, <<"NEXT", "MANUAL">>, s.frequency)
    [] c.name = "RADIO_PREV_MANUAL" -> SendRadio(s, <<"PREV", "MANUAL">>, s.frequency)
    [] c.name = "RADIO_TOGGLE_SEEK" -> ToggleSeek(s)
    [] c.name = "RADIO_NEXT" -> Seek(s, "NEXT")
    [] c.name = "RADIO_PREV" -> IF s.seek = "AUTO" THEN Seek(s, "PREV") ELSE Seek(s, "NEXT")

\* What the steering wheel and the screen use: the meaning depends on the
\* source that plays.
PlaybackCommand(s, c) ==
  CASE s.source \in {"AM", "FM"} ->
         (CASE c.name = "PLAYBACK_TOGGLE" -> ToggleSeek(s)
            [] c.name = "PLAYBACK_NEXT" -> Seek(s, "NEXT")
            [] c.name = "PLAYBACK_PREV" -> Seek(s, "PREV"))
    [] s.source = "BLUETOOTH" ->
         (CASE c.name = "PLAYBACK_TOGGLE" ->
                 SendTrack(s, IF s.playback = "PAUSE" THEN "PLAY" ELSE "PAUSE")
            [] c.name = "PLAYBACK_NEXT" -> SendTrack(s, "NEXT")
            [] c.name = "PLAYBACK_PREV" -> SendTrack(s, "PREV"))
    [] s.source \in {"AUX", "OPTICAL"} ->
         (CASE c.name = "PLAYBACK_TOGGLE" -> s
            [] c.name = "PLAYBACK_NEXT" -> SendInputGain(s, s.gain + 1)
            [] c.name = "PLAYBACK_PREV" -> SendInputGain(s, s.gain - 1))
    [] OTHER -> s

\* An increase at the limit sends the volume again.
VolumeCommand(s, c) ==
  CASE c.name = "VOLUME_SET" -> SendVolume(s, c.arg, s.fade)
    [] c.name = "VOLUME_INC" -> SendVolume(s, Min({s.volume + 1, VolumeMax}), s.fade)
    [] c.name = "VOLUME_DEC" -> SendVolume(s, Max({s.volume - 1, 0}), s.fade)
    [] c.name = "FADE_SET" -> SendVolume(s, s.volume, c.arg)
    [] c.name = "FADE_FRONT" -> SendVolume(s, s.volume, s.fade + 1)
    [] c.name = "FADE_REAR" -> SendVolume(s, s.volume, s.fade - 1)
    [] c.name = "VOLUME_MUTE" -> SendMute(s, TRUE)
    [] c.name = "VOLUME_UNMUTE" -> SendMute(s, FALSE)
    [] c.name = "VOLUME_TOGGLE_MUTE" -> SendMute(s, ~s.mute)
    [] c.name = "BALANCE_SET" -> SendBalance(s, c.arg)
    [] c.name = "BALANCE_LEFT" -> SendBalance(s, s.balance - 1)
    [] c.name = "BALANCE_RIGHT" -> SendBalance(s, s.balance + 1)

ToneCommand(s, c) ==
  CASE c.name = "TONE_SET" -> SendTone(s, c.arg)
    [] c.name = "TONE_BASS_INC" -> SendTone(s, [s.tone EXCEPT ![1] = @ + 1])
    [] c.name = "TONE_BASS_DEC" -> SendTone(s, [s.tone EXCEPT ![1] = @ - 1])
    [] c.name = "TONE_MID_INC" -> SendTone(s, [s.tone EXCEPT ![2] = @ + 1])
    [] c.name = "TONE_MID_DEC" -> SendTone(s, [s.tone EXCEPT ![2] = @ - 1])
    [] c.name = "TONE_TREBLE_INC" -> SendTone(s, [s.tone EXCEPT ![3] = @ + 1])
    [] c.name = "TONE_TREBLE_DEC" -> SendTone(s, [s.tone EXCEPT ![3] = @ - 1])

\* Back on the first page leaves the menu.  The event that says so to the
\* displays is constructed as SETTINGS_ITEM_STATE (Audio.h).
SettingsCommand(s, c) ==
  CASE c.name = "SETTINGS_OPEN" -> SendMenu(s, 1, 0)
    [] c.name = "SETTINGS_SELECT" -> SendMenu(s, 2, c.arg)
    [] c.name = "SETTINGS_BACK" ->
         IF s.page = 1
           THEN SendMenu([s EXCEPT !.shown = [e \in DOMAIN @ \cup {"SETTINGS_ITEM_STATE"} |->
                            IF e = "SETTINGS_ITEM_STATE" THEN BlankItem ELSE @[e]]], 4, 0)
           ELSE SendMenu(s, 3, 0)
    [] c.name = "SETTINGS_EXIT" -> SendMenu(s, 4, 0)

SourceCommands == {"SOURCE_SET", "SOURCE_NEXT", "SOURCE_PREV"}
TrackCommands  == [TRACK_PLAY |-> "PLAY", TRACK_PAUSE |-> "PAUSE",
                   TRACK_NEXT |-> "NEXT", TRACK_PREV |-> "PREV"]
RadioCommands  == {"RADIO_TUNE", "RADIO_NEXT_AUTO", "RADIO_PREV_AUTO", "RADIO_NEXT_MANUAL",
                   "RADIO_PREV_MANUAL", "RADIO_TOGGLE_SEEK", "RADIO_NEXT", "RADIO_PREV"}
GainCommands   == {"INPUT_GAIN_SET", "INPUT_GAIN_INC", "INPUT_GAIN_DEC"}
VolumeCommands == {"VOLUME_SET", "VOLUME_INC", "VOLUME_DEC", "VOLUME_MUTE", "VOLUME_UNMUTE",
                   "VOLUME_TOGGLE_MUTE", "BALANCE_SET", "BALANCE_LEFT", "BALANCE_RIGHT",
                   "FADE_SET", "FADE_FRONT", "FADE_REAR"}
ToneCommands   == {"TONE_SET", "TONE_BASS_INC", "TONE_BASS_DEC", "TONE_MID_INC", "TONE_MID_DEC",
                   "TONE_TREBLE_INC", "TONE_TREBLE_DEC"}
PlaybackCommands == {"PLAYBACK_TOGGLE", "PLAYBACK_NEXT", "PLAYBACK_PREV"}
SettingsCommands == {"SETTINGS_OPEN", "SETTINGS_SELECT", "SETTINGS_BACK", "SETTINGS_EXIT"}

GainCommand(s, c) ==
  SendInputGain(s, CASE c.name = "INPUT_GAIN_SET" -> c.arg
                     [] c.name = "INPUT_GAIN_INC" -> s.gain + 1
                     [] c.name = "INPUT_GAIN_DEC" -> s.gain - 1)

\* What a stereo that is on does with a command.
OnCommand(s, c) ==
  CASE c.name \in {"POWER_OFF", "POWER_TOGGLE"} -> SendPower(s, FALSE)
    [] c.name \in SourceCommands -> SourceCommand(s, c)
    [] c.name \in DOMAIN TrackCommands -> SendTrack(s, TrackCommands[c.name])
    [] c.name \in RadioCommands -> RadioCommand(s, c)
    [] c.name \in GainCommands -> GainCommand(s, c)
    [] c.name \in VolumeCommands -> VolumeCommand(s, c)
    [] c.name \in ToneCommands -> ToneCommand(s, c)
    [] c.name \in PlaybackCommands -> PlaybackCommand(s, c)
    [] c.name \in SettingsCommands -> SettingsCommand(s, c)
    [] OTHER -> s

HandleCommand(s, c) ==
  CASE s.system = "OFF" ->
         IF c.name \in {"POWER_ON", "POWER_TOGGLE"} THEN SendPower(s, TRUE) ELSE s
    [] s.system \in {"BOOT", "POWER_ON"} ->
         IF c.name \in {"POWER_OFF", "POWER_TOGGLE"} THEN SendPower(s, FALSE) ELSE s
    [] s.system = "ON" -> OnCommand(s, c)
    [] OTHER -> s

\* A request for one of the states; it reaches handleCommand as well, where its
\* event is none of the commands.
HandleRequest(s, e) == IF e \in Requestable THEN Yield(s, {e}) ELSE s
=============================================================================
