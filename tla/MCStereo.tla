------------------------------ MODULE MCStereo ------------------------------
(* The boot with and without losses, the levels, the media, and the settings *)
(* menu.  A behaviour follows one of them.                          *)
EXTENDS StereoBus

State(kind, body) == [pgn |-> "STATE", kind |-> kind, body |-> body]
Single(kind, x, y) == State(kind, <<<<x, y>>>>)

Power      == {Single("HEARTBEAT", 1, 0), Single("HEARTBEAT", 2, 0)}
Source(s)  == State("SOURCE", <<<<s, s>>, <<Connected, 0>>>>)
\* Tone of another zone, which is ignored with all its frames.
OtherZone  == State("TONE", <<<<1, 1>>, <<1, 1>>>>)

Script(reports, names, requests, boot, loses) ==
  [reports |-> reports, commands |-> {[name |-> n, arg |-> 0] : n \in names},
   requests |-> requests, boot |-> boot, loses |-> loses]

On(s) == <<Answer("PRODUCT"), Answer("ANNOUNCE"), Single("HEARTBEAT", 1, 0), Source(s)>>

BootScript(loses) ==
  Script(Power \cup {Single("POWER", 0, 0), Source("FM"), OtherZone,
                     State("SOURCE", <<<<"FM", "AM">>, <<Connected, 0>>>>)},
         {"POWER_TOGGLE", "SOURCE_NEXT"}, {"SYSTEM_STATE"}, << >>, loses)

VolumeScript ==
  Script(Power \cup {Source("AUX"), Single("MUTE", 1, 0)}
           \cup {Single("VOLUME", z[1], z[2]) : z \in {<<0, 3>>, <<6, 0>>, <<6, 6>>}},
         {"FADE_FRONT", "FADE_REAR"}, {}, <<Answer("PRODUCT")>>, FALSE)

ToneScript ==
  Script(Power \cup {Source("AUX"), OtherZone, Single("BALANCE", 0, 1),
                     State("TONE", <<<<0, 1>>, <<1, -1>>>>), Single("INPUT_GAIN", 0, 1)},
         {"BALANCE_RIGHT", "INPUT_GAIN_INC"}, {}, On("AUX"), FALSE)

MediaScript ==
  Script({Source("BLUETOOTH"), Source("FM"),
          State("TRACK_PLAYBACK", <<<<0, "PAUSE">>, <<0, 0>>, <<0, 0>>>>),
          State("RADIO_FREQUENCY", <<<<0, 0>>, <<1, 0>>>>)},
         {"SOURCE_SET", "SOURCE_PREV", "PLAYBACK_TOGGLE", "PLAYBACK_NEXT", "RADIO_PREV", "TRACK_PLAY"},
         {"RADIO_STATE"}, On("FM"), FALSE)

TextScript ==
  Script({Single("HEARTBEAT", 1, 0), Source("BLUETOOTH"),
          State("TRACK_TITLE", <<<<0, 0>>, <<0, 0>>>>),
          State("TRACK_ALBUM", <<<<0, 0>>, <<0, 0>>, <<0, 0>>, <<0, 0>>>>),
          State("TRACK_ELAPSED", <<<<0, 0>>, <<0, 0>>>>)},
         {"PLAYBACK_NEXT"}, {}, On("BLUETOOTH"), TRUE)

MenuScript ==
  Script({Single("MENU_ITEM_COUNT", 0, 6), State("MENU_ITEM_LIST", <<<<0, 1>>, <<17, 0>>>>)}
           \cup {State("MENU_LOAD", <<<<0, 1>>, <<p, 0>>>>) : p \in {1, 3, 4}},
         {"SETTINGS_OPEN", "SETTINGS_SELECT", "SETTINGS_BACK", "SETTINGS_EXIT"}, {}, On("FM"), FALSE)

MCScripts == {BootScript(TRUE), BootScript(FALSE), VolumeScript, ToneScript, MediaScript, TextScript,
              MenuScript}
=============================================================================
