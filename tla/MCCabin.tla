------------------------------ MODULE MCCabin ------------------------------
(* The parts of the cabin side by side: the climate node, the defrost button, *)
(* the keybox panel, the steering keys, the display with its knobs and the    *)
(* settings menu.  They share no state, so a behaviour is one of a single     *)
(* part while the others rest in their first state.                           *)
EXTENDS Climate, MomentaryOutput, PowerPanel, Keys, Screen, SettingsMenu

CONSTANT Parts  \* the parts that run

VARIABLE part

cabinVars == <<part, climateVars, pinVars, panelVars, keyVars, screenVars, menuVars>>

\* Each part at work while the others rest.
ClimateRests == UNCHANGED climateVars
PinRests     == UNCHANGED pinVars
PanelRests   == UNCHANGED panelVars
KeysRest     == UNCHANGED keyVars
ScreenRests  == UNCHANGED screenVars
MenuRests    == UNCHANGED menuVars
BesideClimate == part = "climate" /\ PinRests /\ PanelRests /\ KeysRest /\ ScreenRests /\ MenuRests /\ UNCHANGED part
BesidePin     == part = "pin" /\ ClimateRests /\ PanelRests /\ KeysRest /\ ScreenRests /\ MenuRests /\ UNCHANGED part
BesidePanel   == part = "panel" /\ ClimateRests /\ PinRests /\ KeysRest /\ ScreenRests /\ MenuRests /\ UNCHANGED part
BesideKeys    == part = "keys" /\ ClimateRests /\ PinRests /\ PanelRests /\ ScreenRests /\ MenuRests /\ UNCHANGED part
BesideScreen  == part = "screen" /\ ClimateRests /\ PinRests /\ PanelRests /\ KeysRest /\ MenuRests /\ UNCHANGED part
BesideMenu    == part = "menu" /\ ClimateRests /\ PinRests /\ PanelRests /\ KeysRest /\ ScreenRests /\ UNCHANGED part

CabinInit ==
  /\ part \in Parts
  /\ ClimateInit /\ PinInit /\ PanelInit /\ KeysInit
  /\ ScreenInit /\ (part # "screen" => display.page = "SETTINGS_2")
  /\ MenuInit /\ (part # "menu" => codes = [i \in AllItems |-> 0])

CabinNext ==
  \/ BesideClimate /\ ClimateNext
  \/ BesidePin /\ PinNext
  \/ BesidePanel /\ PanelNext
  \/ BesideKeys /\ KeysNext
  \/ BesideScreen /\ ScreenNext
  \/ BesideMenu /\ MenuNext

\* The fairness of ClimateSpec.
CabinSpec ==
  /\ CabinInit /\ [][CabinNext]_cabinVars
  /\ WF_cabinVars(Emit /\ BesideClimate) /\ WF_cabinVars(Hundred /\ BesideClimate)
-----------------------------------------------------------------------------
(* The instance of the climate node. *)
StatusFrame(vents, off, auto, ac, single, fan) ==
  [vents |-> vents, off |-> off, auto |-> auto, ac |-> ac, single |-> single, fan |-> fan, recirc |-> FALSE]

\* Off; automatic; windshield at full speed; a code of the vents without meaning.
MCStatusFrames ==
  {StatusFrame("OFF", TRUE, FALSE, FALSE, TRUE, 0), StatusFrame("AUTO_FACE", FALSE, TRUE, TRUE, FALSE, 7),
   StatusFrame("WINDSHIELD", FALSE, FALSE, TRUE, FALSE, 15), StatusFrame("UNKNOWN", FALSE, FALSE, FALSE, FALSE, 3)}

MCTempFrames == {<<0, 0, 0, "METRIC">>}

(* The instance of the keys: the ladders of the steering wheel. *)
MCLadder == [POWER |-> "A", SEEK_UP |-> "A", MODE |-> "B", VOLUME_DOWN |-> "B", NAV |-> "C"]
MCLong   == [POWER |-> 3, NAV |-> 1]

(* The instance of the display. *)
MCScreenEvents ==
  {[id |-> "VOLUME", value |-> 2], [id |-> "MENU", value |-> 2], [id |-> "POWER_CMD", value |-> FALSE],
   [id |-> "REQUEST", value |-> 0]}
=============================================================================
