SPECIFICATION CabinSpec
CONSTANTS
  Parts = {"climate", "pin", "panel", "keys", "screen", "menu"}
  StatusFrames <- MCStatusFrames
  TempFrames <- MCTempFrames
  ClimateCommands = {"TOGGLE_AC_CMD", "INC_DRIVER_TEMP_CMD", "DEC_DRIVER_TEMP_CMD", "INC_FAN_SPEED_CMD"}
  CounterMod = 4
  MaxCommands = 2
  MaxLost = 2
  MaxReboots = 1
  Mode = "DRAIN"
  TriggerMs = 3
  CooldownMs = 3
  MaxGap = 3
  Address = Address
  NoAddress = NoAddress
  PressedKeys = {1, 2}
  FaultyPins = {8}
  FullDuty = 255
  NoDuty = 0
  DimDuty = 100
  MaxFaults = 2
  Ladder <- MCLadder
  LongUnits <- MCLong
  Repeat = 2
  StartPages = {"AUDIO_RADIO", "SETTINGS_2", "AUDIO_SETTINGS"}
  TouchPages = {"CLIMATE", "SETTINGS_2", "SETTINGS_3", "BLANK"}
  Buttons = {23, 3}
  ScreenEvents <- MCScreenEvents
  KnobInputs = {"PRESS", "RELEASE", "UP", "DOWN", "LEFT", "RIGHT"}
  LongHold = 2
  MaxInputs = 4
  MaxReports = 3
INVARIANTS
  PressEnds
  NoPhantom
  LedsTrue
  EveryPressAnswered
  EncoderMeant
  KnobPressInPage
PROPERTIES
  CommandsArrive
  OneMenuStep
CHECK_DEADLOCK FALSE
