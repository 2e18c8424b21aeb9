---------------------------- MODULE TirePressure ----------------------------
(* The tire pressure node (TirePressure in                                   *)
(* libraries/Vehicle/src/Vehicle/BCM.cpp) with its map in flash, across      *)
(* swaps, frames and losses of power.  The BCM reports a pressure for each   *)
(* sensor; the map says which sensor is at which position of the car.        *)
EXTENDS ConfigStore

CONSTANTS Pressures,  \* pressures in a frame; 0 where the frame has no value
          None,       \* no map was saved yet
          MaxCuts     \* how often the power fails inside a save

ASSUME PressuresAssumption == 0 \in Pressures
ASSUME NoneAssumption      == None \notin Maps
ASSUME CutsAssumption      == MaxCuts \in Nat

VARIABLES
  powered,
  map,        \* map_: the sensor at each position
  event,      \* event_.data: the pressure at each position
  published,  \* what was last yielded, zero before
  reported,   \* history: the last pressures in a frame since power on
  saved,      \* history: the map of the last save, or None
  cuts        \* how many failures of power inside a save are left

nodeVars == <<map, event, published, reported>>
vars     == <<storeVars, nodeVars, powered, saved, cuts>>

Blank == [i \in Positions |-> 0]

Init ==
  /\ powered = FALSE
  /\ flash = Erased
  /\ valid = FALSE
  /\ data = Blank
  /\ map = Identity
  /\ event = Blank
  /\ published = Blank
  /\ reported = Blank
  /\ saved = None
  /\ cuts = MaxCuts

\* Power on: the constructors of the store and of the node.
Boot ==
  /\ ~powered
  /\ powered' = TRUE
  /\ Load
  /\ map' = Loaded(Identity)
  /\ event' = Blank
  /\ published' = Blank
  /\ reported' = Blank
  /\ UNCHANGED <<saved, cuts>>

PowerOff ==
  /\ powered
  /\ powered' = FALSE
  /\ UNCHANGED <<storeVars, nodeVars, saved, cuts>>

\* handleFrame; an event is yielded when a value changed.
HandleFrame(pressures) ==
  /\ powered
  /\ reported' = pressures
  /\ event' = [i \in Positions |-> pressures[map[i]]]
  /\ published' = IF event' # event THEN event' ELSE published
  /\ UNCHANGED <<storeVars, map, powered, saved, cuts>>

\* A request for the state, or the ticker.
YieldEvent ==
  /\ powered
  /\ published' = event
  /\ UNCHANGED <<storeVars, map, event, reported, powered, saved, cuts>>

Swapped(f, a, b) == [f EXCEPT ![a] = f[b], ![b] = f[a]]

\* Fault: the values of the event stay where they are.
SwapPositionMapOnly(a, b) ==
  IF a \in Positions /\ b \in Positions /\ a # b
    THEN /\ map' = Swapped(map, a, b)
         /\ published' = event
         /\ UNCHANGED <<event, reported>>
    ELSE UNCHANGED nodeVars

\* Fault: the second position is overwritten before it is read.
SwapPositionLost(a, b) ==
  IF a \in Positions /\ b \in Positions /\ a # b
    THEN /\ map' = [map EXCEPT ![a] = map[b]]
         /\ event' = [event EXCEPT ![a] = event[b]]
         /\ published' = event'
         /\ UNCHANGED reported
    ELSE UNCHANGED nodeVars

\* swapPosition: positions that do not exist, and a tire with itself, are
\* left alone.
SwapPosition(a, b) ==
  IF a \in Positions /\ b \in Positions /\ a # b
    THEN /\ map' = Swapped(map, a, b)
         /\ event' = Swapped(event, a, b)
         /\ published' = event'
         /\ UNCHANGED reported
    ELSE UNCHANGED nodeVars

\* TIRE_SWAP_CMD; the map is saved whether it changed or not.
Swap(a, b) ==
  /\ powered
  /\ SwapPosition(a, b)
  /\ Save(map')
  /\ saved' = map'
  /\ UNCHANGED <<powered, cuts>>

\* The power fails inside save(), before the page is programmed or halfway; the
\* map does not count as saved.
SwapCut(a, b) ==
  /\ powered /\ cuts > 0
  /\ SwapPosition(a, b)
  /\ powered' = FALSE
  /\ cuts' = cuts - 1
  /\ data' = map'
  /\ flash' \in {flash, IF flash = map' THEN flash ELSE Garbled}
  /\ UNCHANGED <<valid, saved>>

\* The operands of the command are four bits each; 4 stands for 4 to 15.
Operands == 0..4

Next ==
  \/ Boot
  \/ PowerOff
  \/ \E pressures \in [Positions -> Pressures] : HandleFrame(pressures)
  \/ YieldEvent
  \/ \E a, b \in Operands : Swap(a, b) \/ SwapCut(a, b)

Spec == Init /\ [][Next]_vars

----------------------------------------------------------------------------
TypeOK ==
  /\ flash \in Maps \cup NoMap
  /\ valid \in BOOLEAN
  /\ data \in Maps
  /\ powered \in BOOLEAN
  /\ map \in Maps
  /\ event \in [Positions -> Pressures]
  /\ published \in [Positions -> Pressures]
  /\ reported \in [Positions -> Pressures]
  /\ saved \in Maps \cup {None}
  /\ cuts \in 0..MaxCuts

Permutation(m) == \A i, j \in Positions : m[i] = m[j] => i = j

\* Every sensor is at exactly one position after any sequence of swaps, saves,
\* power failures and boots: no swap and no page of flash makes two positions
\* share a sensor, which would hide a tire.
EveryTireMapped ==
  /\ Permutation(map)
  /\ flash \in Maps => Permutation(flash)

\* The displays show at each position the pressure of the sensor that is there,
\* although the frames come by sensor and positions are swapped between them.
ShownWhereMounted ==
  \A i \in Positions : published[i] = reported[map[i]]

\* A boot brings back the map of the last save that ended, or the default, and
\* never an older map or a mixture of two.
NoOlderMap ==
  [][Boot => map' \in {Identity, saved}]_vars

\* What Config.h says the store is for, "persistent config values across
\* reboots": a boot brings back the map of the last save.
SurvivesReboot ==
  [][Boot /\ saved # None => map' = saved]_vars
=============================================================================
