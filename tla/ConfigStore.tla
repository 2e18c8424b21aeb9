----------------------------- MODULE ConfigStore -----------------------------
(* The tire map in flash (libraries/Platform/src/Platform/Config.cpp).        *)
(*                                                                            *)
(* The last sector of the flash holds a map and its CRC.  Programming a page  *)
(* of NOR flash only turns ones into zeroes; only erasing the sector brings   *)
(* the ones back.  So programming an erased page stores the map, programming  *)
(* the same map again changes nothing, and programming another map leaves the *)
(* AND of both, whose CRC does not fit.  (No AND of the images of two or more *)
(* of the 24 maps carries a valid CRC.)                                       *)
EXTENDS Naturals

Positions == 0..3
Maps      == [Positions -> Positions]
Identity  == [i \in Positions |-> i]

\* The page without a map: all ones, or neither all ones nor a map with its CRC.
CONSTANTS Erased, Garbled

ASSUME PageAssumption == Erased # Garbled /\ Erased \notin Maps /\ Garbled \notin Maps

NoMap == {Erased, Garbled}

VARIABLES
  flash,   \* the page: the map of a valid image, or one of NoMap
  valid,   \* valid_
  data     \* the map in data_

storeVars == <<flash, valid, data>>

\* Fault: a page is taken for a map without its checksum.
LoadUnchecked ==
  IF flash = Erased
    THEN /\ valid' = FALSE
         /\ data' = [i \in Positions |-> 0]
         /\ UNCHANGED flash
    ELSE /\ valid' = TRUE
         /\ data' = flash
         /\ UNCHANGED flash

\* The constructor: load() on the page as it is.
Load ==
  IF flash \in NoMap
    THEN /\ valid' = FALSE
         /\ data' = [i \in Positions |-> 0]
         /\ flash' = Erased
    ELSE /\ valid' = TRUE
         /\ data' = flash
         /\ UNCHANGED flash

\* loadTireMap, just after the constructor.
Loaded(default) == IF valid' THEN data' ELSE default

\* Fault: a page that holds a map is left as it is.
ProgramOnce(m) == IF flash = Erased THEN m ELSE flash

\* The page after programming map m on it.
Program(m) == IF flash \in {Erased, m} THEN m ELSE Garbled

\* saveTireMap with the whole of save().
Save(m) ==
  /\ data' = m
  /\ flash' = Program(m)
  /\ UNCHANGED valid
=============================================================================
