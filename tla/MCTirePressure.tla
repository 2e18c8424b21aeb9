--------------------------- MODULE MCTirePressure ---------------------------
(* Two pressures besides "no value" would tell no more: positions are told   *)
(* apart by frames in which the sensors differ in any way.                   *)
EXTENDS TirePressure

MCPressures == {0, 1}
=============================================================================
