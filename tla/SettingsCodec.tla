---------------------------- MODULE SettingsCodec ----------------------------
(* The two encodings of a body control setting and the tables that lead from *)
(* one to the other (libraries/Vehicle/src/Vehicle/Settings.cpp).            *)
(*                                                                           *)
(* The BCM stores a setting as a small CODE and reports it in the bits of a  *)
(* state frame; the node keeps it as a VALUE in the bits of its STATE event. *)
(* handleState05/10/21/22 turn codes into values; the toggle/next/prev       *)
(* methods look at the value and choose the code to send.  The two           *)
(* directions are separate switch statements, so they are separate tables    *)
(* here as well.                                                             *)
EXTENDS Naturals

AllItems == {"interiorIllum", "hlSens", "hlDelay", "wiper", "keyHorn",
             "keyLights", "relock", "doorUnlock", "seat"}

Channels == {"E", "F"}

\* The channel (frame id 0x71E or 0x71F) a setting is changed on.
ItemChannel(i) == IF i = "seat" THEN "F" ELSE "E"

\* The state frame (its first byte) that reports a setting.
StateFrame(i) ==
  CASE i = "seat"                                     -> "05"
    [] i \in {"interiorIllum", "doorUnlock", "keyHorn"} -> "10"
    [] i \in {"keyLights", "relock", "hlSens", "hlDelay"} -> "21"
    [] i = "wiper"                                    -> "22"

\* The codes the bits of a state frame can hold for a setting.
Codes(i) ==
  CASE i = "hlDelay"                          -> 0..7
    [] i \in {"hlSens", "keyLights", "relock"} -> 0..3
    [] OTHER                                  -> 0..1

\* The off delay as the event stores it, in units of 15 s.
DelayOf  == [code \in 0..7 |-> <<3, 0, 2, 4, 6, 8, 10, 12>>[code + 1]]
\* The re-lock time in minutes; code 3 has no case in the switch.
RelockOf == [code \in 0..2 |-> <<1, 0, 5>>[code + 1]]
SensOf   == [code \in 0..3 |-> (code + 1) % 4]

\* The value the event holds after a frame reported code; old is kept where
\* the code's switch has no case for it.
Decode(i, code, old) ==
  CASE i = "hlDelay" -> DelayOf[code]
    [] i = "hlSens"  -> SensOf[code]
    [] i = "relock"  -> IF code \in 0..2 THEN RelockOf[code] ELSE old
    [] i = "wiper"   -> 1 - code
    [] OTHER         -> code

----------------------------------------------------------------------------
\* The commands of SettingsEvent that change one setting.
Toggled  == {"interiorIllum", "wiper", "keyHorn", "doorUnlock", "seat"}
Stepped  == AllItems \ Toggled
Commands == (Toggled \X {"toggle"}) \cup (Stepped \X {"next", "prev"})

\* What a command sends, as pairs <<value in the event, code to send>>.  A
\* value without a pair is refused: the method returns false.
CommandTable(i, dir) ==
  CASE i = "wiper"                          -> {<<0, 0>>, <<1, 1>>}
    [] i \in Toggled \ {"wiper"}            -> {<<0, 1>>, <<1, 0>>}
    [] i = "hlSens" /\ dir = "next"         -> {<<0, 0>>, <<1, 1>>, <<2, 2>>}
    [] i = "hlSens" /\ dir = "prev"         -> {<<1, 3>>, <<2, 0>>, <<3, 1>>}
    [] i = "keyLights" /\ dir = "next"      -> {<<v, v + 1>> : v \in 0..2}
    [] i = "keyLights" /\ dir = "prev"      -> {<<v, v - 1>> : v \in 1..3}
    [] i = "relock" /\ dir = "next"         -> {<<0, 0>>, <<1, 2>>}
    [] i = "relock" /\ dir = "prev"         -> {<<1, 1>>, <<5, 0>>}
    [] i = "hlDelay" /\ dir = "next"        ->
         {<<0, 2>>, <<2, 0>>, <<3, 3>>, <<4, 4>>, <<6, 5>>, <<8, 6>>, <<10, 7>>}
    [] i = "hlDelay" /\ dir = "prev"        ->
         {<<2, 1>>, <<3, 2>>, <<4, 0>>, <<6, 3>>, <<8, 4>>, <<10, 5>>, <<12, 6>>}

\* The codes (one or none) that a command sends when the event holds v.
CommandCode(i, dir, v) == {code \in 0..7 : <<v, code>> \in CommandTable(i, dir)}
=============================================================================
