---------------------------- MODULE SettingsMenu ----------------------------
(* The settings menu over the real bits: the STATE event as its four bytes,  *)
(* the state frames as theirs, and a user who steps through the menu while   *)
(* the BCM answers at once.  It checks that the nine settings packed into    *)
(* the event do not disturb each other, that the two switch statements of a  *)
(* setting are inverse, and that a command is one step of the menu of        *)
(* docs/settings.md.                                                         *)
EXTENDS Integers, Sequences, SettingsCodec

VARIABLES codes,  \* what the BCM stores
          data    \* event_.data

menuVars == <<codes, data>>

----------------------------------------------------------------------------
\* Bits low to low + width - 1 of a byte.
Bits(byte, low, width) == (byte \div 2^low) % 2^width
Clear(byte, low, width) == byte - Bits(byte, low, width) * 2^low

\* Where the getters and setters of the event keep a setting.
Field(i) ==
  CASE i = "interiorIllum" -> [at |-> 0, low |-> 0, width |-> 1]
    [] i = "seat"          -> [at |-> 0, low |-> 1, width |-> 1]
    [] i = "wiper"         -> [at |-> 0, low |-> 2, width |-> 1]
    [] i = "hlSens"        -> [at |-> 1, low |-> 0, width |-> 2]
    [] i = "hlDelay"       -> [at |-> 1, low |-> 4, width |-> 4]
    [] i = "doorUnlock"    -> [at |-> 2, low |-> 0, width |-> 1]
    [] i = "relock"        -> [at |-> 2, low |-> 4, width |-> 4]
    [] i = "keyHorn"       -> [at |-> 3, low |-> 0, width |-> 1]
    [] i = "keyLights"     -> [at |-> 3, low |-> 2, width |-> 2]

Get(d, i) == LET f == Field(i) IN Bits(d[f.at], f.low, f.width)

\* Fault: the mask keeps the bits of the field, so the new value is or-ed in.
SetMerged(d, i, v) ==
  LET f   == Field(i)
      old == Get(d, i)
  IN [d EXCEPT ![f.at] = Clear(@, f.low, f.width)
        + (IF old > v THEN old ELSE v) * 2^f.low]

Set(d, i, v) ==
  LET f == Field(i)
  IN [d EXCEPT ![f.at] = Clear(@, f.low, f.width) + v * 2^f.low]

----------------------------------------------------------------------------
\* The state frames as docs/settings.md lays them out, filled by the BCM.
\* Bytes without a setting are what the examples of the document show.
Frame(f, code) ==
  CASE f = "05" -> <<5, 97, 1, code["seat"], 0, 0, 255, 255>>
    [] f = "10" -> <<16, 17, 97, 1,
                     128 * code["doorUnlock"] + 32 * code["interiorIllum"],
                     30, 36, 8 * code["keyHorn"]>>
    [] f = "21" -> <<33, 64 * code["keyLights"] + 16 * code["relock"],
                     4 * code["hlSens"] + code["hlDelay"] \div 4,
                     10 + 64 * (code["hlDelay"] % 4), 64, 1, 100, 0>>
    [] f = "22" -> <<34, 20 + 128 * code["wiper"], 0, 0, 71, 255, 255, 255>>

\* The bits of a state frame that handleState05/10/21/22 look at.
Extract(i, frame) ==
  LET b(n) == frame[n + 1] IN
  CASE i = "seat"          -> Bits(b(3), 0, 1)
    [] i = "interiorIllum" -> Bits(b(4), 5, 1)
    [] i = "doorUnlock"    -> Bits(b(4), 7, 1)
    [] i = "keyHorn"       -> Bits(b(7), 3, 1)
    [] i = "keyLights"     -> Bits(b(1), 6, 2)
    [] i = "relock"        -> Bits(b(1), 4, 2)
    [] i = "hlSens"        -> Bits(b(2), 2, 2)
    [] i = "hlDelay"       -> 4 * Bits(b(2), 0, 1) + Bits(b(3), 6, 2)
    [] i = "wiper"         -> Bits(b(1), 7, 1)

Take(d, i, code) ==
  Set(d, i, Decode(i, Extract(i, Frame(StateFrame(i), code)), Get(d, i)))

\* The order in which handleState10 and handleState21 store their settings;
\* the frames themselves come in the order of a retrieve on E, then on F.
StoreOrder == <<"interiorIllum", "doorUnlock", "keyHorn", "keyLights",
                "relock", "hlSens", "hlDelay", "wiper", "seat">>

Refresh(d, code) ==
  LET after[n \in 0..Len(StoreOrder)] ==
        IF n = 0 THEN d ELSE Take(after[n - 1], StoreOrder[n], code)
  IN after[Len(StoreOrder)]

----------------------------------------------------------------------------
\* The codes the BCM uses; of the re-lock time it never stores code 3.
Stored(i) == IF i = "relock" THEN 0..2 ELSE Codes(i)

MenuInit ==
  /\ \E bits \in [Toggled -> 0..1], sens \in Stored("hlSens"),
        delay \in Stored("hlDelay"), lights \in Stored("keyLights"),
        relock \in Stored("relock") :
       codes = [i \in AllItems |->
                  CASE i \in Toggled    -> bits[i]
                    [] i = "hlSens"    -> sens
                    [] i = "hlDelay"   -> delay
                    [] i = "keyLights" -> lights
                    [] i = "relock"    -> relock]
  /\ data = [n \in 0..3 |-> 0]

\* A retrieve of all settings.
Retrieve == /\ data' = Refresh(data, codes)
            /\ UNCHANGED codes

\* A command, once the event is known: the BCM stores the code and reports it.
MenuStep(i, dir) ==
  /\ \E code \in CommandCode(i, dir, Get(data, i)) :
       codes' = [codes EXCEPT ![i] = code]
  /\ data = Refresh(data, codes)
  /\ data' = Refresh(data, codes')

MenuNext == Retrieve \/ \E cmd \in Commands : MenuStep(cmd[1], cmd[2])

MenuSpec == MenuInit /\ [][MenuNext]_menuVars

----------------------------------------------------------------------------
\* The menu of docs/settings.md: the values of a setting in their order.
Menu(i) ==
  CASE i = "hlDelay"                -> <<0, 2, 3, 4, 6, 8, 10, 12>>
    [] i \in {"hlSens", "keyLights"} -> <<0, 1, 2, 3>>
    [] i = "relock"                 -> <<0, 1, 5>>
    [] OTHER                        -> <<0, 1>>

Place(d, i) == CHOOSE n \in 1..Len(Menu(i)) : Menu(i)[n] = Get(d, i)

\* The end of the menu that a command points to.
AtEnd(d, i, dir) ==
  \/ dir = "next" /\ Place(d, i) = Len(Menu(i))
  \/ dir = "prev" /\ Place(d, i) = 1

\* A command moves its own setting by one place of the menu (a toggle to the
\* other place), and no other setting in any bit of the event.  Once the
\* settings were retrieved, it is refused exactly at the end it points to.
OneMenuStep ==
  [][menuVars' # menuVars =>
       \A cmd \in Commands :
         /\ MenuStep(cmd[1], cmd[2]) =>
              \A i \in AllItems :
                LET move == Place(data', i) - Place(data, i) IN
                CASE i # cmd[1]        -> move = 0
                  [] cmd[2] = "next"   -> move = 1
                  [] cmd[2] = "prev"   -> move = -1
                  [] cmd[2] = "toggle" -> move \in {-1, 1}
         /\ CommandCode(cmd[1], cmd[2], Get(data', cmd[1])) = {} <=> AtEnd(data', cmd[1], cmd[2])]_menuVars
=============================================================================
