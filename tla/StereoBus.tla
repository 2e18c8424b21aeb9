----------------------------- MODULE StereoBus -----------------------------
(* The stereo node on its J1939 bus: a head unit that answers discovery and  *)
(* reports its state in messages of several frames, a bus that loses frames, *)
(* an address that is claimed and given up, time, and a user.                *)
EXTENDS Fusion

CONSTANTS
  Address, Stereo,  \* addresses of the node and of the head unit
  NumIds,           \* how many message identifiers the counter has, 8 in the code
  Scripts           \* what the head unit and the user do in one behaviour: a set
                    \* of [reports |-> messages, commands |-> commands,
                    \* requests |-> events, boot |-> the messages that the head
                    \* unit begins with, loses |-> whether frames are lost]

ASSUME IdsAssumption == NumIds \in Nat \ {0, 1, 2}

\* Frame i of message m.
FrameOf(m, i, id) ==
  [pgn |-> m.pgn, src |-> Stereo, id |-> id, seq |-> i - 1, kind |-> m.kind,
   x |-> m.body[i][1], y |-> m.body[i][2], end |-> i = Len(m.body)]

\* The head unit's answer to a request.
Answer(pgn) == [pgn |-> pgn, kind |-> "NONE", body |-> <<<<0, 0>>, <<0, 0>>>>]

ASSUME NoneAssumption == None \notin {Address, Stereo, Answer("PRODUCT"), Answer("ANNOUNCE")}

\* States that are reported in several frames.
Spans == {"TONE", "SOURCE", "TRACK_PLAYBACK", "TRACK_ELAPSED", "RADIO_FREQUENCY",
          "MENU_LOAD", "MENU_ITEM_LIST"} \cup Texts

\* The levels that the head unit reports are within the limits that the node
\* keeps when it sets them; the node does not check them.
Fits(kind, f) ==
  /\ kind = "VOLUME" => {f.x, f.y} \subseteq 0 .. VolumeMax
  /\ kind = "BALANCE" => f.y \in -BalanceMax .. BalanceMax
  /\ kind = "TONE" => f.y \in -ToneMax .. ToneMax /\ (f.seq # 0 => f.x \in -ToneMax .. ToneMax)
  /\ kind = "MENU_ITEM_COUNT" => f.y \in Nat

\* What the head unit sends in script s.
Sendable(s) ==
  s.reports \cup {s.boot[n] : n \in DOMAIN s.boot} \cup {Answer("PRODUCT"), Answer("ANNOUNCE")}

ASSUME ReportsAssumption ==
  \A s \in Scripts :
    /\ s.boot \in Seq(Sendable(s))
    /\ \A m \in Sendable(s) \ {Answer("PRODUCT"), Answer("ANNOUNCE")} :
         /\ m # None /\ m.pgn = "STATE" /\ Len(m.body) \in Nat \ {0}
         /\ m.kind \in Spans => Len(m.body) > 1
         /\ \A i \in 1 .. Len(m.body) : i = 1 \/ m.kind \in Spans => Fits(m.kind, FrameOf(m, i, None))
    /\ \A c \in s.commands : c.name = "FADE_SET" => c.arg \in Int

VARIABLES
  node,    \* the record of module Fusion
  script,  \* the member of Scripts that this behaviour follows
  claim,   \* what the gateway has done: "none", "held" or "lost"
  asked,   \* requests of the node that the head unit has not answered
  ahead,   \* messages of script.boot that are not over
  wire,    \* the message under way, the frame that comes next and its identifier
  loss,    \* "lost" after a frame was lost, "mending" in the next message
  head,    \* history: identifier of the last first frame that the node took
  mixed    \* history: a frame was taken for a part of a message it is not in

vars == <<node, script, claim, asked, ahead, wire, loss, head, mixed>>

Init ==
  /\ script \in Scripts
  /\ node = Fresh
  /\ claim = "none"
  /\ asked = {}
  /\ ahead = script.boot
  /\ wire = [message |-> None, next |-> 0, id |-> 0]
  /\ loss = "none"
  /\ head = None
  /\ mixed = FALSE

Asked(s) == {s.sent[i][2] : i \in {j \in DOMAIN s.sent : s.sent[j][1] = "REQUEST"}}

\* The node handles something: its frames go out.
Does(s, pending) ==
  /\ node' = [s EXCEPT !.sent = << >>]
  /\ asked' = pending \cup Asked(s)

BusUnchanged == UNCHANGED <<script, claim, ahead, wire, loss, head, mixed>>

\* The gateway claims the address, and may give it up for good.
Claims ==
  /\ \/ /\ claim = "none"
        /\ Does(HandleJ1939Claim(node, Address), asked)
        /\ claim' = "held"
     \/ /\ claim = "held"
        /\ Does(HandleJ1939Claim(node, None), asked)
        /\ claim' = "lost"
  /\ UNCHANGED <<script, ahead, wire, loss, head, mixed>>

\* Time passes for one of the tickers.
Tick ==
  /\ \/ /\ node.timer = "running"
        /\ node' = [node EXCEPT !.timer = "due"]
     \/ /\ node.disco = "running"
        /\ node' = [node EXCEPT !.disco = "due"]
  /\ UNCHANGED asked
  /\ BusUnchanged

Emits == Does(Emit(node), asked) /\ BusUnchanged

UserCommand ==
  /\ \E c \in script.commands : Does(HandleCommand(node, c), asked)
  /\ BusUnchanged

UserRequest ==
  /\ \E e \in script.requests : Does(HandleRequest(node, e), asked)
  /\ BusUnchanged

\* After frame i of message m.
Onward(m, i, id) ==
  /\ wire' = IF i < Len(m.body) THEN [message |-> m, next |-> i + 1, id |-> id]
                                ELSE [message |-> None, next |-> 0, id |-> id]
  /\ ahead' = IF i < Len(m.body) \/ ahead = << >> THEN ahead ELSE Tail(ahead)
  /\ UNCHANGED <<script, claim>>

\* What the node knows of the stereo, without its place in the messages.
Content(s) == [s EXCEPT !.state = "NONE", !.ignore = FALSE, !.pgn = "NONE", !.id = None, !.seq = 0]

Deliver(m, i, id) ==
  LET s == HandleJ1939Message(node, FrameOf(m, i, id))
      l == IF loss = "lost" /\ i = 1 THEN "mending" ELSE loss
  IN  /\ Does(s, IF i = 1 THEN asked \ {m.pgn} ELSE asked)
      /\ head' = IF i = 1 THEN id ELSE head
      /\ mixed' = (mixed \/ (m.pgn = "STATE" /\ i > 1 /\ head # id /\ Content(s) # Content(node)))
      /\ loss' = IF l = "mending" /\ i = Len(m.body) THEN "none" ELSE l
      /\ Onward(m, i, id)

\* Losses are isolated: between two of them a message arrives whole.
Lose(m, i, id) ==
  /\ script.loses
  /\ ahead = << >>
  /\ loss = "none"
  /\ loss' = "lost"
  /\ asked' = IF i = 1 THEN asked \ {m.pgn} ELSE asked
  /\ Onward(m, i, id)
  /\ UNCHANGED <<node, head, mixed>>

\* What the head unit may send next: the messages of script.boot in their order
\* once the node can hear them, then any report, or an answer.
Offered ==
  CASE ahead = << >> -> script.reports \cup {Answer(pgn) : pgn \in asked}
    [] ahead # << >> /\ claim # "none" -> {Head(ahead)}
    [] OTHER -> {}

\* The head unit starts a message.
Begin ==
  /\ wire.message = None
  /\ \E m \in Offered :
       LET id == (wire.id + 1) % NumIds
       IN  Deliver(m, 1, id) \/ Lose(m, 1, id)

Continue ==
  /\ wire.message # None
  /\ \/ Deliver(wire.message, wire.next, wire.id)
     \/ Lose(wire.message, wire.next, wire.id)

Next ==
  \/ Claims \/ Tick \/ Emits \/ UserCommand \/ UserRequest
  \/ Begin \/ Continue

\* The processing core's loop calls emit() without end, and time passes.
Fairness == WF_vars(Tick) /\ WF_vars(Emits)

Spec == Init /\ [][Next]_vars /\ Fairness
-----------------------------------------------------------------------------
TypeOK ==
  /\ node.address \in {None, Address}
  /\ node.hu \in {None, Stereo}
  /\ node.system \in Systems
  /\ node.boot \in BootStates
  /\ {node.disco, node.timer} \subseteq Tickers
  /\ node.fade \in -FadeMax .. FadeMax
  /\ node.count \in 0 .. MenuRows
  /\ node.sent = << >>
  /\ asked \subseteq {"PRODUCT", "ANNOUNCE"}

\* The timer of the boot, which also serves discovery of the state and power
\* on, is never left running under a stereo that is on: emit() would turn it
\* off in the middle of a song.
OnUndisturbed == node.system = "ON" => node.timer = "paused"

\* While the stereo is on, the displays show the state, the volume and the tone
\* that the node keeps, and where nothing is lost the source between two
\* messages, although what changed during boot and power on was not published then.
ShownCurrent ==
  LET Shows(e) == e \in DOMAIN node.shown /\ node.shown[e] = Kept(node, e)
  IN  /\ node.system # "UNAVAILABLE" => Shows("SYSTEM_STATE")
      /\ node.system = "ON" => Shows("VOLUME_STATE") /\ Shows("TONE_STATE")
      /\ node.system = "ON" /\ claim = "held" /\ ~script.loses /\ wire.message = None => Shows("SOURCE_STATE")

\* As long as losses are isolated, no frame changes anything in the name of a
\* message it is not part of.
Attributed == ~mixed

\* A boot ends, whatever answers are lost, unless the address is.
BootEnds == (node.system = "BOOT") ~> (node.system # "BOOT" \/ node.address = None)

\* The stereo applies a frame it is sent and reports it back.
ReportBack(s, q) ==
  LET f == [seq |-> 0, x |-> q[2], y |-> q[3]]
  IN  CASE q[1] = "VOLUME" -> HandleVolume(s, f)
        [] q[1] = "BALANCE" -> HandleBalance(s, f)
        [] q[1] = "TONE" /\ q[2] = 0 ->
             HandleTone(HandleTone(s, [seq |-> 0, x |-> 0, y |-> q[3][1]]),
                        [seq |-> 1, x |-> q[3][2], y |-> q[3][3]])
        [] OTHER -> s

Echo(s) ==
  LET Through[i \in 0 .. Len(s.sent)] ==
        IF i = 0 THEN s ELSE ReportBack(Through[i - 1], s.sent[i])
  IN  Through[Len(s.sent)]

Levels(s) == <<s.volume, s.fade, s.balance, s.tone>>

\* What a command means for the levels.
Meant(s, name) ==
  LET Up(v, top)   == Min({v + 1, top})
      Down(v, low) == Max({v - 1, low})
      Band(i, v)   == <<s.volume, s.fade, s.balance, [s.tone EXCEPT ![i] = v]>>
  IN  CASE name = "VOLUME_INC" -> <<Up(s.volume, VolumeMax), s.fade, s.balance, s.tone>>
        [] name = "VOLUME_DEC" -> <<Down(s.volume, 0), s.fade, s.balance, s.tone>>
        [] name = "FADE_FRONT" -> <<s.volume, Up(s.fade, FadeMax), s.balance, s.tone>>
        [] name = "FADE_REAR" -> <<s.volume, Down(s.fade, -FadeMax), s.balance, s.tone>>
        [] name = "BALANCE_LEFT" -> <<s.volume, s.fade, Down(s.balance, -BalanceMax), s.tone>>
        [] name = "BALANCE_RIGHT" -> <<s.volume, s.fade, Up(s.balance, BalanceMax), s.tone>>
        [] name = "TONE_BASS_INC" -> Band(1, Up(s.tone[1], ToneMax))
        [] name = "TONE_MID_DEC" -> Band(2, Down(s.tone[2], -ToneMax))
        [] name = "TONE_TREBLE_INC" -> Band(3, Up(s.tone[3], ToneMax))

\* A step of the volume, the fade, the balance or the tone moves that level by
\* one and no other, although fade and volume travel as the volumes of two
\* zones and the fade is never reported back.
EchoAsMeant ==
  node.system = "ON" =>
    \A name \in {"VOLUME_INC", "VOLUME_DEC", "FADE_FRONT", "FADE_REAR", "BALANCE_LEFT",
                 "BALANCE_RIGHT", "TONE_BASS_INC", "TONE_MID_DEC", "TONE_TREBLE_INC"} :
      Levels(Echo(HandleCommand(node, [name |-> name, arg |-> 0]))) = Meant(node, name)
=============================================================================
