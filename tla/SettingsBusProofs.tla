-------------------------- MODULE SettingsBusProofs --------------------------
(* What the settings node and the BCM do together: proofs, for every set of   *)
(* settings, every deadline, any number of commands and of lost frames.       *)
(*                                                                            *)
(* The node of the bus is the node of Settings, so what is proved of it       *)
(* carries over.  With a prompt BCM a channel has at most one request or its  *)
(* answer on its way, for the state that the one active sequence is in; the   *)
(* rest of the invariant says what mode the BCM is in and which frames the    *)
(* event has seen by then.                                                    *)
EXTENDS SettingsBus, SettingsRefinement, SequenceTheorems

----------------------------------------------------------------------------
\* Types of what is on its way, in both regimes.
Req == {r \in [state : States \ {"READY"}, value : 0..255] :
          \A i \in Items : r.state = i => r.value \in Codes(i)}
Rep == {r \in [frame : Responses, code : [Items -> 0..7]] :
          r.code \in Payload[r.frame]}

BusTypeOK ==
  /\ requests \in [Channels -> Seq(Req)]
  /\ replies \in [Channels -> Seq(Rep)]
  /\ inMode \in [Channels -> BOOLEAN]
  /\ DOMAIN codes = Items
  /\ \A i \in Items : codes[i] \in Codes(i)
  /\ published \in [Items -> 0..12]
  /\ outcome \in [Channels -> Outcomes]
  /\ prompt \in BOOLEAN

\* An update is for a setting of its own channel, with a code of that setting.
Valued ==
  \A u \in Updates : update[u] \in Items =>
    /\ value[u] \in Codes(update[u])
    /\ Update(ItemChannel(update[u])) = u

\* Only a sequence that reads its second pair of frames has seen one of them.
Halved == \A s \in Seqs : second[s] => state[s] = "RETRIEVE_71E_2X"

\* The displays have the event unless it has news.
Fresh == ~available => published = event

----------------------------------------------------------------------------
\* The event has what the BCM stores of the settings in a frame.
Shows(f) == \A i \in Items :
              StateFrame(i) = f => event[i] = Decode(i, codes[i], event[i])

FramesOf(c) == IF c = "E" THEN {"10", "21", "22"} ELSE {"05"}

Waits(s) == Active(s) /\ sent[s] /\ age[s] < Timeout

\* The request of s is on its way to a BCM that will serve it.
Requested(c, s) ==
  /\ requests[c] = <<Request(s)>>
  /\ replies[c] = <<>>
  /\ Serves(c, state[s])
  /\ ~second[s]

\* The BCM has served it, and its answer is on its way.
Answered(c, s) ==
  /\ requests[c] = <<>>
  /\ \/ /\ state[s] # "RETRIEVE_71E_2X"
        /\ replies[c] = Answers(state[s])
     \/ /\ state[s] = "RETRIEVE_71E_2X"
        /\ \/ replies[c] = <<Reply("21"), Reply("22")>> /\ ~second[s]
           \/ replies[c] = <<Reply("22")>> /\ (second[s] => Shows("21"))
  /\ inMode[c] = (state[s] # "EXIT")
  /\ s \in Updates /\ state[s] = update[s] => codes[update[s]] = value[s]

\* One exchange at a time.
OnTheWay(c) ==
  \/ Drained(c)
  \/ \E s \in On(c) : Waits(s) /\ (Requested(c, s) \/ Answered(c, s))

\* What has been done by the state a sequence is in.
Moded(c, s) ==
  /\ Active(s) /\ state[s] \notin {"ENTER", "EXIT"} => inMode[c]
  /\ state[s] = "EXIT" /\ ~sent[s] => inMode[c]
  /\ ~sent[s] => ~second[s]

Stored(s) ==
  s \in Updates /\ state[s] \in RetrieveStates \cup {"EXIT"}
    => codes[update[s]] = value[s]

Seen(c, s) ==
  s \notin Inits =>
    /\ state[s] = "RETRIEVE_71E_2X" => Shows("10")
    /\ state[s] = "EXIT" => \A f \in FramesOf(c) : Shows(f)

Done(c) ==
  outcome[c] = "complete" =>
    /\ Ready(c) /\ Drained(c) /\ ~inMode[c]
    /\ \A f \in FramesOf(c) : Shows(f)

ChannelInv(c) ==
  /\ OnTheWay(c)
  /\ \A s \in On(c) : Moded(c, s) /\ Stored(s) /\ Seen(c, s)
  /\ Done(c)

PromptInv == prompt => \A c \in Channels : ChannelInv(c)
\* The invariant of both regimes.
BusInv == TypeOK /\ Exclusive /\ OnCourse /\ BusTypeOK /\ Valued /\ Halved /\ Fresh

----------------------------------------------------------------------------
\* Lemmas about the tables and the frames.

\* A state frame belongs to one channel, and is no name of a state.
LEMMA FramesSplit ==
  /\ \A i \in AllItems : StateFrame(i) \in StateFrames
  /\ \A i \in AllItems, c \in Channels :
       StateFrame(i) \in FramesOf(c) <=> ItemChannel(i) = c
  /\ StateFrames \cap States = {}
<1>1. \A i \in AllItems : /\ StateFrame(i) \in StateFrames
                          /\ \A c \in Channels :
                               StateFrame(i) \in FramesOf(c) <=> ItemChannel(i) = c
  BY DEF AllItems, StateFrame, StateFrames, FramesOf, ItemChannel, Channels
<1>2. \A f \in {"05", "10", "21", "22"} :
        f \notin {"READY", "ENTER", "EXIT", "RESET", "INIT_00", "INIT_20", "INIT_40",
                 "INIT_60", "RETRIEVE_71E_10", "RETRIEVE_71E_2X", "RETRIEVE_71F_05"}
  OBVIOUS
<1>3. StateFrames \cap AllItems = {}
  BY DEF StateFrames, AllItems
<1> QED BY <1>1, <1>2, <1>3, ItemsAssumption
        DEF StateFrames, States, InitStates, RetrieveStates

\* What a command sends is a code of its setting.
LEMMA CommandSends ==
  ASSUME NEW cmd \in Commands, NEW v, NEW code \in CommandCode(cmd[1], cmd[2], v)
  PROVE  code \in Codes(cmd[1])
<1> DEFINE i == cmd[1]
           dir == cmd[2]
<1>1. i \in AllItems /\ code \in 0..7 /\ <<v, code>> \in CommandTable(i, dir)
  BY DEF Commands, CommandCode, Toggled, Stepped, AllItems
<1>2. i \in Toggled \/ dir \in {"next", "prev"}
  BY DEF Commands
<1>0. SUFFICES code \in Codes(i)
  OBVIOUS
<1> HIDE DEF i, dir
<1>3. CASE i \in Toggled
  <2>1. CommandTable(i, dir) \subseteq {<<0, 0>>, <<1, 1>>, <<0, 1>>, <<1, 0>>}
    BY <1>3 DEF Toggled, CommandTable
  <2>2. Codes(i) = 0..1
    BY <1>3 DEF Toggled, Codes
  <2> QED BY <1>1, <2>1, <2>2
<1>4. CASE i = "hlDelay"
  BY <1>1, <1>4 DEF Codes
<1>5. CASE i = "hlSens"
  <2>1. CommandTable(i, dir) \subseteq {<<0, 0>>, <<1, 1>>, <<2, 2>>, <<1, 3>>, <<2, 0>>, <<3, 1>>}
    BY <1>2, <1>5 DEF Toggled, CommandTable
  <2> QED BY <1>1, <1>5, <2>1 DEF Codes
<1>6. CASE i = "keyLights"
  <2>1. /\ dir = "next" => CommandTable(i, dir) = {<<w, w + 1>> : w \in 0..2}
        /\ dir = "prev" => CommandTable(i, dir) = {<<w, w - 1>> : w \in 1..3}
    BY <1>6 DEF Toggled, CommandTable
  <2>2. dir \in {"next", "prev"}
    BY <1>2, <1>6 DEF Toggled
  <2>3. CASE dir = "next"
    <3>1. PICK w \in 0..2 : <<v, code>> = <<w, w + 1>>
      BY <1>1, <2>1, <2>3
    <3> QED BY <1>6, <3>1 DEF Codes
  <2>4. CASE dir = "prev"
    <3>1. PICK w \in 1..3 : <<v, code>> = <<w, w - 1>>
      BY <1>1, <2>1, <2>4
    <3> QED BY <1>6, <3>1 DEF Codes
  <2> QED BY <2>2, <2>3, <2>4
<1>7. CASE i = "relock"
  <2>1. CommandTable(i, dir) \subseteq {<<0, 0>>, <<1, 2>>, <<1, 1>>, <<5, 0>>}
    BY <1>2, <1>7 DEF Toggled, CommandTable
  <2> QED BY <1>1, <1>7, <2>1 DEF Codes
<1> QED BY <1>1, <1>3, <1>4, <1>5, <1>6, <1>7 DEF AllItems, Toggled

\* What the BCM answers is a response frame with the codes it stores.
LEMMA ReplyTyped ==
  ASSUME BusTypeOK, NEW f \in Responses
  PROVE  Reply(f) \in Rep
<1>1. ASSUME NEW i \in Items
      PROVE  /\ codes[i] \in Codes(i) /\ Codes(i) \subseteq 0..7
             /\ (IF StateFrame(i) = f THEN codes[i] ELSE 0) \in 0..7
  <2>1. Codes(i) \subseteq 0..7
    BY DEF Codes
  <2> QED BY <2>1 DEF BusTypeOK
<1> DEFINE k == [i \in Items |-> IF StateFrame(i) = f THEN codes[i] ELSE 0]
<1>2. k \in [Items -> 0..7]
  BY <1>1
<1>3. \A i \in Items : k[i] \in (IF StateFrame(i) = f THEN Codes(i) ELSE {0})
  BY <1>1
<1>4. Reply(f) = [frame |-> f, code |-> k]
  BY DEF Reply
<1> HIDE DEF k
<1>5. k \in Payload[f]
  BY <1>2, <1>3 DEF Payload
<1> QED BY <1>2, <1>4, <1>5 DEF Rep

\* The BCM answers with response frames.
LEMMA AnswersTyped ==
  ASSUME BusTypeOK, NEW st \in States \ {"READY"}
  PROVE  Answers(st) \in Seq(Rep)
<1>1. CASE st \in RetrieveStates
  <2>1. {"10", "21", "22", "05"} \subseteq Responses
    BY DEF Responses, StateFrames
  <2>2. \A f \in {"10", "21", "22", "05"} : Reply(f) \in Rep
    BY <2>1, ReplyTyped
  <2> QED BY <1>1, <2>2 DEF Answers, RetrieveStates
<1>2. CASE st \notin RetrieveStates
  <2>1. st \in Responses
    BY <1>2 DEF States, Responses
  <2>2. Answers(st) = <<Reply(st)>>
    BY <1>2 DEF Answers, RetrieveStates
  <2>3. Reply(st) \in Rep
    BY <2>1, ReplyTyped
  <2> QED BY <2>2, <2>3
<1> QED BY <1>1, <1>2

\* The state of a sequence that changes a setting is its update_.
LEMMA ItemState ==
  ASSUME OnCourse, NEW s \in Seqs, Active(s), NEW i \in Items, state[s] = i
  PROVE  s \in Updates /\ update[s] = i
<1>1. i \in AllItems /\ state[s] \in Course(s)
  BY ItemsAssumption DEF OnCourse
<1>2. i \notin {"ENTER", "EXIT", "RESET"} \cup InitStates \cup RetrieveStates
  BY <1>1 DEF AllItems, InitStates, RetrieveStates
<1> QED BY <1>1, <1>2 DEF Course, Reads, RetrieveStates, Seqs, OnE, OnF,
        Inits, Retrieves, Updates, Resets

\* A sequence under way sends a request that the BCM can read.
LEMMA RequestTyped ==
  ASSUME TypeOK, OnCourse, Valued, NEW s \in Seqs, Active(s)
  PROVE  Request(s) \in Req
<1> DEFINE v == IF s \in Updates /\ state[s] = update[s] THEN value[s] ELSE 0
<1>1. state[s] \in States \ {"READY"}
  BY DEF TypeOK, Active
<1>2. v \in 0..255
  BY DEF TypeOK
<1>3. ASSUME NEW i \in Items, state[s] = i PROVE v \in Codes(i)
  BY <1>3, ItemState DEF Valued
<1>4. Request(s) = [state |-> state[s], value |-> v]
  BY DEF Request
<1> HIDE DEF v
<1> QED BY <1>1, <1>2, <1>3, <1>4 DEF Req

\* At most one sequence of a channel asks at a time.
LEMMA YieldedOne ==
  ASSUME Exclusive, NEW c \in Channels
  PROVE  /\ (\A s \in On(c) : ~Yielding(s)) => Yielded(c) = <<>>
         /\ \A s \in On(c) : Yielding(s) => Yielded(c) = <<Request(s)>>
<1> DEFINE asks(s) == IF Yielding(s) THEN <<Request(s)>> ELSE <<>>
           o == ReadOrder(c)
<1>1. Yielded(c) = asks(o[1]) \o asks(o[2]) \o asks(o[3]) \o asks(o[4])
  BY DEF Yielded
<1>2. On(c) = {o[1], o[2], o[3], o[4]}
      /\ o[1] # o[2] /\ o[1] # o[3] /\ o[1] # o[4]
      /\ o[2] # o[3] /\ o[2] # o[4] /\ o[3] # o[4]
  BY DEF Channels, On, OnE, OnF, ReadOrder
<1>3. \A s, t \in On(c) : Yielding(s) /\ Yielding(t) => s = t
  BY DEF Exclusive, Yielding
<1>4. \A x : /\ <<x>> \o <<>> = <<x>> /\ <<>> \o <<x>> = <<x>>
  <2>1. \A x : <<x>> \in Seq({x})
    OBVIOUS
  <2> QED BY <2>1, ConcatEmptySeq
<1>5. <<>> \o <<>> = <<>>
  <2>1. <<>> \in Seq({})
    OBVIOUS
  <2> QED BY <2>1, ConcatEmptySeq
<1>6. ASSUME \A s \in On(c) : ~Yielding(s) PROVE Yielded(c) = <<>>
  <2>1. asks(o[1]) = <<>> /\ asks(o[2]) = <<>> /\ asks(o[3]) = <<>> /\ asks(o[4]) = <<>>
    BY <1>2, <1>6
  <2> HIDE DEF asks, o
  <2> QED BY <1>1, <1>5, <2>1
<1>7. ASSUME NEW s \in On(c), Yielding(s) PROVE Yielded(c) = <<Request(s)>>
  <2>1. asks(s) = <<Request(s)>> /\ \A t \in On(c) : t # s => asks(t) = <<>>
    BY <1>3, <1>7
  <2> HIDE DEF asks, o
  <2>2. CASE s = o[1]
    BY <1>1, <1>2, <1>4, <2>1, <2>2
  <2>3. CASE s = o[2]
    BY <1>1, <1>2, <1>4, <1>5, <2>1, <2>3
  <2>4. CASE s = o[3]
    BY <1>1, <1>2, <1>4, <1>5, <2>1, <2>4
  <2>5. CASE s = o[4]
    BY <1>1, <1>2, <1>4, <1>5, <2>1, <2>5
  <2> QED BY <1>2, <2>2, <2>3, <2>4, <2>5
<1> QED BY <1>6, <1>7
----------------------------------------------------------------------------
\* The node on the bus is the node of Settings.

\* What is delivered to the node is one of the frames that Settings is open to.
LEMMA HeadTyped ==
  ASSUME BusTypeOK, NEW c \in Channels, replies[c] # <<>>
  PROVE  /\ Head(replies[c]).frame \in Responses
         /\ Head(replies[c]).code \in Payload[Head(replies[c]).frame]
<1>1. replies[c] \in Seq(Rep)
  BY DEF BusTypeOK
<1>2. Head(replies[c]) \in Rep
  BY <1>1, HeadTailProperties
<1> QED BY <1>2 DEF Rep

\* A step of the bus is a step of the node or leaves the node alone.
LEMMA BusStep ==
  ASSUME BusTypeOK, [BusNext]_busVars
  PROVE  [Next]_vars
<1>1. CASE UserCommand
  BY <1>1 DEF UserCommand, Next
<1>2. CASE NodeEmit
  BY <1>2 DEF NodeEmit, Next
<1>3. ASSUME NEW c \in Channels, Deliver(c) PROVE Next
  <2>1. replies[c] # <<>> /\ HandleFrame(c, Head(replies[c]).frame, Head(replies[c]).code)
    BY <1>3 DEF Deliver
  <2> QED BY <2>1, HeadTyped DEF Next
<1>4. ASSUME NEW c \in Channels, BCMHandle(c) \/ LoseRequest(c) \/ LoseReply(c)
      PROVE  UNCHANGED vars
  BY <1>4 DEF BCMHandle, LoseRequest, LoseReply
<1>5. CASE ClockTick
  BY <1>5 DEF ClockTick, Next
<1>6. CASE UNCHANGED busVars
  BY <1>6 DEF busVars
<1> QED BY <1>1, <1>2, <1>3, <1>4, <1>5, <1>6 DEF BusNext

\* The second half of a readback is waited for.
LEMMA HalvesRead ==
  ASSUME OnCourse, NEW s \in Seqs, state[s] = "RETRIEVE_71E_2X"
  PROVE  NextState(s) = IF second[s] THEN "EXIT" ELSE "RETRIEVE_71E_2X"
<1>1. s \in Updates => update[s] # "RETRIEVE_71E_2X"
  BY ItemsAssumption DEF OnCourse, Active, AllItems
<1> QED BY <1>1 DEF NextState, InitStates

\* Every step keeps what is known of half-received states.
LEMMA HalvedNext == TypeOK /\ OnCourse /\ Halved /\ [Next]_vars => Halved'
<1> SUFFICES ASSUME TypeOK, OnCourse, Halved, [Next]_vars PROVE Halved'
  OBVIOUS
<1>1. ASSUME NEW S \in SUBSET Seqs, Trigger(S), second' = second PROVE Halved'
  BY <1>1 DEF Halved, Trigger, Active
<1>2. ASSUME NEW cmd \in Commands, cmd[1] \in Items, Change(cmd[1], cmd[2]) PROVE Halved'
  <2> DEFINE u == Update(ItemChannel(cmd[1]))
  <2>1. u \in Seqs
    BY <1>2, CommandItem, ChannelsSplit
  <2>2. Trigger({u}) /\ second' = second
    BY <1>2 DEF Change
  <2> QED BY <1>1, <2>1, <2>2
<1>3. CASE RequestCurrent \/ ResetSettingsToDefault
  BY <1>1, <1>3 DEF RequestCurrent, ResetSettingsToDefault, Retrieves, Resets, Seqs, OnE, OnF
<1>4. ASSUME NEW c \in Channels, NEW f \in Responses, NEW code \in Payload[f],
             HandleFrame(c, f, code)
      PROVE  Halved'
  <2> SUFFICES ASSUME NEW s \in Seqs, second'[s] PROVE state'[s] = "RETRIEVE_71E_2X"
    BY DEF Halved
  <2> DEFINE matched == {t \in On(c) : MatchState(f, state[t])}
             moved   == {t \in matched : NextState(t) # state[t]}
  <2>1. /\ state'[s] = IF s \in moved THEN NextState(s) ELSE state[s]
        /\ \/ s \in matched /\ state[s] = "RETRIEVE_71E_2X" /\ ~second[s]
           \/ s \notin moved /\ second[s]
    BY <1>4 DEF HandleFrame
  <2>2. CASE state[s] = "RETRIEVE_71E_2X" /\ ~second[s]
    BY <2>1, <2>2, HalvesRead
  <2>3. CASE s \notin moved /\ second[s]
    BY <2>1, <2>3 DEF Halved
  <2> QED BY <2>1, <2>2, <2>3
<1>5. CASE Emit
  BY <1>5 DEF Emit, Halved
<1>6. CASE Tick
  BY <1>6 DEF Tick, Halved
<1>7. CASE UNCHANGED vars
  BY <1>7 DEF vars, Halved
<1> QED BY <1>2, <1>3, <1>4, <1>5, <1>6, <1>7 DEF Next

\* Every step keeps the values of updates within those of their settings.
LEMMA ValuedNext == TypeOK /\ Valued /\ [Next]_vars => Valued'
<1> SUFFICES ASSUME TypeOK, Valued, [Next]_vars PROVE Valued'
  OBVIOUS
<1>1. ASSUME NEW cmd \in Commands, cmd[1] \in Items, Change(cmd[1], cmd[2]) PROVE Valued'
  <2> DEFINE u == Update(ItemChannel(cmd[1]))
  <2>1. u \in Updates
    BY <1>1, CommandItem, ChannelsSplit
  <2>2. PICK code \in CommandCode(cmd[1], cmd[2], event[cmd[1]]) :
          /\ update' = [update EXCEPT ![u] = cmd[1]]
          /\ value' = [value EXCEPT ![u] = code]
    BY <1>1 DEF Change
  <2>3. code \in Codes(cmd[1])
    BY CommandSends
  <2>4. \A t \in Updates : /\ update'[t] = IF t = u THEN cmd[1] ELSE update[t]
                           /\ value'[t] = IF t = u THEN code ELSE value[t]
    BY <2>2 DEF TypeOK
  <2> HIDE DEF u
  <2>5. Update(ItemChannel(cmd[1])) = u
    BY DEF u
  <2> QED BY <2>1, <2>3, <2>4, <2>5 DEF Valued
<1>2. ASSUME UNCHANGED <<update, value>> PROVE Valued'
  BY <1>2 DEF Valued
<1> QED BY <1>1, <1>2 DEF Next, RequestCurrent, ResetSettingsToDefault, HandleFrame,
        Emit, Tick, vars

\* Every step keeps the displays up to date, unless the event has news.
LEMMA FreshNext == TypeOK /\ BusTypeOK /\ Fresh /\ [BusNext]_busVars => Fresh'
<1> SUFFICES ASSUME TypeOK, BusTypeOK, Fresh, [BusNext]_busVars PROVE Fresh'
  OBVIOUS
<1>1. CASE UserCommand
  <2>1. ASSUME NEW i, NEW dir, Change(i, dir) PROVE UNCHANGED <<event, available>>
    BY <2>1 DEF Change
  <2>2. UNCHANGED <<event, available, published>>
    BY <1>1, <2>1 DEF UserCommand, RequestCurrent, ResetSettingsToDefault
  <2> QED BY <2>2 DEF Fresh
<1>2. CASE NodeEmit
  BY <1>2 DEF NodeEmit, Emit, Fresh
<1>3. ASSUME NEW c \in Channels, Deliver(c) PROVE Fresh'
  <2> DEFINE f == Head(replies[c]).frame
             k == Head(replies[c]).code
  <2>1. HandleState(f, k) /\ published' = published
    BY <1>3 DEF Deliver, HandleFrame
  <2>2. ASSUME ~available' PROVE event' = event /\ ~available
    <3>1. f \notin StateFrames /\ ~available
      BY <2>1, <2>2 DEF HandleState
    <3>2. \A i \in Items : StateFrame(i) # f
      BY <3>1, FramesSplit, ItemsAssumption
    <3>3. event' = [i \in Items |-> event[i]]
      BY <2>1, <3>2 DEF HandleState
    <3> QED BY <3>1, <3>3 DEF TypeOK
  <2> QED BY <2>1, <2>2 DEF Fresh
<1>4. ASSUME UNCHANGED <<event, available, published>> PROVE Fresh'
  BY <1>4 DEF Fresh
<1>5. ASSUME NEW c \in Channels, BCMHandle(c) \/ LoseRequest(c) \/ LoseReply(c)
      PROVE  Fresh'
  BY <1>4, <1>5 DEF BCMHandle, LoseRequest, LoseReply, vars
<1>6. CASE ClockTick
  BY <1>4, <1>6 DEF ClockTick, Tick
<1>7. CASE UNCHANGED busVars
  BY <1>4, <1>7 DEF busVars, vars
<1> QED BY <1>1, <1>2, <1>3, <1>5, <1>6, <1>7 DEF BusNext

\* What the request r does to the BCM.
BCMDoes(c, r) ==
  /\ r \in Req
  /\ requests[c] \in Seq(Req) /\ requests[c] # <<>>
  /\ requests' = [requests EXCEPT ![c] = Tail(@)]
  /\ \A d \in Channels \ {c} : inMode'[d] = inMode[d] /\ replies'[d] = replies[d]
  /\ ~Serves(c, r.state) => UNCHANGED <<inMode, codes, replies>>
  /\ Serves(c, r.state) =>
       /\ inMode'[c] = (r.state # "EXIT")
       /\ replies'[c] = replies[c] \o Answers(r.state)
       /\ codes' = [i \in Items |-> codes'[i]]
       /\ \A i \in Items :
            codes'[i] = IF r.state = i THEN r.value
                        ELSE IF r.state = "RESET" /\ ItemChannel(i) = c THEN 0
                        ELSE codes[i]
  /\ inMode' \in [Channels -> BOOLEAN]
  /\ DOMAIN replies' = Channels

\* What the BCM does with a request that has arrived.
LEMMA BCMEffect ==
  ASSUME BusTypeOK, NEW c \in Channels, BCMHandle(c),
         NEW r, r = Head(requests[c])
  PROVE  BCMDoes(c, r)
<1>1. requests[c] \in Seq(Req) /\ requests[c] # <<>>
  BY DEF BusTypeOK, BCMHandle
<1>2. r \in Req
  BY <1>1, HeadTailProperties
<1>3. requests' = [requests EXCEPT ![c] = Tail(@)]
  BY DEF BCMHandle
<1>4. ASSUME ~Serves(c, r.state) PROVE UNCHANGED <<inMode, codes, replies>>
  BY <1>4 DEF BCMHandle
<1>5. ASSUME Serves(c, r.state)
      PROVE  /\ inMode' = [inMode EXCEPT ![c] = r.state # "EXIT"]
             /\ replies' = [replies EXCEPT ![c] = @ \o Answers(r.state)]
             /\ codes' = [i \in Items |->
                            CASE r.state = i -> r.value
                              [] r.state = "RESET" /\ ItemChannel(i) = c -> 0
                              [] OTHER -> codes[i]]
  BY <1>5 DEF BCMHandle
<1>6. ASSUME Serves(c, r.state), NEW i \in Items
      PROVE  codes'[i] = IF r.state = i THEN r.value
                         ELSE IF r.state = "RESET" /\ ItemChannel(i) = c THEN 0
                         ELSE codes[i]
  <2>1. i # "RESET"
    BY ItemsAssumption DEF AllItems
  <2>2. codes'[i] = CASE r.state = i -> r.value
                      [] r.state = "RESET" /\ ItemChannel(i) = c -> 0
                      [] OTHER -> codes[i]
    BY <1>5, <1>6
  <2> QED BY <2>1, <2>2
<1>7. ASSUME Serves(c, r.state) PROVE codes' = [i \in Items |-> codes'[i]]
  BY <1>5, <1>7
<1>8. ASSUME Serves(c, r.state)
      PROVE  /\ inMode'[c] = (r.state # "EXIT")
             /\ inMode' \in [Channels -> BOOLEAN]
             /\ \A d \in Channels \ {c} : inMode'[d] = inMode[d]
  <2> DEFINE b == r.state # "EXIT"
  <2>1. b \in BOOLEAN /\ inMode' = [inMode EXCEPT ![c] = b]
    BY <1>5, <1>8
  <2> HIDE DEF b
  <2>2. /\ inMode'[c] = b
        /\ inMode' \in [Channels -> BOOLEAN]
        /\ \A d \in Channels \ {c} : inMode'[d] = inMode[d]
    BY <2>1 DEF BusTypeOK
  <2> QED BY <2>2 DEF b
<1>9. ASSUME Serves(c, r.state)
      PROVE  /\ replies'[c] = replies[c] \o Answers(r.state)
             /\ \A d \in Channels \ {c} : replies'[d] = replies[d]
             /\ DOMAIN replies' = Channels
  BY <1>5, <1>9 DEF BusTypeOK
<1> QED BY <1>1, <1>2, <1>3, <1>4, <1>6, <1>7, <1>8, <1>9 DEF BusTypeOK, BCMDoes

\* Every step keeps the types of the bus.
LEMMA BusTypeNext ==
  TypeOK /\ TypeOK' /\ Exclusive /\ OnCourse /\ BusTypeOK /\ Valued /\ [BusNext]_busVars
    => BusTypeOK'
<1> SUFFICES ASSUME TypeOK, TypeOK', Exclusive, OnCourse, BusTypeOK, Valued,
                    [BusNext]_busVars
             PROVE  BusTypeOK'
  OBVIOUS
<1>1. CASE UserCommand
  <2>1. outcome' = [c \in Channels |-> IF Ready(c)' THEN outcome[c] ELSE "running"]
    BY <1>1 DEF UserCommand
  <2>2. outcome' \in [Channels -> Outcomes]
    BY <2>1 DEF BusTypeOK, Outcomes
  <2> QED BY <1>1, <2>2 DEF UserCommand, BusTypeOK
<1>2. CASE NodeEmit
  <2>1. \A c \in Channels : Yielded(c) \in Seq(Req)
    <3> SUFFICES ASSUME NEW c \in Channels PROVE Yielded(c) \in Seq(Req)
      OBVIOUS
    <3>1. CASE \A s \in On(c) : ~Yielding(s)
      <4>1. Yielded(c) = <<>>
        BY <3>1, YieldedOne
      <4> QED BY <4>1
    <3>2. ASSUME NEW s \in On(c), Yielding(s) PROVE Yielded(c) \in Seq(Req)
      <4>1. Yielded(c) = <<Request(s)>> /\ s \in Seqs /\ Active(s)
        BY <3>2, YieldedOne, ChannelsSplit DEF Yielding
      <4>2. Request(s) \in Req
        BY <4>1, RequestTyped
      <4> QED BY <4>1, <4>2
    <3> QED BY <3>1, <3>2
  <2>2. \A c \in Channels : requests[c] \o Yielded(c) \in Seq(Req)
    BY <2>1, ConcatProperties DEF BusTypeOK
  <2>3. requests' \in [Channels -> Seq(Req)]
    BY <1>2, <2>2 DEF NodeEmit
  <2>4. published' \in [Items -> 0..12]
    BY <1>2 DEF NodeEmit, BusTypeOK, TypeOK
  <2>5. outcome' \in [Channels -> Outcomes]
    <3>1. outcome' = [c \in Channels |->
                        IF ~Ready(c) /\ Ready(c)' THEN "overdue" ELSE outcome[c]]
      BY <1>2 DEF NodeEmit
    <3> QED BY <3>1 DEF BusTypeOK, Outcomes
  <2> QED BY <1>2, <2>3, <2>4, <2>5 DEF NodeEmit, BusTypeOK
<1>3. ASSUME NEW c \in Channels, Deliver(c) PROVE BusTypeOK'
  <2>1. replies[c] \in Seq(Rep) /\ replies[c] # <<>>
    BY <1>3 DEF Deliver, BusTypeOK
  <2>2. Tail(replies[c]) \in Seq(Rep)
    BY <2>1, HeadTailProperties
  <2>3. replies' \in [Channels -> Seq(Rep)]
    BY <1>3, <2>2 DEF Deliver, BusTypeOK
  <2>4. outcome' \in [Channels -> Outcomes]
    <3> DEFINE o == IF ~Ready(c) /\ Ready(c)'
                      THEN IF \E s \in Inits : Active(s) /\ s \in On(c)
                             THEN "none" ELSE "complete"
                      ELSE outcome[c]
    <3>1. outcome' = [outcome EXCEPT ![c] = o]
      BY <1>3 DEF Deliver
    <3>2. o \in Outcomes
      BY DEF BusTypeOK, Outcomes
    <3> HIDE DEF o
    <3> QED BY <3>1, <3>2 DEF BusTypeOK
  <2> QED BY <1>3, <2>3, <2>4 DEF Deliver, BusTypeOK
<1>4. ASSUME NEW c \in Channels, BCMHandle(c) PROVE BusTypeOK'
  <2> DEFINE r == Head(requests[c])
  <2>0. BCMDoes(c, r) /\ UNCHANGED <<prompt, vars, commands, losses, published, outcome>>
    BY <1>4, BCMEffect DEF BCMHandle
  <2> HIDE DEF r
  <2>1. /\ r \in Req
        /\ requests[c] \in Seq(Req) /\ requests[c] # <<>>
        /\ requests' = [requests EXCEPT ![c] = Tail(@)]
        /\ \A d \in Channels \ {c} : replies'[d] = replies[d]
        /\ ~Serves(c, r.state) => UNCHANGED <<inMode, codes, replies>>
        /\ Serves(c, r.state) =>
             /\ replies'[c] = replies[c] \o Answers(r.state)
             /\ codes' = [i \in Items |-> codes'[i]]
             /\ \A i \in Items :
                  codes'[i] = IF r.state = i THEN r.value
                              ELSE IF r.state = "RESET" /\ ItemChannel(i) = c THEN 0
                              ELSE codes[i]
        /\ inMode' \in [Channels -> BOOLEAN]
        /\ DOMAIN replies' = Channels
    BY <2>0 DEF BCMDoes
  <2>2. requests' \in [Channels -> Seq(Req)]
    <3>1. Tail(requests[c]) \in Seq(Req)
      BY <2>1, HeadTailProperties
    <3> QED BY <2>1, <3>1 DEF BusTypeOK
  <2>3. r.state \in States \ {"READY"} /\ \A i \in Items : r.state = i => r.value \in Codes(i)
    BY <2>1 DEF Req
  <2>4. replies'[c] \in Seq(Rep)
    <3>1. replies[c] \in Seq(Rep) /\ Answers(r.state) \in Seq(Rep)
      BY <2>3, AnswersTyped DEF BusTypeOK
    <3>2. replies[c] \o Answers(r.state) \in Seq(Rep)
      BY <3>1, ConcatProperties
    <3> QED BY <2>1, <3>1, <3>2
  <2>5. DOMAIN codes' = Items /\ \A i \in Items : codes'[i] \in Codes(i)
    <3>1. \A i \in Items : 0 \in Codes(i)
      BY DEF Codes
    <3> QED BY <2>1, <2>3, <3>1 DEF BusTypeOK
  <2>6. replies' \in [Channels -> Seq(Rep)]
    <3>1. \A d \in Channels : replies'[d] \in Seq(Rep)
      BY <2>1, <2>4 DEF BusTypeOK
    <3>2. replies' = [d \in Channels |-> replies'[d]]
      BY <1>4 DEF BCMHandle, BusTypeOK
    <3> QED BY <3>1, <3>2
  <2> QED BY <2>0, <2>1, <2>2, <2>5, <2>6 DEF BusTypeOK
<1>5. ASSUME NEW c \in Channels, LoseRequest(c) PROVE BusTypeOK'
  <2>1. requests[c] \in Seq(Req) /\ requests[c] # <<>>
    BY <1>5 DEF LoseRequest, BusTypeOK
  <2>2. Tail(requests[c]) \in Seq(Req)
    BY <2>1, HeadTailProperties
  <2> QED BY <1>5, <2>2 DEF LoseRequest, BusTypeOK
<1>6. ASSUME NEW c \in Channels, LoseReply(c) PROVE BusTypeOK'
  <2>1. replies[c] \in Seq(Rep) /\ replies[c] # <<>>
    BY <1>6 DEF LoseReply, BusTypeOK
  <2>2. Tail(replies[c]) \in Seq(Rep)
    BY <2>1, HeadTailProperties
  <2> QED BY <1>6, <2>2 DEF LoseReply, BusTypeOK
<1>7. CASE ClockTick
  BY <1>7 DEF ClockTick, envVars, BusTypeOK
<1>8. CASE UNCHANGED busVars
  BY <1>8 DEF busVars, envVars, BusTypeOK
<1> QED BY <1>1, <1>2, <1>3, <1>4, <1>5, <1>6, <1>7, <1>8 DEF BusNext

\* The bus starts in its invariant.
LEMMA BusInvInit == BusInit => BusInv
<1> SUFFICES ASSUME BusInit PROVE BusInv
  OBVIOUS
<1>1. Init
  BY DEF BusInit
<1>2. TypeOK /\ Exclusive /\ OnCourse
  <2>1. Exclusive
    BY <1>1 DEF Init, Exclusive, Active, On, Channels, Inits, OnE, OnF, Seqs
  <2>2. OnCourse
    BY <1>1 DEF Init, OnCourse, Active, Course, Inits, Updates
  <2> QED BY <1>1, <2>1, <2>2, TypeInit
<1>3. BusTypeOK
  <2>1. \A i \in Items : codes[i] \in Codes(i)
    BY DEF BusInit, Codes
  <2> QED BY <1>2, <2>1 DEF BusInit, BusTypeOK, TypeOK, Outcomes
<1>4. Valued
  <2>1. "READY" \notin Items
    BY ItemsAssumption DEF AllItems
  <2> QED BY <1>1, <2>1 DEF Init, Valued
<1>5. Halved /\ Fresh
  BY <1>1 DEF BusInit, Init, Halved, Fresh
<1> QED BY <1>2, <1>3, <1>4, <1>5 DEF BusInv

\* Every step keeps it.
LEMMA BusInvNext == BusInv /\ [BusNext]_busVars => BusInv'
<1> SUFFICES ASSUME BusInv, [BusNext]_busVars PROVE BusInv'
  OBVIOUS
<1>1. [Next]_vars
  BY BusStep DEF BusInv
<1>2. TypeOK' /\ Exclusive' /\ OnCourse' /\ Valued' /\ Halved'
  BY <1>1, TypeNext, ExclusiveNext, OnCourseNext, ValuedNext, HalvedNext DEF BusInv
<1>3. BusTypeOK' /\ Fresh'
  BY <1>2, BusTypeNext, FreshNext DEF BusInv
<1> QED BY <1>2, <1>3 DEF BusInv

\* So it holds in every reachable state.
LEMMA AlwaysBusInv == BusSpec => []BusInv
BY BusInvInit, BusInvNext, PTL DEF BusSpec

\* The BCM sends the node nothing but response frames with codes that their
\* bits can hold, and otherwise leaves it alone: what is proved of the node
\* against every frame holds of it on the bus.
THEOREM BusImplementsNode == BusSpec => Spec
<1>1. BusInit => Init
  BY DEF BusInit
<1>2. BusInv /\ [BusNext]_busVars => [Next]_vars
  BY BusStep DEF BusInv
<1> QED BY <1>1, <1>2, AlwaysBusInv, PTL DEF BusSpec, Spec
----------------------------------------------------------------------------
\* With a prompt BCM: a channel that a step leaves alone.

SameNode(c) ==
  \A s \in On(c) :
    /\ state'[s] = state[s] /\ sent'[s] = sent[s]
    /\ age'[s] = age[s] /\ second'[s] = second[s]
    /\ s \in Updates => update'[s] = update[s] /\ value'[s] = value[s]

SameWay(c) ==
  /\ requests'[c] = requests[c] /\ replies'[c] = replies[c] /\ inMode'[c] = inMode[c]
  /\ outcome'[c] = "complete" => outcome[c] = "complete"

SameItems(c) ==
  \A i \in Items : ItemChannel(i) = c => codes'[i] = codes[i] /\ event'[i] = event[i]

\* A sequence reads the state frames of its own channel.
LEMMA ReadsOwn ==
  ASSUME OnCourse, NEW c \in Channels, NEW s \in On(c), state[s] \in RetrieveStates
  PROVE  \/ c = "E" /\ state[s] \in {"RETRIEVE_71E_10", "RETRIEVE_71E_2X"}
         \/ c = "F" /\ state[s] = "RETRIEVE_71F_05"
<1>1. s \in Seqs /\ Active(s)
  BY ChannelsSplit DEF Active, RetrieveStates
<1>2. state[s] \in Course(s) /\ (s \in Updates => update[s] \in AllItems)
  BY <1>1, ItemsAssumption DEF OnCourse
<1>3. AllItems \cap RetrieveStates = {}
  BY DEF AllItems, RetrieveStates
<1>4. state[s] \in Reads(s)
  BY <1>1, <1>2, <1>3 DEF Course, RetrieveStates, InitStates, Seqs, OnE, OnF,
     Inits, Retrieves, Updates, Resets
<1> QED BY <1>4 DEF Reads, On, OnE, OnF, Channels

\* The BCM's answers depend on the settings of the channel only.
LEMMA ReplyKept ==
  ASSUME NEW c \in Channels, NEW f \in States \cup FramesOf(c),
         \A i \in Items : ItemChannel(i) = c => codes'[i] = codes[i]
  PROVE  Reply(f)' = Reply(f)
<1>1. \A i \in Items : StateFrame(i) = f => codes'[i] = codes[i]
  BY FramesSplit, ItemsAssumption
<1> QED BY <1>1 DEF Reply

\* The answer to a request stays the same while its sequence and the BCM's settings do.
LEMMA AnswersKept ==
  ASSUME TypeOK, OnCourse, NEW c \in Channels, NEW s \in On(c), Active(s),
         state'[s] = state[s],
         state[s] \in RetrieveStates =>
           \A i \in Items : ItemChannel(i) = c => codes'[i] = codes[i]
  PROVE  Answers(state[s])' = Answers(state[s])
<1>1. s \in Seqs /\ state[s] \in States
  BY ChannelsSplit DEF TypeOK
<1>2. CASE state[s] \in RetrieveStates
  <2>1. CASE c = "E"
    <3>1. Reply("10")' = Reply("10") /\ Reply("21")' = Reply("21") /\ Reply("22")' = Reply("22")
      BY <1>2, <2>1, ReplyKept DEF FramesOf
    <3>2. state[s] \in {"RETRIEVE_71E_10", "RETRIEVE_71E_2X"}
      BY <1>2, <2>1, ReadsOwn
    <3> QED BY <3>1, <3>2 DEF Answers
  <2>2. CASE c = "F"
    <3>1. Reply("05")' = Reply("05")
      BY <1>2, <2>2, ReplyKept DEF FramesOf
    <3>2. state[s] = "RETRIEVE_71F_05"
      BY <1>2, <2>2, ReadsOwn
    <3> QED BY <3>1, <3>2 DEF Answers
  <2> QED BY <2>1, <2>2 DEF Channels
<1>3. CASE state[s] \notin RetrieveStates
  <2>1. Answers(state[s]) = <<Reply(state[s])>> /\ Answers(state[s])' = <<Reply(state[s])'>>
    BY <1>3 DEF Answers, RetrieveStates
  <2> DEFINE st == state[s]
  <2>2. Reply(st)' = [frame |-> st, code |->
                       [i \in Items |-> IF StateFrame(i) = st THEN codes'[i] ELSE 0]]
    BY DEF Reply
  <2>3. \A i \in Items : StateFrame(i) # st
    BY <1>1, FramesSplit, ItemsAssumption
  <2> QED BY <2>1, <2>2, <2>3 DEF Reply
<1> QED BY <1>2, <1>3

\* What the event shows of a frame stays the same while the settings do.
LEMMA ShowsKept ==
  ASSUME NEW c \in Channels, NEW f \in FramesOf(c), SameItems(c)
  PROVE  Shows(f)' <=> Shows(f)
<1>1. \A i \in Items : StateFrame(i) = f => codes'[i] = codes[i] /\ event'[i] = event[i]
  BY FramesSplit, ItemsAssumption DEF SameItems
<1> QED BY <1>1 DEF Shows

\* A step that leaves a channel alone keeps its invariant.
LEMMA ChannelSame ==
  ASSUME BusInv, NEW c \in Channels, ChannelInv(c),
         SameNode(c), SameWay(c), SameItems(c)
  PROVE  ChannelInv(c)'
<1>1. \A f \in FramesOf(c) : Shows(f)' <=> Shows(f)
  BY ShowsKept
<1>2. c = "E" => {"10", "21", "22"} = FramesOf(c)
  BY DEF FramesOf
<1>3. \A s \in On(c) : state[s] = "RETRIEVE_71E_2X" => c = "E"
  BY ReadsOwn DEF BusInv, RetrieveStates
<1>4. OnTheWay(c)'
  <2>1. CASE Drained(c)
    BY <2>1 DEF OnTheWay, Drained, SameWay
  <2>2. ASSUME NEW s \in On(c), Waits(s), Requested(c, s) PROVE OnTheWay(c)'
    <3>1. Waits(s)' /\ Request(s)' = Request(s)
      BY <2>2 DEF SameNode, Waits, Active, Request
    <3>2. Requested(c, s)'
      BY <2>2, <3>1 DEF SameNode, SameWay, Requested, Serves
    <3> QED BY <3>1, <3>2 DEF OnTheWay
  <2>3. ASSUME NEW s \in On(c), Waits(s), Answered(c, s) PROVE OnTheWay(c)'
    <3>1. Waits(s)'
      BY <2>3 DEF SameNode, Waits, Active
    <3>2. Answers(state[s])' = Answers(state[s])
      BY <2>3, AnswersKept DEF SameNode, SameItems, BusInv, Waits
    <3>3. c = "E" => Reply("21")' = Reply("21") /\ Reply("22")' = Reply("22")
      BY <1>2, ReplyKept DEF SameItems
    <3>4. s \in Updates /\ state[s] = update[s] =>
            /\ update[s] \in Items /\ ItemChannel(update[s]) = c
      <4>1. ASSUME s \in Updates, state[s] = update[s]
            PROVE  update[s] \in Items /\ ItemChannel(update[s]) = c
        <5>1. update[s] \in Items /\ Update(ItemChannel(update[s])) = s
          BY <2>3, <4>1, ChannelsSplit DEF BusInv, OnCourse, Waits, Valued
        <5> QED BY <5>1, ItemsAssumption DEF Update, ItemChannel, On, OnE, OnF, Channels
      <4> QED BY <4>1
    <3>5. /\ requests'[c] = <<>> /\ inMode'[c] = (state'[s] # "EXIT")
          /\ s \in Updates /\ state'[s] = update'[s] => codes'[update'[s]] = value'[s]
      BY <2>3, <3>4 DEF Answered, SameNode, SameWay, SameItems
    <3>6. CASE state[s] # "RETRIEVE_71E_2X" /\ replies[c] = Answers(state[s])
      BY <3>1, <3>2, <3>5, <3>6 DEF OnTheWay, Answered, SameNode, SameWay
    <3>7. CASE /\ state[s] = "RETRIEVE_71E_2X"
               /\ \/ replies[c] = <<Reply("21"), Reply("22")>> /\ ~second[s]
                  \/ replies[c] = <<Reply("22")>> /\ (second[s] => Shows("21"))
      BY <1>1, <1>2, <1>3, <3>1, <3>3, <3>5, <3>7 DEF OnTheWay, Answered, SameNode, SameWay
    <3> QED BY <2>3, <3>6, <3>7 DEF Answered
  <2> QED BY <2>1, <2>2, <2>3 DEF ChannelInv, OnTheWay
<1>5. ASSUME NEW s \in On(c) PROVE Moded(c, s)' /\ Stored(s)' /\ Seen(c, s)'
  <2>1. Moded(c, s) /\ Stored(s) /\ Seen(c, s)
    BY DEF ChannelInv
  <2>2. Moded(c, s)'
    BY <2>1 DEF Moded, SameNode, SameWay, Active
  <2>3. Stored(s)'
    <3>1. ASSUME s \in Updates, state[s] \in RetrieveStates \cup {"EXIT"}
          PROVE  update[s] \in Items /\ ItemChannel(update[s]) = c
      <4>1. Active(s) /\ s \in Seqs
        BY <3>1, ChannelsSplit DEF Active, RetrieveStates
      <4>2. update[s] \in Items /\ Update(ItemChannel(update[s])) = s
        BY <3>1, <4>1 DEF BusInv, OnCourse, Valued
      <4> QED BY <4>2, ItemsAssumption DEF Update, ItemChannel, On, OnE, OnF, Channels
    <3> QED BY <2>1, <3>1 DEF Stored, SameNode, SameItems
  <2>4. Seen(c, s)'
    BY <1>1, <1>2, <1>3, <2>1 DEF Seen, SameNode
  <2> QED BY <2>2, <2>3, <2>4
<1>6. Done(c)'
  <2>1. Ready(c)' <=> Ready(c)
    BY DEF Ready, Active, SameNode
  <2> QED BY <1>1, <2>1 DEF ChannelInv, Done, SameWay, Drained
<1> QED BY <1>4, <1>5, <1>6 DEF ChannelInv
----------------------------------------------------------------------------
\* With a prompt BCM: the steps of the user, of emit and of the clock.

\* The channels share no sequence, and each setting is updated on its own channel.
LEMMA ChannelsApart ==
  /\ \A c \in Channels : On(c) \subseteq Seqs
  /\ \A c, d \in Channels : c # d => On(c) \cap On(d) = {}
  /\ \A i \in Items, c \in Channels : Update(ItemChannel(i)) \in On(c) => c = ItemChannel(i)
BY ItemsAssumption DEF Channels, On, OnE, OnF, Seqs, Update, ItemChannel

\* A command starts sequences on channels that are ready.
LEMMA CommandTriggers ==
  ASSUME TypeOK, UserCommand
  PROVE  /\ \E S \in SUBSET Seqs :
              /\ Trigger(S)
              /\ \A c \in Channels : ~Ready(c) => S \cap On(c) = {}
         /\ \A c \in Channels : ~Ready(c) => \A u \in Updates \cap On(c) :
              update'[u] = update[u] /\ value'[u] = value[u]
         /\ UNCHANGED <<second, event, available>>
<1>1. ASSUME NEW cmd \in Commands, cmd[1] \in Items, Change(cmd[1], cmd[2])
      PROVE  /\ \E S \in SUBSET Seqs :
                  /\ Trigger(S)
                  /\ \A c \in Channels : ~Ready(c) => S \cap On(c) = {}
             /\ \A c \in Channels : ~Ready(c) => \A u \in Updates \cap On(c) :
                  update'[u] = update[u] /\ value'[u] = value[u]
             /\ UNCHANGED <<second, event, available>>
  <2> DEFINE d == ItemChannel(cmd[1])
             v == Update(d)
  <2>1. v \in Seqs /\ v \in Updates
    BY <1>1, CommandItem, ChannelsSplit
  <2>2. \A c \in Channels : v \in On(c) => c = d
    BY <1>1, ChannelsApart
  <2>3. Ready(d) /\ Trigger({v}) /\ UNCHANGED <<second, event, available>>
    BY <1>1 DEF Change
  <2>4. PICK code : /\ update' = [update EXCEPT ![v] = cmd[1]]
                    /\ value' = [value EXCEPT ![v] = code]
    BY <1>1 DEF Change
  <2> HIDE DEF v, d
  <2>5. \A c \in Channels : ~Ready(c) => {v} \cap On(c) = {}
    BY <2>2, <2>3
  <2>6. \A u \in Updates : u # v => update'[u] = update[u] /\ value'[u] = value[u]
    BY <2>4 DEF TypeOK
  <2> QED BY <2>1, <2>2, <2>3, <2>5, <2>6
<1>2. ASSUME RequestCurrent \/ ResetSettingsToDefault
      PROVE  /\ \E S \in SUBSET Seqs :
                  /\ Trigger(S)
                  /\ \A c \in Channels : ~Ready(c) => S \cap On(c) = {}
             /\ \A c \in Channels : ~Ready(c) => \A u \in Updates \cap On(c) :
                  update'[u] = update[u] /\ value'[u] = value[u]
             /\ UNCHANGED <<second, event, available>>
  <2>1. \A c \in Channels : Ready(c)
    BY <1>2 DEF RequestCurrent, ResetSettingsToDefault, Channels
  <2>2. Retrieves \in SUBSET Seqs /\ Resets \in SUBSET Seqs
    BY DEF Retrieves, Resets, Seqs, OnE, OnF
  <2> QED BY <1>2, <2>1, <2>2 DEF RequestCurrent, ResetSettingsToDefault
<1> QED BY <1>1, <1>2 DEF UserCommand

\* A command of the user keeps the invariant of every channel.
LEMMA UserChannel ==
  ASSUME BusInv, UserCommand, NEW c \in Channels, ChannelInv(c)
  PROVE  ChannelInv(c)'
<1>1. /\ outcome'[c] = IF Ready(c)' THEN outcome[c] ELSE "running"
      /\ UNCHANGED <<requests, replies, inMode, codes>>
  BY DEF UserCommand
<1>2. PICK S \in SUBSET Seqs :
        /\ Trigger(S)
        /\ \A d \in Channels : ~Ready(d) => S \cap On(d) = {}
  BY CommandTriggers DEF BusInv
<1>3. /\ \A d \in Channels : ~Ready(d) => \A u \in Updates \cap On(d) :
           update'[u] = update[u] /\ value'[u] = value[u]
      /\ UNCHANGED <<second, event, available>>
  BY CommandTriggers DEF BusInv
<1>4. On(c) \subseteq Seqs
  BY ChannelsApart
<1>5. CASE ~Ready(c)
  <2>1. SameNode(c)
    BY <1>2, <1>3, <1>4, <1>5 DEF SameNode, Trigger
  <2>2. SameWay(c) /\ SameItems(c)
    BY <1>1, <1>3 DEF SameWay, SameItems
  <2> QED BY <2>1, <2>2, ChannelSame
<1>6. CASE Ready(c)
  <2>1. Drained(c)
    BY <1>6 DEF ChannelInv, OnTheWay, Waits, Ready
  <2>2. \A s \in On(c) : /\ state'[s] \in {"READY", "ENTER"}
                        /\ ~second'[s]
    BY <1>2, <1>3, <1>4, <1>6 DEF Trigger, Ready, Active, BusInv, Halved
  <2>3. OnTheWay(c)'
    BY <1>1, <2>1 DEF OnTheWay, Drained
  <2>4. \A s \in On(c) : Moded(c, s)' /\ Stored(s)' /\ Seen(c, s)'
    BY <2>2 DEF Moded, Stored, Seen, Active, RetrieveStates
  <2>5. Done(c)'
    <3>1. SameItems(c)
      BY <1>1, <1>3 DEF SameItems
    <3>2. \A f \in FramesOf(c) : Shows(f)' <=> Shows(f)
      BY <3>1, ShowsKept
    <3> QED BY <1>1, <2>1, <3>2 DEF ChannelInv, Done, Drained
  <2> QED BY <2>3, <2>4, <2>5 DEF ChannelInv
<1> QED BY <1>5, <1>6

\* So does a poll by the loop.
LEMMA EmitChannel ==
  ASSUME BusInv, NodeEmit, NEW c \in Channels, ChannelInv(c)
  PROVE  ChannelInv(c)'
<1>1. /\ requests'[c] = requests[c] \o Yielded(c)
      /\ outcome'[c] = IF ~Ready(c) /\ Ready(c)' THEN "overdue" ELSE outcome[c]
      /\ UNCHANGED <<replies, inMode, codes, update, value, event>>
      /\ requests[c] \in Seq(Req)
  BY DEF NodeEmit, Emit, BusInv, BusTypeOK
<1>2. On(c) \subseteq Seqs
  BY ChannelsApart
<1>3. \A s \in On(c) :
        /\ state'[s] = IF Overdue(s) THEN "READY" ELSE state[s]
        /\ age'[s] = IF Overdue(s) THEN 0 ELSE age[s]
        /\ sent'[s] = ((sent[s] \/ Yielding(s)) /\ ~Overdue(s))
        /\ second'[s] = (second[s] /\ ~Overdue(s))
  BY <1>2 DEF NodeEmit, Emit
<1>4. \A s, t \in On(c) : Active(s) /\ Active(t) => s = t
  BY DEF BusInv, Exclusive
<1>5. \A s \in On(c) : Waits(s) => ~Overdue(s) /\ ~Yielding(s)
  BY <1>2, TimeoutAssumption DEF Waits, Overdue, Yielding, BusInv, TypeOK
<1>6. ASSUME NEW s \in On(c), Overdue(s) PROVE ChannelInv(c)'
  <2>1. Active(s) /\ \A t \in On(c) : Active(t) => t = s
    BY <1>4, <1>6 DEF Overdue
  <2>2. Drained(c)
    BY <1>5, <1>6, <2>1 DEF ChannelInv, OnTheWay, Waits
  <2>3. Yielded(c) = <<>>
    BY <1>6, <2>1, YieldedOne DEF BusInv, Yielding
  <2>4. Drained(c)'
    BY <1>1, <2>2, <2>3 DEF Drained
  <2>5. \A t \in On(c) : state'[t] = "READY" /\ ~second'[t]
    <3>1. \A t \in On(c) : second[t] => Active(t)
      BY <1>2 DEF BusInv, Halved, Active
    <3> QED BY <1>3, <1>6, <2>1, <3>1 DEF Active
  <2>6. outcome'[c] = "overdue"
    BY <1>1, <2>1, <2>5 DEF Ready, Active
  <2> QED BY <2>4, <2>5, <2>6 DEF ChannelInv, OnTheWay, Moded, Stored, Seen, Done,
          Active, RetrieveStates
<1>7. ASSUME NEW s \in On(c), Yielding(s) PROVE ChannelInv(c)'
  <2>1. /\ Active(s) /\ ~sent[s] /\ ~Overdue(s)
        /\ \A t \in On(c) : Active(t) => t = s
    BY <1>4, <1>7 DEF Yielding
  <2>2. Drained(c)
    BY <1>5, <1>7, <2>1 DEF ChannelInv, OnTheWay, Waits
  <2>3. requests'[c] = <<Request(s)>>
    <3>1. Yielded(c) = <<Request(s)>>
      BY <1>7, YieldedOne DEF BusInv
    <3>2. requests[c] = <<>> /\ <<Request(s)>> \in Seq({Request(s)})
      BY <2>2 DEF Drained
    <3> QED BY <1>1, <3>1, <3>2, ConcatEmptySeq
  <2>4. \A t \in On(c) : /\ state'[t] = state[t] /\ age'[t] = age[t]
                        /\ second'[t] = second[t]
                        /\ sent'[t] = (sent[t] \/ t = s)
    <3>1. \A t \in On(c) : ~Overdue(t) /\ (Yielding(t) <=> t = s)
      BY <1>7, <2>1 DEF Overdue, Yielding
    <3> QED BY <1>2, <1>3, <3>1 DEF BusInv, TypeOK
  <2>5. Moded(c, s) /\ Stored(s) /\ Seen(c, s)
    BY DEF ChannelInv
  <2>6. Waits(s)'
    <3>1. age[s] \in 0..Timeout /\ ~(age[s] >= Timeout)
      BY <1>2, <2>1 DEF Overdue, BusInv, TypeOK
    <3>2. age[s] < Timeout
      BY <3>1, TimeoutAssumption
    <3>3. state'[s] = state[s] /\ age'[s] = age[s] /\ sent'[s]
      BY <2>4
    <3> QED BY <2>1, <3>2, <3>3 DEF Waits, Active
  <2>7. Requested(c, s)'
    <3>1. Request(s)' = Request(s)
      BY <1>1, <2>4 DEF Request
    <3>2. Serves(c, state[s]) /\ ~second[s]
      BY <2>1, <2>5 DEF Moded, Serves
    <3> QED BY <1>1, <2>2, <2>3, <2>4, <3>1, <3>2 DEF Requested, Drained, Serves
  <2>8. OnTheWay(c)'
    BY <2>6, <2>7 DEF OnTheWay
  <2>9. SameItems(c)
    BY <1>1 DEF SameItems
  <2>10. \A f \in FramesOf(c) : Shows(f)' <=> Shows(f)
    BY <2>9, ShowsKept
  <2>11. \A t \in On(c) : state[t] = "RETRIEVE_71E_2X" => "10" \in FramesOf(c)
    BY ReadsOwn DEF BusInv, RetrieveStates, FramesOf
  <2>12. ASSUME NEW t \in On(c) PROVE Moded(c, t)' /\ Stored(t)' /\ Seen(c, t)'
    <3>1. Moded(c, t) /\ Stored(t) /\ Seen(c, t)
      BY DEF ChannelInv
    <3> QED BY <1>1, <2>4, <2>10, <2>11, <3>1 DEF Moded, Stored, Seen, Active
  <2>13. Done(c)'
    <3>1. ~Ready(c) /\ ~Ready(c)'
      BY <2>1, <2>4 DEF Ready, Active
    <3> QED BY <1>1, <3>1 DEF ChannelInv, Done
  <2> QED BY <2>8, <2>12, <2>13 DEF ChannelInv
<1>8. CASE \A s \in On(c) : ~Overdue(s) /\ ~Yielding(s)
  <2>1. SameNode(c)
    BY <1>1, <1>2, <1>3, <1>8 DEF SameNode, BusInv, TypeOK
  <2>2. Yielded(c) = <<>>
    BY <1>8, YieldedOne DEF BusInv
  <2>3. requests'[c] = requests[c]
    BY <1>1, <2>2, ConcatEmptySeq
  <2>4. Ready(c)' <=> Ready(c)
    BY <2>1 DEF SameNode, Ready, Active
  <2>5. SameWay(c) /\ SameItems(c)
    BY <1>1, <2>3, <2>4 DEF SameWay, SameItems
  <2> QED BY <2>1, <2>5, ChannelSame
<1> QED BY <1>6, <1>7, <1>8

\* So does the clock, which a prompt BCM lets run only when nothing is on its way.
LEMMA TickChannel ==
  ASSUME BusInv, prompt, ClockTick, NEW c \in Channels, ChannelInv(c)
  PROVE  ChannelInv(c)'
<1>1. /\ Drained(c)
      /\ UNCHANGED <<state, sent, second, update, value, event, requests, replies, inMode,
                     codes, outcome>>
  BY DEF ClockTick, Tick, envVars
<1>2. Drained(c)' /\ (Ready(c)' <=> Ready(c))
  BY <1>1 DEF Drained, Ready, Active
<1>3. \A f : Shows(f)' <=> Shows(f)
  BY <1>1 DEF Shows
<1>4. ASSUME NEW s \in On(c) PROVE Moded(c, s)' /\ Stored(s)' /\ Seen(c, s)'
  <2>1. Moded(c, s) /\ Stored(s) /\ Seen(c, s)
    BY DEF ChannelInv
  <2> QED BY <1>1, <1>3, <2>1 DEF Moded, Stored, Seen, Active
<1>5. Done(c)'
  BY <1>1, <1>2, <1>3 DEF ChannelInv, Done
<1> QED BY <1>2, <1>4, <1>5 DEF ChannelInv, OnTheWay
----------------------------------------------------------------------------
\* With a prompt BCM: the steps on the way.

\* Every state but the second half of a readback has one answer, which is the
\* only frame it matches.
AnswerFrame(st) == CASE st = "RETRIEVE_71E_10" -> "10"
                     [] st = "RETRIEVE_71F_05" -> "05"
                     [] OTHER                  -> st

\* Every request is answered by one frame, except that for both frames 0x21 and 0x22.
LEMMA AnswersOne ==
  ASSUME NEW st \in States \ {"READY", "RETRIEVE_71E_2X"}
  PROVE  /\ Answers(st) = <<Reply(AnswerFrame(st))>>
         /\ MatchState(AnswerFrame(st), st)
         /\ AnswerFrame(st) \in States \cup StateFrames
BY DEF Answers, AnswerFrame, MatchState, StateFrames

\* What remains of one or two frames when the first is taken.
LEMMA ShortTails ==
  ASSUME NEW a, NEW b
  PROVE  /\ Tail(<<a>>) = <<>> /\ Head(<<a>>) = a /\ <<a>> # <<>>
         /\ Tail(<<a, b>>) = <<b>> /\ Head(<<a, b>>) = a /\ <<a, b>> # <<>>
OBVIOUS

\* A loss keeps the invariant of its channel.
LEMMA LoseChannel ==
  ASSUME BusInv, NEW c \in Channels, LoseRequest(c) \/ LoseReply(c), ChannelInv(c)
  PROVE  ChannelInv(c)'
<1>1. UNCHANGED <<vars, inMode, codes, outcome>>
  BY DEF LoseRequest, LoseReply
<1>2. ~Drained(c)
  BY DEF LoseRequest, LoseReply, Drained
<1>3. /\ \A f : Shows(f)' <=> Shows(f)
      /\ \A f : Reply(f)' = Reply(f)
      /\ \A s \in On(c) : (Waits(s)' <=> Waits(s)) /\ (Active(s)' <=> Active(s))
  BY <1>1 DEF Shows, Reply, Waits, Active, vars
<1>4. CASE LoseRequest(c)
  <2>1. PICK s \in On(c) : Waits(s) /\ Requested(c, s)
    BY <1>4 DEF LoseRequest, ChannelInv, OnTheWay, Drained, Answered
  <2>2. Tail(requests[c]) = <<>>
    BY <2>1, ShortTails DEF Requested
  <2>3. Drained(c)'
    BY <1>4, <2>1, <2>2 DEF LoseRequest, Requested, Drained, BusInv, BusTypeOK
  <2> QED BY <1>1, <1>2, <1>3, <2>3 DEF ChannelInv, OnTheWay, Moded, Stored, Seen, Done, vars
<1>5. CASE LoseReply(c)
  <2>1. PICK s \in On(c) : Waits(s) /\ Answered(c, s)
    BY <1>5 DEF LoseReply, ChannelInv, OnTheWay, Drained, Requested
  <2>2. replies'[c] = Tail(replies[c]) /\ requests'[c] = <<>>
    BY <1>5, <2>1 DEF LoseReply, Answered, BusInv, BusTypeOK
  <2>3. s \in Seqs /\ state[s] \in States \ {"READY"}
    BY <2>1, ChannelsSplit DEF Waits, Active, BusInv, TypeOK
  <2>4. OnTheWay(c)'
    <3>1. CASE state[s] # "RETRIEVE_71E_2X" \/ replies[c] = <<Reply("22")>>
      <4>1. \E f : replies[c] = <<Reply(f)>>
        BY <2>1, <2>3, <3>1, AnswersOne DEF Answered
      <4>2. Tail(replies[c]) = <<>>
        BY <4>1, ShortTails
      <4> QED BY <2>2, <4>2 DEF OnTheWay, Drained
    <3>2. CASE /\ state[s] = "RETRIEVE_71E_2X" /\ ~second[s]
               /\ replies[c] = <<Reply("21"), Reply("22")>>
      <4>1. Tail(replies[c]) = <<Reply("22")>>
        BY <3>2, ShortTails
      <4>2. Answered(c, s)'
        BY <1>1, <1>3, <2>1, <2>2, <3>2, <4>1 DEF Answered, vars
      <4> QED BY <1>3, <2>1, <4>2 DEF OnTheWay
    <3> QED BY <2>1, <3>1, <3>2 DEF Answered
  <2> QED BY <1>1, <1>2, <1>3, <2>4 DEF ChannelInv, Moded, Stored, Seen, Done, vars
<1> QED BY <1>4, <1>5

\* What is on its way to the node is a frame of the channel's own.
LEMMA HeadFrame ==
  ASSUME BusInv, NEW c \in Channels, OnTheWay(c), replies[c] # <<>>
  PROVE  \E s \in On(c), f \in States \cup FramesOf(c) :
           /\ Waits(s) /\ Answered(c, s)
           /\ Head(replies[c]) = Reply(f)
           /\ MatchState(f, state[s])
           /\ state[s] # "RETRIEVE_71E_2X" =>
                f = AnswerFrame(state[s]) /\ Tail(replies[c]) = <<>>
<1>1. PICK s \in On(c) : Waits(s) /\ Answered(c, s)
  BY DEF OnTheWay, Drained, Requested
<1>2. s \in Seqs /\ state[s] \in States \ {"READY"}
  BY <1>1, ChannelsSplit DEF Waits, Active, BusInv, TypeOK
<1>3. CASE state[s] # "RETRIEVE_71E_2X"
  <2> DEFINE f == AnswerFrame(state[s])
  <2>1. replies[c] = <<Reply(f)>> /\ MatchState(f, state[s])
    BY <1>1, <1>2, <1>3, AnswersOne DEF Answered
  <2>2. f \in States \cup FramesOf(c)
    BY <1>2, ReadsOwn DEF AnswerFrame, FramesOf, RetrieveStates, BusInv
  <2> QED BY <1>1, <2>1, <2>2, ShortTails
<1>4. CASE state[s] = "RETRIEVE_71E_2X"
  <2>1. c = "E"
    BY <1>4, ReadsOwn DEF RetrieveStates, BusInv
  <2>2. \E f \in {"21", "22"} : Head(replies[c]) = Reply(f)
    BY <1>1, <1>4, ShortTails DEF Answered
  <2> QED BY <1>1, <1>4, <2>1, <2>2 DEF MatchState, FramesOf
<1> QED BY <1>3, <1>4
----------------------------------------------------------------------------
\* With a prompt BCM: a response reaches the node.

\* Reading a code twice is reading it once.
LEMMA DecodeAgain ==
  ASSUME NEW i \in AllItems, NEW k, NEW old
  PROVE  Decode(i, k, Decode(i, k, old)) = Decode(i, k, old)
<1>1. CASE i = "relock"
  BY <1>1 DEF Decode
<1>2. CASE i # "relock"
  BY <1>2 DEF Decode, AllItems
<1> QED BY <1>1, <1>2

\* Where a sequence comes from when it reads back or leaves settings mode.
LEMMA ReadFrom ==
  ASSUME OnCourse, NEW s \in Seqs, Active(s), state[s] # "EXIT"
  PROVE  /\ NextState(s) = "RETRIEVE_71E_2X" =>
              state[s] \in {"RETRIEVE_71E_10", "RETRIEVE_71E_2X"}
         /\ s \notin Inits /\ NextState(s) = "EXIT" =>
              \/ state[s] = "RETRIEVE_71F_05"
              \/ state[s] = "RETRIEVE_71E_2X" /\ second[s]
         /\ s \in Updates /\ NextState(s) \in RetrieveStates \cup {"EXIT"} =>
              state[s] \in {update[s]} \cup RetrieveStates
<1>1. state[s] \in Course(s) /\ (s \in Updates => update[s] \in AllItems)
  BY ItemsAssumption DEF OnCourse
<1>2. "READY" \notin AllItems /\ "ENTER" \notin AllItems /\ "EXIT" \notin AllItems
      /\ RetrieveStates \cap AllItems = {} /\ InitStates \cap AllItems = {}
  BY DEF AllItems, RetrieveStates, InitStates
<1>3. CASE s \in Inits
  <2>1. s \in {"initE", "initF"} /\ s \notin Updates /\ s \notin Resets
        /\ s \notin Retrieves
    BY <1>3 DEF Inits, Updates, Resets, Retrieves
  <2>2. /\ Course(s) = {"ENTER", "EXIT"} \cup InitStates
        /\ AfterEnter(s) = "INIT_00"
    BY <1>3, <2>1 DEF Course, AfterEnter
  <2>3. CASE state[s] = "ENTER"
    BY <2>1, <2>2, <2>3 DEF NextState, InitStates
  <2>4. CASE state[s] \in InitStates
    <3>1. /\ AfterInit(state[s]) \in {"EXIT"} \cup InitStates
          /\ NextState(s) \in {AfterInit(state[s]), "EXIT"}
      BY <2>1, <2>4 DEF AfterInit, NextState, InitStates
    <3> QED BY <1>3, <2>1, <3>1 DEF InitStates
  <2> QED BY <1>1, <2>2, <2>3, <2>4
<1>4. CASE s \in Retrieves
  BY <1>1, <1>4 DEF Active, Course, NextState, AfterEnter, Reads, ReadBack,
     Inits, Retrieves, InitStates, Updates, Resets, OnE
<1>5. CASE s \in Resets
  BY <1>1, <1>5 DEF Active, Course, NextState, AfterEnter, Reads, ReadBack,
     Inits, Retrieves, InitStates, Updates, Resets, OnE
<1>6. CASE s \in Updates
  BY <1>1, <1>2, <1>6, ItemsAssumption
     DEF Active, Course, NextState, AfterEnter, Reads, ReadBack,
     Inits, Retrieves, InitStates, Updates, Resets, OnE, RetrieveStates
<1> QED BY <1>3, <1>4, <1>5, <1>6
        DEF Seqs, OnE, OnF, Inits, Retrieves, Updates, Resets

\* What the response does to the one sequence that waits for it.
LEMMA DeliverEffect ==
  ASSUME BusInv, NEW c \in Channels, Deliver(c), NEW f, Head(replies[c]) = Reply(f),
         NEW s \in On(c), Active(s), MatchState(f, state[s])
  PROVE  /\ state'[s] = NextState(s)
         /\ sent'[s] = IF NextState(s) # state[s] THEN FALSE ELSE sent[s]
         /\ NextState(s) = state[s] => age'[s] = age[s]
         /\ second'[s] <=> (state[s] = "RETRIEVE_71E_2X" /\ ~second[s])
         /\ \A t \in On(c) \ {s} : state'[t] = "READY" /\ ~second'[t]
         /\ Shows(f)'
         /\ \A g : g # f => (Shows(g)' <=> Shows(g))
<1> DEFINE matched == {t \in On(c) : MatchState(f, state[t])}
           moved   == {t \in matched : NextState(t) # state[t]}
           k == Reply(f).code
<1>1. HandleFrame(c, f, k) /\ UNCHANGED codes
  BY DEF Deliver, Reply
<1>2. On(c) \subseteq Seqs
  BY ChannelsApart
<1>3. \A t \in On(c) \ {s} : state[t] = "READY" /\ ~second[t]
  BY <1>2 DEF BusInv, Exclusive, Halved, Active
<1>4. \A t \in On(c) \ {s} : t \notin matched
  BY <1>3 DEF MatchState
<1>5. s \in matched /\ (s \in moved <=> NextState(s) # state[s])
  OBVIOUS
<1>6. \A t \in Seqs :
        /\ state'[t] = IF t \in moved THEN NextState(t) ELSE state[t]
        /\ sent'[t] = IF t \in moved THEN FALSE ELSE sent[t]
        /\ age'[t] = IF t \in moved /\ NextState(t) = "READY" THEN 0 ELSE age[t]
        /\ second'[t] <=> \/ t \in matched /\ state[t] = "RETRIEVE_71E_2X" /\ ~second[t]
                          \/ t \notin moved /\ second[t]
  BY <1>1 DEF HandleFrame
<1>7. second[s] => s \in moved
  BY <1>2, <1>5, HalvesRead DEF BusInv, Halved
<1>8. /\ state'[s] = NextState(s)
      /\ sent'[s] = IF NextState(s) # state[s] THEN FALSE ELSE sent[s]
      /\ NextState(s) = state[s] => age'[s] = age[s]
      /\ second'[s] <=> (state[s] = "RETRIEVE_71E_2X" /\ ~second[s])
      /\ \A t \in On(c) \ {s} : state'[t] = "READY" /\ ~second'[t]
  <2> HIDE DEF matched
  <2>1. \A t \in On(c) \ {s} : t \notin moved
    BY <1>4
  <2> HIDE DEF moved
  <2> QED BY <1>2, <1>3, <1>4, <1>5, <1>6, <1>7, <2>1
<1>9. \A i \in Items : event'[i] = IF StateFrame(i) = f THEN Decode(i, k[i], event[i])
                                  ELSE event[i]
  BY <1>1 DEF HandleFrame, HandleState
<1>10. \A i \in Items : StateFrame(i) = f => k[i] = codes[i]
  BY DEF Reply
<1> HIDE DEF k, matched, moved
<1>11. Shows(f)'
  <2> SUFFICES ASSUME NEW i \in Items, StateFrame(i) = f
               PROVE  event'[i] = Decode(i, codes'[i], event'[i])
    BY DEF Shows
  <2>1. event'[i] = Decode(i, codes[i], event[i]) /\ codes'[i] = codes[i]
    BY <1>1, <1>9, <1>10
  <2> QED BY <2>1, DecodeAgain, ItemsAssumption
<1>12. ASSUME NEW g, g # f PROVE Shows(g)' <=> Shows(g)
  BY <1>1, <1>9, <1>12 DEF Shows
<1> QED BY <1>8, <1>11, <1>12

\* So does a frame that the node receives.
LEMMA DeliverChannel ==
  ASSUME BusInv, NEW c \in Channels, Deliver(c), ChannelInv(c)
  PROVE  ChannelInv(c)'
<1>1. PICK s \in On(c), f \in States \cup FramesOf(c) :
        /\ Waits(s) /\ Answered(c, s)
        /\ Head(replies[c]) = Reply(f)
        /\ MatchState(f, state[s])
        /\ state[s] # "RETRIEVE_71E_2X" =>
             f = AnswerFrame(state[s]) /\ Tail(replies[c]) = <<>>
  BY HeadFrame DEF Deliver, ChannelInv
<1>2. /\ s \in Seqs /\ Active(s) /\ sent[s]
      /\ UNCHANGED <<requests, inMode, codes, update, value>>
      /\ replies'[c] = Tail(replies[c]) /\ requests[c] = <<>>
      /\ state[s] \in States \ {"READY"}
  BY <1>1, ChannelsApart DEF Waits, Deliver, HandleFrame, Answered, BusInv, BusTypeOK,
     Active, TypeOK
<1>3. /\ state'[s] = NextState(s)
      /\ sent'[s] = IF NextState(s) # state[s] THEN FALSE ELSE sent[s]
      /\ NextState(s) = state[s] => age'[s] = age[s]
      /\ second'[s] <=> (state[s] = "RETRIEVE_71E_2X" /\ ~second[s])
      /\ \A t \in On(c) \ {s} : state'[t] = "READY" /\ ~second'[t]
      /\ Shows(f)'
      /\ \A g : g # f => (Shows(g)' <=> Shows(g))
  <2>1. Head(replies[c]) = Reply(f) /\ MatchState(f, state[s]) /\ Active(s)
    BY <1>1, <1>2
  <2> QED BY <2>1, DeliverEffect
<1>4. Moded(c, s) /\ Stored(s) /\ Seen(c, s)
  BY DEF ChannelInv
<1>5. \A g : Shows(g) => Shows(g)'
  BY <1>3
<1>6. \/ NextState(s) = state[s]
      \/ state[s] = "EXIT" /\ NextState(s) = "READY"
      \/ state[s] # "EXIT" /\ NextState(s) \notin {"ENTER", "READY"}
  BY <1>2, CourseLeads, ExitEnds DEF BusInv
<1>7. inMode[c] = (state[s] # "EXIT")
  BY <1>1 DEF Answered
<1>8. Moded(c, s)'
  <2>1. ~sent'[s] => ~second'[s]
    BY <1>2, <1>3, HalvesRead DEF BusInv
  <2> QED BY <1>2, <1>3, <1>6, <1>7, <2>1 DEF Moded, Active
<1>9. Stored(s)'
  <2>1. s \in Updates /\ NextState(s) \in RetrieveStates \cup {"EXIT"} =>
          state[s] \in {update[s]} \cup RetrieveStates \cup {"EXIT"}
    BY <1>2, ReadFrom DEF BusInv
  <2> QED BY <1>1, <1>2, <1>3, <1>4, <2>1 DEF Stored, Answered
<1>10. Seen(c, s)'
  <2>1. ASSUME s \notin Inits, NextState(s) = "RETRIEVE_71E_2X" PROVE Shows("10")'
    <3>1. state[s] \in {"RETRIEVE_71E_10", "RETRIEVE_71E_2X"}
      BY <1>2, <2>1, ReadFrom, ExitEnds DEF BusInv
    <3>2. CASE state[s] = "RETRIEVE_71E_10"
      BY <1>1, <1>3, <3>2 DEF AnswerFrame
    <3>3. CASE state[s] = "RETRIEVE_71E_2X"
      BY <1>4, <1>5, <2>1, <3>3 DEF Seen
    <3> QED BY <3>1, <3>2, <3>3
  <2>2. ASSUME s \notin Inits, NextState(s) = "EXIT"
        PROVE  \A g \in FramesOf(c) : Shows(g)'
    <3>1. \/ state[s] = "RETRIEVE_71F_05"
          \/ state[s] = "RETRIEVE_71E_2X" /\ second[s]
      BY <1>2, <2>2, ReadFrom, ExitEnds DEF BusInv
    <3>2. CASE state[s] = "RETRIEVE_71F_05"
      <4>1. c = "F" /\ f = "05"
        BY <1>1, <3>2, ReadsOwn DEF BusInv, RetrieveStates, AnswerFrame
      <4> QED BY <1>3, <4>1 DEF FramesOf
    <3>3. CASE state[s] = "RETRIEVE_71E_2X" /\ second[s]
      <4>1. c = "E" /\ Shows("10") /\ Shows("21")
        BY <1>1, <1>4, <2>2, <3>3, ReadsOwn DEF BusInv, RetrieveStates, Seen, Answered
      <4>2. Reply(f) = Reply("22")
        BY <1>1, <3>3, ShortTails DEF Answered
      <4>3. f = "22"
        BY <4>2 DEF Reply
      <4> QED BY <1>3, <1>5, <4>1, <4>3 DEF FramesOf
    <3> QED BY <3>1, <3>2, <3>3
  <2> QED BY <1>3, <2>1, <2>2 DEF Seen
<1>11. \A t \in On(c) \ {s} : Moded(c, t)' /\ Stored(t)' /\ Seen(c, t)'
  BY <1>3 DEF Moded, Stored, Seen, Active, RetrieveStates
<1>12. OnTheWay(c)'
  <2>1. CASE Tail(replies[c]) = <<>>
    BY <1>2, <2>1 DEF OnTheWay, Drained
  <2>2. CASE Tail(replies[c]) # <<>>
    <3>1. state[s] = "RETRIEVE_71E_2X"
      BY <1>1, <2>2
    <3>2. /\ Reply(f) = Reply("21") /\ Tail(replies[c]) = <<Reply("22")>> /\ ~second[s]
      <4>1. replies[c] # <<Reply("22")>>
        BY <2>2, ShortTails
      <4>2. replies[c] = <<Reply("21"), Reply("22")>> /\ ~second[s]
        BY <1>1, <3>1, <4>1 DEF Answered
      <4> QED BY <1>1, <4>2, ShortTails
    <3>3. f = "21"
      BY <3>2 DEF Reply
    <3>4. NextState(s) = state[s]
      BY <1>2, <3>1, <3>2, HalvesRead DEF BusInv
    <3>5. Waits(s)'
      BY <1>1, <1>3, <3>4 DEF Waits, Active
    <3>6. Reply("22")' = Reply("22")
      BY <1>2 DEF Reply
    <3>7. s \in Updates => state[s] # update[s]
      BY <1>2, <3>1, ItemsAssumption DEF BusInv, OnCourse, AllItems
    <3>8. Answered(c, s)'
      BY <1>2, <1>3, <1>7, <3>1, <3>2, <3>3, <3>4, <3>6, <3>7 DEF Answered
    <3> QED BY <3>5, <3>8 DEF OnTheWay
  <2> QED BY <2>1, <2>2
<1>13. Done(c)'
  <2>1. outcome'[c] = IF ~Ready(c) /\ Ready(c)'
                        THEN IF \E t \in Inits : Active(t) /\ t \in On(c)
                               THEN "none" ELSE "complete"
                        ELSE outcome[c]
    BY DEF Deliver, BusInv, BusTypeOK
  <2>2. ~Ready(c)
    BY <1>2 DEF Ready
  <2>3. outcome[c] # "complete"
    BY <2>2 DEF ChannelInv, Done
  <2> SUFFICES ASSUME outcome'[c] = "complete"
               PROVE  /\ Ready(c)' /\ Drained(c)' /\ ~inMode'[c]
                      /\ \A g \in FramesOf(c) : Shows(g)'
    BY DEF Done
  <2>4. Ready(c)' /\ s \notin Inits
    BY <1>2, <2>1, <2>3
  <2>5. state[s] = "EXIT"
    BY <1>2, <1>3, <1>6, <2>4 DEF Ready, Active
  <2>6. Drained(c)'
    BY <1>1, <1>2, <2>5 DEF Drained
  <2>7. \A g \in FramesOf(c) : Shows(g)'
    BY <1>4, <1>5, <2>4, <2>5 DEF Seen
  <2> QED BY <1>2, <1>7, <2>4, <2>5, <2>6, <2>7
<1> QED BY <1>8, <1>9, <1>10, <1>11, <1>12, <1>13 DEF ChannelInv
----------------------------------------------------------------------------
\* With a prompt BCM: a request reaches it.

\* So does a request that the BCM receives.
LEMMA BCMChannel ==
  ASSUME BusInv, NEW c \in Channels, BCMHandle(c), ChannelInv(c)
  PROVE  ChannelInv(c)'
<1>1. PICK s \in On(c) : Waits(s) /\ Requested(c, s)
  BY DEF BCMHandle, ChannelInv, OnTheWay, Drained, Answered
<1> DEFINE st == state[s]
           v  == IF s \in Updates /\ st = update[s] THEN value[s] ELSE 0
<1>2. /\ s \in Seqs /\ Active(s) /\ sent[s] /\ st \in States \ {"READY"}
      /\ s \in Updates => update[s] \in Items
      /\ replies[c] = <<>> /\ ~second[s]
      /\ \A t \in On(c) \ {s} : ~Active(t)
  BY <1>1, ChannelsApart DEF Waits, Requested, Active, BusInv, TypeOK, OnCourse, Exclusive
<1>3. Head(requests[c]) = Request(s) /\ Tail(requests[c]) = <<>>
  BY <1>1, ShortTails DEF Requested
<1>4. Request(s).state = st /\ Request(s).value = v
  BY DEF Request
<1>5. Serves(c, st)
  BY <1>1 DEF Requested
<1>6. /\ UNCHANGED <<vars, outcome>>
      /\ requests'[c] = <<>>
      /\ inMode'[c] = (st # "EXIT")
      /\ replies'[c] = replies[c] \o Answers(st)
      /\ \A i \in Items :
           codes'[i] = IF st = i THEN v
                       ELSE IF st = "RESET" /\ ItemChannel(i) = c THEN 0
                       ELSE codes[i]
  <2> DEFINE r == Request(s)
  <2>1. r = Head(requests[c]) /\ BusTypeOK
    BY <1>3 DEF BusInv
  <2>2. r.state = st /\ r.value = v
    BY <1>4
  <2> HIDE DEF r
  <2>3. UNCHANGED <<vars, outcome>>
    BY DEF BCMHandle
  <2>4. BCMDoes(c, r)
    BY <2>1, BCMEffect
  <2>5. requests'[c] = <<>>
    BY <1>3, <2>1, <2>4 DEF BusTypeOK, BCMDoes
  <2> QED BY <1>5, <2>2, <2>3, <2>4, <2>5 DEF BCMDoes
<1>7. \A t \in On(c) : /\ state'[t] = state[t] /\ sent'[t] = sent[t] /\ age'[t] = age[t]
                      /\ second'[t] = second[t]
  BY <1>6 DEF vars
<1>8. st \in RetrieveStates \cup {"EXIT"} => \A i \in Items : codes'[i] = codes[i]
  BY <1>6, ItemsAssumption DEF RetrieveStates, AllItems
<1>9. st \in RetrieveStates \cup {"EXIT"} => \A f : Shows(f)' <=> Shows(f)
  BY <1>6, <1>8 DEF Shows, vars
<1>10. replies'[c] = Answers(st)
  <2>1. Answers(st) \in Seq(Rep)
    BY <1>2, AnswersTyped DEF BusInv
  <2> QED BY <1>2, <1>6, <2>1, ConcatEmptySeq
<1>11. Answers(st)' = Answers(st)
  BY <1>2, <1>7, <1>8, AnswersKept DEF BusInv
<1>12. st = "RETRIEVE_71E_2X" => Answers(st)' = <<Reply("21")', Reply("22")'>>
  <2>1. ASSUME st = "RETRIEVE_71E_2X" PROVE Answers(st)' = <<Reply("21")', Reply("22")'>>
    <3>1. st' = "RETRIEVE_71E_2X"
      BY <1>7, <2>1
    <3> QED BY <3>1 DEF Answers
  <2> QED BY <2>1
<1>13. Waits(s)'
  BY <1>1, <1>7 DEF Waits, Active
<1>14. s \in Updates /\ state'[s] = update'[s] => codes'[update'[s]] = value'[s]
  BY <1>2, <1>6 DEF vars
<1>15. OnTheWay(c)'
  <2>1. Answered(c, s)'
    <3>1. CASE st = "RETRIEVE_71E_2X"
      <4>1. replies'[c] = <<Reply("21")', Reply("22")'>>
        BY <1>10, <1>11, <1>12, <3>1
      <4> QED BY <1>2, <1>6, <1>7, <1>14, <3>1, <4>1 DEF Answered
    <3>2. CASE st # "RETRIEVE_71E_2X"
      <4>1. replies'[c] = Answers(st)'
        BY <1>10, <1>11
      <4> QED BY <1>6, <1>7, <1>14, <3>2, <4>1 DEF Answered
    <3> QED BY <3>1, <3>2
  <2> QED BY <1>13, <2>1 DEF OnTheWay
<1>16. ASSUME NEW t \in On(c) PROVE Moded(c, t)' /\ Stored(t)' /\ Seen(c, t)'
  <2>1. CASE t = s
    <3>1. Moded(c, s) /\ Stored(s) /\ Seen(c, s)
      BY DEF ChannelInv
    <3>2. Moded(c, s)'
      BY <1>2, <1>6, <1>7 DEF Moded
    <3>3. Stored(s)'
      BY <1>2, <1>6, <1>7, <1>8, <3>1 DEF Stored, vars
    <3>4. Seen(c, s)'
      BY <1>7, <1>9, <3>1 DEF Seen, RetrieveStates
    <3> QED BY <2>1, <3>2, <3>3, <3>4
  <2>2. CASE t # s
    <3>1. state'[t] = "READY" /\ ~second'[t]
      BY <1>2, <1>7, <2>2, ChannelsApart DEF Active, BusInv, Halved
    <3> QED BY <3>1 DEF Moded, Stored, Seen, Active, RetrieveStates
  <2> QED BY <2>1, <2>2
<1>17. Done(c)'
  <2>1. ~Ready(c)
    BY <1>2 DEF Ready
  <2> QED BY <1>6, <2>1 DEF ChannelInv, Done
<1> QED BY <1>15, <1>16, <1>17 DEF ChannelInv

----------------------------------------------------------------------------
\* With a prompt BCM: the channels do not disturb each other.

\* A frame that is received on one channel leaves the other alone.
LEMMA DeliverApart ==
  ASSUME BusInv, NEW c \in Channels, Deliver(c), ChannelInv(c),
         NEW d \in Channels \ {c}
  PROVE  SameNode(d) /\ SameWay(d) /\ SameItems(d)
<1>1. PICK f \in States \cup FramesOf(c) : Head(replies[c]) = Reply(f)
  BY HeadFrame DEF Deliver, ChannelInv
<1> DEFINE k == Reply(f).code
<1>2. HandleFrame(c, f, k)
  BY <1>1 DEF Deliver, Reply
<1>3. UNCHANGED <<requests, inMode, codes, update, value>>
      /\ replies'[d] = replies[d] /\ outcome'[d] = outcome[d]
  BY <1>2 DEF Deliver, HandleFrame, BusInv, BusTypeOK
<1>4. SameNode(d)
  <2> DEFINE matched == {t \in On(c) : MatchState(f, state[t])}
             moved   == {t \in matched : NextState(t) # state[t]}
  <2>1. \A t \in On(d) : t \notin matched /\ t \notin moved /\ t \in Seqs
    BY ChannelsApart
  <2>2. \A t \in Seqs :
          /\ state'[t] = IF t \in moved THEN NextState(t) ELSE state[t]
          /\ sent'[t] = IF t \in moved THEN FALSE ELSE sent[t]
          /\ age'[t] = IF t \in moved /\ NextState(t) = "READY" THEN 0 ELSE age[t]
          /\ second'[t] = ( \/ t \in matched /\ state[t] = "RETRIEVE_71E_2X" /\ ~second[t]
                            \/ t \notin moved /\ second[t])
    BY <1>2 DEF HandleFrame
  <2> HIDE DEF matched, moved
  <2>3. \A t \in On(d) : second'[t] = second[t]
    BY <2>1, <2>2 DEF BusInv, TypeOK
  <2> QED BY <1>3, <2>1, <2>2, <2>3 DEF SameNode
<1>5. SameItems(d)
  <2>1. \A i \in Items : ItemChannel(i) = d => StateFrame(i) # f
    BY FramesSplit, ItemsAssumption
  <2> QED BY <1>2, <1>3, <2>1 DEF SameItems, HandleFrame, HandleState
<1> QED BY <1>3, <1>4, <1>5 DEF SameWay

\* So does a request that the BCM receives.
LEMMA BCMApart ==
  ASSUME BusInv, NEW c \in Channels, BCMHandle(c), ChannelInv(c),
         NEW d \in Channels \ {c}
  PROVE  SameNode(d) /\ SameWay(d) /\ SameItems(d)
<1>1. PICK s \in On(c) : Waits(s) /\ Requested(c, s)
  BY DEF BCMHandle, ChannelInv, OnTheWay, Drained, Answered
<1> DEFINE r == Request(s)
<1>2. r = Head(requests[c]) /\ BusTypeOK
  BY <1>1, ShortTails DEF Requested, BusInv
<1>3. r.state = state[s] /\ s \in Seqs /\ Active(s)
  BY <1>1, ChannelsApart DEF Request, Waits
<1> HIDE DEF r
<1>4. UNCHANGED <<vars, outcome>> /\ BCMDoes(c, r)
  BY <1>2, BCMEffect DEF BCMHandle
<1>5. SameNode(d)
  BY <1>4 DEF SameNode, vars
<1>6. SameWay(d)
  BY <1>2, <1>4 DEF SameWay, BusTypeOK, BCMDoes
<1>7. SameItems(d)
  <2>1. ASSUME NEW i \in Items, ItemChannel(i) = d PROVE r.state # i
    <3> SUFFICES ASSUME r.state = i PROVE FALSE
      OBVIOUS
    <3>1. s \in Updates /\ update[s] = i
      BY <1>3, ItemState DEF BusInv
    <3>2. Update(ItemChannel(i)) = s
      BY <3>1 DEF BusInv, Valued
    <3> QED BY <2>1, <3>2, ChannelsApart
  <2> QED BY <1>4, <2>1 DEF SameItems, vars, BCMDoes
<1> QED BY <1>5, <1>6, <1>7

\* So does a loss.
LEMMA LoseApart ==
  ASSUME BusInv, NEW c \in Channels, LoseRequest(c) \/ LoseReply(c),
         NEW d \in Channels \ {c}
  PROVE  SameNode(d) /\ SameWay(d) /\ SameItems(d)
<1>1. UNCHANGED <<vars, inMode, codes, outcome>>
      /\ requests'[d] = requests[d] /\ replies'[d] = replies[d]
  BY DEF LoseRequest, LoseReply, BusInv, BusTypeOK
<1> QED BY <1>1 DEF SameNode, SameWay, SameItems, vars
----------------------------------------------------------------------------
\* With a prompt BCM: the invariant, and what follows from it.

\* The channels of a prompt BCM start in their invariant.
LEMMA PromptInit == BusInit => PromptInv
<1> SUFFICES ASSUME BusInit, NEW c \in Channels PROVE ChannelInv(c)
  BY DEF PromptInv
<1>1. Drained(c) /\ outcome[c] = "none"
  BY DEF BusInit, Drained
<1>2. \A s \in On(c) : state[s] \in {"READY", "ENTER"} /\ ~second[s]
  BY ChannelsApart DEF BusInit, Init
<1> QED BY <1>1, <1>2 DEF ChannelInv, OnTheWay, Moded, Stored, Seen, Done, Active,
        RetrieveStates

\* Every step keeps it on both channels.
LEMMA PromptNext == BusInv /\ PromptInv /\ [BusNext]_busVars => PromptInv'
<1> SUFFICES ASSUME BusInv, PromptInv, [BusNext]_busVars, prompt',
                    NEW d \in Channels
             PROVE  ChannelInv(d)'
  BY DEF PromptInv
<1>1. prompt
  BY DEF BusNext, UserCommand, NodeEmit, Deliver, BCMHandle, LoseRequest, LoseReply,
         ClockTick, envVars, busVars
<1>2. \A c \in Channels : ChannelInv(c)
  BY <1>1 DEF PromptInv
<1>3. CASE UserCommand
  BY <1>2, <1>3, UserChannel
<1>4. CASE NodeEmit
  BY <1>2, <1>4, EmitChannel
<1>5. ASSUME NEW c \in Channels, Deliver(c) PROVE ChannelInv(d)'
  <2>1. CASE d = c
    BY <1>2, <1>5, <2>1, DeliverChannel
  <2>2. CASE d # c
    BY <1>2, <1>5, <2>2, DeliverApart, ChannelSame
  <2> QED BY <2>1, <2>2
<1>6. ASSUME NEW c \in Channels, BCMHandle(c) PROVE ChannelInv(d)'
  <2>1. CASE d = c
    BY <1>2, <1>6, <2>1, BCMChannel
  <2>2. CASE d # c
    BY <1>2, <1>6, <2>2, BCMApart, ChannelSame
  <2> QED BY <2>1, <2>2
<1>7. ASSUME NEW c \in Channels, LoseRequest(c) \/ LoseReply(c) PROVE ChannelInv(d)'
  <2>1. CASE d = c
    BY <1>2, <1>7, <2>1, LoseChannel
  <2>2. CASE d # c
    BY <1>2, <1>7, <2>2, LoseApart, ChannelSame
  <2> QED BY <2>1, <2>2
<1>8. CASE ClockTick
  BY <1>1, <1>2, <1>8, TickChannel
<1>9. CASE UNCHANGED busVars
  <2>1. SameNode(d) /\ SameWay(d) /\ SameItems(d)
    BY <1>9 DEF busVars, vars, envVars, SameNode, SameWay, SameItems
  <2> QED BY <1>2, <2>1, ChannelSame
<1> QED BY <1>3, <1>4, <1>5, <1>6, <1>7, <1>8, <1>9 DEF BusNext

\* So it holds in every reachable state.
LEMMA AlwaysPromptInv == BusSpec => []PromptInv
BY PromptInit, PromptNext, AlwaysBusInv, PTL DEF BusSpec

\* A prompt BCM is never sent anything but ENTER outside settings mode, whatever
\* commands are given and whatever frames are lost.
THEOREM PromptInMode == BusSpec => [](prompt => CommandsInMode)
<1>1. PromptInv => (prompt => CommandsInMode)
  <2> SUFFICES ASSUME PromptInv, prompt, NEW c \in Channels, requests[c] # <<>>
               PROVE  Serves(c, Head(requests[c]).state)
    BY DEF CommandsInMode
  <2>1. PICK s \in On(c) : Requested(c, s)
    BY DEF PromptInv, ChannelInv, OnTheWay, Drained, Answered
  <2>2. Head(requests[c]) = Request(s) /\ Serves(c, state[s])
    BY <2>1, ShortTails DEF Requested
  <2> QED BY <2>2 DEF Request
<1> QED BY <1>1, AlwaysPromptInv, PTL

\* Once a prompt BCM has acknowledged an update, it holds the value it was given.
THEOREM UpdatesArrive == BusSpec => []UpdateApplied
<1>1. PromptInv => UpdateApplied
  <2> SUFFICES ASSUME PromptInv, prompt, NEW u \in Updates,
                      state[u] \in RetrieveStates \cup {"EXIT"}
               PROVE  codes[update[u]] = value[u]
    BY DEF UpdateApplied
  <2>1. \E c \in Channels : u \in On(c)
    BY ChannelsSplit DEF Updates, Seqs, OnE, OnF
  <2> QED BY <2>1 DEF PromptInv, ChannelInv, Stored
<1> QED BY <1>1, AlwaysPromptInv, PTL

\* After a transaction with a prompt BCM that ran to its end, the displays show
\* what the BCM stores for every setting of the channel, although any of the
\* frames of an earlier transaction may have been lost.
THEOREM PromptDisplays == BusSpec => [](prompt => DisplayCurrent)
<1>1. BusInv /\ PromptInv => (prompt => DisplayCurrent)
  <2> SUFFICES ASSUME BusInv, PromptInv, prompt, NEW c \in Channels,
                      outcome[c] = "complete", ~available,
                      NEW i \in Items, ItemChannel(i) = c
               PROVE  published[i] = Decode(i, codes[i], published[i])
    BY DEF DisplayCurrent
  <2>1. StateFrame(i) \in FramesOf(c)
    BY FramesSplit, ItemsAssumption
  <2>2. Shows(StateFrame(i))
    BY <2>1 DEF PromptInv, ChannelInv, Done
  <2>3. published = event
    BY DEF BusInv, Fresh
  <2> QED BY <2>2, <2>3 DEF Shows
<1> QED BY <1>1, AlwaysBusInv, AlwaysPromptInv, PTL

\* After such a transaction a prompt BCM has left settings mode.
THEOREM ModeIsLeft == BusSpec => []LeavesMode
<1>1. PromptInv => LeavesMode
  BY DEF PromptInv, ChannelInv, Done, LeavesMode
<1> QED BY <1>1, AlwaysPromptInv, PTL

\* With a prompt BCM no response that is left over from an earlier request
\* takes a sequence on: handle does not look at sent_, and need not.
THEOREM AdvancesWhenAsked == BusSpec => AnsweredWhenAsked
<1>1. ASSUME BusInv, PromptInv, [BusNext]_busVars, prompt, NEW s \in Seqs,
             Active(s), state'[s] \notin {state[s], "READY"}
      PROVE  sent[s]
  <2>1. \A c \in Channels : ChannelInv(c)
    BY <1>1 DEF PromptInv
  <2>2. CASE UserCommand
    <3>1. PICK S \in SUBSET Seqs : Trigger(S)
      BY <1>1, <2>2, CommandTriggers DEF BusInv
    <3> QED BY <1>1, <3>1 DEF Trigger
  <2>3. CASE NodeEmit
    BY <1>1, <2>3 DEF NodeEmit, Emit
  <2>4. ASSUME NEW c \in Channels, Deliver(c) PROVE sent[s]
    <3>1. CASE s \in On(c)
      <4>1. \E t \in On(c) : Waits(t)
        BY <1>1, <2>1, <2>4, HeadFrame DEF Deliver, ChannelInv
      <4> QED BY <1>1, <3>1, <4>1 DEF BusInv, Exclusive, Waits
    <3>2. CASE s \notin On(c)
      <4>1. PICK d \in Channels \ {c} : s \in On(d)
        BY <3>2, ChannelsSplit
      <4>2. SameNode(d)
        BY <1>1, <2>1, <2>4, DeliverApart
      <4> QED BY <1>1, <4>1, <4>2 DEF SameNode
    <3> QED BY <3>1, <3>2
  <2>5. ASSUME UNCHANGED state PROVE sent[s]
    BY <1>1, <2>5
  <2>6. ASSUME NEW c \in Channels, BCMHandle(c) \/ LoseRequest(c) \/ LoseReply(c)
        PROVE  sent[s]
    BY <2>5, <2>6 DEF BCMHandle, LoseRequest, LoseReply, vars
  <2>7. CASE ClockTick \/ UNCHANGED busVars
    BY <2>5, <2>7 DEF ClockTick, Tick, busVars, vars
  <2> QED BY <1>1, <2>2, <2>3, <2>4, <2>6, <2>7 DEF BusNext
<1>2. BusInv /\ PromptInv /\ [BusNext]_busVars =>
        [prompt => \A s \in Seqs : Active(s) /\ state'[s] \notin {state[s], "READY"}
                     => sent[s]]_busVars
  BY <1>1
<1> QED BY <1>2, AlwaysBusInv, AlwaysPromptInv, PTL DEF BusSpec, AnsweredWhenAsked
=============================================================================
