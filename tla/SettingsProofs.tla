--------------------------- MODULE SettingsProofs ---------------------------
(* The settings node keeps one transaction per channel and never redirects   *)
(* an update under way: proofs, for every set of settings and every deadline *)
(* and against every order of response frames.                               *)
EXTENDS Settings, TLAPS

----------------------------------------------------------------------------
\* Lemmas about the tables.

\* A code that a frame can report turns into a value of the event.
LEMMA DecodeRange ==
  ASSUME NEW i \in AllItems, NEW code \in Codes(i), NEW old \in 0..12
  PROVE  Decode(i, code, old) \in 0..12
<1>1. CASE i = "hlDelay"
  <2>1. code \in {0, 1, 2, 3, 4, 5, 6, 7}
    BY <1>1 DEF Codes
  <2>2. QED
    BY <1>1, <2>1 DEF Decode, DelayOf
<1>2. CASE i = "hlSens"
  BY <1>2 DEF Decode, SensOf, Codes
<1>3. CASE i = "relock"
  <2>1. code \in {0, 1, 2, 3}
    BY <1>3 DEF Codes
  <2>2. QED
    BY <1>3, <2>1 DEF Decode, RelockOf
<1>4. CASE i = "wiper"
  BY <1>4 DEF Decode, Codes
<1>5. CASE i \notin {"hlDelay", "hlSens", "relock", "wiper"}
  BY <1>5 DEF Decode, Codes
<1>6. QED
  BY <1>1, <1>2, <1>3, <1>4, <1>5

\* Each sequence is on one channel.
LEMMA ChannelsSplit ==
  /\ \A s \in Seqs : \E c \in Channels : s \in On(c)
  /\ \A c \in Channels : On(c) \subseteq Seqs
  /\ \A i \in AllItems : /\ ItemChannel(i) \in Channels
                         /\ Update(ItemChannel(i)) \in On(ItemChannel(i))
                         /\ Update(ItemChannel(i)) \in Updates
  /\ \A s \in Updates, t \in Updates, c \in Channels :
       s \in On(c) /\ t \in On(c) => s = t
BY DEF Seqs, OnE, OnF, On, Channels, ItemChannel, Update, Updates, AllItems

----------------------------------------------------------------------------
\* A command is for one of the settings in play.
LEMMA CommandItem ==
  ASSUME NEW cmd \in Commands, cmd[1] \in Items
  PROVE  cmd[1] \in AllItems
BY ItemsAssumption

\* The state that a sequence moves to is one of its states.
LEMMA NextStateType ==
  ASSUME TypeOK, NEW s \in Seqs
  PROVE  NextState(s) \in States
<1>1. ReadBack(s) \in States
  BY DEF ReadBack, States, RetrieveStates
<1>2. AfterEnter(s) \in States
  BY <1>1 DEF AfterEnter, TypeOK, States, InitStates, Seqs, OnE, OnF, Inits,
              Retrieves, Updates, Resets
<1>3. AfterInit(state[s]) \in States
  BY DEF AfterInit, States, InitStates
<1>4. QED
  BY <1>1, <1>2, <1>3 DEF NextState, States, RetrieveStates

\* The node starts with values of the right types.
LEMMA TypeInit == Init => TypeOK
<1> SUFFICES ASSUME Init PROVE TypeOK
  OBVIOUS
<1>1. state \in [Seqs -> States] /\ sent \in [Seqs -> BOOLEAN]
  BY DEF Init, States
<1>2. age \in [Seqs -> 0..Timeout] /\ second \in [Seqs -> BOOLEAN]
  <2>1. 0 \in 0..Timeout
    BY TimeoutAssumption
  <2>2. QED
    BY <2>1 DEF Init
<1>3. /\ update \in [Updates -> {"READY"} \cup Items]
      /\ value \in [Updates -> 0..255]
  BY DEF Init
<1>4. event \in [Items -> 0..12]
  <2>1. event = [i \in Items |-> 0] /\ 0 \in 0..12
    BY DEF Init
  <2>2. QED
    BY <2>1
<1>5. available \in BOOLEAN
  BY DEF Init
<1>6. QED
  BY <1>1, <1>2, <1>3, <1>4, <1>5 DEF TypeOK

\* No step of the node takes a variable out of its type.
LEMMA TypeNext == TypeOK /\ [Next]_vars => TypeOK'
<1> SUFFICES ASSUME TypeOK, [Next]_vars PROVE TypeOK'
  OBVIOUS
<1>1. ASSUME NEW S \in SUBSET Seqs, Trigger(S)
      PROVE  /\ state' \in [Seqs -> States]
             /\ sent' \in [Seqs -> BOOLEAN]
             /\ age' \in [Seqs -> 0..Timeout]
  <2>1. state' \in [Seqs -> States]
    BY <1>1 DEF Trigger, TypeOK, States
  <2>2. sent' \in [Seqs -> BOOLEAN]
    BY <1>1 DEF Trigger, TypeOK
  <2>3. age' \in [Seqs -> 0..Timeout]
    BY <1>1, TimeoutAssumption DEF Trigger, TypeOK
  <2>4. QED
    BY <2>1, <2>2, <2>3
<1>2. ASSUME NEW cmd \in Commands, cmd[1] \in Items, Change(cmd[1], cmd[2])
      PROVE  TypeOK'
  <2> DEFINE i == cmd[1]
             u == Update(ItemChannel(i))
  <2>1. u \in Updates /\ u \in Seqs
    BY <1>2, CommandItem, ChannelsSplit
  <2>2. Trigger({u})
    BY <1>2 DEF Change
  <2>3. PICK code \in 0..7 : /\ update' = [update EXCEPT ![u] = i]
                             /\ value' = [value EXCEPT ![u] = code]
    BY <1>2 DEF Change, CommandCode
  <2>4. update' \in [Updates -> {"READY"} \cup Items]
    BY <1>2, <2>1, <2>3 DEF TypeOK
  <2>5. value' \in [Updates -> 0..255]
    BY <2>1, <2>3 DEF TypeOK
  <2>6. UNCHANGED <<second, event, available>>
    BY <1>2 DEF Change
  <2>7. QED
    BY <1>1, <2>1, <2>2, <2>4, <2>5, <2>6 DEF TypeOK
<1>3. CASE RequestCurrent
  BY <1>1, <1>3 DEF RequestCurrent, Retrieves, Seqs, OnE, OnF, TypeOK
<1>4. CASE ResetSettingsToDefault
  BY <1>1, <1>4 DEF ResetSettingsToDefault, Resets, Seqs, OnE, OnF, TypeOK
<1>5. ASSUME NEW c \in Channels, NEW f \in Responses, NEW code \in Payload[f],
             HandleFrame(c, f, code)
      PROVE  TypeOK'
  <2>1. state' \in [Seqs -> States]
    BY <1>5, NextStateType DEF HandleFrame, TypeOK
  <2>2. sent' \in [Seqs -> BOOLEAN] /\ second' \in [Seqs -> BOOLEAN]
    BY <1>5 DEF HandleFrame, TypeOK
  <2>3. age' \in [Seqs -> 0..Timeout]
    BY <1>5, TimeoutAssumption DEF HandleFrame, TypeOK
  <2>4. event' \in [Items -> 0..12]
    <3>1. ASSUME NEW i \in Items, StateFrame(i) = f
          PROVE  Decode(i, code[i], event[i]) \in 0..12
      BY <3>1, DecodeRange, ItemsAssumption DEF Payload, TypeOK
    <3>2. QED
      BY <1>5, <3>1 DEF HandleFrame, HandleState, TypeOK
  <2>5. available' \in BOOLEAN
    BY <1>5 DEF HandleFrame, HandleState, TypeOK
  <2>6. QED
    BY <1>5, <2>1, <2>2, <2>3, <2>4, <2>5 DEF HandleFrame, TypeOK
<1>6. CASE Emit
  <2>1. state' \in [Seqs -> States]
    BY <1>6 DEF Emit, TypeOK, States
  <2>2. sent' \in [Seqs -> BOOLEAN] /\ second' \in [Seqs -> BOOLEAN]
    BY <1>6 DEF Emit, TypeOK
  <2>3. age' \in [Seqs -> 0..Timeout]
    BY <1>6, TimeoutAssumption DEF Emit, TypeOK
  <2>4. available' \in BOOLEAN
    BY <1>6 DEF Emit, TypeOK
  <2>5. QED
    BY <1>6, <2>1, <2>2, <2>3, <2>4 DEF Emit, TypeOK
<1>7. CASE Tick
  <2>1. age' \in [Seqs -> 0..Timeout]
    BY <1>7, TimeoutAssumption DEF Tick, Overdue, TypeOK
  <2>2. QED
    BY <1>7, <2>1 DEF Tick, TypeOK
<1>8. CASE UNCHANGED vars
  BY <1>8 DEF vars, TypeOK
<1>9. QED
  BY <1>2, <1>3, <1>4, <1>5, <1>6, <1>7, <1>8 DEF Next

\* Every variable keeps the type of the member it stands for.
THEOREM TypeCorrect == Spec => []TypeOK
BY TypeInit, TypeNext, PTL DEF Spec

\* No step starts a sequence on a channel that has one under way.
LEMMA ExclusiveNext == TypeOK /\ Exclusive /\ [Next]_vars => Exclusive'
<1> SUFFICES ASSUME TypeOK, Exclusive, [Next]_vars PROVE Exclusive'
  OBVIOUS
<1>1. ASSUME \A s \in Seqs : Active(s)' => Active(s)
      PROVE  Exclusive'
  BY <1>1, ChannelsSplit DEF Exclusive
<1>2. ASSUME NEW S \in SUBSET Seqs, Trigger(S),
             \A c \in Channels : /\ S \cap On(c) # {} => Ready(c)
                                /\ \A s, t \in S \cap On(c) : s = t
      PROVE  Exclusive'
  <2>1. \A s \in Seqs : Active(s)' => Active(s) \/ s \in S
    BY <1>2 DEF Trigger, Active
  <2>2. QED
    BY <1>2, <2>1, ChannelsSplit DEF Exclusive, Ready
<1>3. ASSUME NEW cmd \in Commands, cmd[1] \in Items, Change(cmd[1], cmd[2])
      PROVE  Exclusive'
  <2> DEFINE c == ItemChannel(cmd[1])
  <2>1. /\ c \in Channels /\ Update(c) \in On(c) /\ Update(c) \in Seqs
        /\ \A d \in Channels : Update(c) \in On(d) => d = c
    BY <1>3, CommandItem, ChannelsSplit
       DEF Channels, On, OnE, OnF, Update, Seqs, Updates
  <2>2. Ready(c) /\ Trigger({Update(c)})
    BY <1>3 DEF Change
  <2>3. QED
    BY <1>2, <2>1, <2>2
<1>4. CASE RequestCurrent
  BY <1>2, <1>4
     DEF RequestCurrent, Retrieves, Channels, On, OnE, OnF, Seqs
<1>5. CASE ResetSettingsToDefault
  BY <1>2, <1>5
     DEF ResetSettingsToDefault, Resets, Channels, On, OnE, OnF, Seqs
<1>6. ASSUME NEW c \in Channels, NEW f \in Responses, NEW code \in Payload[f],
             HandleFrame(c, f, code)
      PROVE  Exclusive'
  <2>1. \A s \in Seqs : MatchState(f, state[s]) => Active(s)
    BY DEF MatchState, Active
  <2>2. \A s \in Seqs : Active(s)' => Active(s)
    BY <1>6, <2>1 DEF HandleFrame, Active
  <2>3. QED
    BY <1>1, <2>2
<1>7. CASE Emit
  BY <1>1, <1>7 DEF Emit, Active
<1>8. CASE Tick
  BY <1>1, <1>8 DEF Tick, Active
<1>9. CASE UNCHANGED vars
  BY <1>1, <1>9 DEF vars, Active
<1>10. QED
  BY <1>3, <1>4, <1>5, <1>6, <1>7, <1>8, <1>9 DEF Next

----------------------------------------------------------------------------
\* At most one sequence of a channel is under way: the guards of the commands
\* ask for both channels where they trigger on both, and nothing but a command
\* starts a sequence.
THEOREM OneAtATime == Spec => []Exclusive
<1>1. Init => Exclusive
  BY DEF Init, Exclusive, Active, On, Channels, Inits, OnE, OnF, Seqs
<1>2. QED
  BY <1>1, ExclusiveNext, TypeCorrect, PTL DEF Spec

\* An update under way keeps its setting and its code until it ends.
THEOREM UpdateNotRedirected == Spec => PayloadStable
<1>1. ASSUME TypeOK, [Next]_vars, NEW s \in Updates, Active(s)
      PROVE  update'[s] = update[s] /\ value'[s] = value[s]
  <2>1. ASSUME NEW cmd \in Commands, cmd[1] \in Items, Change(cmd[1], cmd[2])
        PROVE  update'[s] = update[s] /\ value'[s] = value[s]
    <3> DEFINE u == Update(ItemChannel(cmd[1]))
    <3>1. u \in Updates /\ ~Active(u)
      BY <2>1, CommandItem, ChannelsSplit DEF Change, Ready
    <3>2. s # u
      BY <1>1, <3>1
    <3>3. \E i, code : /\ update' = [update EXCEPT ![u] = i]
                      /\ value' = [value EXCEPT ![u] = code]
      BY <2>1 DEF Change
    <3>4. QED
      BY <1>1, <3>1, <3>2, <3>3 DEF TypeOK
  <2>2. ASSUME \/ RequestCurrent \/ ResetSettingsToDefault \/ Emit \/ Tick
               \/ UNCHANGED vars
               \/ \E c \in Channels, f \in Responses :
                    \E code \in Payload[f] : HandleFrame(c, f, code)
        PROVE  update' = update /\ value' = value
    BY <2>2 DEF RequestCurrent, ResetSettingsToDefault, Emit, Tick, vars,
                HandleFrame
  <2>3. QED
    BY <1>1, <2>1, <2>2 DEF Next
<1>2. TypeOK /\ [Next]_vars =>
        [\A s \in Updates : Active(s) /\ state'[s] # "READY" =>
           update'[s] = update[s] /\ value'[s] = value[s]]_vars
  BY <1>1
<1>3. QED
  BY <1>2, TypeCorrect, PTL DEF Spec, PayloadStable
=============================================================================
