----------------------------- MODULE CabinProofs -----------------------------
(* Proofs about the defrost button, the steering keys, the climate node, the *)
(* display with its knobs and the keypad of the extra devices.               *)
EXTENDS MomentaryOutput, Keys, Climate, Screen, PowerPanel, FiniteSetTheorems, TLAPS

-----------------------------------------------------------------------------
(* The defrost button.  The strengthening PressInductive says how long ago  *)
(* the last update() was when a press is overdue.                           *)

\* The levels of a drained pin that is pressed and of one that is not differ.
LEMMA OnIsNotOff ==
  ASSUME Mode = "DRAIN"
  PROVE  On # Off /\ On = Out("LOW") /\ Off = In("HIGH")
  BY DEF On, Off, Out, In

\* Every step keeps the strengthening, when no two updates are further apart
\* than the cooldown.
LEMMA PressStep ==
  ASSUME Mode = "DRAIN", MaxGap <= CooldownMs, PressInductive, [PinNext]_pinVars
  PROVE  PressInductive'
<1> USE TimesAssumption, GapAssumption, OnIsNotOff DEF PressInductive, PinTypeOK
<1>1. CASE Trigger
  BY <1>1 DEF Trigger
<1>2. CASE Update
  <2>1. CASE triggered # 0 /\ elapsed >= TriggerMs + CooldownMs
    BY <1>2, <2>1 DEF Update
  <2>2. CASE triggered = 1 /\ elapsed >= TriggerMs /\ elapsed < TriggerMs + CooldownMs
    BY <1>2, <2>2 DEF Update
  <2>3. CASE /\ ~(triggered # 0 /\ elapsed >= TriggerMs + CooldownMs)
             /\ ~(triggered = 1 /\ elapsed >= TriggerMs /\ elapsed < TriggerMs + CooldownMs)
    BY <1>2, <2>3 DEF Update
  <2> QED BY <2>1, <2>2, <2>3
<1>3. CASE Millisecond
  BY <1>3 DEF Millisecond
<1>4. CASE UNCHANGED pinVars
  BY <1>4 DEF pinVars
<1> QED BY <1>1, <1>2, <1>3, <1>4 DEF PinNext

\* A press of the defrost button ends within the trigger time and one gap, for
\* all times such that updates are no further apart than the cooldown.
THEOREM PressAlwaysEnds ==
  ASSUME Mode = "DRAIN", MaxGap <= CooldownMs
  PROVE  PinSpec => []PressEnds
<1>1. PinInit => PressInductive
  BY OnIsNotOff, TimesAssumption, GapAssumption DEF PinInit, PressInductive, PinTypeOK
<1>2. PressInductive /\ [PinNext]_pinVars => PressInductive'
  BY PressStep
<1>3. PressInductive => PressEnds
  BY TimesAssumption, GapAssumption DEF PressInductive, PinTypeOK, PressEnds
<1> QED BY <1>1, <1>2, <1>3, PTL DEF PinSpec

-----------------------------------------------------------------------------
(* The steering keys.  The strengthening KeysInductive says that the state  *)
(* of a button remembers whether a command of this press was sent.          *)

\* The smaller of two numbers.
LEMMA MinOfTwo ==
  ASSUME NEW a \in Nat, NEW b \in Nat
  PROVE  Min({a, b}) = IF a <= b THEN a ELSE b
<1>1. PICK m \in {a, b} : \A y \in {a, b} : m <= y
  <2>1. a <= b \/ b <= a
    OBVIOUS
  <2> QED BY <2>1
<1>2. Min({a, b}) \in {a, b} /\ \A y \in {a, b} : Min({a, b}) <= y
  BY <1>1 DEF Min
<1> QED BY <1>2

\* A count of the commands sent stays below 3, and grows otherwise.
LEMMA Counted ==
  ASSUME NEW n \in 0 .. 2
  PROVE  Min({n + 1, 2}) \in 1 .. 2 /\ (n = 0 => Min({n + 1, 2}) = 1)
<1>1. n + 1 \in Nat /\ 2 \in Nat
  OBVIOUS
<1>2. Min({n + 1, 2}) = IF n + 1 <= 2 THEN n + 1 ELSE 2
  BY <1>1, MinOfTwo
<1> QED BY <1>2

\* All buttons rest at the start.
LEMMA KeysStart == KeysInit => KeysInductive
  BY DEF KeysInit, KeysInductive, KeysTypeOK

\* A press that is reported starts the count anew.
LEMMA PressedStep ==
  ASSUME KeysInductive, KeyPressed
  PROVE  KeysInductive'
<1> PICK k \in held \ told : /\ told' = told \cup {k}
                             /\ button' = Press(k)
                             /\ sent' = [sent EXCEPT ![k] = 0]
  BY DEF KeyPressed
<1> USE DEF KeysInductive, KeysTypeOK
<1>1. k \in AllKeys /\ held' = held
  BY DEF KeyPressed
<1>2. button' = [button EXCEPT ![k] = [state |-> 1, since |-> 0]]
  BY DEF Press
<1>3. KeysTypeOK'
  BY <1>1, <1>2
<1>4. ASSUME NEW j \in AllKeys
      PROVE  /\ (j \in told <=> button[j].state # 0)'
             /\ (button[j].state = 1 <=> sent[j] = 0)'
             /\ button'[j].state = 2 => j \in LongKeys \cup RepeatKeys
             /\ j \notin RepeatKeys => sent'[j] <= 1
  <2>1. CASE j = k
    BY <1>1, <1>2, <2>1
  <2>2. CASE j # k
    BY <1>1, <1>2, <2>2
  <2> QED BY <2>1, <2>2
<1> QED BY <1>3, <1>4

\* A release leaves a count of at least one.
LEMMA ReleasedStep ==
  ASSUME KeysInductive, KeyReleased
  PROVE  KeysInductive'
<1> PICK k \in told \ held :
      /\ told' = told \ {k}
      /\ sent' = IF k = "MODE" \/ Short(button[k]) THEN Sent(k, 1) ELSE sent
      /\ button' = [button EXCEPT ![k].state = 0]
  BY DEF KeyReleased
<1> USE DEF KeysInductive, KeysTypeOK
<1>1. k \in AllKeys /\ held' = held
  BY DEF KeyReleased
<1>2. button[k] \in [state : 0 .. 2, since : Nat] /\ sent[k] \in 0 .. 2 /\ button[k].state # 0
  BY <1>1
<1>3. Min({sent[k] + 1, 2}) \in 1 .. 2 /\ (sent[k] = 0 => Min({sent[k] + 1, 2}) = 1)
  BY <1>2, Counted
<1>4. /\ sent' \in [AllKeys -> 0 .. 2]
      /\ \A j \in AllKeys \ {k} : sent'[j] = sent[j]
      /\ sent'[k] >= 1
      /\ k \notin RepeatKeys => sent'[k] <= 1
  <2>1. CASE Short(button[k])
    <3>1. sent[k] = 0
      BY <1>1, <2>1 DEF Short
    <3> QED BY <1>1, <1>3, <2>1, <3>1 DEF Sent
  <2>2. CASE ~Short(button[k]) /\ k # "MODE"
    BY <1>1, <1>2, <2>2 DEF Short
  <2>3. CASE ~Short(button[k]) /\ k = "MODE"
    <3>1. "MODE" \notin LongKeys \cup RepeatKeys
      BY DEF LongKeys, RepeatKeys
    <3> QED BY <1>1, <1>2, <2>3, <3>1 DEF Short
  <2> QED BY <2>1, <2>2, <2>3
<1>5. /\ button' \in [AllKeys -> [state : 0 .. 2, since : Nat]]
      /\ \A j \in AllKeys \ {k} : button'[j] = button[j]
      /\ button'[k].state = 0
  BY <1>1, <1>2
<1> QED BY <1>1, <1>4, <1>5

\* Triggering a due button sends one command for it.
LEMMA EmitStep ==
  ASSUME KeysInductive, KeysEmit
  PROVE  KeysInductive'
<1> DEFINE due == {k \in LongKeys \cup RepeatKeys : Due(k, button[k])}
<1> USE DEF KeysInductive, KeysTypeOK
<1>1. /\ button' = [k \in AllKeys |-> IF k \in due THEN Triggered(k, button[k]) ELSE button[k]]
      /\ sent' = [k \in AllKeys |-> IF k \in due THEN Min({sent[k] + 1, 2}) ELSE sent[k]]
      /\ held' = held /\ told' = told
  BY DEF KeysEmit
<1>2. ASSUME NEW k \in AllKeys
      PROVE  /\ button'[k] \in [state : 0 .. 2, since : Nat]
             /\ sent'[k] \in 0 .. 2
             /\ (k \in told <=> button[k].state # 0)'
             /\ (button[k].state = 1 <=> sent[k] = 0)'
             /\ button'[k].state = 2 => k \in LongKeys \cup RepeatKeys
             /\ k \notin RepeatKeys => sent'[k] <= 1
  <2>1. button[k] \in [state : 0 .. 2, since : Nat] /\ sent[k] \in 0 .. 2
    OBVIOUS
  <2>2. CASE k \notin due
    BY <1>1, <2>2, <2>1
  <2>3. CASE k \in due
    <3>1. /\ button'[k] = Triggered(k, button[k])
          /\ sent'[k] = Min({sent[k] + 1, 2})
      BY <1>1, <2>3
    <3>2. button'[k] \in [state : {2}, since : Nat]
      BY <3>1, <2>1 DEF Triggered
    <3>3. sent'[k] \in 1 .. 2 /\ (sent[k] = 0 => sent'[k] = 1)
      BY <3>1, <2>1, Counted
    <3>4. button[k].state # 0 /\ (k \in LongKeys => button[k].state = 1)
      BY <2>3 DEF Due
    <3>5. k \notin RepeatKeys => sent'[k] = 1
      BY <2>3, <3>3, <3>4
    <3> QED BY <1>1, <2>3, <3>2, <3>3, <3>4, <3>5
  <2> QED BY <2>2, <2>3
<1>3. /\ button' \in [AllKeys -> [state : 0 .. 2, since : Nat]]
      /\ sent' \in [AllKeys -> 0 .. 2]
  BY <1>1, <1>2
<1> QED BY <1>1, <1>2, <1>3

\* Time moves neither a state nor a count.
LEMMA ElapseStep ==
  ASSUME KeysInductive, Elapse
  PROVE  KeysInductive'
<1> USE DEF KeysInductive, KeysTypeOK
<1> DEFINE later(k) == IF button[k].state = 0 \/ k = "MODE" THEN 0
                       ELSE Min({button[k].since + 1, Held(k)})
<1>1. button' = [k \in AllKeys |-> [button[k] EXCEPT !.since = later(k)]]
  BY DEF Elapse
<1>2. ASSUME NEW k \in AllKeys PROVE later(k) \in Nat
  <2>1. Held(k) \in Nat /\ button[k].since + 1 \in Nat
    BY KeyTimes DEF Held, LongKeys
  <2>2. Min({button[k].since + 1, Held(k)}) \in Nat
    BY <2>1, MinOfTwo
  <2> QED BY <2>2
<1>3. ASSUME NEW k \in AllKeys
      PROVE  button'[k] \in [state : 0 .. 2, since : Nat] /\ button'[k].state = button[k].state
  <2>1. button[k] \in [state : 0 .. 2, since : Nat] /\ button'[k] = [button[k] EXCEPT !.since = later(k)]
    BY <1>1
  <2>2. later(k) \in Nat
    BY <1>2
  <2> HIDE DEF later
  <2> QED BY <2>1, <2>2
<1>4. held' = held /\ told' = told /\ sent' = sent
  BY DEF Elapse
<1>5. button' \in [AllKeys -> [state : 0 .. 2, since : Nat]]
  BY <1>1, <1>3
<1> QED BY <1>3, <1>4, <1>5

\* Every step keeps the strengthening.
LEMMA KeysStep == KeysInductive /\ [KeysNext]_keyVars => KeysInductive'
<1> SUFFICES ASSUME KeysInductive, [KeysNext]_keyVars PROVE KeysInductive'
  OBVIOUS
<1>1. CASE Hold
  BY <1>1 DEF Hold, KeysInductive, KeysTypeOK
<1>2. CASE LetGo
  BY <1>2 DEF LetGo, KeysInductive, KeysTypeOK
<1>3. CASE KeyPressed
  BY <1>3, PressedStep
<1>4. CASE KeyReleased
  BY <1>4, ReleasedStep
<1>5. CASE KeysEmit
  BY <1>5, EmitStep
<1>6. CASE Elapse
  BY <1>6, ElapseStep
<1>7. CASE UNCHANGED keyVars
  BY <1>7 DEF keyVars, KeysInductive, KeysTypeOK
<1> QED BY <1>1, <1>2, <1>3, <1>4, <1>5, <1>6, <1>7 DEF KeysNext

\* Every press of a steering key that the poll finds is answered, once by a key
\* with a long press and at least once by a key that repeats, for every ladder
\* and all times.
THEOREM PressesAnswered == KeysSpec => []EveryPressAnswered
<1>1. KeysInductive => EveryPressAnswered
  BY DEF KeysInductive, KeysTypeOK, EveryPressAnswered
<1> QED BY <1>1, KeysStart, KeysStep, PTL DEF KeysSpec

-----------------------------------------------------------------------------
(* The climate node.  Before the frames leave their initial content, age and *)
(* frameDue say how often both were sent; as long as the bus has lost fewer  *)
(* copies, the vehicle knows that all bits are zero.  From then on a bit that *)
(* the vehicle does not know is one that a command flipped.                  *)

CommandBits == SystemBits \cup FanBits

\* How often both initial frames were sent since the ECU started.
InitialSends == age + frameDue - 1

Known(frame) == \A f \in frame : seen[f] = 0

ClimateTypeOK ==
  /\ ready \in BOOLEAN /\ idle \in BOOLEAN
  /\ age \in 0 .. InitUnits /\ frameDue \in Nat
  /\ DOMAIN control = Fields /\ DOMAIN seen = Fields
  /\ credit \in [CommandBits -> Nat]
  /\ budget \in [commands : Nat, lost : Nat, reboots : Nat]

Starting ==
  /\ control = [f \in Fields |-> 0]
  /\ frameDue \in {0, 1} /\ InitialSends >= 0
  /\ age = InitUnits => frameDue = 0 /\ idle
  /\ ~idle => frameDue = 1
  /\ \A frame \in {SystemFrame, FanFrame} : Known(frame) \/ budget.lost >= InitialSends

ClimateInductive ==
  /\ ClimateTypeOK
  /\ budget.lost <= MaxLost
  /\ ~ready => Starting
  /\ budget.lost < InitUnits - 1 =>
       /\ ready => \A b \in CommandBits : seen[b] # control[b] => credit[b] >= 1
       /\ ~phantom

\* The larger of two numbers.
LEMMA MaxOfTwo ==
  ASSUME NEW a \in Int, NEW b \in Int
  PROVE  Max({a, b}) = IF a >= b THEN a ELSE b
<1>1. PICK m \in {a, b} : \A y \in {a, b} : m >= y
  <2>1. a <= b \/ b <= a
    OBVIOUS
  <2> QED BY <2>1
<1>2. Max({a, b}) \in {a, b} /\ \A y \in {a, b} : Max({a, b}) >= y
  BY <1>1 DEF Max
<1> QED BY <1>2

\* What sending some frames does: the bus delivers some of them, and a copy
\* that it does not deliver is counted.
LEMMA ControlSent ==
  ASSUME ClimateTypeOK,
         NEW frames, IsFiniteSet(frames), \A frame \in frames : frame \subseteq Fields,
         NEW given \in [CommandBits -> Nat],
         NEW spent \in [commands : Nat, lost : Nat, reboots : Nat],
         SendControl(frames, given, spent)
  PROVE  \E fs :
    /\ DOMAIN seen' = Fields
    /\ \A f \in Fields : seen'[f] = IF f \in fs THEN control'[f] ELSE seen[f]
    /\ credit' \in [CommandBits -> Nat]
    /\ \A b \in CommandBits : ~(ready' /\ b \in fs /\ seen[b] # control'[b]) => credit'[b] = given[b]
    /\ phantom' => \/ phantom
                   \/ \E b \in CommandBits : ready' /\ seen[b] # control'[b] /\ given[b] = 0
    /\ budget' \in [commands : Nat, lost : Nat, reboots : Nat]
    /\ budget'.lost >= spent.lost /\ budget'.lost <= MaxLost
    /\ \A frame \in frames : frame \subseteq fs \/ budget'.lost >= spent.lost + 1
<1>0. PICK got \in SUBSET frames :
      LET fs    == UNION got
          lost  == spent.lost + Cardinality(frames \ got)
          taken == {b \in fs \ Counters : ready' /\ seen[b] # control'[b]}
      IN  /\ lost <= MaxLost
          /\ budget' = [spent EXCEPT !.lost = lost]
          /\ seen' = [f \in Fields |-> IF f \in fs THEN control'[f] ELSE seen[f]]
          /\ credit' = [b \in DOMAIN given |-> IF b \in taken THEN Max({given[b] - 1, 0}) ELSE given[b]]
          /\ phantom' = (phantom \/ \E b \in taken : given[b] = 0)
  BY DEF SendControl
<1>1. PICK missing \in Nat :
        /\ Cardinality(frames \ got) = missing
        /\ frames \ got # {} => missing >= 1
  <2>1. IsFiniteSet(frames \ got)
    BY FS_Difference
  <2>2. Cardinality(frames \ got) \in Nat
    BY <2>1, FS_CardinalityType
  <2>3. frames \ got # {} => Cardinality(frames \ got) # 0
    BY <2>1, FS_EmptySet
  <2>4. \A n \in Nat : n # 0 => n >= 1
    OBVIOUS
  <2>5. frames \ got # {} => Cardinality(frames \ got) >= 1
    BY <2>2, <2>3, <2>4, Zenon
  <2> QED BY <2>2, <2>5, Zenon
<1> DEFINE fs    == UNION got
           lost  == spent.lost + missing
           taken == {b \in fs \ Counters : ready' /\ seen[b] # control'[b]}
<1>2. /\ budget' \in [commands : Nat, lost : Nat, reboots : Nat]
      /\ budget'.lost = lost /\ lost <= MaxLost
  <2>1. lost <= MaxLost /\ budget' = [spent EXCEPT !.lost = lost]
    BY <1>0, <1>1, Zenon
  <2>2. lost \in Nat
    OBVIOUS
  <2>3. ASSUME NEW l \in Nat, budget' = [spent EXCEPT !.lost = l]
        PROVE  budget' \in [commands : Nat, lost : Nat, reboots : Nat] /\ budget'.lost = l
    BY <2>3
  <2> QED BY <2>1, <2>2, <2>3
<1>3. \A frame \in frames : frame \subseteq fs \/ budget'.lost >= spent.lost + 1
  <2> TAKE frame \in frames
  <2>1. CASE frame \in got
    BY <2>1
  <2>2. CASE frame \notin got
    BY <1>1, <1>2, <2>2
  <2> QED BY <2>1, <2>2
<1>4. credit' = [b \in CommandBits |-> IF b \in taken THEN Max({given[b] - 1, 0}) ELSE given[b]]
  BY <1>0
<1>5. \A b \in CommandBits : Max({given[b] - 1, 0}) \in Nat
  BY MaxOfTwo
<1>6. phantom' => \/ phantom
                  \/ \E b \in CommandBits : ready' /\ seen[b] # control'[b] /\ given[b] = 0
  <2>1. \A b \in taken : b \in CommandBits
    BY DEF CommandBits, Fields
  <2> QED BY <1>0, <2>1
<1>7. seen' = [f \in Fields |-> IF f \in fs THEN control'[f] ELSE seen[f]]
  BY <1>0
<1>8. budget'.lost >= spent.lost
  BY <1>1, <1>2
<1> HIDE DEF fs, lost
<1>9. credit' \in [CommandBits -> Nat]
  BY <1>4, <1>5
<1>10. \A b \in CommandBits : ~(ready' /\ b \in fs /\ seen[b] # control'[b]) => credit'[b] = given[b]
  BY <1>4
<1> QED
  <2> HIDE DEF taken
  <2> WITNESS fs
  <2> QED BY <1>2, <1>3, <1>6, <1>7, <1>8, <1>9, <1>10
\* When every bit that the vehicle does not know has been given, sending frames
\* makes no phantom and leaves it so.
LEMMA GivenBitsSent ==
  ASSUME ClimateTypeOK, ~phantom,
         NEW frames, IsFiniteSet(frames), \A frame \in frames : frame \subseteq Fields,
         NEW given \in [CommandBits -> Nat],
         NEW spent \in [commands : Nat, lost : Nat, reboots : Nat],
         SendControl(frames, given, spent),
         \A b \in CommandBits : seen[b] # control'[b] => given[b] >= 1
  PROVE  ~phantom' /\ \A b \in CommandBits : seen'[b] # control'[b] => credit'[b] >= 1
<1>1. PICK fs :
        /\ \A f \in Fields : seen'[f] = IF f \in fs THEN control'[f] ELSE seen[f]
        /\ \A b \in CommandBits : ~(ready' /\ b \in fs /\ seen[b] # control'[b]) => credit'[b] = given[b]
        /\ phantom' => \/ phantom
                       \/ \E b \in CommandBits : ready' /\ seen[b] # control'[b] /\ given[b] = 0
  BY ControlSent
<1>2. ~phantom'
  BY <1>1
<1>3. ASSUME NEW b \in CommandBits, seen'[b] # control'[b]
      PROVE  credit'[b] >= 1
  <2>1. b \notin fs /\ seen[b] # control'[b]
    BY <1>1, <1>3 DEF CommandBits, Fields
  <2> QED BY <1>1, <2>1
<1> QED BY <1>2, <1>3

\* The frames of the node are finite sets of fields and hold all bits.
LEMMA FramesCover ==
  /\ SystemFrame \subseteq Fields /\ FanFrame \subseteq Fields
  /\ CommandBits \subseteq SystemFrame \cup FanFrame
  /\ IsFiniteSet({SystemFrame, FanFrame})
  /\ \A frame : IsFiniteSet({frame})
<1>1. \A frame : IsFiniteSet({frame})
  BY FS_Singleton
<1>2. IsFiniteSet({SystemFrame} \cup {FanFrame})
  BY <1>1, FS_AddElement
<1>3. {SystemFrame} \cup {FanFrame} = {SystemFrame, FanFrame}
  OBVIOUS
<1>4. /\ SystemFrame \subseteq Fields /\ FanFrame \subseteq Fields
      /\ CommandBits \subseteq SystemFrame \cup FanFrame
  BY DEF SystemFrame, FanFrame, Fields, CommandBits
<1> QED BY <1>1, <1>2, <1>3, <1>4

\* Initial frames: a frame that the vehicle knew, or gets, it knows then; of any
\* other one more copy is lost when it is sent.
LEMMA InitialFramesSent ==
  ASSUME ClimateTypeOK, ~ready', control' = [f \in Fields |-> 0],
         NEW frames, IsFiniteSet(frames), \A frame \in frames : frame \subseteq Fields,
         NEW given \in [CommandBits -> Nat],
         NEW spent \in [commands : Nat, lost : Nat, reboots : Nat],
         SendControl(frames, given, spent)
  PROVE  /\ phantom' => phantom
         /\ budget'.lost >= spent.lost
         /\ \A frame \in {SystemFrame, FanFrame} :
              /\ Known(frame) => Known(frame)'
              /\ frame \in frames => Known(frame)' \/ budget'.lost >= spent.lost + 1
<1>1. PICK fs :
        /\ \A f \in Fields : seen'[f] = IF f \in fs THEN control'[f] ELSE seen[f]
        /\ phantom' => \/ phantom
                       \/ \E b \in CommandBits : ready' /\ seen[b] # control'[b] /\ given[b] = 0
        /\ budget'.lost >= spent.lost
        /\ \A frame \in frames : frame \subseteq fs \/ budget'.lost >= spent.lost + 1
  BY ControlSent
<1>2. \A f \in Fields : control'[f] = 0
  OBVIOUS
<1>3. ASSUME NEW frame \in {SystemFrame, FanFrame}
      PROVE  /\ Known(frame) => Known(frame)'
             /\ frame \subseteq fs => Known(frame)'
  <2>1. frame \subseteq Fields
    BY FramesCover
  <2> QED BY <1>1, <1>2, <2>1 DEF Known
<1> QED BY <1>1, <1>3

\* The types that sending frames leaves.
LEMMA SentTypes ==
  ASSUME ClimateTypeOK,
         NEW frames, IsFiniteSet(frames), \A frame \in frames : frame \subseteq Fields,
         NEW given \in [CommandBits -> Nat],
         NEW spent \in [commands : Nat, lost : Nat, reboots : Nat],
         SendControl(frames, given, spent)
  PROVE  /\ DOMAIN seen' = Fields
         /\ credit' \in [CommandBits -> Nat]
         /\ budget' \in [commands : Nat, lost : Nat, reboots : Nat]
         /\ budget'.lost >= spent.lost /\ budget'.lost <= MaxLost
BY ControlSent

\* A command flips a bit; beside it only the counters change.
LEMMA OneBitFlips ==
  ASSUME ClimateTypeOK, NEW c
  PROVE  /\ FlippedBit(c) \in CommandBits
         /\ DOMAIN Controlled(c) = Fields
         /\ \A b \in CommandBits \ {FlippedBit(c)} : Controlled(c)[b] = control[b]
<1>1. FlippedBit(c) \in CommandBits
  BY DEF FlippedBit, CommandBits, SystemBits, FanBits
<1>2. TempZone(c) \in Fields \ CommandBits
  BY DEF TempZone, Fields, CommandBits, SystemBits, FanBits, Counters
<1>3. PICK x, y : \/ Controlled(c) = control
                  \/ Controlled(c) = [control EXCEPT ![FlippedBit(c)] = x]
                  \/ Controlled(c) = [[control EXCEPT ![FlippedBit(c)] = x] EXCEPT ![TempZone(c)] = y]
  BY DEF Controlled
<1> DEFINE flipped == [control EXCEPT ![FlippedBit(c)] = x]
           moved   == [flipped EXCEPT ![TempZone(c)] = y]
<1>4. DOMAIN control = Fields
  BY DEF ClimateTypeOK
<1>5. DOMAIN flipped = Fields /\ DOMAIN moved = Fields
  BY <1>4
<1>6. ASSUME NEW b \in CommandBits \ {FlippedBit(c)}
      PROVE  flipped[b] = control[b] /\ moved[b] = control[b]
  <2>1. flipped[b] = control[b]
    BY <1>4 DEF CommandBits, Fields
  <2>2. b \in Fields /\ b # TempZone(c)
    BY <1>2 DEF CommandBits, Fields
  <2> HIDE DEF flipped
  <2> QED BY <1>5, <2>1, <2>2
<1> HIDE DEF flipped, moved
<1>7. Controlled(c) = control \/ Controlled(c) = flipped \/ Controlled(c) = moved
  BY <1>3 DEF flipped, moved
<1> QED BY <1>1, <1>4, <1>5, <1>6, <1>7

\* The climate invariant holds at the first boot.
LEMMA ClimateStart == ClimateInit => ClimateInductive
<1>1. \A frame \in {SystemFrame, FanFrame} : frame \subseteq Fields
  BY FramesCover
<1>2. MaxLost \in Nat
  BY ClimateBounds
<1> QED
  BY <1>1, <1>2 DEF ClimateInit, NodeBoot, ClimateInductive, ClimateTypeOK, Starting, InitialSends, Known,
     InitUnits, CommandBits

\* A command.
LEMMA CommandStep ==
  ASSUME ClimateInductive, NEW c \in ClimateCommands, HandleClimateEvent(c)
  PROVE  ClimateInductive'
<1> DEFINE frames == {IF FlippedBit(c) \in FanBits THEN FanFrame ELSE SystemFrame}
           given  == IF ready THEN [credit EXCEPT ![FlippedBit(c)] = @ + 1] ELSE credit
           spent  == [budget EXCEPT !.commands = @ + 1]
<1>1. /\ ClimateTypeOK
      /\ control' = Controlled(c)
      /\ UNCHANGED <<ready, age, frameDue, idle, state, shown>>
      /\ SendControl(frames, given, spent)
  BY DEF HandleClimateEvent, ClimateInductive
<1>2. /\ IsFiniteSet(frames) /\ \A frame \in frames : frame \subseteq Fields
  BY FramesCover
<1>3. given \in [CommandBits -> Nat]
  BY <1>1, OneBitFlips DEF ClimateTypeOK
<1>4. spent \in [commands : Nat, lost : Nat, reboots : Nat] /\ spent.lost = budget.lost
  BY <1>1 DEF ClimateTypeOK
<1>5. DOMAIN control' = Fields
  BY <1>1, OneBitFlips
<1>6. given = [b \in CommandBits |-> IF ready /\ b = FlippedBit(c) THEN credit[b] + 1 ELSE credit[b]]
  BY <1>1 DEF ClimateTypeOK
<1> HIDE DEF frames, given, spent
<1>7. /\ ClimateTypeOK'
      /\ budget.lost \in Nat /\ budget'.lost \in Nat
      /\ budget'.lost >= budget.lost /\ budget'.lost <= MaxLost
  BY <1>1, <1>2, <1>3, <1>4, <1>5, SentTypes DEF ClimateTypeOK
<1>8. CASE ready
  <2> SUFFICES ASSUME budget'.lost < InitUnits - 1
               PROVE  ~phantom' /\ \A b \in CommandBits : seen'[b] # control'[b] => credit'[b] >= 1
    BY <1>1, <1>7, <1>8 DEF ClimateInductive
  <2>1. ~phantom /\ \A b \in CommandBits : seen[b] # control[b] => credit[b] >= 1
    BY <1>7, <1>8 DEF ClimateInductive, InitUnits
  <2>2. \A b \in CommandBits : seen[b] # control'[b] => given[b] >= 1
    <3> TAKE b \in CommandBits
    <3>1. credit[b] \in Nat
      BY <1>1 DEF ClimateTypeOK
    <3>2. CASE b = FlippedBit(c)
      BY <1>6, <1>8, <3>1, <3>2
    <3>3. CASE b # FlippedBit(c)
      <4>1. control'[b] = control[b]
        BY <1>1, <3>3, OneBitFlips
      <4> QED BY <1>6, <1>8, <2>1, <3>3, <4>1
    <3> QED BY <3>2, <3>3
  <2> QED BY <1>1, <1>2, <1>3, <1>4, <2>1, <2>2, GivenBitsSent
<1>9. CASE ~ready
  <2>1. control' = control /\ ~ready' /\ Starting
    BY <1>1, <1>9 DEF Controlled, ClimateInductive
  <2>2. control' = [f \in Fields |-> 0]
    BY <2>1 DEF Starting
  <2>3. /\ phantom' => phantom
        /\ \A frame \in {SystemFrame, FanFrame} : Known(frame) => Known(frame)'
    BY <1>1, <1>2, <1>3, <1>4, <2>1, <2>2, InitialFramesSent
  <2>4. InitialSends \in Int
    BY <1>1 DEF ClimateTypeOK, InitialSends
  <2>5. Starting'
    BY <1>1, <1>7, <2>1, <2>2, <2>3, <2>4 DEF Starting, InitialSends
  <2> QED BY <1>7, <2>1, <2>3, <2>5 DEF ClimateInductive, InitUnits
<1> QED BY <1>8, <1>9

\* emit(): the frames with their first other content, the frames again, or none.
LEMMA ClimateEmitStep ==
  ASSUME ClimateInductive, Emit
  PROVE  ClimateInductive'
<1> DEFINE frames == {SystemFrame, FanFrame}
<1>1. /\ ClimateTypeOK
      /\ idle' = FALSE /\ age' = age /\ control' = control
      /\ age \in 0 .. InitUnits /\ frameDue \in Nat
      /\ credit \in [CommandBits -> Nat]
      /\ budget \in [commands : Nat, lost : Nat, reboots : Nat]
      /\ ready \in BOOLEAN
  BY DEF Emit, ClimateInductive, ClimateTypeOK
<1>2. /\ IsFiniteSet(frames) /\ \A frame \in frames : frame \subseteq Fields
  BY FramesCover
<1>3. ASSUME SendControl(frames, credit, budget)
      PROVE  /\ DOMAIN seen' = Fields
             /\ credit' \in [CommandBits -> Nat]
             /\ budget' \in [commands : Nat, lost : Nat, reboots : Nat]
             /\ budget'.lost >= budget.lost /\ budget'.lost <= MaxLost
  <2> HIDE DEF frames
  <2> QED BY <1>1, <1>2, <1>3, SentTypes
<1>4. CASE /\ ~ready /\ age >= InitUnits
           /\ ready' = TRUE /\ frameDue' = FrameUnits
           /\ SendControl(frames, credit, budget)
  <2>1. ClimateTypeOK'
    BY <1>1, <1>3, <1>4 DEF ClimateTypeOK, FrameUnits
  <2> SUFFICES ASSUME budget'.lost < InitUnits - 1
               PROVE  ~phantom' /\ \A b \in CommandBits : seen'[b] # control'[b] => credit'[b] >= 1
    BY <1>3, <1>4, <2>1 DEF ClimateInductive
  <2>2. budget.lost < 3 /\ ~phantom
    BY <1>1, <1>3, <1>4 DEF ClimateInductive, InitUnits
  <2>3. Starting /\ age = 4 /\ frameDue = 0 /\ InitialSends = 3
    BY <1>1, <1>4 DEF ClimateInductive, Starting, InitialSends, InitUnits
  <2>4. \A frame \in frames : Known(frame)
    BY <1>1, <2>2, <2>3 DEF Starting
  <2>5. \A b \in CommandBits : seen[b] = 0 /\ control'[b] = 0
    BY <1>1, <2>3, <2>4, FramesCover DEF Known, Starting, CommandBits, Fields
  <2> QED BY <1>1, <1>2, <1>4, <2>2, <2>5, GivenBitsSent
<1>5. CASE /\ ready \/ age < InitUnits
           /\ frameDue = 0
           /\ frameDue' = IF ready THEN FrameUnits ELSE 1
           /\ ready' = ready
           /\ SendControl(frames, credit, budget)
  <2>1. ClimateTypeOK'
    BY <1>1, <1>3, <1>5 DEF ClimateTypeOK, FrameUnits
  <2>2. CASE ready
    <3> SUFFICES ASSUME budget'.lost < InitUnits - 1
                 PROVE  ~phantom' /\ \A b \in CommandBits : seen'[b] # control'[b] => credit'[b] >= 1
      BY <1>3, <1>5, <2>1, <2>2 DEF ClimateInductive
    <3>1. ~phantom /\ \A b \in CommandBits : seen[b] # control'[b] => credit[b] >= 1
      BY <1>1, <1>3, <1>5, <2>2 DEF ClimateInductive, InitUnits
    <3> QED BY <1>1, <1>2, <1>5, <3>1, GivenBitsSent
  <2>3. CASE ~ready
    <3>1. Starting /\ ~ready' /\ control' = [f \in Fields |-> 0]
      BY <1>1, <1>5, <2>3 DEF ClimateInductive, Starting
    <3>2. /\ phantom' => phantom
          /\ budget'.lost >= budget.lost
          /\ \A frame \in frames :
               /\ Known(frame) => Known(frame)'
               /\ frame \in frames => Known(frame)' \/ budget'.lost >= budget.lost + 1
      BY <1>1, <1>2, <1>5, <3>1, InitialFramesSent
    <3>3. budget.lost \in Nat /\ budget'.lost \in Nat
      BY <1>1, <1>3, <1>5
    <3>4. InitialSends \in Int /\ InitialSends' = InitialSends + 1 /\ frameDue' = 1
      BY <1>1, <1>5, <2>3 DEF InitialSends
    <3>5. \A frame \in frames : Known(frame)' \/ budget'.lost >= InitialSends'
      BY <3>1, <3>2, <3>3, <3>4 DEF Starting
    <3>6. age # InitUnits
      BY <1>1, <1>5, <2>3 DEF InitUnits
    <3>7. Starting'
      BY <1>1, <3>1, <3>4, <3>5, <3>6 DEF Starting
    <3> QED BY <1>3, <1>5, <3>1, <2>1, <3>2, <3>3, <3>7 DEF ClimateInductive, InitUnits
  <2> QED BY <1>1, <2>2, <2>3
<1>6. CASE /\ ~(~ready /\ age >= InitUnits)
           /\ ~((ready \/ age < InitUnits) /\ frameDue = 0)
           /\ UNCHANGED <<ready, frameDue, seen, credit, phantom, budget>>
  <2>1. ClimateTypeOK'
    BY <1>1, <1>6 DEF ClimateTypeOK
  <2>2. ~ready => frameDue # 0 /\ age # InitUnits
    BY <1>1, <1>6 DEF InitUnits
  <2>3. ~ready => Starting'
    BY <1>1, <1>6, <2>2 DEF ClimateInductive, Starting, InitialSends, Known
  <2> QED BY <1>1, <1>6, <2>1, <2>3 DEF ClimateInductive
<1>7. \/ /\ ~ready /\ age >= InitUnits
         /\ ready' = TRUE /\ frameDue' = FrameUnits
         /\ SendControl(frames, credit, budget)
      \/ /\ ready \/ age < InitUnits
         /\ frameDue = 0
         /\ frameDue' = IF ready THEN FrameUnits ELSE 1
         /\ ready' = ready
         /\ SendControl(frames, credit, budget)
      \/ /\ ~(~ready /\ age >= InitUnits)
         /\ ~((ready \/ age < InitUnits) /\ frameDue = 0)
         /\ UNCHANGED <<ready, frameDue, seen, credit, phantom, budget>>
  BY DEF Emit
<1> QED BY <1>4, <1>5, <1>6, <1>7

\* A unit of time.
LEMMA HundredStep ==
  ASSUME ClimateInductive, Hundred
  PROVE  ClimateInductive'
<1>1. /\ ClimateTypeOK /\ ~idle /\ idle' = TRUE
      /\ age \in 0 .. InitUnits /\ frameDue \in Nat
      /\ UNCHANGED <<ready, control, state, shown, seen, credit, phantom, budget>>
  BY DEF Hundred, ClimateInductive, ClimateTypeOK
<1>2. age' = IF age < InitUnits THEN age + 1 ELSE InitUnits
  <2>1. Min({age + 1, InitUnits}) = IF age + 1 <= InitUnits THEN age + 1 ELSE InitUnits
    BY <1>1, MinOfTwo DEF InitUnits
  <2> QED BY <1>1, <2>1 DEF Hundred, InitUnits
<1>3. frameDue' = IF frameDue > 0 THEN frameDue - 1 ELSE 0
  <2>1. Max({frameDue - 1, 0}) = IF frameDue - 1 >= 0 THEN frameDue - 1 ELSE 0
    BY <1>1, MaxOfTwo
  <2> QED BY <1>1, <2>1 DEF Hundred
<1>4. ClimateTypeOK'
  BY <1>1, <1>2, <1>3 DEF ClimateTypeOK, InitUnits
<1>5. ASSUME ~ready PROVE Starting'
  <2>1. Starting /\ frameDue = 1 /\ age < InitUnits
    BY <1>1, <1>5 DEF ClimateInductive, Starting, InitUnits
  <2>2. frameDue' = 0 /\ InitialSends' = InitialSends
    BY <1>1, <1>2, <1>3, <2>1 DEF InitialSends
  <2> QED BY <1>1, <2>1, <2>2 DEF Starting, Known
<1> QED BY <1>1, <1>4, <1>5 DEF ClimateInductive

\* A restart: no initial frame was sent since, so nothing is known or owed.
LEMMA ClimateRestartStep ==
  ASSUME ClimateInductive, Restart
  PROVE  ClimateInductive'
<1>1. /\ ClimateTypeOK
      /\ ready' = FALSE /\ age' = 0 /\ frameDue' = 1 /\ idle' = TRUE
      /\ control' = NodeBoot.control
      /\ credit' = [b \in CommandBits |-> 0]
      /\ seen' = seen /\ phantom' = phantom
  BY DEF Restart, ClimateInductive, ClimateTypeOK
<1>2. control' = [f \in Fields |-> 0]
  BY <1>1 DEF NodeBoot
<1>3. budget' \in [commands : Nat, lost : Nat, reboots : Nat] /\ budget'.lost = budget.lost
  BY DEF Restart, ClimateInductive, ClimateTypeOK
<1>4. ClimateTypeOK'
  <2>1. DOMAIN control' = Fields /\ DOMAIN seen' = Fields
    BY <1>1, <1>2 DEF ClimateTypeOK
  <2>2. credit' \in [CommandBits -> Nat]
    BY <1>1
  <2>3. ready' \in BOOLEAN /\ idle' \in BOOLEAN
    BY <1>1
  <2>4. age' \in 0 .. InitUnits /\ frameDue' \in Nat
    BY <1>1 DEF InitUnits
  <2> QED BY <1>3, <2>1, <2>2, <2>3, <2>4 DEF ClimateTypeOK
<1>5. Starting'
  BY <1>1, <1>3, <1>2 DEF Starting, InitialSends, InitUnits
<1> QED BY <1>1, <1>2, <1>3, <1>4, <1>5 DEF ClimateInductive

\* Every step of the climate node, its bus and its restarts keeps the invariant.
LEMMA ClimateStep == ClimateInductive /\ [ClimateNext]_climateVars => ClimateInductive'
<1> SUFFICES ASSUME ClimateInductive, [ClimateNext]_climateVars PROVE ClimateInductive'
  OBVIOUS
<1>1. ASSUME UNCHANGED <<ready, age, frameDue, idle, control, seen, credit, phantom, budget>>
      PROVE  ClimateInductive'
  BY <1>1 DEF ClimateInductive, ClimateTypeOK, Starting, InitialSends, Known
<1>2. CASE Status
  BY <1>1, <1>2 DEF Status
<1>3. CASE RequestClimate
  BY <1>1, <1>3 DEF RequestClimate, nodeVars
<1>4. CASE ClimateCommand
  BY <1>4, CommandStep DEF ClimateCommand
<1>5. CASE Emit
  BY <1>5, ClimateEmitStep
<1>6. CASE Hundred
  BY <1>6, HundredStep
<1>7. CASE Restart
  BY <1>7, ClimateRestartStep
<1>8. CASE UNCHANGED climateVars
  BY <1>1, <1>8 DEF climateVars, nodeVars
<1> QED BY <1>2, <1>3, <1>4, <1>5, <1>6, <1>7, <1>8 DEF ClimateNext

\* The number of commands that the vehicle takes and nobody gave is zero until
\* the bus has lost as many control frames as a start sends initial ones: three
\* copies of each.  It holds through any number of restarts and all commands.
THEOREM PhantomNeedsLosses == ClimateSpec => [](budget.lost < InitUnits - 1 => NoPhantom)
<1>1. ClimateInductive => (budget.lost < InitUnits - 1 => NoPhantom)
  BY DEF ClimateInductive, NoPhantom
<1> QED BY <1>1, ClimateStart, ClimateStep, PTL DEF ClimateSpec

\* On a bus that loses fewer frames than that, there is never one.
THEOREM NoPhantomCommands ==
  ASSUME MaxLost < InitUnits - 1
  PROVE  ClimateSpec => []NoPhantom
<1>1. ClimateInductive => NoPhantom
  BY ClimateBounds DEF ClimateInductive, ClimateTypeOK, NoPhantom, InitUnits
<1> QED BY <1>1, ClimateStart, ClimateStep, PTL DEF ClimateSpec

-----------------------------------------------------------------------------
(* The knobs.  What a page and an input make of them depends on the page they *)
(* were told and the press they follow alone.                                *)

NavFields == {"power", "illum", "page", "state", "since"}

KnobsInductive == nav = [x \in NavFields |-> nav[x]] /\ KnobPressInPage

\* A press that is under way ends when the page changes.
LEMMA PageEndsPress ==
  ASSUME KnobsInductive, NEW p
  PROVE  /\ SetPage(nav, p) = [x \in NavFields |-> SetPage(nav, p)[x]]
         /\ SetPage(nav, p).state # 0 => SetPage(nav, p).page = "AUDIO"
BY DEF KnobsInductive, KnobPressInPage, SetPage, NavFields

\* Hearing of the display's page keeps the knob invariant.
LEMMA ToldKnobs ==
  ASSUME KnobsInductive, NEW h, nav' = Told(nav, h)
  PROVE  KnobsInductive'
<1> DEFINE n == SetPage(nav, NavPageOf(h.page))
<1>1. n = [x \in NavFields |-> n[x]] /\ (n.state # 0 => n.page = "AUDIO")
  BY PageEndsPress
<1>2. nav' = [n EXCEPT !.power = h.power]
  BY DEF Told
<1> HIDE DEF n
<1> QED BY <1>1, <1>2 DEF KnobsInductive, KnobPressInPage, NavFields

\* The knob invariant holds at power on.
LEMMA KnobsStart == ScreenInit => KnobsInductive
BY DEF ScreenInit, FreshNav, SetPage, KnobsInductive, KnobPressInPage, NavFields

\* Every step of the screen and its knobs keeps the knob invariant.
LEMMA KnobsStep == KnobsInductive /\ [ScreenNext]_screenVars => KnobsInductive'
<1> SUFFICES ASSUME KnobsInductive, [ScreenNext]_screenVars PROVE KnobsInductive'
  OBVIOUS
<1>1. ASSUME nav' = nav PROVE KnobsInductive'
  BY <1>1 DEF KnobsInductive, KnobPressInPage
<1>2. CASE Knob
  <2>1. PICK i : nav' = KnobButton(nav, i)
    BY <1>2 DEF Knob
  <2> QED BY <2>1 DEF KnobButton, KnobsInductive, KnobPressInPage, NavFields
<1>3. CASE KnobHeld
  BY <1>3 DEF KnobHeld, KnobsInductive, KnobPressInPage, NavFields
<1>4. CASE KnobTime
  BY <1>4 DEF KnobTime, KnobsInductive, KnobPressInPage, NavFields
<1>5. CASE Notified
  <2>1. \/ nav' = nav
        \/ \E on : nav' = [nav EXCEPT !.illum = on]
        \/ nav' = Told(nav, hmi)
    BY <1>5 DEF Notified
  <2>2. CASE \E on : nav' = [nav EXCEPT !.illum = on]
    BY <2>2 DEF KnobsInductive, KnobPressInPage, NavFields
  <2> QED BY <1>1, <2>1, <2>2, ToldKnobs
<1>6. CASE Touched
  BY <1>1, <1>6 DEF Touched
<1>7. CASE Reads
  <2>1. nav' = nav \/ \E h : nav' = Told(nav, h)
    BY <1>7 DEF Reads, PageReport, SwapTouched
  <2> QED BY <1>1, <2>1, ToldKnobs
<1>8. CASE UNCHANGED screenVars
  BY <1>1, <1>8 DEF screenVars
<1> QED BY <1>2, <1>3, <1>4, <1>5, <1>6, <1>7, <1>8 DEF ScreenNext

\* A press of the first knob is followed on the audio page only, whatever pages
\* the display reports and whenever the node reads the reports.
THEOREM PressesEndWithPage == ScreenSpec => []KnobPressInPage
<1>1. KnobsInductive => KnobPressInPage
  BY DEF KnobsInductive
<1> QED BY <1>1, KnobsStart, KnobsStep, PTL DEF ScreenSpec

-----------------------------------------------------------------------------
(* The commands of the knobs.  Until a report was read in the place of an    *)
(* answer, the line holds no answer, and its last page report, or else the   *)
(* page that the node keeps, is the page that the display shows.             *)

HMIFields == {"page", "power", "bright", "system", "fan", "temps", "mute", "volume", "stereo", "source",
              "count", "out", "cmds"}

IsPage(m) == m.type = "PAGE"

\* What the line says of page p, when the node knows page known.
Tracks(line, p, known) ==
  /\ \E S : line \in Seq(S)
  /\ \A i \in 1 .. Len(line) : line[i].type # "VALUE"
  /\ \A i \in 1 .. Len(line) :
       IsPage(line[i]) /\ (\A j \in 1 .. Len(line) : j > i => ~IsPage(line[j])) => line[i].page = p
  /\ (\A i \in 1 .. Len(line) : ~IsPage(line[i])) => known = p

EncoderInductive ==
  /\ hmi = [x \in HMIFields |-> hmi[x]]
  /\ hmi.cmds = << >>
  /\ {"page", "before", "row", "news"} \subseteq DOMAIN display
  /\ ~swallowed => Tracks(rx, display.page, hmi.page)
  /\ ~wrong

\* Another message at the end of the line.
LEMMA LineGrows ==
  ASSUME NEW line, NEW p, NEW known, Tracks(line, p, known)
  PROVE  /\ \A q : Tracks(Append(line, Report(q)), q, known)
         /\ \A q, b : Tracks(Append(line, Touch(q, b)), p, known)
<1>1. PICK S : line \in Seq(S)
  BY DEF Tracks
<1>2. ASSUME NEW m
      PROVE  /\ \E T : Append(line, m) \in Seq(T)
             /\ Len(Append(line, m)) = Len(line) + 1 /\ Len(line) \in Nat
             /\ \A i \in 1 .. Len(line) : Append(line, m)[i] = line[i]
             /\ Append(line, m)[Len(line) + 1] = m
  <2>1. line \in Seq(S \cup {m})
    BY <1>1
  <2> QED BY <2>1
<1>3. ASSUME NEW q
      PROVE  Tracks(Append(line, Report(q)), q, known)
  <2> DEFINE m == Report(q)
             new == Append(line, m)
  <2>1. IsPage(m) /\ m.page = q /\ m.type # "VALUE"
    BY DEF IsPage, Report
  <2>2. /\ \E T : new \in Seq(T)
        /\ Len(new) = Len(line) + 1 /\ Len(line) \in Nat
        /\ \A i \in 1 .. Len(line) : new[i] = line[i]
        /\ new[Len(line) + 1] = m
    BY <1>2
  <2> HIDE DEF m, new
  <2>3. Tracks(new, q, known)
    BY <2>1, <2>2 DEF Tracks
  <2> QED BY <2>3 DEF m, new
<1>4. ASSUME NEW q, NEW b
      PROVE  Tracks(Append(line, Touch(q, b)), p, known)
  <2> DEFINE m == Touch(q, b)
             new == Append(line, m)
  <2>1. ~IsPage(m) /\ m.type # "VALUE"
    BY DEF IsPage, Touch
  <2>2. /\ \E T : new \in Seq(T)
        /\ Len(new) = Len(line) + 1 /\ Len(line) \in Nat
        /\ \A i \in 1 .. Len(line) : new[i] = line[i]
        /\ new[Len(line) + 1] = m
    BY <1>2
  <2> HIDE DEF m, new
  <2>3. Tracks(new, p, known)
    BY <2>1, <2>2 DEF Tracks
  <2> QED BY <2>3 DEF m, new
<1> QED BY <1>3, <1>4

\* The node reads the oldest message.
LEMMA LineShrinks ==
  ASSUME NEW line, NEW p, NEW known, Tracks(line, p, known), line # << >>
  PROVE  /\ IsPage(Head(line)) => Tracks(Tail(line), p, Head(line).page)
         /\ ~IsPage(Head(line)) => Tracks(Tail(line), p, known)
         /\ Head(line).type # "VALUE"
<1> DEFINE new == Tail(line)
<1>1. PICK S : line \in Seq(S)
  BY DEF Tracks
<1>2. /\ new \in Seq(S)
      /\ Len(line) \in Nat \ {0} /\ Len(new) = Len(line) - 1
      /\ \A i \in 1 .. Len(new) : new[i] = line[i + 1]
      /\ Head(line) = line[1]
  BY <1>1
<1> HIDE DEF new
<1>3. \A i \in 1 .. Len(line) : i = 1 \/ (i - 1 \in 1 .. Len(new) /\ line[i] = new[i - 1])
  BY <1>2
<1>4. Head(line).type # "VALUE"
  BY <1>2 DEF Tracks
<1>5. \A i \in 1 .. Len(new) : new[i].type # "VALUE"
  BY <1>2 DEF Tracks
<1>6. ASSUME NEW i \in 1 .. Len(new), IsPage(new[i]), \A j \in 1 .. Len(new) : j > i => ~IsPage(new[j])
      PROVE  new[i].page = p
  <2>1. i + 1 \in 1 .. Len(line) /\ new[i] = line[i + 1]
    BY <1>2
  <2>2. ASSUME NEW j \in 1 .. Len(line), j > i + 1
        PROVE  ~IsPage(line[j])
    BY <1>2, <1>3, <1>6, <2>2
  <2> QED BY <1>6, <2>1, <2>2 DEF Tracks
<1>7. ASSUME \A i \in 1 .. Len(new) : ~IsPage(new[i])
      PROVE  /\ IsPage(Head(line)) => Head(line).page = p
             /\ ~IsPage(Head(line)) => known = p
  <2>1. \A j \in 1 .. Len(line) : j > 1 => ~IsPage(line[j])
    BY <1>2, <1>3, <1>7
  <2>2. 1 \in 1 .. Len(line)
    BY <1>2
  <2>3. ASSUME IsPage(Head(line)) PROVE Head(line).page = p
    BY <1>2, <2>1, <2>2, <2>3 DEF Tracks
  <2>4. ASSUME ~IsPage(Head(line)) PROVE known = p
    <3>1. \A j \in 1 .. Len(line) : ~IsPage(line[j])
      BY <1>2, <2>1, <2>4
    <3> QED BY <3>1 DEF Tracks
  <2> QED BY <2>3, <2>4
<1>8. \E T : new \in Seq(T)
  BY <1>2
<1>9. /\ IsPage(Head(line)) => Tracks(new, p, Head(line).page)
      /\ ~IsPage(Head(line)) => Tracks(new, p, known)
  BY <1>5, <1>6, <1>7, <1>8 DEF Tracks
<1> QED BY <1>4, <1>9 DEF new

\* An empty line.
LEMMA EmptyLine == \A p, known : Tracks(<< >>, p, known) <=> known = p
BY DEF Tracks

\* The display carries a command out: the line tells its page then.
DisplayTold(d, known) ==
  /\ {"page", "before", "row", "news"} \subseteq DOMAIN d
  /\ Tracks(d.news, d.page, known)

\* A display that shows another page reports it.
LEMMA ShownTold ==
  ASSUME NEW d, NEW known, DisplayTold(d, known), NEW p
  PROVE  DisplayTold(Shows(d, p), known)
<1>1. Tracks(Append(d.news, Report(p)), p, known)
  BY LineGrows DEF DisplayTold
<1>2. /\ Shows(d, p).news = Append(d.news, Report(p)) /\ Shows(d, p).page = p
      /\ {"page", "before", "row", "news"} \subseteq DOMAIN Shows(d, p)
  BY DEF Shows, DisplayTold
<1> QED BY <1>1, <1>2 DEF DisplayTold

\* A display that obeys a command reports any change of its page.
LEMMA ObeyedTold ==
  ASSUME NEW d, NEW known, DisplayTold(d, known), NEW c, NEW door
  PROVE  DisplayTold(Obeys(d, c, door), known)
<1>1. CASE \E p : Obeys(d, c, door) = Shows(d, p)
  BY <1>1, ShownTold
<1>2. CASE Obeys(d, c, door) = d
  BY <1>2
<1>3. CASE \E p : Obeys(d, c, door) = [d EXCEPT !.row[p] = c[3]]
  <2>1. PICK p : Obeys(d, c, door) = [d EXCEPT !.row[p] = c[3]]
    BY <1>3
  <2>2. LET e == [d EXCEPT !.row[p] = c[3]]
        IN  DOMAIN e = DOMAIN d /\ e.news = d.news /\ e.page = d.page
    BY DEF DisplayTold
  <2> QED BY <2>1, <2>2 DEF DisplayTold
<1> QED BY <1>1, <1>2, <1>3 DEF Obeys

\* What the node writes: the line tells the display's page, if the node kept it.
LEMMA WrittenTold ==
  ASSUME NEW h, NEW line, Written(h, line),
         {"page", "before", "row", "news"} \subseteq DOMAIN display
  PROVE  /\ {"page", "before", "row", "news"} \subseteq DOMAIN display'
         /\ hmi' = [h EXCEPT !.out = << >>, !.cmds = << >>]
         /\ \A known : Tracks(line, display.page, known) => Tracks(rx', display'.page, known)
<1> DEFINE start == [display EXCEPT !.news = line]
<1>1. /\ {"page", "before", "row", "news"} \subseteq DOMAIN start
      /\ start.news = line /\ start.page = display.page
  OBVIOUS
<1>2. PICK door : LET d == ObeysAll(start, h.out, door)
                  IN  /\ display' = [d EXCEPT !.news = << >>]
                      /\ rx' = d.news
                      /\ hmi' = [h EXCEPT !.out = << >>, !.cmds = << >>]
  BY DEF Written
<1> DEFINE d == ObeysAll(start, h.out, door)
<1> HIDE DEF start
<1>3. ASSUME NEW known, DisplayTold(start, known)
      PROVE  DisplayTold(d, known)
  BY <1>3, ObeyedTold DEF ObeysAll
<1>4. {"page", "before", "row", "news"} \subseteq DOMAIN d
  BY <1>1 DEF ObeysAll, Obeys, Shows
<1>5. display' = [d EXCEPT !.news = << >>] /\ rx' = d.news /\ hmi' = [h EXCEPT !.out = << >>, !.cmds = << >>]
  BY <1>2
<1> HIDE DEF d
<1>6. {"page", "before", "row", "news"} \subseteq DOMAIN display' /\ display'.page = d.page
  BY <1>4, <1>5
<1>7. ASSUME NEW known, Tracks(line, display.page, known)
      PROVE  Tracks(rx', display'.page, known)
  <2>1. DisplayTold(d, known)
    BY <1>1, <1>3, <1>7 DEF DisplayTold
  <2> QED BY <1>5, <1>6, <2>1 DEF DisplayTold
<1> QED BY <1>5, <1>6, <1>7

\* Whatever the node does before it writes, it keeps the page it knows.
PageKept(h, g) == g = [x \in HMIFields |-> g[x]] /\ g.page = h.page

\* What the node may do after some of its commands and still keep its page.
LEMMA FieldsKeepPage ==
  ASSUME NEW h, NEW g, PageKept(h, g)
  PROVE  /\ \A f \in HMIFields \ {"page"} : \A v : PageKept(h, [g EXCEPT ![f] = v])
         /\ \A p : PageKept(h, Page(g, p))
         /\ PageKept(h, Back(g))
         /\ \A p, n : PageKept(h, Select(g, p, n))
         /\ \A c : PageKept(h, SendCmd(g, c))
         /\ \A n : PageKept(h, SelectItem(g, n))
<1>1. ASSUME NEW f \in HMIFields \ {"page"}, NEW v
      PROVE  PageKept(h, [g EXCEPT ![f] = v])
  BY <1>1 DEF PageKept, HMIFields
<1>2. \A v : PageKept(h, [g EXCEPT !.out = v]) /\ PageKept(h, [g EXCEPT !.cmds = v])
  BY <1>1 DEF HMIFields
<1>3. \A p : PageKept(h, Page(g, p))
  BY <1>2 DEF Page
<1>4. PageKept(h, Back(g))
  BY <1>2 DEF Back
<1>5. \A p, n : PageKept(h, Select(g, p, n))
  BY <1>2 DEF Select
<1>6. (\A c : PageKept(h, SendCmd(g, c))) /\ (\A n : PageKept(h, SelectItem(g, n)))
  BY <1>2 DEF SendCmd, SelectItem
<1> QED BY <1>1, <1>3, <1>4, <1>5, <1>6

\* No single command to the display changes the page the node believes in.
LEMMA CommandsKeepPage ==
  ASSUME NEW h, h = [x \in HMIFields |-> h[x]]
  PROVE  /\ PageKept(h, h)
         /\ \A p : PageKept(h, Page(h, p))
         /\ PageKept(h, Back(h))
         /\ \A p, n : PageKept(h, Select(h, p, n))
         /\ \A p, q, n : PageKept(h, Page(Select(h, p, n), q))
         /\ \A c : PageKept(h, SendCmd(h, c))
         /\ \A n : PageKept(h, SelectItem(h, n))
<1>1. PageKept(h, h)
  BY DEF PageKept
<1> QED BY <1>1, FieldsKeepPage

\* Nor does a press or a turn of a knob on a row.
LEMMA NavigationKeepsPage ==
  ASSUME NEW h, h = [x \in HMIFields |-> h[x]], NEW c \in RowCommands, NEW row
  PROVE  PageKept(h, Navigated(h, c, row))
<1>1. PageKept(h, NavUp(h, row))
  BY CommandsKeepPage DEF NavUp, SelectHere
<1>2. PageKept(h, NavDown(h, row))
  BY CommandsKeepPage DEF NavDown, SelectHere
<1>3. \A x : PageKept(h, SendRow(h, x))
  BY CommandsKeepPage DEF SendRow
<1>4. PageKept(h, NavActivate(h, row))
  BY <1>3, CommandsKeepPage DEF NavActivate
<1> QED BY <1>1, <1>2, <1>3, <1>4 DEF Navigated, RowCommands, NavLeft, NavRight

\* Nor does a command to turn the page.
LEMMA PagingKeepsPage ==
  ASSUME NEW h, h = [x \in HMIFields |-> h[x]]
  PROVE  PageKept(h, NavPageNext(h)) /\ PageKept(h, NavPagePrev(h))
BY CommandsKeepPage DEF NavPageNext, NavPagePrev

\* Nor does any event: the node takes its page from reports only.
LEMMA EventsKeepPage ==
  ASSUME NEW h, h = [x \in HMIFields |-> h[x]], NEW e
  PROVE  PageKept(h, HandleEvent(h, e))
<1>1. ASSUME NEW g, PageKept(h, g), NEW f \in HMIFields \ {"page"}, NEW v
      PROVE  PageKept(h, [g EXCEPT ![f] = v])
  BY <1>1, FieldsKeepPage
<1>2. ASSUME NEW g, PageKept(h, g)
      PROVE  (\A p : PageKept(h, Page(g, p))) /\ (\A p, n : PageKept(h, Select(g, p, n)))
  BY <1>2, FieldsKeepPage
<1>3. PageKept(h, h) /\ \A p : PageKept(h, Page(h, p))
  BY CommandsKeepPage
<1>4. PageKept(h, HandleClimateAirflow(h, e.value))
  BY <1>1, <1>3 DEF HandleClimateAirflow, MaybeClimatePopup, HMIFields
<1>5. PageKept(h, HandleClimateTemp(h, e.value))
  BY <1>1, <1>3 DEF HandleClimateTemp, MaybeClimatePopup, HMIFields
<1>6. PageKept(h, HandleAudioSystem(h, e.value))
  BY <1>1, <1>2, <1>3 DEF HandleAudioSystem, HMIFields
<1>7. \A volume, mute : PageKept(h, HandleAudioVolume(h, volume, mute))
  BY <1>1, <1>3 DEF HandleAudioVolume, HMIFields
<1>8. PageKept(h, HandleAudioSource(h, e.value))
  BY <1>1, <1>2, <1>3 DEF HandleAudioSource, HMIFields
<1>9. PageKept(h, HandleAudioSettingsMenu(h, e.value))
  BY <1>1, <1>2, <1>3 DEF HandleAudioSettingsMenu, HMIFields
<1>10. PageKept(h, Power(h, e.value))
  BY CommandsKeepPage DEF Power
<1>11. PageKept(h, [h EXCEPT !.system = e.value]) /\ PageKept(h, [h EXCEPT !.bright = e.value])
  BY <1>1, <1>3 DEF HMIFields
<1> QED
  BY <1>3, <1>4, <1>5, <1>6, <1>7, <1>8, <1>9, <1>10, <1>11, PagingKeepsPage DEF HandleEvent

\* What one message makes the node write.
LEMMA NodeWrites ==
  ASSUME EncoderInductive, NEW h, PageKept(hmi, h), NEW line, Written(h, line)
  PROVE  /\ hmi' = [x \in HMIFields |-> hmi'[x]]
         /\ hmi'.cmds = << >>
         /\ {"page", "before", "row", "news"} \subseteq DOMAIN display'
         /\ Tracks(line, display.page, hmi.page) => Tracks(rx', display'.page, hmi'.page)
<1>1. /\ {"page", "before", "row", "news"} \subseteq DOMAIN display'
      /\ hmi' = [h EXCEPT !.out = << >>, !.cmds = << >>]
      /\ Tracks(line, display.page, hmi.page) => Tracks(rx', display'.page, hmi.page)
  BY WrittenTold DEF EncoderInductive
<1>2. hmi' = [x \in HMIFields |-> hmi'[x]] /\ hmi'.cmds = << >> /\ hmi'.page = hmi.page
  BY <1>1 DEF PageKept, HMIFields
<1> QED BY <1>1, <1>2

\* No row selected: the node sends no command, or item 255.
LEMMA NoRowNoCommand ==
  ASSUME EncoderInductive, NEW c \in RowCommands
  PROVE  Navigated(hmi, c, 0).cmds \in {<< >>, <<NoItem>>}
<1>1. hmi = [x \in HMIFields |-> hmi[x]] /\ hmi.cmds = << >>
  BY DEF EncoderInductive
<1>2. /\ \A p : Page(hmi, p).cmds = << >>
      /\ \A p, n : Select(hmi, p, n).cmds = << >>
      /\ \A p, n, q : Page(Select(hmi, p, n), q).cmds = << >>
  BY <1>1 DEF Page, Select, HMIFields
<1>3. NavUp(hmi, 0).cmds = << >> /\ NavDown(hmi, 0).cmds = << >>
  BY <1>1, <1>2 DEF NavUp, NavDown, SelectHere
<1>4. \A p : RowCommand(LeftRows, p, 0) = NoRow /\ RowCommand(RightRows, p, 0) = NoRow
                /\ RowCommand(ActivateRows, p, 0) = NoRow
  BY DEF RowCommand, LeftRows, RightRows, ActivateRows
<1>5. NavLeft(hmi, 0) = hmi /\ NavRight(hmi, 0) = hmi
  BY <1>4 DEF NavLeft, NavRight, SendRow
<1>6. NavActivate(hmi, 0) = hmi \/ NavActivate(hmi, 0) = SelectItem(hmi, 255)
  BY <1>4 DEF NavActivate, SendRow
<1>7. SelectItem(hmi, 255).cmds = <<NoItem>>
  <2>1. Append(<< >>, NoItem) = <<NoItem>>
    OBVIOUS
  <2>2. Append(hmi.cmds, NoItem) = <<NoItem>>
    BY <1>1, <2>1, Zenon
  <2>3. \A q : [hmi EXCEPT !.cmds = q].cmds = q
    BY <1>1 DEF HMIFields
  <2> QED BY <2>2, <2>3, Zenon DEF SelectItem, NoItem
<1> QED BY <1>1, <1>3, <1>5, <1>6, <1>7 DEF Navigated, RowCommands

\* A knob: with an empty line the answer is the row and the page is the one that
\* the display shows; with a report in the line the answer counts as no row.
LEMMA KnobKeepsMeaning ==
  ASSUME EncoderInductive, Knob
  PROVE  EncoderInductive'
<1>1. PICK i \in KnobInputs :
        LET c == KnobCommand(nav, i)
            a == Answered(Row(display), rx)
            h == Navigated(hmi, c, a.value)
            meant == Navigated([hmi EXCEPT !.page = display.page], c, Row(display)).cmds
        IN  CASE c \in RowCommands ->
                   /\ Written(h, a.line)
                   /\ swallowed' = (swallowed \/ rx # << >>)
                   /\ wrong' = (wrong \/ (~swallowed /\ h.cmds \notin {<< >>, <<NoItem>>, meant}))
              [] c = "NAV_PAGE_NEXT_CMD" ->
                   Written(NavPageNext(hmi), rx) /\ UNCHANGED <<swallowed, wrong>>
              [] OTHER -> UNCHANGED <<hmi, display, rx, swallowed, wrong>>
  BY DEF Knob
<1> DEFINE c == KnobCommand(nav, i)
           a == Answered(Row(display), rx)
           h == Navigated(hmi, c, a.value)
           meant == Navigated([hmi EXCEPT !.page = display.page], c, Row(display)).cmds
<1>2. \/ /\ c \in RowCommands
         /\ Written(h, a.line)
         /\ swallowed' = (swallowed \/ rx # << >>)
         /\ wrong' = (wrong \/ (~swallowed /\ h.cmds \notin {<< >>, <<NoItem>>, meant}))
      \/ Written(NavPageNext(hmi), rx) /\ UNCHANGED <<swallowed, wrong>>
      \/ UNCHANGED <<hmi, display, rx, swallowed, wrong>>
  BY <1>1
<1>3. hmi = [x \in HMIFields |-> hmi[x]] /\ (~swallowed => Tracks(rx, display.page, hmi.page))
  BY DEF EncoderInductive
<1> HIDE DEF c
<1>4. CASE /\ c \in RowCommands
           /\ Written(h, a.line)
           /\ swallowed' = (swallowed \/ rx # << >>)
           /\ wrong' = (wrong \/ (~swallowed /\ h.cmds \notin {<< >>, <<NoItem>>, meant}))
  <2>1. PageKept(hmi, h)
    BY <1>3, <1>4, NavigationKeepsPage
  <2>2. /\ hmi' = [x \in HMIFields |-> hmi'[x]]
        /\ hmi'.cmds = << >>
        /\ {"page", "before", "row", "news"} \subseteq DOMAIN display'
        /\ Tracks(a.line, display.page, hmi.page) => Tracks(rx', display'.page, hmi'.page)
    BY <1>4, <2>1, NodeWrites
  <2>3. CASE rx = << >>
    <3>1. a.value = Row(display) /\ a.line = << >>
      BY <2>3 DEF Answered
    <3>2. ~swallowed => hmi.page = display.page
      BY <1>3, <2>3, EmptyLine
    <3>3. ~swallowed => hmi = [hmi EXCEPT !.page = display.page]
      BY <1>3, <3>2 DEF HMIFields
    <3>4. ~swallowed => h.cmds = meant
      BY <3>1, <3>3
    <3>5. ~swallowed' => Tracks(rx', display'.page, hmi'.page)
      BY <1>3, <1>4, <2>2, <2>3, <3>1
    <3> QED BY <1>4, <2>2, <3>4, <3>5 DEF EncoderInductive
  <2>4. CASE rx # << >>
    <3>1. ~swallowed => a.value = 0
      BY <1>3, <2>4, LineShrinks DEF Answered
    <3>2. ~swallowed => h.cmds \in {<< >>, <<NoItem>>}
      BY <1>4, <3>1, NoRowNoCommand
    <3>3. swallowed'
      BY <1>4, <2>4
    <3> QED BY <1>4, <2>2, <3>2, <3>3 DEF EncoderInductive
  <2> QED BY <2>3, <2>4
<1>5. CASE Written(NavPageNext(hmi), rx) /\ UNCHANGED <<swallowed, wrong>>
  <2>1. PageKept(hmi, NavPageNext(hmi))
    BY <1>3, PagingKeepsPage
  <2>2. /\ hmi' = [x \in HMIFields |-> hmi'[x]]
        /\ hmi'.cmds = << >>
        /\ {"page", "before", "row", "news"} \subseteq DOMAIN display'
        /\ Tracks(rx, display.page, hmi.page) => Tracks(rx', display'.page, hmi'.page)
    BY <1>5, <2>1, NodeWrites
  <2> QED BY <1>3, <1>5, <2>2 DEF EncoderInductive
<1>6. CASE UNCHANGED <<hmi, display, rx, swallowed, wrong>>
  BY <1>6 DEF EncoderInductive
<1> QED BY <1>2, <1>4, <1>5, <1>6

\* The node reads a message of the line.
LEMMA ReadsKeepMeaning ==
  ASSUME EncoderInductive, Reads
  PROVE  EncoderInductive'
<1> DEFINE m == Head(rx)
<1>1. /\ rx # << >> /\ wrong' = wrong
      /\ \/ m.type = "PAGE" /\ PageReport(m.page)
         \/ m.type = "BUTTON" /\ SwapTouched
         \/ m.type = "BUTTON" /\ Written(HandleButton(hmi, m.page, m.button), Tail(rx)) /\ UNCHANGED swallowed
         \/ m.type = "VALUE" /\ rx' = Tail(rx) /\ UNCHANGED <<hmi, display, swallowed>>
  BY DEF Reads
<1>2. hmi = [x \in HMIFields |-> hmi[x]] /\ (~swallowed => Tracks(rx, display.page, hmi.page))
  BY DEF EncoderInductive
<1>3. ~swallowed => /\ IsPage(m) => Tracks(Tail(rx), display.page, m.page)
                    /\ ~IsPage(m) => Tracks(Tail(rx), display.page, hmi.page)
                    /\ m.type # "VALUE"
  BY <1>1, <1>2, LineShrinks
<1> HIDE DEF m
<1>4. CASE m.type = "PAGE" /\ PageReport(m.page)
  <2>1. /\ hmi' = [x \in HMIFields |-> hmi'[x]] /\ hmi'.page = m.page /\ hmi'.cmds = << >>
        /\ rx' = Tail(rx) /\ display' = display /\ swallowed' = swallowed
    BY <1>4 DEF PageReport, EncoderInductive, HMIFields
  <2>2. ~swallowed' => Tracks(rx', display'.page, hmi'.page)
    BY <1>3, <1>4, <2>1 DEF IsPage
  <2> QED BY <1>1, <2>1, <2>2 DEF EncoderInductive
<1>5. CASE m.type = "BUTTON" /\ SwapTouched
  <2>1. PICK value \in {0, 1} :
          LET a == Answered(value, Tail(rx))
          IN  /\ Written(IF a.value = 0 THEN hmi ELSE SendCmd(hmi, "TIRE_SWAP_CMD"), a.line)
              /\ swallowed' = (swallowed \/ Tail(rx) # << >>)
    BY <1>5 DEF SwapTouched
  <2> DEFINE a == Answered(value, Tail(rx))
             h == IF a.value = 0 THEN hmi ELSE SendCmd(hmi, "TIRE_SWAP_CMD")
  <2>2. PageKept(hmi, h)
    BY <1>2, CommandsKeepPage
  <2>3. /\ hmi' = [x \in HMIFields |-> hmi'[x]]
        /\ hmi'.cmds = << >>
        /\ {"page", "before", "row", "news"} \subseteq DOMAIN display'
        /\ Tracks(a.line, display.page, hmi.page) => Tracks(rx', display'.page, hmi'.page)
    BY <2>1, <2>2, NodeWrites
  <2>4. ~swallowed' => Tail(rx) = << >> /\ a.line = << >> /\ ~swallowed
    BY <2>1 DEF Answered
  <2>5. ~IsPage(m)
    BY <1>5 DEF IsPage
  <2>6. ~swallowed' => Tracks(a.line, display.page, hmi.page)
    BY <1>3, <2>4, <2>5
  <2> QED BY <1>1, <2>3, <2>6 DEF EncoderInductive
<1>6. CASE m.type = "BUTTON" /\ Written(HandleButton(hmi, m.page, m.button), Tail(rx)) /\ UNCHANGED swallowed
  <2>1. PageKept(hmi, HandleButton(hmi, m.page, m.button))
    BY <1>2, CommandsKeepPage DEF HandleButton
  <2>2. /\ hmi' = [x \in HMIFields |-> hmi'[x]]
        /\ hmi'.cmds = << >>
        /\ {"page", "before", "row", "news"} \subseteq DOMAIN display'
        /\ Tracks(Tail(rx), display.page, hmi.page) => Tracks(rx', display'.page, hmi'.page)
    BY <1>6, <2>1, NodeWrites
  <2>3. ~IsPage(m)
    BY <1>6 DEF IsPage
  <2> QED BY <1>1, <1>3, <1>6, <2>2, <2>3 DEF EncoderInductive
<1>7. CASE m.type = "VALUE" /\ rx' = Tail(rx) /\ UNCHANGED <<hmi, display, swallowed>>
  BY <1>1, <1>3, <1>7 DEF EncoderInductive
<1> QED BY <1>1, <1>4, <1>5, <1>6, <1>7

\* The encoder invariant holds at power on.
LEMMA EncoderStart == ScreenInit => EncoderInductive
<1> SUFFICES ASSUME ScreenInit PROVE EncoderInductive
  OBVIOUS
<1>1. PICK p \in StartPages :
        /\ hmi = [FreshHMI EXCEPT !.page = p, !.stereo = "ON", !.volume = 1, !.count = 2, !.fan = 1, !.temps = <<1, 1>>]
        /\ display = [page |-> p, before |-> "HOME", row |-> [q \in RowPages |-> 1], news |-> << >>]
  BY DEF ScreenInit
<1>2. hmi = [x \in HMIFields |-> hmi[x]] /\ hmi.cmds = << >> /\ hmi.page = p
  <2>1. FreshHMI = [x \in HMIFields |-> FreshHMI[x]] /\ FreshHMI.cmds = << >>
    BY DEF FreshHMI, HMIFields
  <2> QED BY <1>1, <2>1 DEF HMIFields
<1>3. {"page", "before", "row", "news"} \subseteq DOMAIN display /\ display.page = p
  BY <1>1
<1> QED BY <1>2, <1>3, EmptyLine DEF ScreenInit, EncoderInductive

\* Every step of the screen and its knobs keeps the encoder invariant.
LEMMA EncoderStep == EncoderInductive /\ [ScreenNext]_screenVars => EncoderInductive'
<1> SUFFICES ASSUME EncoderInductive, [ScreenNext]_screenVars PROVE EncoderInductive'
  OBVIOUS
<1>1. ASSUME UNCHANGED <<hmi, display, rx, swallowed, wrong>> PROVE EncoderInductive'
  BY <1>1 DEF EncoderInductive
<1>2. CASE Knob
  BY <1>2, KnobKeepsMeaning
<1>3. CASE KnobHeld
  BY <1>1, <1>3 DEF KnobHeld
<1>4. CASE KnobTime
  BY <1>1, <1>4 DEF KnobTime
<1>5. CASE Notified
  <2>1. PICK e : Written(HandleEvent(hmi, e), rx)
    BY <1>5 DEF Notified
  <2>2. PageKept(hmi, HandleEvent(hmi, e))
    BY EventsKeepPage DEF EncoderInductive
  <2>3. /\ hmi' = [x \in HMIFields |-> hmi'[x]]
        /\ hmi'.cmds = << >>
        /\ {"page", "before", "row", "news"} \subseteq DOMAIN display'
        /\ Tracks(rx, display.page, hmi.page) => Tracks(rx', display'.page, hmi'.page)
    BY <2>1, <2>2, NodeWrites
  <2> QED BY <1>5, <2>3 DEF Notified, EncoderInductive
<1>6. CASE Touched
  <2>1. UNCHANGED <<hmi, swallowed, wrong>>
    BY <1>6 DEF Touched
  <2>2. CASE \E p : display' = [Shows(display, p) EXCEPT !.news = << >>] /\ rx' = Append(rx, Report(p))
    <3>1. PICK p : display' = [Shows(display, p) EXCEPT !.news = << >>] /\ rx' = Append(rx, Report(p))
      BY <2>2
    <3>2. {"page", "before", "row", "news"} \subseteq DOMAIN display' /\ display'.page = p
      BY <3>1 DEF Shows, EncoderInductive
    <3>3. ~swallowed' => Tracks(rx', display'.page, hmi'.page)
      BY <2>1, <3>1, <3>2, LineGrows DEF EncoderInductive
    <3> QED BY <2>1, <3>2, <3>3 DEF EncoderInductive
  <2>3. CASE \E b : rx' = Append(rx, Touch(display.page, b)) /\ UNCHANGED display
    BY <2>1, <2>3, LineGrows DEF EncoderInductive
  <2> QED BY <1>6, <2>2, <2>3 DEF Touched
<1>7. CASE Reads
  BY <1>7, ReadsKeepMeaning
<1>8. CASE UNCHANGED screenVars
  BY <1>1, <1>8 DEF screenVars
<1> QED BY <1>2, <1>3, <1>4, <1>5, <1>6, <1>7, <1>8 DEF ScreenNext

\* Until a report was read in the place of an answer, and in that read, a knob
\* gives the command of the row that the driver sees, no command, or item 255:
\* for all pages, touches and events, and lines of any length.
THEOREM EncoderCommandsMeant == ScreenSpec => []EncoderMeant
<1>1. EncoderInductive => EncoderMeant
  BY DEF EncoderInductive, EncoderMeant
<1> QED BY <1>1, EncoderStart, EncoderStep, PTL DEF ScreenSpec

-----------------------------------------------------------------------------
(* The keypad of the extra devices.  For each LED whose device is in no doubt *)
(* the last report on its way, or else pin_fault_, says whether the output    *)
(* tripped; the LED shows pin_fault_ and pin_state_; and an output is on only *)
(* if the node knows it and no report about it is on its way.                 *)

PanelFields == {"addr", "state", "fault", "pwm", "cmd", "power", "illum", "on", "tripped", "duty",
                "led", "bright", "backlight", "doubt"}

PanelShape(p) == p = [x \in PanelFields |-> p[x]] /\ p.led = [l \in Leds |-> p.led[l]]

NewsOf(n, d) == {i \in 1 .. Len(n) : n[i].pin = d}

\* A report says whether d is in a set; the last one about d does.
Says(value, d, set) == value = IF d \in set THEN TRUE ELSE FALSE

LastSays(n, d, set) ==
  \A i \in NewsOf(n, d) : (\A j \in NewsOf(n, d) : j <= i) => Says(n[i].value, d, set)

\* The reports on their way lead from what the node knows to what happened.
Consistent(n, d, fault, tripped) ==
  /\ LastSays(n, d, tripped)
  /\ NewsOf(n, d) = {} => (d \in fault <=> d \in tripped)

\* From reports n to reports k nothing changes but for device d.
NewsKept(n, k, d) ==
  \A x : x # d =>
    /\ \A fault, tripped : Consistent(n, x, fault, tripped) => Consistent(k, x, fault, tripped)
    /\ NewsOf(n, x) = {} => NewsOf(k, x) = {}

\* What holds of device d and its LED.  No report is on its way about an output
\* that was on before a step.
OutputShown(p, n, d, led, before) ==
  /\ Consistent(n, d, p.fault, p.tripped)
  /\ led = "BLINK" <=> d \in p.fault
  /\ led = "ON" => d \in p.state /\ d \notin p.fault
  /\ d \in p.on => led = "ON" /\ d \in p.state
  /\ d \in before => NewsOf(n, d) = {}

AllShown(p, n, before) ==
  /\ PanelShape(p)
  /\ \A d \in p.on : d \notin p.tripped
  /\ \A l \in DOMAIN Indicated :
       Indicated[l] \notin PwmPins \cup p.doubt => OutputShown(p, n, Indicated[l], p.led[l], before)

Reports(n) == (\E S : n \in Seq(S)) /\ \A i \in 1 .. Len(n) : n[i].value \in {TRUE, FALSE}

PanelInductive == AllShown(panel, news, panel.on) /\ Reports(news)

\* Each device has one LED at most.
LEMMA LedsApart ==
  /\ DOMAIN Indicated = 0 .. 6 /\ 0 .. 6 \subseteq Leds
  /\ \A l \in DOMAIN Indicated, k \in DOMAIN Indicated : Indicated[l] = Indicated[k] => l = k
<1>1. /\ Indicated[0] = 5 /\ Indicated[1] = 8 /\ Indicated[2] = 12 /\ Indicated[3] = 3
      /\ Indicated[4] = 10 /\ Indicated[5] = 7 /\ Indicated[6] = 2
  BY DEF Indicated, LIGHT_BAR, LEFT_SPOT_LIGHT, CHASE_LIGHTS, ROCK_LIGHTS, FRONT_LOCKER, REAR_LOCKER, AIR_COMP
<1>2. DOMAIN Indicated = 0 .. 6
  BY DEF Indicated
<1>3. \A l \in 0 .. 6 : l = 0 \/ l = 1 \/ l = 2 \/ l = 3 \/ l = 4 \/ l = 5 \/ l = 6
  OBVIOUS
<1>4. 0 .. 6 \subseteq Leds
  BY DEF Leds
<1> QED BY <1>1, <1>2, <1>3, <1>4

SameOutputs(p, q) ==
  /\ q.addr = p.addr /\ q.state = p.state /\ q.fault = p.fault
  /\ q.on = p.on /\ q.tripped = p.tripped /\ q.doubt = p.doubt

\* A report of device d changes nothing but its LED.
LEMMA ReportShown ==
  ASSUME NEW p, PanelShape(p), NEW d, NEW mode, NEW duty
  PROVE  LET q == HandlePower(p, d, mode, duty)
         IN  /\ PanelShape(q) /\ SameOutputs(p, q)
             /\ \A l \in DOMAIN Indicated :
                  /\ Indicated[l] # d => q.led[l] = p.led[l]
                  /\ Indicated[l] = d /\ p.addr # NoAddress =>
                       /\ mode = "FAULT" => q.led[l] = "BLINK"
                       /\ mode = "ON" => q.led[l] = "ON"
                       /\ mode = "OFF" => q.led[l] = "OFF"
<1> DEFINE q == HandlePower(p, d, mode, duty)
           look == CASE mode = "PWM" -> (IF duty = NoDuty THEN "OFF" ELSE "ON")
                      [] mode = "FAULT" -> "BLINK"
                      [] OTHER -> mode
           leds == {l \in DOMAIN Indicated : Indicated[l] = d}
<1>1. /\ mode = "FAULT" => look = "BLINK"
      /\ mode = "ON" => look = "ON"
      /\ mode = "OFF" => look = "OFF"
  OBVIOUS
<1>2. q = IF leds = {} \/ p.addr = NoAddress THEN p ELSE [p EXCEPT !.led[CHOOSE l \in leds : TRUE] = look]
  BY DEF HandlePower, HandleIndicatorCommand
<1>3. CASE leds = {} \/ p.addr = NoAddress
  BY <1>2, <1>3 DEF SameOutputs
<1>4. CASE leds # {} /\ p.addr # NoAddress
  <2>1. PICK l \in leds : l = CHOOSE k \in leds : TRUE
    BY <1>4
  <2>2. leds = {l} /\ l \in Leds
    BY <2>1, LedsApart
  <2> HIDE DEF look
  <2>3. q = [p EXCEPT !.led[l] = look]
    BY <1>2, <1>4, <2>1
  <2>4. q = [p EXCEPT !.led = [p.led EXCEPT ![l] = look]]
    BY <2>3
  <2>5. q.led = [p.led EXCEPT ![l] = look]
    BY <2>4 DEF PanelShape, PanelFields
  <2>6. PanelShape(q) /\ SameOutputs(p, q)
    BY <2>2, <2>4, <2>5 DEF PanelShape, PanelFields, SameOutputs
  <2>7. \A k \in DOMAIN Indicated : q.led[k] = IF Indicated[k] = d THEN look ELSE p.led[k]
    BY <2>2, <2>5, LedsApart DEF PanelShape
  <2> QED BY <1>1, <2>6, <2>7
<1> QED BY <1>3, <1>4

\* Nothing that matters here changed.
LEMMA SameShown ==
  ASSUME NEW p, NEW q, NEW n, NEW before, AllShown(p, n, before),
         PanelShape(q), SameOutputs(p, q), \A l \in DOMAIN Indicated : q.led[l] = p.led[l]
  PROVE  AllShown(q, n, before)
BY DEF AllShown, SameOutputs, OutputShown

\* A change of one device and its LED.
LEMMA OneDeviceChanges ==
  ASSUME NEW p, NEW n, NEW before, AllShown(p, n, before), NEW q, NEW d,
         PanelShape(q), q.doubt = p.doubt,
         \A x : x # d => /\ x \in q.state <=> x \in p.state
                         /\ x \in q.fault <=> x \in p.fault
                         /\ x \in q.on <=> x \in p.on
                         /\ x \in q.tripped <=> x \in p.tripped,
         \A l \in DOMAIN Indicated : Indicated[l] # d => q.led[l] = p.led[l],
         d \in q.on => d \notin q.tripped,
         \A l \in DOMAIN Indicated :
           Indicated[l] = d /\ d \notin PwmPins \cup q.doubt => OutputShown(q, n, d, q.led[l], before)
  PROVE  AllShown(q, n, before)
<1>1. \A x \in q.on : x \notin q.tripped
  BY DEF AllShown
<1>2. ASSUME NEW l \in DOMAIN Indicated, Indicated[l] \notin PwmPins \cup q.doubt, Indicated[l] # d
      PROVE  OutputShown(q, n, Indicated[l], q.led[l], before)
  <2>1. OutputShown(p, n, Indicated[l], p.led[l], before)
    BY <1>2 DEF AllShown
  <2> QED BY <1>2, <2>1 DEF OutputShown, Consistent, LastSays, Says
<1> QED BY <1>1, <1>2 DEF AllShown

\* setOutput(), the output driven and reported.
LEMMA OutputSet ==
  ASSUME NEW p, NEW n, NEW before, AllShown(p, n, before), p.addr # NoAddress,
         NEW d, NEW value \in {TRUE, FALSE}
  PROVE  AllShown(SetOutput(p, d, value), n, before) /\ SetOutput(p, d, value).tripped = p.tripped
<1> DEFINE q == [p EXCEPT !.state = IF value THEN @ \cup {d} ELSE @ \ {d}]
           r == Drive(q, d, value)
           t == HandlePower(r, d, IF value THEN "ON" ELSE "OFF", FullDuty)
<1>1. SetOutput(p, d, value) = p \/ (d \notin p.fault /\ SetOutput(p, d, value) = t)
  BY DEF SetOutput
<1>2. PanelShape(p)
  BY DEF AllShown
<1>3. /\ PanelShape(r)
      /\ r.addr = p.addr /\ r.led = p.led /\ r.doubt = p.doubt
      /\ r.fault = p.fault /\ r.tripped = p.tripped
      /\ r.state = IF value THEN p.state \cup {d} ELSE p.state \ {d}
      /\ r.on = IF value THEN (IF d \in p.tripped THEN p.on ELSE p.on \cup {d}) ELSE p.on \ {d}
  BY <1>2 DEF Drive, PanelShape, PanelFields
<1> HIDE DEF r
<1>4. /\ PanelShape(t) /\ SameOutputs(r, t)
      /\ \A l \in DOMAIN Indicated :
           /\ Indicated[l] # d => t.led[l] = r.led[l]
           /\ Indicated[l] = d => t.led[l] = IF value THEN "ON" ELSE "OFF"
  <2>1. CASE value = TRUE
    BY <1>3, <2>1, ReportShown
  <2>2. CASE value = FALSE
    BY <1>3, <2>2, ReportShown
  <2> QED BY <2>1, <2>2
<1> HIDE DEF t
<1>5. ASSUME d \notin p.fault
      PROVE  AllShown(t, n, before)
  <2>1. d \in t.on => d \notin t.tripped
    BY <1>3, <1>4 DEF SameOutputs, AllShown
  <2>2. ASSUME NEW l \in DOMAIN Indicated, Indicated[l] = d, d \notin PwmPins \cup t.doubt
        PROVE  OutputShown(t, n, d, t.led[l], before)
    <3>1. OutputShown(p, n, d, p.led[l], before)
      BY <1>3, <1>4, <2>2 DEF SameOutputs, AllShown
    <3>2. Consistent(n, d, t.fault, t.tripped) /\ d \notin t.fault
      BY <1>3, <1>4, <1>5, <3>1 DEF SameOutputs, OutputShown
    <3>3. CASE value = TRUE
      BY <1>3, <1>4, <2>2, <3>1, <3>2, <3>3 DEF SameOutputs, OutputShown
    <3>4. CASE value = FALSE
      BY <1>3, <1>4, <2>2, <3>1, <3>2, <3>4 DEF SameOutputs, OutputShown
    <3> QED BY <3>3, <3>4
  <2>3. /\ t.doubt = p.doubt
        /\ \A x : x # d => /\ x \in t.state <=> x \in p.state
                           /\ x \in t.fault <=> x \in p.fault
                           /\ x \in t.on <=> x \in p.on
                           /\ x \in t.tripped <=> x \in p.tripped
        /\ \A l \in DOMAIN Indicated : Indicated[l] # d => t.led[l] = p.led[l]
    BY <1>3, <1>4 DEF SameOutputs
  <2> QED BY <1>4, <2>1, <2>2, <2>3, OneDeviceChanges
<1> QED BY <1>1, <1>3, <1>4, <1>5 DEF SameOutputs

\* setPWM() leaves the switched outputs alone.
LEMMA DutySet ==
  ASSUME NEW p, NEW n, NEW before, AllShown(p, n, before), NEW d, NEW duty
  PROVE  /\ AllShown(SetPWM(p, d, duty), n, before)
         /\ SetPWM(p, d, duty).tripped = p.tripped /\ SetPWM(p, d, duty).on = p.on
<1> DEFINE q == [p EXCEPT !.cmd[d] = duty, !.pwm[d] = duty]
           r == [q EXCEPT !.duty = q.cmd]
           t == HandlePower(r, d, "PWM", duty)
<1>1. \/ SetPWM(p, d, duty) = p
      \/ d \in PwmPins /\ (SetPWM(p, d, duty) = q \/ SetPWM(p, d, duty) = t)
  BY DEF SetPWM
<1>2. PanelShape(p)
  BY DEF AllShown
<1>3. PanelShape(q) /\ SameOutputs(p, q) /\ q.led = p.led
  BY <1>2 DEF PanelShape, PanelFields, SameOutputs
<1>4. PanelShape(r) /\ SameOutputs(p, r) /\ r.led = p.led
  <2> HIDE DEF q
  <2> QED BY <1>3 DEF PanelShape, PanelFields, SameOutputs
<1> HIDE DEF q, r
<1>5. /\ PanelShape(t) /\ SameOutputs(r, t)
      /\ \A l \in DOMAIN Indicated : Indicated[l] # d => t.led[l] = r.led[l]
  BY <1>4, ReportShown
<1> HIDE DEF t
<1>6. AllShown(q, n, before)
  BY <1>3, SameShown
<1>7. ASSUME d \in PwmPins PROVE AllShown(t, n, before)
  <2>1. /\ t.doubt = p.doubt
        /\ \A x : x # d => /\ x \in t.state <=> x \in p.state
                           /\ x \in t.fault <=> x \in p.fault
                           /\ x \in t.on <=> x \in p.on
                           /\ x \in t.tripped <=> x \in p.tripped
        /\ \A l \in DOMAIN Indicated : Indicated[l] # d => t.led[l] = p.led[l]
        /\ d \in t.on => d \notin t.tripped
    BY <1>4, <1>5 DEF SameOutputs, AllShown
  <2> QED BY <1>5, <1>7, <2>1, OneDeviceChanges
<1> QED BY <1>1, <1>3, <1>4, <1>5, <1>6, <1>7 DEF SameOutputs

\* Any command but a reset.
LEMMA CommandShown ==
  ASSUME NEW p, NEW n, NEW before, AllShown(p, n, before),
         NEW d, NEW cmd \in {"ON", "OFF", "TOGGLE", "PWM"}
  PROVE  /\ AllShown(HandlePowerCommand(p, d, cmd), n, before)
         /\ HandlePowerCommand(p, d, cmd).tripped = p.tripped
         /\ d \in PwmPins => HandlePowerCommand(p, d, cmd).on = p.on
<1> DEFINE q == HandlePowerCommand(p, d, cmd)
<1>1. CASE p.addr = NoAddress \/ d > 12
  BY <1>1 DEF HandlePowerCommand
<1>2. CASE p.addr # NoAddress /\ ~(d > 12)
  <2>1. \/ \E duty : q = SetPWM(p, d, duty)
        \/ d \notin PwmPins /\ \E value \in {TRUE, FALSE} : q = SetOutput(p, d, value)
    <3>1. cmd = "ON" => q = IF d \in PwmPins THEN SetPWM(p, d, FullDuty) ELSE SetOutput(p, d, TRUE)
      BY <1>2 DEF HandlePowerCommand
    <3>2. cmd = "OFF" => q = IF d \in PwmPins THEN SetPWM(p, d, NoDuty) ELSE SetOutput(p, d, FALSE)
      BY <1>2 DEF HandlePowerCommand
    <3>3. cmd = "TOGGLE" => q = IF d \in PwmPins THEN SetPWM(p, d, IF p.cmd[d] = NoDuty THEN FullDuty ELSE NoDuty)
                                                 ELSE SetOutput(p, d, d \notin p.state)
      BY <1>2 DEF HandlePowerCommand
    <3>4. cmd = "PWM" => q = SetPWM(p, d, DimDuty)
      BY <1>2 DEF HandlePowerCommand
    <3>5. (d \notin p.state) \in {TRUE, FALSE}
      OBVIOUS
    <3> HIDE DEF q
    <3> QED BY <3>1, <3>2, <3>3, <3>4, <3>5
  <2> HIDE DEF q
  <2>2. AllShown(q, n, before) /\ q.tripped = p.tripped /\ (d \in PwmPins => q.on = p.on)
    <3>1. CASE \E duty : q = SetPWM(p, d, duty)
      BY <3>1, DutySet
    <3>2. CASE d \notin PwmPins /\ \E value \in {TRUE, FALSE} : q = SetOutput(p, d, value)
      <4>1. PICK value \in {TRUE, FALSE} : q = SetOutput(p, d, value)
        BY <3>2
      <4>2. AllShown(SetOutput(p, d, value), n, before) /\ SetOutput(p, d, value).tripped = p.tripped
        BY <1>2, OutputSet
      <4> QED BY <3>2, <4>1, <4>2
    <3> QED BY <2>1, <3>1, <3>2
  <2> QED BY <2>2 DEF q
<1> QED BY <1>1, <1>2

\* An output that was turned on while a report about it is on its way is in doubt.
LEMMA CrossedShown ==
  ASSUME NEW p, NEW q, AllShown(q, news, p.on)
  PROVE  AllShown(Crossed(p, q), news, Crossed(p, q).on)
<1> DEFINE r == Crossed(p, q)
           late == {news[i].pin : i \in {j \in DOMAIN news : news[j].pin \in q.on \ p.on}}
<1>1. PanelShape(q)
  BY DEF AllShown
<1>2. r = [q EXCEPT !.doubt = q.doubt \cup late]
  BY DEF Crossed
<1> HIDE DEF r, late
<1>3. /\ PanelShape(r)
      /\ r.led = q.led /\ r.state = q.state /\ r.fault = q.fault /\ r.on = q.on /\ r.tripped = q.tripped
      /\ r.doubt = q.doubt \cup late
  BY <1>1, <1>2 DEF PanelShape, PanelFields
<1>4. ASSUME NEW l \in DOMAIN Indicated, Indicated[l] \notin PwmPins \cup r.doubt
      PROVE  OutputShown(r, news, Indicated[l], r.led[l], r.on)
  <2>1. OutputShown(q, news, Indicated[l], q.led[l], p.on)
    BY <1>3, <1>4 DEF AllShown
  <2>2. Indicated[l] \in q.on => NewsOf(news, Indicated[l]) = {}
    <3>1. CASE Indicated[l] \in p.on
      BY <2>1, <3>1 DEF OutputShown
    <3>2. CASE Indicated[l] \in q.on \ p.on
      <4>1. Indicated[l] \notin late
        BY <1>3, <1>4
      <4> QED BY <3>2, <4>1 DEF late, NewsOf
    <3> QED BY <3>1, <3>2
  <2> QED BY <1>3, <2>1, <2>2 DEF OutputShown
<1>5. AllShown(r, news, r.on)
  BY <1>3, <1>4 DEF AllShown
<1> QED BY <1>5 DEF r

\* A step that changes no output, no LED of a device, and no report.
LEMMA QuietStep ==
  ASSUME PanelInductive, PanelShape(panel'), SameOutputs(panel, panel'),
         \A l \in DOMAIN Indicated : panel'.led[l] = panel.led[l], news' = news
  PROVE  PanelInductive'
<1>1. AllShown(panel', news, panel.on)
  BY SameShown DEF PanelInductive
<1> QED BY <1>1 DEF PanelInductive, SameOutputs

\* An address is claimed or lost: devices that an LED shows come into doubt.
LEMMA ClaimStep ==
  ASSUME PanelInductive, NEW a, panel' = HandleClaim(panel, a), news' = news
  PROVE  PanelInductive'
<1> DEFINE visible == {d \in Pins : \E l \in DOMAIN Indicated : Indicated[l] = d /\ panel.led[l] # "OFF"}
           q == [panel EXCEPT !.addr = a, !.doubt = panel.doubt \cup visible]
<1>1. panel' = KeypadClaim(q)
  BY DEF HandleClaim
<1>2. PanelShape(panel)
  BY DEF PanelInductive, AllShown
<1> HIDE DEF visible
<1>3. /\ PanelShape(q) /\ q.led = panel.led /\ q.doubt = panel.doubt \cup visible
      /\ q.state = panel.state /\ q.fault = panel.fault /\ q.on = panel.on /\ q.tripped = panel.tripped
  BY <1>2 DEF PanelShape, PanelFields
<1> HIDE DEF q
<1>4. /\ PanelShape(panel') /\ panel'.doubt = q.doubt
      /\ panel'.state = q.state /\ panel'.fault = q.fault /\ panel'.on = q.on /\ panel'.tripped = q.tripped
      /\ panel'.led = q.led \/ panel'.led = [l \in Leds |-> "OFF"]
  <2>1. CASE q.addr = NoAddress
    BY <1>1, <1>3, <2>1 DEF KeypadClaim
  <2>2. CASE q.addr # NoAddress
    <3>1. panel' = [q EXCEPT !.led = [l \in Leds |-> "OFF"], !.bright = "HIGH", !.backlight = FALSE]
      BY <1>1, <2>2 DEF KeypadClaim
    <3> QED BY <1>3, <3>1 DEF PanelShape, PanelFields
  <2> QED BY <2>1, <2>2
<1>5. ASSUME NEW l \in DOMAIN Indicated, Indicated[l] \notin PwmPins \cup panel'.doubt
      PROVE  OutputShown(panel', news', Indicated[l], panel'.led[l], panel'.on)
  <2>1. Indicated[l] \in Pins
    BY DEF Indicated, Pins, LIGHT_BAR, LEFT_SPOT_LIGHT, CHASE_LIGHTS, ROCK_LIGHTS, FRONT_LOCKER, REAR_LOCKER, AIR_COMP
  <2>2. panel.led[l] = "OFF"
    BY <1>3, <1>4, <1>5, <2>1 DEF visible
  <2>3. panel'.led[l] = "OFF"
    BY <1>3, <1>4, <2>2, LedsApart
  <2>4. OutputShown(panel, news, Indicated[l], panel.led[l], panel.on)
    BY <1>3, <1>4, <1>5 DEF PanelInductive, AllShown
  <2> QED BY <1>3, <1>4, <2>2, <2>3, <2>4 DEF OutputShown
<1>6. \A d \in panel'.on : d \notin panel'.tripped
  BY <1>3, <1>4 DEF PanelInductive, AllShown
<1> QED BY <1>4, <1>5, <1>6 DEF PanelInductive, AllShown

\* A report joins the others.
LEMMA NewsGrows ==
  ASSUME NEW n, Reports(n), NEW m, NEW v \in {TRUE, FALSE}, m.value = v, NEW d, m.pin = d,
         NEW k, k = Append(n, m)
  PROVE  /\ Reports(k)
         /\ NewsKept(n, k, d)
         /\ \A fault, tripped : Says(v, d, tripped) => Consistent(k, d, fault, tripped)
<1>1. PICK S : n \in Seq(S)
  BY DEF Reports
<1>2. /\ k \in Seq(S \cup {m})
      /\ Len(n) \in Nat /\ Len(k) = Len(n) + 1
      /\ \A i \in 1 .. Len(n) : k[i] = n[i]
      /\ k[Len(n) + 1] = m
  <2>1. n \in Seq(S \cup {m})
    BY <1>1
  <2> QED BY <2>1
<1>3. Reports(k)
  <2>1. \E T : k \in Seq(T)
    BY <1>2
  <2>2. \A i \in 1 .. Len(k) : k[i].value \in {TRUE, FALSE}
    <3> TAKE i \in 1 .. Len(k)
    <3>1. (i \in 1 .. Len(n) /\ k[i] = n[i]) \/ k[i] = m
      BY <1>2
    <3> QED BY <3>1, Zenon DEF Reports
  <2> QED BY <2>1, <2>2 DEF Reports
<1>4. \A x : x # d => NewsOf(k, x) = NewsOf(n, x)
  BY <1>2 DEF NewsOf
<1>5. ASSUME NEW x, NEW fault, NEW tripped, x # d, Consistent(n, x, fault, tripped)
      PROVE  Consistent(k, x, fault, tripped)
  <2>1. \A i \in NewsOf(n, x) : k[i] = n[i]
    BY <1>2 DEF NewsOf
  <2>2. NewsOf(k, x) = NewsOf(n, x)
    BY <1>4, <1>5
  <2> QED BY <1>5, <2>1, <2>2, Zenon DEF Consistent, LastSays
<1>6. ASSUME NEW fault, NEW tripped, Says(v, d, tripped)
      PROVE  Consistent(k, d, fault, tripped)
  <2>1. /\ Len(n) + 1 \in NewsOf(k, d)
        /\ \A i \in NewsOf(k, d) : i = Len(n) + 1 \/ ~(Len(n) + 1 <= i)
    BY <1>2 DEF NewsOf
  <2> QED BY <1>2, <1>6, <2>1 DEF Consistent, LastSays, Says
<1> QED BY <1>3, <1>4, <1>5, <1>6 DEF NewsKept

\* A new report about an output is the last one about it, and leaves those of others.
LEMMA OneMore ==
  ASSUME NEW n, Reports(n), NEW v \in {TRUE, FALSE}, NEW d, NEW k, k = Append(n, [pin |-> d, value |-> v])
  PROVE  /\ Reports(k) /\ NewsKept(n, k, d)
         /\ \A fault, tripped : Says(v, d, tripped) => Consistent(k, d, fault, tripped)
<1>1. PICK m : m = [pin |-> d, value |-> v]
  OBVIOUS
<1>2. m.pin = d /\ m.value = v /\ k = Append(n, m)
  BY <1>1
<1> QED BY <1>2, NewsGrows

\* The oldest report arrives.
LEMMA NewsShrinks ==
  ASSUME NEW n, Reports(n), n # << >>, NEW k, k = Tail(n), NEW m, m = Head(n), NEW d, m.pin = d
  PROVE  /\ Reports(k)
         /\ m.value \in {TRUE, FALSE} /\ NewsOf(n, d) # {}
         /\ NewsKept(n, k, d)
         /\ \A fault, known, tripped :
              Consistent(n, d, fault, tripped) /\ Says(m.value, d, known) => Consistent(k, d, known, tripped)
<1>1. PICK S : n \in Seq(S)
  BY DEF Reports
<1>2. /\ k \in Seq(S)
      /\ Len(n) \in Nat \ {0} /\ Len(k) = Len(n) - 1
      /\ \A i \in 1 .. Len(k) : k[i] = n[i + 1]
      /\ m = n[1]
  BY <1>1
<1>3. Reports(k) /\ m.value \in {TRUE, FALSE}
  <2>1. \E T : k \in Seq(T)
    BY <1>2
  <2>2. \A i \in 1 .. Len(k) : k[i].value \in {TRUE, FALSE}
    <3> TAKE i \in 1 .. Len(k)
    <3>1. i + 1 \in 1 .. Len(n) /\ k[i] = n[i + 1]
      BY <1>2
    <3> QED BY <3>1, Zenon DEF Reports
  <2>3. 1 \in 1 .. Len(n)
    BY <1>2
  <2>4. m.value \in {TRUE, FALSE}
    BY <1>2, <2>3, Zenon DEF Reports
  <2> QED BY <2>1, <2>2, <2>4 DEF Reports
<1>4. 1 \in NewsOf(n, d)
  BY <1>2 DEF NewsOf
<1>5. \A x : \A i \in NewsOf(k, x) : i \in 1 .. Len(k) /\ i + 1 \in NewsOf(n, x) /\ k[i] = n[i + 1]
  BY <1>2 DEF NewsOf
<1>6. \A x : \A i \in NewsOf(n, x) : i \in Nat /\ ((i = 1 /\ x = d) \/ i - 1 \in NewsOf(k, x))
  BY <1>2 DEF NewsOf
<1>7. \A x, fault, tripped :
        Consistent(n, x, fault, tripped) => LastSays(k, x, tripped)
  <2> SUFFICES ASSUME NEW x, NEW fault, NEW tripped, Consistent(n, x, fault, tripped),
                      NEW i \in NewsOf(k, x), \A j \in NewsOf(k, x) : j <= i
               PROVE  Says(k[i].value, x, tripped)
    BY DEF LastSays
  <2>1. i + 1 \in NewsOf(n, x) /\ k[i] = n[i + 1] /\ i \in Nat
    BY <1>2, <1>5
  <2>2. \A j \in NewsOf(n, x) : j <= i + 1
    BY <1>2, <1>5, <1>6
  <2> QED BY <2>1, <2>2 DEF Consistent, LastSays
<1>8. ASSUME NEW x, NEW fault, NEW tripped, x # d, Consistent(n, x, fault, tripped)
      PROVE  Consistent(k, x, fault, tripped)
  <2>1. NewsOf(k, x) = {} => NewsOf(n, x) = {}
    BY <1>6, <1>8
  <2>2. LastSays(k, x, tripped)
    BY <1>7, <1>8, Zenon
  <2> QED BY <1>8, <2>1, <2>2, Zenon DEF Consistent
<1>9. ASSUME NEW x, x # d, NewsOf(n, x) = {} PROVE NewsOf(k, x) = {}
  BY <1>5, <1>9
<1>10. ASSUME NEW fault, NEW known, NEW tripped, Consistent(n, d, fault, tripped),
              Says(m.value, d, known)
       PROVE  Consistent(k, d, known, tripped)
  <2>1. ASSUME NewsOf(k, d) = {} PROVE d \in known <=> d \in tripped
    <3>1. \A j \in NewsOf(n, d) : j <= 1
      BY <1>6, <2>1
    <3>2. Says(m.value, d, tripped)
      BY <1>2, <1>4, <1>10, <3>1 DEF Consistent, LastSays
    <3> QED BY <1>10, <3>2 DEF Says
  <2>2. LastSays(k, d, tripped)
    BY <1>7, <1>10, Zenon
  <2> QED BY <2>1, <2>2, Zenon DEF Consistent
<1> QED BY <1>3, <1>4, <1>8, <1>9, <1>10 DEF NewsKept

\* A step about one device and the reports about it.
LEMMA OneDeviceStep ==
  ASSUME PanelInductive, PanelShape(panel'), Reports(news'), panel.doubt \subseteq panel'.doubt,
         NEW d,
         \A x : x # d => /\ x \in panel'.state <=> x \in panel.state
                         /\ x \in panel'.fault <=> x \in panel.fault
                         /\ x \in panel'.on <=> x \in panel.on
                         /\ x \in panel'.tripped <=> x \in panel.tripped,
         \A l \in DOMAIN Indicated : Indicated[l] # d => panel'.led[l] = panel.led[l],
         NewsKept(news, news', d),
         d \in panel'.on => d \notin panel'.tripped,
         \A l \in DOMAIN Indicated :
           Indicated[l] = d /\ d \notin PwmPins \cup panel'.doubt
             => OutputShown(panel', news', d, panel'.led[l], panel'.on)
  PROVE  PanelInductive'
<1>1. \A x \in panel'.on : x \notin panel'.tripped
  BY DEF PanelInductive, AllShown
<1>2. ASSUME NEW l \in DOMAIN Indicated, Indicated[l] \notin PwmPins \cup panel'.doubt, Indicated[l] # d
      PROVE  OutputShown(panel', news', Indicated[l], panel'.led[l], panel'.on)
  <2>1. OutputShown(panel, news, Indicated[l], panel.led[l], panel.on)
    BY <1>2 DEF PanelInductive, AllShown
  <2>2. Consistent(news, Indicated[l], panel'.fault, panel'.tripped)
    BY <1>2, <2>1 DEF OutputShown, Consistent, LastSays, Says
  <2> QED BY <1>2, <2>1, <2>2 DEF OutputShown, NewsKept
<1> QED BY <1>1, <1>2 DEF PanelInductive, AllShown

\* A reset, from outside: the keybox reports that the output recovered.
LEMMA ResetStep ==
  ASSUME PanelInductive, NEW d, panel' = Crossed(panel, Reset(panel, d)),
         news' = IF d \in panel.tripped \ panel'.tripped THEN Append(news, [pin |-> d, value |-> FALSE]) ELSE news,
         panel.addr # NoAddress
  PROVE  PanelInductive'
<1> DEFINE p == [panel EXCEPT !.fault = @ \ {d}, !.tripped = @ \ {d}, !.on = @ \ {d}]
           q == HandlePower(p, d, "OFF", FullDuty)
           late(x) == {news[i].pin : i \in {j \in DOMAIN news : news[j].pin \in x.on \ panel.on}}
<1>1. PanelShape(panel)
  BY DEF PanelInductive, AllShown
<1>2. CASE d \notin panel.fault
  <2>1. late(panel) = {}
    OBVIOUS
  <2>2. panel' = [panel EXCEPT !.doubt = panel.doubt \cup {}]
    BY <1>2, <2>1 DEF Reset, Crossed
  <2>3. panel' = panel
    BY <1>1, <2>2 DEF PanelShape, PanelFields
  <2> QED BY <1>1, <2>3, QuietStep DEF SameOutputs
<1>3. CASE d \in panel.fault
  <2>1. /\ PanelShape(p) /\ p.addr = panel.addr /\ p.led = panel.led /\ p.doubt = panel.doubt
        /\ p.state = panel.state /\ p.fault = panel.fault \ {d}
        /\ p.on = panel.on \ {d} /\ p.tripped = panel.tripped \ {d}
    BY <1>1 DEF PanelShape, PanelFields
  <2> HIDE DEF p
  <2>2. /\ PanelShape(q) /\ SameOutputs(p, q)
        /\ \A l \in DOMAIN Indicated :
             /\ Indicated[l] # d => q.led[l] = p.led[l]
             /\ Indicated[l] = d => q.led[l] = "OFF"
    BY <2>1, ReportShown
  <2>3. panel' = [q EXCEPT !.doubt = q.doubt \cup late(q)]
    BY <1>3 DEF Reset, Crossed, p
  <2> HIDE DEF q
  <2>4. late(q) = {}
    BY <2>1, <2>2 DEF SameOutputs
  <2>5. panel' = [q EXCEPT !.doubt = q.doubt \cup {}]
    BY <2>3, <2>4
  <2>6. panel' = q
    BY <2>2, <2>5 DEF PanelShape, PanelFields
  <2>7. /\ Reports(news')
        /\ NewsKept(news, news', d)
        /\ d \in panel.tripped => \A fault, tripped : d \notin tripped => Consistent(news', d, fault, tripped)
        /\ d \notin panel.tripped => news' = news
    <3>1. news' = IF d \in panel.tripped THEN Append(news, [pin |-> d, value |-> FALSE]) ELSE news
      BY <2>1, <2>2, <2>6 DEF SameOutputs
    <3>2. Reports(news)
      BY DEF PanelInductive
    <3>4. CASE d \in panel.tripped
      <4>1. news' = Append(news, [pin |-> d, value |-> FALSE])
        BY <3>1, <3>4
      <4>2. /\ Reports(news') /\ NewsKept(news, news', d)
            /\ \A fault, tripped : Says(FALSE, d, tripped) => Consistent(news', d, fault, tripped)
        BY <3>2, <4>1, OneMore
      <4> QED BY <3>4, <4>2 DEF Says
    <3>5. CASE d \notin panel.tripped
      BY <3>1, <3>2, <3>5 DEF NewsKept
    <3> QED BY <3>4, <3>5
  <2>8. ASSUME NEW l \in DOMAIN Indicated, Indicated[l] = d, d \notin PwmPins \cup panel'.doubt
        PROVE  OutputShown(panel', news', d, panel'.led[l], panel'.on)
    <3>1. OutputShown(panel, news, d, panel.led[l], panel.on)
      BY <2>1, <2>2, <2>6, <2>8 DEF SameOutputs, PanelInductive, AllShown
    <3>2. d \notin q.tripped /\ d \notin q.fault /\ d \notin q.on /\ q.led[l] = "OFF"
      BY <2>1, <2>2, <2>8 DEF SameOutputs
    <3>3. Consistent(news', d, q.fault, q.tripped)
      <4>1. CASE d \in panel.tripped
        BY <2>7, <3>2, <4>1
      <4>2. CASE d \notin panel.tripped
        <5>1. Consistent(news, d, panel.fault, panel.tripped)
          BY <3>1 DEF OutputShown
        <5> QED BY <1>3, <2>7, <3>2, <4>2, <5>1 DEF Consistent, LastSays, Says
      <4> QED BY <4>1, <4>2
    <3> QED BY <2>6, <3>2, <3>3 DEF OutputShown
  <2>9. /\ \A x : x # d => /\ x \in panel'.state <=> x \in panel.state
                           /\ x \in panel'.fault <=> x \in panel.fault
                           /\ x \in panel'.on <=> x \in panel.on
                           /\ x \in panel'.tripped <=> x \in panel.tripped
        /\ \A l \in DOMAIN Indicated : Indicated[l] # d => panel'.led[l] = panel.led[l]
        /\ d \in panel'.on => d \notin panel'.tripped
        /\ panel.doubt \subseteq panel'.doubt
        /\ PanelShape(panel')
    BY <2>1, <2>2, <2>6 DEF SameOutputs
  <2> QED BY <2>7, <2>8, <2>9, OneDeviceStep
<1> QED BY <1>2, <1>3

\* An output trips (value is true) or recovers.
LEMMA OutputTrips ==
  ASSUME PanelInductive, NEW d, NEW value \in {TRUE, FALSE},
         news' = Append(news, [pin |-> d, value |-> value]),
         \/ /\ value = TRUE
            /\ panel' = [panel EXCEPT !.tripped = @ \cup {d}, !.on = @ \ {d}]
         \/ /\ value = FALSE /\ d \in panel.tripped
            /\ panel' = [panel EXCEPT !.tripped = @ \ {d}]
  PROVE  PanelInductive'
<1>3. PanelShape(panel) /\ Reports(news)
  BY DEF PanelInductive, AllShown
<1>4. /\ PanelShape(panel') /\ panel'.led = panel.led /\ panel'.doubt = panel.doubt
      /\ panel'.state = panel.state /\ panel'.fault = panel.fault
      /\ panel'.on = panel.on \ {d}
      /\ panel'.tripped = IF value THEN panel.tripped \cup {d} ELSE panel.tripped \ {d}
  <2>1. CASE value = TRUE
    BY <1>3, <2>1 DEF PanelShape, PanelFields
  <2>2. CASE value = FALSE
    <3>1. d \notin panel.on
      BY <2>2 DEF PanelInductive, AllShown
    <3>2. panel.on = panel.on \ {d}
      BY <3>1
    <3> QED BY <1>3, <2>2, <3>2 DEF PanelShape, PanelFields
  <2> QED BY <2>1, <2>2
<1>5. /\ Reports(news') /\ NewsKept(news, news', d)
      /\ \A fault, tripped : Says(value, d, tripped) => Consistent(news', d, fault, tripped)
  BY <1>3, OneMore
<1>6. Consistent(news', d, panel'.fault, panel'.tripped)
  <2>1. Says(value, d, panel'.tripped)
    BY <1>4 DEF Says
  <2> QED BY <1>5, <2>1
<1>7. ASSUME NEW l \in DOMAIN Indicated, Indicated[l] = d, d \notin PwmPins \cup panel'.doubt
      PROVE  OutputShown(panel', news', d, panel'.led[l], panel'.on)
  <2>1. OutputShown(panel, news, d, panel.led[l], panel.on)
    BY <1>4, <1>7 DEF PanelInductive, AllShown
  <2> QED BY <1>4, <1>6, <2>1 DEF OutputShown
<1>8. /\ \A x : x # d => /\ x \in panel'.state <=> x \in panel.state
                         /\ x \in panel'.fault <=> x \in panel.fault
                         /\ x \in panel'.on <=> x \in panel.on
                         /\ x \in panel'.tripped <=> x \in panel.tripped
      /\ d \in panel'.on => d \notin panel'.tripped
  BY <1>4
<1> QED BY <1>4, <1>5, <1>7, <1>8, OneDeviceStep

\* A trip and a recovery.
LEMMA TripStep ==
  ASSUME PanelInductive, Trip \/ Recover
  PROVE  PanelInductive'
<1>1. CASE Trip
  <2>1. PICK d : /\ panel' = [panel EXCEPT !.tripped = @ \cup {d}, !.on = @ \ {d}]
                 /\ news' = Append(news, [pin |-> d, value |-> TRUE])
    BY <1>1 DEF Trip
  <2> QED BY <2>1, OutputTrips
<1>2. CASE Recover
  <2>1. PICK d \in panel.tripped : /\ panel' = [panel EXCEPT !.tripped = @ \ {d}]
                                   /\ news' = Append(news, [pin |-> d, value |-> FALSE])
    BY <1>2 DEF Recover
  <2> QED BY <2>1, OutputTrips
<1> QED BY <1>1, <1>2

\* The node learns the oldest report, or cannot.
LEMMA FaultReportStep ==
  ASSUME PanelInductive, FaultReport
  PROVE  PanelInductive'
<1>1. PICK d, v : d = Head(news).pin /\ v = Head(news).value
  OBVIOUS
<1>2. news # << >> /\ news' = Tail(news) /\ panel' = HandleFaultReport(panel, d, v)
  BY <1>1 DEF FaultReport
<1>3. PanelShape(panel) /\ Reports(news)
  BY DEF PanelInductive, AllShown
<1>4. /\ Reports(news') /\ v \in {TRUE, FALSE} /\ NewsOf(news, d) # {}
      /\ NewsKept(news, news', d)
      /\ \A fault, known, tripped :
           Consistent(news, d, fault, tripped) /\ Says(v, d, known) => Consistent(news', d, known, tripped)
  <2>1. PICK m : m = Head(news)
    OBVIOUS
  <2>2. m.pin = d /\ m.value = v
    BY <1>1, <2>1
  <2>3. /\ Reports(news') /\ m.value \in {TRUE, FALSE} /\ NewsOf(news, d) # {}
        /\ NewsKept(news, news', d)
        /\ \A fault, known, tripped :
             Consistent(news, d, fault, tripped) /\ Says(m.value, d, known) => Consistent(news', d, known, tripped)
    BY <1>2, <1>3, <2>1, <2>2, NewsShrinks
  <2> QED BY <2>2, <2>3
<1>5. ASSUME NEW l \in DOMAIN Indicated, Indicated[l] = d, d \notin PwmPins \cup panel.doubt
      PROVE  /\ d \notin panel.on
             /\ \A known : Says(v, d, known) => Consistent(news', d, known, panel.tripped)
             /\ panel.led[l] = "BLINK" <=> d \in panel.fault
             /\ panel.led[l] = "ON" => d \in panel.state /\ d \notin panel.fault
  <2>1. OutputShown(panel, news, d, panel.led[l], panel.on)
    BY <1>5 DEF PanelInductive, AllShown
  <2> QED BY <1>4, <2>1 DEF OutputShown
<1>6. d \in panel.on => d \notin panel.tripped
  BY DEF PanelInductive, AllShown
<1>7. CASE panel.addr = NoAddress
  <2>1. panel' = [panel EXCEPT !.doubt = panel.doubt \cup {d}]
    BY <1>2, <1>7 DEF HandleFaultReport
  <2>2. /\ PanelShape(panel') /\ panel'.doubt = panel.doubt \cup {d}
        /\ panel'.state = panel.state /\ panel'.fault = panel.fault
        /\ panel'.on = panel.on /\ panel'.tripped = panel.tripped /\ panel'.led = panel.led
    BY <1>3, <2>1 DEF PanelShape, PanelFields
  <2> QED BY <1>4, <1>6, <2>2, OneDeviceStep
<1>8. CASE panel.addr # NoAddress /\ (d \in panel.fault) = v
  <2>1. panel' = panel
    BY <1>2, <1>8 DEF HandleFaultReport
  <2>2. Says(v, d, panel.fault)
    <3>1. CASE d \in panel.fault
      <4>1. v = TRUE
        BY <1>4, <1>8, <3>1, Zenon
      <4> QED BY <3>1, <4>1 DEF Says
    <3>2. CASE d \notin panel.fault
      <4>1. v = FALSE
        BY <1>4, <1>8, <3>2, Zenon
      <4> QED BY <3>2, <4>1 DEF Says
    <3> QED BY <3>1, <3>2
  <2>3. ASSUME NEW l \in DOMAIN Indicated, Indicated[l] = d, d \notin PwmPins \cup panel'.doubt
        PROVE  OutputShown(panel', news', d, panel'.led[l], panel'.on)
    BY <1>5, <2>1, <2>2, <2>3 DEF OutputShown
  <2> QED BY <1>3, <1>4, <1>6, <2>1, <2>3, OneDeviceStep
<1>9. CASE panel.addr # NoAddress /\ (d \in panel.fault) # v
  <2> DEFINE q == IF v THEN [panel EXCEPT !.fault = @ \cup {d},
                                          !.cmd = [n \in PwmPins |-> IF n = d THEN NoDuty ELSE @[n]]]
                       ELSE [panel EXCEPT !.fault = @ \ {d}]
             r == HandlePower(q, d, IF v THEN "FAULT" ELSE "OFF", FullDuty)
  <2>1. panel' = r
    BY <1>2, <1>9 DEF HandleFaultReport
  <2>2. /\ PanelShape(q) /\ q.addr = panel.addr /\ q.led = panel.led /\ q.doubt = panel.doubt
        /\ q.state = panel.state /\ q.on = panel.on /\ q.tripped = panel.tripped
        /\ q.fault = IF v THEN panel.fault \cup {d} ELSE panel.fault \ {d}
    BY <1>3 DEF PanelShape, PanelFields
  <2> HIDE DEF q
  <2>3. /\ PanelShape(r) /\ SameOutputs(q, r)
        /\ \A l \in DOMAIN Indicated :
             /\ Indicated[l] # d => r.led[l] = q.led[l]
             /\ Indicated[l] = d => r.led[l] = IF v THEN "BLINK" ELSE "OFF"
    <3>1. CASE v = TRUE
      BY <1>9, <2>2, <3>1, ReportShown
    <3>2. CASE v = FALSE
      BY <1>9, <2>2, <3>2, ReportShown
    <3> QED BY <1>4, <3>1, <3>2
  <2> HIDE DEF r
  <2>4. /\ panel'.state = panel.state /\ panel'.on = panel.on /\ panel'.tripped = panel.tripped
        /\ panel'.doubt = panel.doubt
        /\ panel'.fault = IF v THEN panel.fault \cup {d} ELSE panel.fault \ {d}
        /\ PanelShape(panel')
    BY <2>1, <2>2, <2>3 DEF SameOutputs
  <2>5. \A l \in DOMAIN Indicated :
          /\ Indicated[l] # d => panel'.led[l] = panel.led[l]
          /\ Indicated[l] = d => panel'.led[l] = IF v THEN "BLINK" ELSE "OFF"
    BY <2>1, <2>2, <2>3
  <2>6. Says(v, d, panel'.fault)
    BY <1>4, <2>4 DEF Says
  <2>7. ASSUME NEW l \in DOMAIN Indicated, Indicated[l] = d, d \notin PwmPins \cup panel'.doubt
        PROVE  OutputShown(panel', news', d, panel'.led[l], panel'.on)
    <3>1. d \notin panel'.on /\ Consistent(news', d, panel'.fault, panel'.tripped)
      BY <1>5, <2>4, <2>6, <2>7
    <3>2. panel'.led[l] = IF v THEN "BLINK" ELSE "OFF"
      BY <2>5, <2>7
    <3> QED BY <1>4, <2>4, <3>1, <3>2 DEF OutputShown
  <2>8. \A x : x # d => (x \in panel'.fault <=> x \in panel.fault)
    BY <2>4
  <2> QED BY <1>4, <1>6, <2>4, <2>5, <2>7, <2>8, OneDeviceStep
<1> QED BY <1>7, <1>8, <1>9

\* A request for the state of all outputs.
LEMMA RequestStep ==
  ASSUME PanelInductive, RequestPower
  PROVE  PanelInductive'
<1> DEFINE mode(d) == CASE d \in panel.fault -> "FAULT"
                        [] d \notin panel.fault /\ d = 11 -> "PWM"
                        [] d \notin panel.fault /\ d # 11 /\ d \in panel.state -> "ON"
                        [] OTHER -> "OFF"
           reported(d) == HandlePower(panel, d, mode(d), IF d = 11 THEN panel.pwm[11] ELSE FullDuty)
           leds == [l \in Leds |-> IF l \in DOMAIN Indicated /\ Indicated[l] <= 11
                                     THEN reported(Indicated[l]).led[l] ELSE panel.led[l]]
<1>1. panel' = [panel EXCEPT !.led = leds] /\ news' = news
  BY DEF RequestPower, HandlePowerStateRequest
<1>2. PanelShape(panel)
  BY DEF PanelInductive, AllShown
<1>3. ASSUME NEW l \in DOMAIN Indicated, Indicated[l] \notin PwmPins
      PROVE  /\ panel.addr = NoAddress => leds[l] = panel.led[l]
             /\ panel.addr # NoAddress =>
                  leds[l] = IF Indicated[l] \in panel.fault THEN "BLINK"
                            ELSE IF Indicated[l] \in panel.state THEN "ON" ELSE "OFF"
  <2>1. PICK d : d = Indicated[l]
    OBVIOUS
  <2>2. d <= 11 /\ d # 11 /\ l \in Leds
    BY <1>3, <2>1, LedsApart DEF Indicated, PwmPins, LIGHT_BAR, LEFT_SPOT_LIGHT, CHASE_LIGHTS, ROCK_LIGHTS, FRONT_LOCKER, REAR_LOCKER, AIR_COMP
  <2>3. mode(d) = IF d \in panel.fault THEN "FAULT" ELSE IF d \in panel.state THEN "ON" ELSE "OFF"
    BY <2>2
  <2> HIDE DEF mode
  <2>4. leds[l] = reported(d).led[l]
    BY <2>1, <2>2
  <2>5. panel.addr = NoAddress => reported(d) = panel
    BY DEF HandlePower, HandleIndicatorCommand
  <2>6. panel.addr # NoAddress =>
          /\ mode(d) = "FAULT" => reported(d).led[l] = "BLINK"
          /\ mode(d) = "ON" => reported(d).led[l] = "ON"
          /\ mode(d) = "OFF" => reported(d).led[l] = "OFF"
    BY <1>2, <2>1, ReportShown
  <2> QED BY <2>1, <2>3, <2>4, <2>5, <2>6
<1>4. DOMAIN leds = Leds /\ leds = [l \in Leds |-> leds[l]]
  OBVIOUS
<1> HIDE DEF leds
<1>5. PanelShape(panel') /\ SameOutputs(panel, panel') /\ panel'.led = leds
  BY <1>1, <1>2, <1>4 DEF PanelShape, PanelFields, SameOutputs
<1>6. ASSUME NEW l \in DOMAIN Indicated, Indicated[l] \notin PwmPins \cup panel'.doubt
      PROVE  OutputShown(panel', news', Indicated[l], panel'.led[l], panel'.on)
  <2>1. OutputShown(panel, news, Indicated[l], panel.led[l], panel.on)
    BY <1>5, <1>6 DEF SameOutputs, PanelInductive, AllShown
  <2>2. CASE panel.addr = NoAddress
    <3>1. panel'.led[l] = panel.led[l]
      BY <1>3, <1>5, <1>6, <2>2
    <3> QED BY <1>1, <1>5, <2>1, <3>1 DEF SameOutputs, OutputShown
  <2>3. CASE panel.addr # NoAddress
    <3>1. panel'.led[l] = IF Indicated[l] \in panel.fault THEN "BLINK"
                          ELSE IF Indicated[l] \in panel.state THEN "ON" ELSE "OFF"
      BY <1>3, <1>5, <1>6, <2>3
    <3> QED BY <1>1, <1>5, <2>1, <3>1 DEF SameOutputs, OutputShown
  <2> QED BY <2>2, <2>3
<1>7. \A d \in panel'.on : d \notin panel'.tripped
  BY <1>5 DEF SameOutputs, PanelInductive, AllShown
<1> QED BY <1>1, <1>5, <1>6, <1>7 DEF PanelInductive, AllShown

\* The screen and the headlights dim the keypad, and change no LED of a device.
LEMMA LightsStep ==
  ASSUME PanelInductive, Lights
  PROVE  PanelInductive'
<1>1. PICK p : /\ \/ \E on \in BOOLEAN : p = [panel EXCEPT !.power = on]
                  \/ \E on \in BOOLEAN : p = [panel EXCEPT !.illum = on]
               /\ panel' = Illum(p)
  BY DEF Lights
<1>2. news' = news
  BY DEF Lights
<1>3. PanelShape(panel)
  BY DEF PanelInductive, AllShown
<1>4. PanelShape(p) /\ SameOutputs(panel, p) /\ p.led = panel.led
  BY <1>1, <1>3 DEF PanelShape, PanelFields, SameOutputs
<1>5. ASSUME NEW x, PanelShape(x), NEW b
      PROVE  /\ PanelShape(HandleBrightness(x, b)) /\ SameOutputs(x, HandleBrightness(x, b))
             /\ HandleBrightness(x, b).led = x.led
             /\ PanelShape(HandleBacklight(x, b)) /\ SameOutputs(x, HandleBacklight(x, b))
             /\ HandleBacklight(x, b).led = x.led
  BY <1>5 DEF HandleBrightness, HandleBacklight, PanelShape, PanelFields, SameOutputs
<1>6. \E b, c : Illum(p) = HandleBacklight(HandleBrightness(p, b), c)
  BY DEF Illum
<1>7. PICK b, c : panel' = HandleBacklight(HandleBrightness(p, b), c)
  BY <1>1, <1>6
<1>8. PICK x : x = HandleBrightness(p, b)
  OBVIOUS
<1>9. PanelShape(x) /\ SameOutputs(p, x) /\ x.led = p.led
  BY <1>4, <1>5, <1>8
<1>10. PanelShape(panel') /\ SameOutputs(x, panel') /\ panel'.led = x.led
  BY <1>5, <1>7, <1>8, <1>9
<1>11. SameOutputs(panel, panel') /\ panel'.led = panel.led
  BY <1>4, <1>9, <1>10 DEF SameOutputs
<1> QED BY <1>2, <1>10, <1>11, QuietStep

\* A key toggles one device or two.
LEMMA KeyStep ==
  ASSUME PanelInductive, Key
  PROVE  PanelInductive'
<1>1. PICK devices : panel' = Crossed(panel, ToggledAll(panel, devices))
  BY DEF Key
<1>2. news' = news
  BY DEF Key
<1>3. AllShown(panel, news, panel.on) /\ Reports(news)
  BY DEF PanelInductive
<1> DEFINE first == IF Len(devices) >= 1 THEN HandlePowerCommand(panel, devices[1], "TOGGLE") ELSE panel
           second == IF Len(devices) >= 2 THEN HandlePowerCommand(first, devices[2], "TOGGLE") ELSE first
<1>4. AllShown(first, news, panel.on)
  <2>1. AllShown(HandlePowerCommand(panel, devices[1], "TOGGLE"), news, panel.on)
    BY <1>3, CommandShown
  <2> QED BY <1>3, <2>1
<1>5. AllShown(second, news, panel.on)
  <2> HIDE DEF first
  <2>1. AllShown(HandlePowerCommand(first, devices[2], "TOGGLE"), news, panel.on)
    BY <1>4, CommandShown
  <2> QED BY <1>4, <2>1
<1>6. panel' = Crossed(panel, second)
  BY <1>1 DEF ToggledAll
<1> HIDE DEF second
<1>7. AllShown(Crossed(panel, second), news, Crossed(panel, second).on)
  BY <1>5, CrossedShown
<1> QED BY <1>2, <1>3, <1>6, <1>7 DEF PanelInductive

\* The running lights are not a switched output.
LEMMA RunningLightsStep ==
  ASSUME PanelInductive, RunningLights
  PROVE  PanelInductive'
<1>1. PICK cmd \in {"ON", "OFF"} : panel' = HandlePowerCommand(panel, RUNNING_LIGHTS, cmd)
  BY DEF RunningLights
<1>2. news' = news /\ RUNNING_LIGHTS \in PwmPins
  BY DEF RunningLights, RUNNING_LIGHTS, PwmPins
<1>3. AllShown(panel', news, panel.on) /\ panel'.on = panel.on
  BY <1>1, <1>2, CommandShown DEF PanelInductive
<1> QED BY <1>2, <1>3 DEF PanelInductive

\* Commands from outside.
LEMMA RemoteStep ==
  ASSUME PanelInductive, Remote
  PROVE  PanelInductive'
<1>1. PICK d \in FaultyPins, cmd \in {"ON", "OFF", "RESET", "PWM"} :
        /\ panel' = Crossed(panel, HandlePowerCommand(panel, d, cmd))
        /\ news' = IF d \in panel.tripped \ panel'.tripped
                     THEN Append(news, [pin |-> d, value |-> FALSE]) ELSE news
  BY DEF Remote
<1>2. AllShown(panel, news, panel.on) /\ Reports(news)
  BY DEF PanelInductive
<1>3. ASSUME NEW q, AllShown(q, news, panel.on), q.tripped = panel.tripped, panel' = Crossed(panel, q)
      PROVE  PanelInductive'
  <2>1. AllShown(panel', news, panel'.on)
    BY <1>3, CrossedShown
  <2>2. panel'.tripped = q.tripped
    BY <1>3 DEF Crossed, AllShown, PanelShape, PanelFields
  <2>3. news' = news
    BY <1>1, <1>3, <2>2
  <2> QED BY <1>2, <2>1, <2>3 DEF PanelInductive
<1>4. CASE cmd # "RESET"
  <2>1. /\ AllShown(HandlePowerCommand(panel, d, cmd), news, panel.on)
        /\ HandlePowerCommand(panel, d, cmd).tripped = panel.tripped
    BY <1>2, <1>4, CommandShown
  <2> QED BY <1>1, <1>3, <2>1
<1>5. CASE panel.addr = NoAddress \/ d > 12
  <2>1. HandlePowerCommand(panel, d, cmd) = panel
    BY <1>5 DEF HandlePowerCommand
  <2> QED BY <1>1, <1>2, <1>3, <2>1
<1>6. CASE cmd = "RESET" /\ ~(panel.addr = NoAddress \/ d > 12)
  <2>1. HandlePowerCommand(panel, d, cmd) = Reset(panel, d)
    BY <1>6 DEF HandlePowerCommand
  <2> QED BY <1>1, <1>6, <2>1, ResetStep
<1> QED BY <1>4, <1>5, <1>6

\* All LEDs are off at the start, and so are all outputs.
LEMMA PanelStart == PanelInit => PanelInductive
<1> SUFFICES ASSUME PanelInit PROVE PanelInductive
  OBVIOUS
<1>1. panel = FreshPanel /\ news = << >>
  BY DEF PanelInit
<1>2. /\ panel.state = {} /\ panel.fault = {} /\ panel.on = {} /\ panel.tripped = {}
      /\ panel.led = [l \in Leds |-> "OFF"]
  BY <1>1 DEF FreshPanel
<1>3. PanelShape(panel)
  BY <1>1 DEF FreshPanel, PanelShape, PanelFields
<1>4. Reports(news) /\ \A d : NewsOf(news, d) = {}
  <2>1. news \in Seq({}) /\ Len(news) = 0
    BY <1>1
  <2> QED BY <2>1 DEF Reports, NewsOf
<1>5. ASSUME NEW l \in DOMAIN Indicated
      PROVE  OutputShown(panel, news, Indicated[l], panel.led[l], panel.on)
  <2>1. panel.led[l] = "OFF"
    BY <1>2, LedsApart
  <2> QED BY <1>2, <1>4, <2>1 DEF OutputShown, Consistent, LastSays
<1> QED BY <1>2, <1>3, <1>4, <1>5 DEF PanelInductive, AllShown

\* Every step keeps the strengthening.
LEMMA PanelStep == PanelInductive /\ [PanelNext]_panelVars => PanelInductive'
<1> SUFFICES ASSUME PanelInductive, [PanelNext]_panelVars PROVE PanelInductive'
  OBVIOUS
<1>1. CASE Claim
  BY <1>1, ClaimStep DEF Claim
<1>2. CASE Key
  BY <1>2, KeyStep
<1>3. CASE RunningLights
  BY <1>3, RunningLightsStep
<1>4. CASE Lights
  BY <1>4, LightsStep
<1>5. CASE Remote
  BY <1>5, RemoteStep
<1>6. CASE RequestPower
  BY <1>6, RequestStep
<1>7. CASE Trip \/ Recover
  BY <1>7, TripStep
<1>8. CASE FaultReport
  BY <1>8, FaultReportStep
<1>9. CASE UNCHANGED panelVars
  BY <1>9 DEF panelVars, PanelInductive
<1> QED BY <1>1, <1>2, <1>3, <1>4, <1>5, <1>6, <1>7, <1>8, <1>9 DEF PanelNext

\* When no report of the keybox is on its way, the LED of a device that is in no
\* doubt blinks exactly when its output tripped and is else on exactly when the
\* output is, unless the node believes an output on that is not, for all
\* outputs that may trip and any number of trips, commands and claims.
THEOREM LedsAreTrue == PanelSpec => []LedsTrue
<1>1. PanelInductive => LedsTrue
  <2> SUFFICES ASSUME PanelInductive, news = << >>,
                      NEW l \in DOMAIN Indicated, Indicated[l] \notin PwmPins \cup panel.doubt
               PROVE  /\ panel.led[l] = "BLINK" <=> Indicated[l] \in panel.tripped
                      /\ Indicated[l] \notin panel.tripped /\ Indicated[l] \notin panel.state \ panel.on
                           => (panel.led[l] = "ON" <=> Indicated[l] \in panel.on)
    BY DEF LedsTrue
  <2>1. OutputShown(panel, news, Indicated[l], panel.led[l], panel.on)
    BY DEF PanelInductive, AllShown
  <2>2. NewsOf(news, Indicated[l]) = {}
    <3>1. Len(news) = 0
      OBVIOUS
    <3> QED BY <3>1 DEF NewsOf
  <2> QED BY <2>1, <2>2 DEF OutputShown, Consistent
<1> QED BY <1>1, PanelStart, PanelStep, PTL DEF PanelSpec

=============================================================================
