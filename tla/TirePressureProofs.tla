------------------------- MODULE TirePressureProofs -------------------------
(* Proofs about the tire map and its flash page, for every set of pressures  *)
(* and any number of power failures.                                         *)
EXTENDS TirePressure, TLAPS

\* The map and the event are functions on the positions: a swap keeps their
\* type and moves their values.
LEMMA SwappedMap ==
  ASSUME NEW m \in Maps, NEW a \in Positions, NEW b \in Positions
  PROVE  /\ Swapped(m, a, b) \in Maps
         /\ \A i \in Positions :
              Swapped(m, a, b)[i] = IF i = b THEN m[a] ELSE IF i = a THEN m[b] ELSE m[i]
  BY DEF Swapped, Maps

\* Swapping two entries of an event, one by one.
LEMMA SwappedEvent ==
  ASSUME NEW e \in [Positions -> Pressures], NEW a \in Positions, NEW b \in Positions
  PROVE  /\ Swapped(e, a, b) \in [Positions -> Pressures]
         /\ \A i \in Positions :
              Swapped(e, a, b)[i] = IF i = b THEN e[a] ELSE IF i = a THEN e[b] ELSE e[i]
  BY DEF Swapped

\* A swap of a permutation is one.
LEMMA SwappedPermutation ==
  ASSUME NEW m \in Maps, NEW a \in Positions, NEW b \in Positions, Permutation(m)
  PROVE  Permutation(Swapped(m, a, b))
<1> DEFINE w == Swapped(m, a, b)
<1>1. \A k \in Positions :
        w[k] = IF k = b THEN m[a] ELSE IF k = a THEN m[b] ELSE m[k]
  BY SwappedMap
<1> SUFFICES ASSUME NEW i \in Positions, NEW j \in Positions, w[i] = w[j]
             PROVE  i = j
  BY DEF Permutation
<1>2. w[i] = IF i = b THEN m[a] ELSE IF i = a THEN m[b] ELSE m[i]
  BY <1>1
<1>3. w[j] = IF j = b THEN m[a] ELSE IF j = a THEN m[b] ELSE m[j]
  BY <1>1
<1> HIDE DEF w
<1> QED
  BY <1>2, <1>3 DEF Permutation

\* What swapPosition leaves alone or swaps, in one fact.
LEMMA SwapPositionMoves ==
  ASSUME TypeOK, NEW a, NEW b, SwapPosition(a, b)
  PROVE  /\ reported' = reported
         /\ \/ map' = map /\ event' = event /\ published' = published
            \/ /\ a \in Positions /\ b \in Positions
               /\ map' = Swapped(map, a, b)
               /\ event' = Swapped(event, a, b)
               /\ published' = event'
  BY DEF SwapPosition, nodeVars

\* Blank data, a blank event and the default map have the right types.
LEMMA BlankTypes ==
  /\ Blank \in Maps
  /\ Blank \in [Positions -> Pressures]
  /\ Identity \in Maps
  BY PressuresAssumption DEF Blank, Identity, Maps, Positions

\* The node, its store and its history are type correct.
THEOREM TypeCorrect == Spec => []TypeOK
<1>1. Init => TypeOK
  <2> SUFFICES ASSUME Init PROVE TypeOK
    OBVIOUS
  <2>1. cuts \in 0..MaxCuts
    BY CutsAssumption DEF Init
  <2>2. flash \in Maps \cup NoMap /\ saved \in Maps \cup {None}
    BY DEF Init, NoMap
  <2> QED
    BY BlankTypes, <2>1, <2>2 DEF Init, TypeOK
<1>2. TypeOK /\ [Next]_vars => TypeOK'
  <2> SUFFICES ASSUME TypeOK, [Next]_vars PROVE TypeOK'
    OBVIOUS
  <2> USE DEF TypeOK
  <2>1. CASE Boot
    <3>1. /\ flash' \in Maps \cup NoMap
          /\ valid' \in BOOLEAN
          /\ data' \in Maps
      BY <2>1, BlankTypes DEF Boot, Load, Blank, NoMap
    <3>2. map' \in Maps
      BY <2>1, <3>1, BlankTypes DEF Boot, Loaded
    <3> QED
      BY <2>1, <3>1, <3>2, BlankTypes DEF Boot
  <2>2. CASE PowerOff
    BY <2>2 DEF PowerOff, storeVars, nodeVars
  <2>3. ASSUME NEW pressures \in [Positions -> Pressures], HandleFrame(pressures)
        PROVE  TypeOK'
    <3>1. \A i \in Positions : map[i] \in Positions
      BY DEF Maps
    <3>2. event' \in [Positions -> Pressures]
      BY <2>3, <3>1 DEF HandleFrame
    <3> QED
      BY <2>3, <3>2 DEF HandleFrame, storeVars
  <2>4. CASE YieldEvent
    BY <2>4 DEF YieldEvent, storeVars
  <2>5. ASSUME NEW a \in Operands, NEW b \in Operands,
               Swap(a, b) \/ SwapCut(a, b)
        PROVE  TypeOK'
    <3>1. SwapPosition(a, b)
      BY <2>5 DEF Swap, SwapCut
    <3>2. /\ map' \in Maps
          /\ event' \in [Positions -> Pressures]
          /\ published' \in [Positions -> Pressures]
          /\ reported' \in [Positions -> Pressures]
      <4>1. CASE map' = map /\ event' = event /\ published' = published
        BY <3>1, <4>1, SwapPositionMoves
      <4>2. CASE /\ a \in Positions /\ b \in Positions
                 /\ map' = Swapped(map, a, b)
                 /\ event' = Swapped(event, a, b)
                 /\ published' = event'
        <5>1. Swapped(map, a, b) \in Maps
          BY <4>2, SwappedMap
        <5>2. Swapped(event, a, b) \in [Positions -> Pressures]
          BY <4>2, SwappedEvent
        <5> QED
          BY <3>1, <4>2, <5>1, <5>2, SwapPositionMoves
      <4> QED
        BY <3>1, <4>1, <4>2, SwapPositionMoves
    <3>3. CASE Swap(a, b)
      BY <3>2, <3>3 DEF Swap, Save, Program, NoMap
    <3>4. CASE SwapCut(a, b)
      <4>1. cuts' \in 0..MaxCuts
        BY <3>4, CutsAssumption DEF SwapCut
      <4>2. flash' \in Maps \cup NoMap
        BY <3>4 DEF SwapCut, NoMap
      <4> QED
        BY <3>2, <3>4, <4>1, <4>2 DEF SwapCut
    <3> QED
      BY <2>5, <3>3, <3>4
  <2>6. CASE UNCHANGED vars
    BY <2>6 DEF vars, storeVars, nodeVars
  <2> QED
    BY <2>1, <2>2, <2>3, <2>4, <2>5, <2>6 DEF Next
<1> QED
  BY <1>1, <1>2, PTL DEF Spec

\* The page after a save or a save cut short holds no map but the one saved.
LEMMA PageAfterSwap ==
  ASSUME TypeOK, NEW a, NEW b, map' \in Maps,
         Swap(a, b) \/ SwapCut(a, b)
  PROVE  /\ flash' \in Maps => \/ flash' = map' /\ saved' = map'
                               \/ flash' = flash /\ saved' = saved
         /\ flash' \in Maps => flash' \in {flash, map'}
  BY PageAssumption DEF Swap, SwapCut, Save, Program

\* No sequence of swaps, saves, power failures and boots makes two positions
\* share a sensor.
THEOREM EveryTireKept == Spec => []EveryTireMapped
<1>1. Init => EveryTireMapped
  BY PageAssumption DEF Init, EveryTireMapped, Permutation, Identity, Positions
<1>2. TypeOK /\ TypeOK' /\ EveryTireMapped /\ [Next]_vars => EveryTireMapped'
  <2> SUFFICES ASSUME TypeOK, TypeOK', EveryTireMapped, [Next]_vars
               PROVE  EveryTireMapped'
    OBVIOUS
  <2>1. CASE Boot
    <3>1. Permutation(Identity)
      BY DEF Permutation, Identity
    <3> QED
      BY <2>1, <3>1, PageAssumption
      DEF Boot, Load, Loaded, EveryTireMapped, NoMap, TypeOK, Permutation
  <2>2. ASSUME NEW a \in Operands, NEW b \in Operands,
               Swap(a, b) \/ SwapCut(a, b)
        PROVE  EveryTireMapped'
    <3>1. SwapPosition(a, b)
      BY <2>2 DEF Swap, SwapCut
    <3>2. Permutation(map)'
      BY <3>1, SwapPositionMoves, SwappedPermutation
      DEF EveryTireMapped, TypeOK, Permutation
    <3>3. map' \in Maps
      BY DEF TypeOK
    <3>4. flash' \in Maps => flash' \in {flash, map'}
      BY <2>2, <3>3, PageAfterSwap
    <3> QED
      BY <3>2, <3>4 DEF EveryTireMapped, Permutation
  <2>3. CASE UNCHANGED <<map, flash>>
    BY <2>3 DEF EveryTireMapped, Permutation
  <2> QED
    BY <2>1, <2>2, <2>3
    DEF Next, PowerOff, HandleFrame, YieldEvent, vars, storeVars, nodeVars
<1> QED
  BY <1>1, <1>2, TypeCorrect, PTL DEF Spec

\* The strengthening of ShownWhereMounted: the event itself is current, and
\* what was yielded is the event.
Current ==
  /\ published = event
  /\ \A i \in Positions : event[i] = reported[map[i]]

\* The displays show at each position the pressure of the sensor that is there.
THEOREM ShownRight == Spec => []ShownWhereMounted
<1>1. Init => Current
  BY DEF Init, Current, Blank, Identity, Positions
<1>2. TypeOK /\ TypeOK' /\ Current /\ [Next]_vars => Current'
  <2> SUFFICES ASSUME TypeOK, TypeOK', Current, [Next]_vars PROVE Current'
    OBVIOUS
  <2> USE DEF Current
  <2>1. CASE Boot
    <3>1. \A i \in Positions : map'[i] \in Positions
      BY DEF TypeOK, Maps
    <3> QED
      BY <2>1, <3>1 DEF Boot, Blank
  <2>2. ASSUME NEW pressures \in [Positions -> Pressures], HandleFrame(pressures)
        PROVE  Current'
    BY <2>2 DEF HandleFrame, TypeOK
  <2>3. CASE YieldEvent
    BY <2>3 DEF YieldEvent
  <2>4. ASSUME NEW a \in Operands, NEW b \in Operands,
               Swap(a, b) \/ SwapCut(a, b)
        PROVE  Current'
    <3>1. SwapPosition(a, b)
      BY <2>4 DEF Swap, SwapCut
    <3>2. reported' = reported
      BY <3>1, SwapPositionMoves
    <3>3. CASE map' = map /\ event' = event /\ published' = published
      BY <3>2, <3>3
    <3>4. CASE /\ a \in Positions /\ b \in Positions
               /\ map' = Swapped(map, a, b)
               /\ event' = Swapped(event, a, b)
               /\ published' = event'
      <4>1. \A i \in Positions :
              map'[i] = IF i = b THEN map[a] ELSE IF i = a THEN map[b] ELSE map[i]
        BY <3>4 DEF TypeOK, Swapped, Maps
      <4>2. \A i \in Positions :
              event'[i] = IF i = b THEN event[a] ELSE IF i = a THEN event[b] ELSE event[i]
        BY <3>4, SwappedEvent DEF TypeOK
      <4> QED
        BY <3>2, <3>4, <4>1, <4>2
    <3> QED
      BY <3>1, <3>3, <3>4, SwapPositionMoves
  <2>5. CASE UNCHANGED <<map, event, published, reported>>
    BY <2>5
  <2> QED
    BY <2>1, <2>2, <2>3, <2>4, <2>5 DEF Next, PowerOff, vars, nodeVars
<1>3. Current => ShownWhereMounted
  BY DEF Current, ShownWhereMounted
<1> QED
  BY <1>1, <1>2, <1>3, TypeCorrect, PTL DEF Spec

\* The strengthening of NoOlderMap: a map in flash is the last one saved.
LastInFlash == flash \in Maps => flash = saved

\* A boot brings back the last map saved or the default.
THEOREM BootsLastMap == Spec => NoOlderMap
<1>1. Init => LastInFlash
  BY PageAssumption DEF Init, LastInFlash
<1>2. TypeOK /\ TypeOK' /\ LastInFlash /\ [Next]_vars => LastInFlash'
  <2> SUFFICES ASSUME TypeOK, TypeOK', LastInFlash, [Next]_vars
               PROVE  LastInFlash'
    OBVIOUS
  <2>1. CASE Boot
    BY <2>1, PageAssumption DEF Boot, Load, LastInFlash
  <2>2. ASSUME NEW a \in Operands, NEW b \in Operands,
               Swap(a, b) \/ SwapCut(a, b)
        PROVE  LastInFlash'
    <3>1. map' \in Maps
      BY DEF TypeOK
    <3> QED
      BY <2>2, <3>1, PageAfterSwap DEF LastInFlash
  <2>3. CASE UNCHANGED <<flash, saved>>
    BY <2>3 DEF LastInFlash
  <2> QED
    BY <2>1, <2>2, <2>3
    DEF Next, PowerOff, HandleFrame, YieldEvent, vars, storeVars
<1>3. TypeOK /\ LastInFlash => [Boot => map' \in {Identity, saved}]_vars
  BY DEF LastInFlash, Boot, Load, Loaded, TypeOK
<1> QED
  BY <1>1, <1>2, <1>3, TypeCorrect, PTL DEF Spec, NoOlderMap
=============================================================================
