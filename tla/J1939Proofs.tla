----------------------------- MODULE J1939Proofs -----------------------------
(* Proofs about the address a J1939 gateway holds and the one its nodes use.  *)
(* The walk of NextAddress visits a growing arc of the ring 1..Null-1 that    *)
(* starts at the preferred address; a gateway stands at the end of its arc or *)
(* has given up.  The nodes are behind by the claims in their queue, the last *)
(* of which bears the gateway's address unless it was dropped.                *)
EXTENDS J1939Gateway, SequenceTheorems, TLAPS

\* The addresses from p on up to a, around the ring of 1..Null-1.
Arc(p, a) == {x \in 1..(Null - 1) : IF p <= a THEN p <= x /\ x <= a
                                               ELSE p <= x \/ x <= a}

\* Where a gateway stands on its walk: it has had the addresses of the arc up
\* to the current one, or it has given up.
Stands(g) ==
  \/ /\ address[g] \in 1..(Null - 1)
     /\ held[g] = Arc(Preferred[g], address[g])
  \/ /\ address[g] = Null
     /\ Null \in held[g]

Walk ==
  /\ DOMAIN address = Gateways
  /\ DOMAIN held = Gateways
  /\ DOMAIN wrote = Gateways
  /\ \A g \in Gateways : Stands(g)

\* An address after the current one was not held before, and the arc grows by
\* exactly that address.
LEMMA NextIsFresh ==
  ASSUME NEW g \in Gateways,
         address[g] \in 1..(Null - 1),
         held[g] = Arc(Preferred[g], address[g]),
         NEW a, a = IF Arbitrary[g] THEN NextAddress(g) ELSE Null
  PROVE  /\ a \notin held[g]
         /\ \/ a = Null
            \/ a \in 1..(Null - 1) /\ held[g] \cup {a} = Arc(Preferred[g], a)
<1>1. Null \in Nat /\ Null > 1 /\ Preferred[g] \in 1..(Null - 1)
  BY GatewayAssumption
<1>2. CASE a = Null
  BY <1>1, <1>2 DEF Arc
<1>3. CASE a # Null
  <2> DEFINE next == IF address[g] + 1 >= Null THEN 1 ELSE address[g] + 1
  <2>1. a = next /\ next # Preferred[g]
    BY <1>3 DEF NextAddress
  <2>2. next \in 1..(Null - 1)
    BY <1>1
  <2>3. next \notin Arc(Preferred[g], address[g])
    BY <1>1, <2>1, <2>2 DEF Arc
  <2>4. ASSUME NEW x \in 1..(Null - 1)
        PROVE  x \in Arc(Preferred[g], next)
                 <=> x \in Arc(Preferred[g], address[g]) \/ x = next
    BY <1>1, <2>1, <2>2 DEF Arc
  <2>5. Arc(Preferred[g], address[g]) \cup {next} = Arc(Preferred[g], next)
    <3>1. Arc(Preferred[g], address[g]) \subseteq 1..(Null - 1)
      BY DEF Arc
    <3>2. Arc(Preferred[g], next) \subseteq 1..(Null - 1)
      BY DEF Arc
    <3> QED BY <2>2, <2>4, <3>1, <3>2
  <2> QED BY <2>1, <2>2, <2>3, <2>5
<1> QED BY <1>2, <1>3

\* The actions after which every gateway holds what it held.
Standing == UNCHANGED <<address, held>>

\* A gateway that has just started has held its preferred address only.
LEMMA WalkInit == Init => Walk
<1> SUFFICES ASSUME Init PROVE Walk
  OBVIOUS
<1>1. DOMAIN address = Gateways /\ DOMAIN held = Gateways /\ DOMAIN wrote = Gateways
  BY GatewayAssumption DEF Init
<1>2. ASSUME NEW g \in Gateways PROVE Stands(g)
  <2>1. Preferred[g] \in 1..(Null - 1) /\ Null \in Nat
    BY GatewayAssumption
  <2>2. Arc(Preferred[g], Preferred[g]) = {Preferred[g]}
    BY <2>1 DEF Arc
  <2> QED BY <2>1, <2>2 DEF Init, Stands
<1> QED BY <1>1, <1>2 DEF Walk

\* What ReceiveYield does to the address and its history.
LEMMA YieldMoves ==
  ASSUME Walk, NEW g \in Gateways, ReceiveYield(g)
  PROVE  /\ address'[g] \notin held[g]
         /\ held'[g] = held[g] \cup {address'[g]}
         /\ Stands(g)'
         /\ \A h \in Gateways \ {g} : address'[h] = address[h] /\ held'[h] = held[h]
         /\ \A h \in Gateways \ {g} : wrote'[h] = wrote[h]
         /\ wrote'[g].src = address'[g]
         /\ DOMAIN address' = Gateways /\ DOMAIN held' = Gateways
         /\ DOMAIN wrote' = Gateways
<1> DEFINE a == IF Arbitrary[g] THEN NextAddress(g) ELSE Null
<1>1. DOMAIN address = Gateways /\ DOMAIN held = Gateways /\ DOMAIN wrote = Gateways
  BY DEF Walk
<1>2. /\ address' = [address EXCEPT ![g] = a]
      /\ held' = [held EXCEPT ![g] = held[g] \cup {a}]
      /\ wrote' = [wrote EXCEPT ![g] = Claim(g, a)]
      /\ address[g] # Null
  BY DEF ReceiveYield, Yields
<1>3. Stands(g)
  BY DEF Walk
<1>4. address[g] \in 1..(Null - 1) /\ held[g] = Arc(Preferred[g], address[g])
  BY <1>2, <1>3 DEF Stands
<1>5. /\ a \notin held[g]
      /\ \/ a = Null
         \/ a \in 1..(Null - 1) /\ held[g] \cup {a} = Arc(Preferred[g], a)
  BY <1>4, NextIsFresh
<1> HIDE DEF a
<1>6. address'[g] = a /\ held'[g] = held[g] \cup {a} /\ wrote'[g] = Claim(g, a)
  BY <1>1, <1>2
<1>7. Stands(g)'
  BY <1>5, <1>6 DEF Stands
<1>8. wrote'[g].src = a
  BY <1>6 DEF Claim
<1> QED BY <1>1, <1>2, <1>5, <1>6, <1>7, <1>8

\* Every step but ReceiveYield leaves the addresses alone, and writes nothing
\* but a claim of its own or a message that passed the filter.
LEMMA OthersStand ==
  ASSUME Walk, Next, \A g \in Gateways : ~ReceiveYield(g)
  PROVE  /\ Standing
         /\ DOMAIN wrote' = Gateways
         /\ \A g \in Gateways : ~Promiscuous[g] /\ wrote'[g] # wrote[g] =>
              wrote'[g].src = address[g]
<1> USE DEF Standing
<1>1. DOMAIN wrote = Gateways
  BY DEF Walk
<1>2. ASSUME NEW g \in Gateways, Start(g)
      PROVE  /\ Standing /\ DOMAIN wrote' = Gateways
             /\ \A h \in Gateways : wrote'[h] # wrote[h] => wrote'[h].src = address[h]
  BY <1>1, <1>2 DEF Start, Claim
<1>3. ASSUME NEW g \in Gateways, ReceiveKeep(g)
      PROVE  /\ Standing /\ DOMAIN wrote' = Gateways
             /\ \A h \in Gateways : wrote'[h] # wrote[h] => wrote'[h].src = address[h]
  <2> DEFINE f   == Head(inbox[g])
             out == IF Outranks(g, f) \/ Asked(g, f)
                      THEN <<Claim(g, address[g])>> ELSE <<>>
  <2>1. Standing /\ wrote' = IF out = <<>> THEN wrote ELSE [wrote EXCEPT ![g] = out[1]]
    BY <1>3 DEF ReceiveKeep
  <2>2. out # <<>> => out[1].src = address[g]
    BY DEF Claim
  <2> HIDE DEF out
  <2> QED BY <1>1, <2>1, <2>2
<1>4. ASSUME NEW g \in Gateways, Handle(g)
      PROVE  /\ Standing /\ DOMAIN wrote' = Gateways
             /\ \A h \in Gateways : ~Promiscuous[h] /\ wrote'[h] # wrote[h] =>
                  wrote'[h].src = address[h]
  <2> DEFINE m == Head(downward[g])
  <2>1. CASE Promiscuous[g] \/ (m.src = address[g] /\ address[g] # Null)
    <3>1. Standing /\ wrote' = [wrote EXCEPT ![g] = m]
      BY <1>4, <2>1 DEF Handle
    <3> HIDE DEF m
    <3> QED BY <1>1, <2>1, <3>1
  <2>2. CASE ~(Promiscuous[g] \/ (m.src = address[g] /\ address[g] # Null))
    BY <1>1, <1>4, <2>2 DEF Handle
  <2> QED BY <2>1, <2>2
<1>5. ASSUME NEW g \in Gateways, NodesTake(g) \/ NodeSends(g, All)
      PROVE  Standing /\ wrote' = wrote
  BY <1>5 DEF NodesTake, NodeSends
<1>6. ASSUME NEW f \in PeerFrames, PeerSends(f)
      PROVE  Standing /\ wrote' = wrote
  BY <1>6 DEF PeerSends
<1> QED BY <1>1, <1>2, <1>3, <1>4, <1>5, <1>6 DEF Next

\* Every step keeps the addresses held an arc.
LEMMA WalkNext == Walk /\ [Next]_vars => Walk'
<1> SUFFICES ASSUME Walk, [Next]_vars PROVE Walk'
  OBVIOUS
<1>1. CASE UNCHANGED vars
  BY <1>1 DEF vars, Walk, Stands, Arc
<1>2. ASSUME NEW g \in Gateways, ReceiveYield(g) PROVE Walk'
  <2>1. ASSUME NEW h \in Gateways PROVE Stands(h)'
    <3>1. CASE h = g
      BY <1>2, <3>1, YieldMoves
    <3>2. CASE h # g
      <4>1. address'[h] = address[h] /\ held'[h] = held[h]
        BY <1>2, <3>2, YieldMoves
      <4> QED BY <4>1 DEF Walk, Stands
    <3> QED BY <3>1, <3>2
  <2> QED BY <1>2, <2>1, YieldMoves DEF Walk
<1>3. CASE Next /\ \A g \in Gateways : ~ReceiveYield(g)
  BY <1>3, OthersStand DEF Walk, Standing, Stands, Arc
<1> QED BY <1>1, <1>2, <1>3

\* The addresses held are an arc in every reachable state.
LEMMA AlwaysWalk == Spec => []Walk
<1> QED BY WalkInit, WalkNext, PTL DEF Spec

\* handleAddressClaim never takes an address that the gateway had before, and
\* none at all after it gave up: for any number of gateways, any size of the
\* address space, any preferred address but 0 and whatever frames arrive.
THEOREM AddressNeverRetried == Spec => NeverRetried
<1>1. Walk /\ [Next]_vars =>
        [\A g \in Gateways : address'[g] # address[g] => address'[g] \notin held[g]]_vars
  <2> SUFFICES ASSUME Walk, Next, NEW g \in Gateways, address'[g] # address[g]
               PROVE  address'[g] \notin held[g]
    OBVIOUS
  <2>1. ASSUME NEW h \in Gateways, ReceiveYield(h) PROVE address'[g] \notin held[g]
    <3>1. h = g
      BY <2>1, YieldMoves
    <3> QED BY <2>1, <3>1, YieldMoves
  <2>2. CASE \A h \in Gateways : ~ReceiveYield(h)
    BY <2>2, OthersStand DEF Standing
  <2> QED BY <2>1, <2>2
<1> QED BY <1>1, AlwaysWalk, PTL DEF Spec, NeverRetried

\* A gateway that filters (handle) never writes a frame that bears an address
\* it has given up, however late the messages of its nodes reach it.
THEOREM NeverSpeaksAsAnother == Spec => NoStaleSource
<1>1. Walk /\ [Next]_vars =>
        [\A g \in Gateways : ~Promiscuous[g] /\ wrote'[g] # wrote[g] =>
           wrote'[g].src \notin held'[g] \ {address'[g]}]_vars
  <2> SUFFICES ASSUME Walk, Next, NEW g \in Gateways,
                      ~Promiscuous[g], wrote'[g] # wrote[g]
               PROVE  wrote'[g].src = address'[g]
    OBVIOUS
  <2>1. ASSUME NEW h \in Gateways, ReceiveYield(h) PROVE wrote'[g].src = address'[g]
    <3>1. h = g
      BY <2>1, YieldMoves
    <3> QED BY <2>1, <3>1, YieldMoves
  <2>2. CASE \A h \in Gateways : ~ReceiveYield(h)
    BY <2>2, OthersStand DEF Standing
  <2> QED BY <2>1, <2>2
<1> QED BY <1>1, AlwaysWalk, PTL DEF Spec, NoStaleSource
----------------------------------------------------------------------------
\* A queue that takes items keeps what it has and appends a prefix of them,
\* which is not empty when there is room.
LEMMA FillExtends ==
  ASSUME NEW S, NEW q \in Seq(S), NEW items \in Seq(S), NEW room \in Nat,
         NEW r, r = Fill(q, items, room)
  PROVE  /\ r \in Seq(S)
         /\ Len(q) \in Nat /\ Len(r) \in Nat /\ Len(items) \in Nat
         /\ Len(q) <= Len(r) /\ Len(r) <= Len(q) + Len(items)
         /\ \A i \in 1..Len(q) : r[i] = q[i]
         /\ \A i \in 1..Len(r) : i > Len(q) => r[i] = items[i - Len(q)]
         /\ Len(q) < room /\ Len(items) > 0 => Len(r) > Len(q)
<1> DEFINE all == q \o items
<1>1. Len(q) \in Nat /\ Len(items) \in Nat
  BY LenProperties
<1>2. /\ all \in Seq(S) /\ Len(all) = Len(q) + Len(items)
      /\ \A i \in 1..Len(q) + Len(items) :
           all[i] = IF i <= Len(q) THEN q[i] ELSE items[i - Len(q)]
  BY ConcatProperties
<1>3. \A i \in 1..Len(all) : all[i] \in S
  BY <1>2, ElementOfSeq
<1> HIDE DEF all
<1>4. CASE Len(q) >= room
  BY <1>1, <1>4 DEF Fill
<1>5. CASE Len(q) < room /\ Len(all) <= room
  <2>1. r = all
    BY <1>1, <1>5 DEF Fill, all
  <2> QED BY <1>1, <1>2, <1>5, <2>1
<1>6. CASE Len(q) < room /\ Len(all) > room
  <2>1. r = SubSeq(all, 1, room)
    BY <1>1, <1>2, <1>6 DEF Fill, all
  <2>2. \A i \in 1..room : all[i] \in S
    BY <1>1, <1>2, <1>3, <1>6
  <2>3. /\ SubSeq(all, 1, room) \in Seq(S)
        /\ Len(SubSeq(all, 1, room)) = IF 1 <= room THEN room - 1 + 1 ELSE 0
        /\ \A i \in 1..(room - 1 + 1) : SubSeq(all, 1, room)[i] = all[1 + i - 1]
    BY <2>2, SubSeqProperties
  <2>4. r \in Seq(S) /\ Len(r) = room /\ \A i \in 1..room : r[i] = all[i]
    BY <1>1, <1>6, <2>1, <2>3
  <2> QED BY <1>1, <1>2, <1>6, <2>4
<1> QED BY <1>1, <1>2, <1>4, <1>5, <1>6

\* The frames on the bus keep their type whatever a gateway puts on it.
LEMMA HeardFrames ==
  ASSUME NEW g \in Gateways, NEW out \in Seq(Frames),
         NEW boxes \in [Gateways -> Seq(Frames)]
  PROVE  Heard(g, out, boxes) \in [Gateways -> Seq(Frames)]
<1>1. Room \in Nat
  BY GatewayAssumption
<1>2. \A h \in Gateways : Fill(boxes[h], out, Room) \in Seq(Frames)
  BY <1>1, FillExtends
<1> QED BY <1>2 DEF Heard

\* The frames and items of the model have their types.
LEMMA ItemsTyped ==
  /\ \A g \in Gateways, a \in 0..Null : Claim(g, a) \in Frames
  /\ \A a \in 0..Null : ClaimUp(a) \in UpItems
  /\ FrameUp \in UpItems
<1>1. Null \in Nat /\ \A g \in Gateways : Name[g] \in Nat
  BY GatewayAssumption
<1> QED BY <1>1 DEF Claim, ClaimUp, FrameUp, Frames, UpItems, All

\* The address after one of the space is in it.
LEMMA NextAddressTyped ==
  ASSUME NEW g \in Gateways, address[g] \in 1..Null
  PROVE  NextAddress(g) \in 1..Null
BY GatewayAssumption DEF NextAddress

\* What the nodes are told is a claim, a frame, both or nothing, and the queue
\* to them keeps its type.
LEMMA YieldUpTyped ==
  ASSUME TypeOK, NEW g \in Gateways, NEW claim \in Seq(UpItems),
         NEW frame \in Seq(UpItems), YieldUp(g, claim, frame)
  PROVE  upward' \in [Gateways -> Seq(UpItems)] /\ missed' \in [Gateways -> BOOLEAN]
<1>1. PICK room \in 0..Room :
        /\ upward' = [upward EXCEPT ![g] = Fill(@, claim \o frame, room)]
        /\ missed' = [missed EXCEPT ![g] =
                        IF claim = <<>> THEN @ ELSE Len(upward[g]) >= room]
  BY DEF YieldUp
<1>2. claim \o frame \in Seq(UpItems) /\ room \in Nat
  BY GatewayAssumption, ConcatProperties
<1>3. upward \in [Gateways -> Seq(UpItems)] /\ missed \in [Gateways -> BOOLEAN]
  BY DEF TypeOK
<1>4. Fill(upward[g], claim \o frame, room) \in Seq(UpItems)
  BY <1>2, <1>3, FillExtends
<1>5. missed' \in [Gateways -> BOOLEAN]
  <2>1. CASE claim = <<>>
    BY <1>1, <1>3, <2>1
  <2>2. CASE claim # <<>>
    <3> DEFINE full == Len(upward[g]) >= room
    <3>1. full \in BOOLEAN
      OBVIOUS
    <3>2. missed' = [missed EXCEPT ![g] = full]
      BY <1>1, <2>2
    <3> HIDE DEF full
    <3> QED BY <1>3, <3>1, <3>2
  <2> QED BY <2>1, <2>2
<1> QED BY <1>1, <1>3, <1>4, <1>5

\* What is forwarded to the nodes are frames, never claims.
LEMMA ForwardedTyped ==
  \A g, f, a : Forwarded(g, f, a) \in Seq(UpItems)
               /\ \A k \in 1..Len(Forwarded(g, f, a)) : Forwarded(g, f, a)[k] = FrameUp
BY ItemsTyped DEF Forwarded

\* Every step keeps the types.
LEMMA TypeNext == TypeOK /\ [Next]_vars => TypeOK'
<1> SUFFICES ASSUME TypeOK, [Next]_vars PROVE TypeOK'
  OBVIOUS
<1> USE DEF TypeOK
<1>0. Null \in Nat /\ Null > 1
  BY GatewayAssumption
<1>1. CASE UNCHANGED vars
  BY <1>1 DEF vars
<1>2. ASSUME NEW g \in Gateways, Start(g) PROVE TypeOK'
  <2>1. address[g] \in 0..Null
    BY <1>0
  <2>2. Claim(g, address[g]) \in Frames /\ ClaimUp(address[g]) \in UpItems
    BY <2>1, ItemsTyped
  <2>3. /\ <<Claim(g, address[g])>> \in Seq(Frames)
        /\ <<ClaimUp(address[g])>> \in Seq(UpItems) /\ <<>> \in Seq(UpItems)
    BY <2>2
  <2>4. upward' \in [Gateways -> Seq(UpItems)] /\ missed' \in [Gateways -> BOOLEAN]
    BY <1>2, <2>3, YieldUpTyped DEF Start
  <2>5. inbox' \in [Gateways -> Seq(Frames)] /\ wrote' \in [Gateways -> Frames]
    <3>1. \/ /\ inbox' = Heard(g, <<Claim(g, address[g])>>, inbox)
             /\ wrote' = [wrote EXCEPT ![g] = Claim(g, address[g])]
          \/ UNCHANGED <<inbox, wrote>>
      BY <1>2 DEF Start
    <3>2. Heard(g, <<Claim(g, address[g])>>, inbox) \in [Gateways -> Seq(Frames)]
      BY <2>3, HeardFrames
    <3> QED BY <2>2, <3>1, <3>2
  <2> QED BY <1>2, <2>4, <2>5 DEF Start
<1>3. ASSUME NEW g \in Gateways, ReceiveKeep(g) PROVE TypeOK'
  <2> DEFINE f   == Head(inbox[g])
             out == IF Outranks(g, f) \/ Asked(g, f)
                      THEN <<Claim(g, address[g])>> ELSE <<>>
             boxes == [inbox EXCEPT ![g] = Tail(@)]
             up  == Forwarded(g, f, address[g])
  <2>1. Claim(g, address[g]) \in Frames
    BY <1>0, ItemsTyped
  <2>2. out \in Seq(Frames) /\ (out # <<>> => out[1] \in Frames)
    BY <2>1
  <2>3. inbox[g] \in Seq(Frames) /\ inbox[g] # <<>>
    BY <1>3 DEF ReceiveKeep
  <2>4. Tail(inbox[g]) \in Seq(Frames)
    BY <2>3, HeadTailProperties
  <2>5. boxes \in [Gateways -> Seq(Frames)]
    BY <2>4
  <2>6. up \in Seq(UpItems) /\ <<>> \in Seq(UpItems)
    BY ForwardedTyped
  <2>7. /\ inbox' = Heard(g, out, boxes)
        /\ wrote' = IF out = <<>> THEN wrote ELSE [wrote EXCEPT ![g] = out[1]]
        /\ YieldUp(g, <<>>, up)
        /\ UNCHANGED <<started, address, downward, source, held>>
    BY <1>3 DEF ReceiveKeep
  <2> HIDE DEF out, boxes, up
  <2>8. upward' \in [Gateways -> Seq(UpItems)] /\ missed' \in [Gateways -> BOOLEAN]
    BY <2>6, <2>7, YieldUpTyped
  <2>9. inbox' \in [Gateways -> Seq(Frames)] /\ wrote' \in [Gateways -> Frames]
    BY <2>2, <2>5, <2>7, HeardFrames
  <2> QED BY <2>7, <2>8, <2>9
<1>4. ASSUME NEW g \in Gateways, ReceiveYield(g) PROVE TypeOK'
  <2> DEFINE f == Head(inbox[g])
             a == IF Arbitrary[g] THEN NextAddress(g) ELSE Null
             boxes == [inbox EXCEPT ![g] = Tail(@)]
             up == Forwarded(g, f, a)
  <2>1. a \in 1..Null
    BY <1>0, NextAddressTyped
  <2>2. inbox[g] \in Seq(Frames) /\ inbox[g] # <<>>
    BY <1>4 DEF ReceiveYield
  <2>3. Tail(inbox[g]) \in Seq(Frames)
    BY <2>2, HeadTailProperties
  <2>4. boxes \in [Gateways -> Seq(Frames)]
    BY <2>3
  <2>5. up \in Seq(UpItems)
    BY ForwardedTyped
  <2>6. /\ address' = [address EXCEPT ![g] = a]
        /\ held' = [held EXCEPT ![g] = @ \cup {a}]
        /\ inbox' = Heard(g, <<Claim(g, a)>>, boxes)
        /\ wrote' = [wrote EXCEPT ![g] = Claim(g, a)]
        /\ YieldUp(g, <<ClaimUp(a)>>, up)
        /\ UNCHANGED <<started, downward, source>>
    BY <1>4 DEF ReceiveYield
  <2> HIDE DEF a, boxes, up
  <2>7. Claim(g, a) \in Frames /\ ClaimUp(a) \in UpItems
    BY <1>0, <2>1, ItemsTyped
  <2>8. <<Claim(g, a)>> \in Seq(Frames) /\ <<ClaimUp(a)>> \in Seq(UpItems)
    BY <2>7
  <2>9. upward' \in [Gateways -> Seq(UpItems)] /\ missed' \in [Gateways -> BOOLEAN]
    BY <2>5, <2>6, <2>8, YieldUpTyped
  <2>10. inbox' \in [Gateways -> Seq(Frames)] /\ wrote' \in [Gateways -> Frames]
    BY <2>4, <2>6, <2>7, <2>8, HeardFrames
  <2>11. address' \in [Gateways -> 1..Null] /\ held' \in [Gateways -> SUBSET (1..Null)]
    BY <2>1, <2>6
  <2> QED BY <2>6, <2>9, <2>10, <2>11
<1>5. ASSUME NEW g \in Gateways, Handle(g) PROVE TypeOK'
  <2> DEFINE m == Head(downward[g])
  <2>1. downward[g] \in Seq(Frames) /\ downward[g] # <<>>
    BY <1>5 DEF Handle
  <2>2. m \in Frames /\ Tail(downward[g]) \in Seq(Frames)
    BY <2>1, HeadTailProperties
  <2>3. <<m>> \in Seq(Frames)
    BY <2>2
  <2>4. /\ \/ inbox' = Heard(g, <<m>>, inbox) /\ wrote' = [wrote EXCEPT ![g] = m]
           \/ UNCHANGED <<inbox, wrote>>
        /\ downward' = [downward EXCEPT ![g] = Tail(@)]
        /\ UNCHANGED <<started, address, upward, source, held, missed>>
    BY <1>5 DEF Handle
  <2> HIDE DEF m
  <2>5. inbox' \in [Gateways -> Seq(Frames)] /\ wrote' \in [Gateways -> Frames]
    <3>1. Heard(g, <<m>>, inbox) \in [Gateways -> Seq(Frames)]
      BY <2>3, HeardFrames
    <3> QED BY <2>2, <2>4, <3>1
  <2> QED BY <2>2, <2>4, <2>5
<1>6. ASSUME NEW g \in Gateways, NodesTake(g) PROVE TypeOK'
  <2>1. upward[g] \in Seq(UpItems) /\ upward[g] # <<>>
    BY <1>6 DEF NodesTake
  <2>2. Head(upward[g]) \in UpItems /\ Tail(upward[g]) \in Seq(UpItems)
    BY <2>1, HeadTailProperties
  <2>3. Head(upward[g]).address \in 0..Null
    BY <2>2 DEF UpItems
  <2> QED BY <1>6, <2>2, <2>3 DEF NodesTake
<1>7. ASSUME NEW g \in Gateways, NodeSends(g, All) PROVE TypeOK'
  <2> DEFINE m == [pf |-> "EF", dest |-> All, src |-> source[g], full |-> TRUE, name |-> 0]
  <2>1. source[g] \in 0..Null /\ Room \in Nat
    BY GatewayAssumption
  <2>2. m \in Frames
    BY <1>0, <2>1 DEF Frames, All
  <2>3. /\ downward' = [downward EXCEPT ![g] = Fill(@, <<m>>, Room)]
        /\ UNCHANGED <<started, address, inbox, upward, source, held, missed, wrote>>
    BY <1>7 DEF NodeSends
  <2> HIDE DEF m
  <2>4. downward[g] \in Seq(Frames) /\ <<m>> \in Seq(Frames)
    BY <2>2
  <2>5. Fill(downward[g], <<m>>, Room) \in Seq(Frames)
    BY <2>1, <2>4, FillExtends
  <2> QED BY <2>3, <2>5
<1>8. ASSUME NEW f \in PeerFrames, PeerSends(f) PROVE TypeOK'
  <2>1. Room \in Nat /\ f \in Frames
    BY GatewayAssumption, PeerAssumption
  <2>2. <<f>> \in Seq(Frames)
    BY <2>1
  <2>3. \A g \in Gateways : Fill(inbox[g], <<f>>, Room) \in Seq(Frames)
    BY <2>1, <2>2, FillExtends
  <2> QED BY <1>8, <2>3 DEF PeerSends
<1> QED BY <1>1, <1>2, <1>3, <1>4, <1>5, <1>6, <1>7, <1>8 DEF Next

\* The gateway's variables keep their types, for every number of gateways and
\* every capacity of the queues: in particular handleAddressClaim never leaves
\* the addresses of devices and the null address.
THEOREM GatewayTypeCorrect == Spec => []TypeOK
<1>1. Init => TypeOK
  BY GatewayAssumption, ItemsTyped DEF Init, TypeOK
<1> QED BY <1>1, TypeNext, PTL DEF Spec
----------------------------------------------------------------------------
\* The last claim of the queue q, or the address s where there is none, is a.
Latest(q, s, a) ==
  /\ (\A k \in 1..Len(q) : q[k].kind = "frame") => s = a
  /\ \A k \in 1..Len(q) :
       /\ q[k].kind = "claim"
       /\ \A j \in 1..Len(q) : j > k => q[j].kind = "frame"
       => q[k].address = a

\* What the nodes of a gateway will know once their queue is empty.
Told == \A g \in Gateways :
          started[g] /\ ~missed[g] => Latest(upward[g], source[g], address[g])

\* A node that takes the first item of the queue is still told the address at last.
LEMMA LatestTaken ==
  ASSUME NEW q \in Seq(UpItems), q # <<>>, NEW s, NEW a, Latest(q, s, a)
  PROVE  Latest(Tail(q), IF Head(q).kind = "claim" THEN Head(q).address ELSE s, a)
<1> DEFINE t == Tail(q)
           z == IF Head(q).kind = "claim" THEN Head(q).address ELSE s
<1>1. /\ t \in Seq(UpItems) /\ Len(t) = Len(q) - 1 /\ Head(q) \in UpItems
      /\ \A i \in 1..Len(t) : t[i] = q[i + 1]
  BY HeadTailProperties
<1>2. Len(q) \in Nat /\ Len(q) > 0 /\ Head(q) = q[1]
  BY LenProperties, EmptySeq
<1>3. Head(q).kind \in {"claim", "frame"}
  BY <1>1 DEF UpItems
<1>4. \A k \in 2..Len(q) : k - 1 \in 1..Len(t) /\ q[k] = t[k - 1]
  BY <1>1, <1>2
<1> HIDE DEF t, z
<1>5. ASSUME \A k \in 1..Len(t) : t[k].kind = "frame" PROVE z = a
  <2>1. \A k \in 2..Len(q) : q[k].kind = "frame"
    BY <1>4, <1>5
  <2>2. CASE Head(q).kind = "claim"
    <3>1. \A j \in 1..Len(q) : j > 1 => q[j].kind = "frame"
      BY <1>2, <2>1
    <3>2. 1 \in 1..Len(q)
      BY <1>2
    <3> QED BY <1>2, <2>2, <3>1, <3>2 DEF Latest, z
  <2>3. CASE Head(q).kind = "frame"
    <3>1. \A j \in 1..Len(q) : q[j].kind = "frame"
      BY <1>2, <2>1, <2>3
    <3> QED BY <2>3, <3>1 DEF Latest, z
  <2> QED BY <1>3, <2>2, <2>3
<1>6. ASSUME NEW k \in 1..Len(t), t[k].kind = "claim",
             \A j \in 1..Len(t) : j > k => t[j].kind = "frame"
      PROVE  t[k].address = a
  <2>1. k + 1 \in 1..Len(q) /\ t[k] = q[k + 1]
    BY <1>1, <1>2
  <2>2. ASSUME NEW j \in 1..Len(q), j > k + 1 PROVE q[j].kind = "frame"
    BY <1>4, <1>6, <2>2
  <2> QED BY <1>6, <2>1, <2>2 DEF Latest
<1> QED BY <1>5, <1>6 DEF Latest, t, z

\* Frames that join the queue, as far as there is room, do not change that.
LEMMA LatestKept ==
  ASSUME NEW q \in Seq(UpItems), NEW frames \in Seq(UpItems), NEW room \in Nat,
         \A k \in 1..Len(frames) : frames[k] = FrameUp,
         NEW s, NEW a, Latest(q, s, a)
  PROVE  Latest(Fill(q, frames, room), s, a)
<1> DEFINE r == Fill(q, frames, room)
<1>1. /\ Len(q) \in Nat /\ Len(r) \in Nat /\ Len(frames) \in Nat
      /\ Len(q) <= Len(r) /\ Len(r) <= Len(q) + Len(frames)
      /\ \A i \in 1..Len(q) : r[i] = q[i]
      /\ \A i \in 1..Len(r) : i > Len(q) => r[i] = frames[i - Len(q)]
  BY FillExtends
<1> HIDE DEF r
<1>2. \A i \in 1..Len(r) : i > Len(q) => r[i].kind = "frame"
  BY <1>1 DEF FrameUp
<1>3. (\A k \in 1..Len(r) : r[k].kind = "frame") => s = a
  BY <1>1 DEF Latest
<1>4. ASSUME NEW k \in 1..Len(r), r[k].kind = "claim",
             \A j \in 1..Len(r) : j > k => r[j].kind = "frame"
      PROVE  r[k].address = a
  <2>1. k \in 1..Len(q)
    BY <1>1, <1>2, <1>4
  <2>2. \A j \in 1..Len(q) : j > k => q[j].kind = "frame"
    BY <1>1, <1>4
  <2> QED BY <1>1, <1>4, <2>1, <2>2 DEF Latest
<1> QED BY <1>3, <1>4 DEF Latest, r

\* A claim that finds room is what the nodes are told at last.
LEMMA LatestTold ==
  ASSUME NEW q \in Seq(UpItems), NEW frames \in Seq(UpItems), NEW room \in Nat,
         \A k \in 1..Len(frames) : frames[k] = FrameUp,
         NEW s, NEW a \in 0..Null, Len(q) < room
  PROVE  Latest(Fill(q, <<ClaimUp(a)>> \o frames, room), s, a)
<1> DEFINE items == <<ClaimUp(a)>> \o frames
           r == Fill(q, items, room)
<1>1. <<ClaimUp(a)>> \in Seq(UpItems) /\ Len(<<ClaimUp(a)>>) = 1
  BY ItemsTyped
<1>2. /\ items \in Seq(UpItems) /\ Len(items) = 1 + Len(frames)
      /\ Len(frames) \in Nat
      /\ items[1] = ClaimUp(a)
      /\ \A i \in 2..Len(items) : items[i] = FrameUp
  <2>1. Len(frames) \in Nat
    BY LenProperties
  <2>2. /\ items \in Seq(UpItems) /\ Len(items) = 1 + Len(frames)
        /\ \A i \in 1..1 + Len(frames) :
             items[i] = IF i <= 1 THEN <<ClaimUp(a)>>[i] ELSE frames[i - 1]
    BY <1>1, ConcatProperties
  <2> HIDE DEF items
  <2>3. items[1] = ClaimUp(a)
    BY <2>1, <2>2
  <2>4. ASSUME NEW i \in 2..Len(items) PROVE items[i] = FrameUp
    <3>1. i \in 1..1 + Len(frames) /\ ~(i <= 1) /\ i - 1 \in 1..Len(frames)
      BY <2>1, <2>2
    <3>2. items[i] = frames[i - 1]
      BY <2>2, <3>1
    <3> QED BY <3>1, <3>2
  <2> QED BY <2>1, <2>2, <2>3, <2>4
<1> HIDE DEF items
<1>3. /\ Len(q) \in Nat /\ Len(r) \in Nat
      /\ Len(r) <= Len(q) + Len(items)
      /\ \A i \in 1..Len(r) : i > Len(q) => r[i] = items[i - Len(q)]
      /\ Len(r) > Len(q)
  BY <1>2, FillExtends
<1> HIDE DEF r
<1>4. Len(q) + 1 \in 1..Len(r) /\ r[Len(q) + 1] = ClaimUp(a)
  BY <1>2, <1>3
<1>5. ASSUME NEW i \in 1..Len(r), i > Len(q) + 1 PROVE r[i].kind = "frame"
  <2>1. i - Len(q) \in 2..Len(items) /\ i > Len(q)
    BY <1>2, <1>3, <1>5
  <2>2. r[i] = FrameUp
    BY <1>2, <1>3, <2>1
  <2> QED BY <2>2 DEF FrameUp
<1>6. r[Len(q) + 1].kind = "claim" /\ r[Len(q) + 1].address = a
  BY <1>4 DEF ClaimUp
<1>7. ASSUME NEW k \in 1..Len(r), r[k].kind = "claim",
             \A j \in 1..Len(r) : j > k => r[j].kind = "frame"
      PROVE  r[k].address = a
  BY <1>3, <1>4, <1>5, <1>6, <1>7
<1> QED BY <1>4, <1>6, <1>7 DEF Latest, r, items

\* A gateway that yields no claim leaves its nodes as they were, and one that
\* yields a claim has told them or has missed to.
LEMMA YieldUpTells ==
  ASSUME TypeOK, Told, NEW g \in Gateways, NEW frames \in Seq(UpItems),
         \A k \in 1..Len(frames) : frames[k] = FrameUp, source' = source,
         \/ /\ YieldUp(g, <<>>, frames) /\ address' = address /\ started' = started
         \/ /\ YieldUp(g, <<ClaimUp(address'[g])>>, frames)
            /\ address'[g] \in 0..Null
            /\ \A h \in Gateways \ {g} :
                 address'[h] = address[h] /\ started'[h] = started[h]
  PROVE  Told'
<1> USE DEF TypeOK
<1>0. Room \in Nat
  BY GatewayAssumption
<1>1. ASSUME NEW h \in Gateways \ {g}, upward'[h] = upward[h], missed'[h] = missed[h],
             started'[h] = started[h], address'[h] = address[h],
             started'[h], ~missed'[h]
      PROVE  Latest(upward'[h], source'[h], address'[h])
  BY <1>1 DEF Told
<1>2. CASE /\ YieldUp(g, <<>>, frames) /\ address' = address /\ started' = started
  <2>1. PICK room \in 0..Room :
          /\ upward' = [upward EXCEPT ![g] = Fill(@, <<>> \o frames, room)]
          /\ missed' = [missed EXCEPT ![g] = @]
    BY <1>2 DEF YieldUp
  <2>2. <<>> \o frames = frames
    BY ConcatEmptySeq
  <2>3. upward'[g] = Fill(upward[g], frames, room) /\ missed' = missed
    BY <2>1, <2>2
  <2>4. started'[g] /\ ~missed'[g] => Latest(upward'[g], source'[g], address'[g])
    <3>1. started[g] /\ ~missed[g] => Latest(upward[g], source[g], address[g])
      BY DEF Told
    <3>2. upward[g] \in Seq(UpItems) /\ room \in Nat
      BY <1>0
    <3>3. started[g] /\ ~missed[g]
            => Latest(Fill(upward[g], frames, room), source[g], address[g])
      BY <3>1, <3>2, LatestKept
    <3> QED BY <1>2, <2>3, <3>3
  <2>5. \A h \in Gateways \ {g} : upward'[h] = upward[h]
    BY <2>1
  <2> QED BY <1>1, <1>2, <2>3, <2>4, <2>5 DEF Told
<1>3. CASE /\ YieldUp(g, <<ClaimUp(address'[g])>>, frames)
           /\ address'[g] \in 0..Null
           /\ \A h \in Gateways \ {g} :
                address'[h] = address[h] /\ started'[h] = started[h]
  <2>1. PICK room \in 0..Room :
          /\ upward' = [upward EXCEPT
                ![g] = Fill(@, <<ClaimUp(address'[g])>> \o frames, room)]
          /\ missed' = [missed EXCEPT ![g] = Len(upward[g]) >= room]
    BY <1>3 DEF YieldUp
  <2>2. /\ upward'[g] = Fill(upward[g], <<ClaimUp(address'[g])>> \o frames, room)
        /\ missed'[g] = (Len(upward[g]) >= room)
        /\ \A h \in Gateways \ {g} : upward'[h] = upward[h] /\ missed'[h] = missed[h]
    BY <2>1
  <2>3. Len(upward[g]) \in Nat /\ room \in Nat
    BY <1>0, LenProperties
  <2>4. ~missed'[g] => Latest(upward'[g], source'[g], address'[g])
    <3>1. ASSUME ~missed'[g] PROVE Len(upward[g]) < room
      <4>1. ~(Len(upward[g]) >= room)
        BY <2>2, <3>1, Zenon
      <4> QED BY <2>3, <4>1
    <3>2. upward[g] \in Seq(UpItems)
      OBVIOUS
    <3>3. ~missed'[g] => Latest(Fill(upward[g], <<ClaimUp(address'[g])>> \o frames, room),
                                source'[g], address'[g])
      BY <1>3, <2>3, <3>1, <3>2, LatestTold
    <3> QED BY <2>2, <3>3
  <2> QED BY <1>1, <1>3, <2>2, <2>4 DEF Told
<1> QED BY <1>2, <1>3

\* Every step keeps the nodes told, unless the last claim found no room.
LEMMA ToldNext == TypeOK /\ TypeOK' /\ Told /\ [Next]_vars => Told'
<1> SUFFICES ASSUME TypeOK, TypeOK', Told, [Next]_vars PROVE Told'
  OBVIOUS
<1>0. Null \in Nat
  BY GatewayAssumption
<1>1. ASSUME UNCHANGED <<started, address, upward, source, missed>> PROVE Told'
  BY <1>1 DEF Told, Latest
<1>2. ASSUME NEW g \in Gateways, Start(g) PROVE Told'
  <2>1. /\ YieldUp(g, <<ClaimUp(address[g])>>, <<>>)
        /\ started' = [started EXCEPT ![g] = TRUE]
        /\ address' = address /\ source' = source
    BY <1>2 DEF Start
  <2>2. YieldUp(g, <<ClaimUp(address'[g])>>, <<>>) /\ address'[g] \in 0..Null
    BY <1>0, <2>1 DEF TypeOK
  <2>3. \A h \in Gateways \ {g} : address'[h] = address[h] /\ started'[h] = started[h]
    BY <2>1 DEF TypeOK
  <2>4. <<>> \in Seq(UpItems) /\ \A k \in 1..Len(<<>>) : <<>>[k] = FrameUp
    OBVIOUS
  <2> QED BY <2>1, <2>2, <2>3, <2>4, YieldUpTells
<1>3. ASSUME NEW g \in Gateways, ReceiveKeep(g) PROVE Told'
  <2> DEFINE up == Forwarded(g, Head(inbox[g]), address[g])
  <2>1. /\ YieldUp(g, <<>>, up)
        /\ address' = address /\ started' = started /\ source' = source
    BY <1>3 DEF ReceiveKeep
  <2>2. up \in Seq(UpItems) /\ \A k \in 1..Len(up) : up[k] = FrameUp
    BY ForwardedTyped
  <2> HIDE DEF up
  <2> QED BY <2>1, <2>2, YieldUpTells
<1>4. ASSUME NEW g \in Gateways, ReceiveYield(g) PROVE Told'
  <2> DEFINE a == IF Arbitrary[g] THEN NextAddress(g) ELSE Null
             up == Forwarded(g, Head(inbox[g]), a)
  <2>1. /\ YieldUp(g, <<ClaimUp(a)>>, up)
        /\ address' = [address EXCEPT ![g] = a]
        /\ started' = started /\ source' = source
    BY <1>4 DEF ReceiveYield
  <2>2. up \in Seq(UpItems) /\ \A k \in 1..Len(up) : up[k] = FrameUp
    BY ForwardedTyped
  <2> HIDE DEF a, up
  <2>3. a = address'[g] /\ address'[g] \in 0..Null
    BY <1>0, <2>1 DEF TypeOK
  <2>4. \A h \in Gateways \ {g} : address'[h] = address[h] /\ started'[h] = started[h]
    BY <2>1 DEF TypeOK
  <2> QED BY <2>1, <2>2, <2>3, <2>4, YieldUpTells
<1>5. ASSUME NEW g \in Gateways, NodesTake(g) PROVE Told'
  <2> DEFINE z == IF Head(upward[g]).kind = "claim" THEN Head(upward[g]).address ELSE source[g]
  <2>1. /\ upward[g] \in Seq(UpItems) /\ upward[g] # <<>>
        /\ DOMAIN source = Gateways /\ DOMAIN upward = Gateways
    BY <1>5 DEF NodesTake, TypeOK
  <2>2. /\ source'[g] = z
        /\ upward'[g] = Tail(upward[g])
        /\ \A h \in Gateways \ {g} : source'[h] = source[h] /\ upward'[h] = upward[h]
        /\ UNCHANGED <<started, address, missed>>
    BY <1>5, <2>1 DEF NodesTake
  <2>3. started[g] /\ ~missed[g] => Latest(upward[g], source[g], address[g])
    BY DEF Told
  <2>4. started[g] /\ ~missed[g] => Latest(Tail(upward[g]), z, address[g])
    BY <2>1, <2>3, LatestTaken
  <2> HIDE DEF z
  <2> QED BY <2>2, <2>4 DEF Told
<1>6. ASSUME NEW g \in Gateways, Handle(g) \/ NodeSends(g, All) PROVE Told'
  BY <1>1, <1>6 DEF Handle, NodeSends
<1>7. ASSUME NEW f \in PeerFrames, PeerSends(f) PROVE Told'
  BY <1>1, <1>7 DEF PeerSends
<1>8. CASE UNCHANGED vars
  BY <1>1, <1>8 DEF vars
<1> QED BY <1>2, <1>3, <1>4, <1>5, <1>6, <1>7, <1>8 DEF Next

\* The nodes behind a gateway end up with the address it has: once their queue
\* holds no claim, and the last one was not dropped because the queue was full,
\* they send from its address, however many addresses the gateway went through
\* and whatever else shared the pipe.
THEOREM NodesLearnAddress == Spec => []NodesFollow
<1>1. Init => Told
  BY GatewayAssumption DEF Init, Told
<1>2. Told => NodesFollow
  BY DEF Told, Latest, NodesFollow
<1> QED BY <1>1, <1>2, ToldNext, GatewayTypeCorrect, PTL DEF Spec
=============================================================================
