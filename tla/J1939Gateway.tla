---------------------------- MODULE J1939Gateway ----------------------------
(* The J1939 gateways on one bus (libraries/Core/src/Core/J1939Gateway.cpp): *)
(* address claim, negotiation and filtering, together with the nodes behind  *)
(* a gateway, which learn its address from J1939_CLAIM messages and put it   *)
(* into the messages they send.  Gateway and nodes run on different cores,   *)
(* so claims and messages cross the pipe and may be old when they arrive.    *)
EXTENDS Naturals, Sequences

CONSTANTS
  Gateways,
  Null,         \* Canny::NullAddress, 0xFE; every address below is a device's
  Preferred,    \* preferred_address_ of a gateway
  Name,         \* name_: 0 for a gateway that does not negotiate
  Arbitrary,    \* the arbitrary address bit of the name
  Promiscuous,  \* promiscuous_
  PeerFrames,   \* the frames other controllers may send
  Room          \* capacity of the queues

\* A preferred address of 0 is left out: the walk of NextAddress goes from
\* Null - 1 to 1, so it would never meet 0 again and never give up.
ASSUME GatewayAssumption ==
  /\ Null \in Nat /\ Null > 1
  /\ Preferred \in [Gateways -> 1..(Null - 1)]
  /\ Name \in [Gateways -> Nat]
  /\ Arbitrary \in [Gateways -> BOOLEAN]
  /\ Promiscuous \in [Gateways -> BOOLEAN]
  /\ Room \in Nat \ {0}

All == Null + 1   \* 0xFF, the broadcast address

\* The PDU formats that matter: 0xEA requests, 0xEE claims, 0xEF is
\* proprietary and carries events and commands.  A frame that is not full has
\* fewer than 8 bytes; name is what its data says as a J1939 NAME.
Frames == [pf : {"EA", "EE", "EF"}, dest : 0..All, src : 0..All,
           full : BOOLEAN, name : Nat]

ASSUME PeerAssumption == PeerFrames \subseteq Frames

VARIABLES
  started,   \* init was called
  address,   \* address_
  inbox,     \* frames received and not yet read
  upward,    \* what the gateway yielded, on its way to the nodes
  downward,  \* messages of the nodes, on their way to the gateway
  source,    \* the source address the nodes use
  held,      \* history: the addresses a gateway has had
  missed,    \* history: the last claim yielded was dropped on its way
  wrote      \* history: the last frame written to the bus

vars == <<started, address, inbox, upward, downward, source, held, missed, wrote>>

----------------------------------------------------------------------------
\* A queue with room for so many takes what fits and drops the rest.
Fill(q, items, room) ==
  IF Len(q) >= room THEN q
  ELSE IF Len(q \o items) <= room THEN q \o items
  ELSE SubSeq(q \o items, 1, room)

Claim(g, a)  == [pf |-> "EE", dest |-> All, src |-> a, full |-> TRUE, name |-> Name[g]]
ClaimUp(a)   == [kind |-> "claim", address |-> a]
FrameUp      == [kind |-> "frame", address |-> Null]

Init ==
  /\ started = [g \in Gateways |-> FALSE]
  /\ address = Preferred
  /\ inbox = [g \in Gateways |-> <<>>]
  /\ upward = [g \in Gateways |-> <<>>]
  /\ downward = [g \in Gateways |-> <<>>]
  /\ source = [g \in Gateways |-> Null]
  /\ held = [g \in Gateways |-> {Preferred[g]}]
  /\ missed = [g \in Gateways |-> FALSE]
  /\ wrote = [g \in Gateways |-> Claim(g, Null)]

\* The inboxes after gateway g put the frames of out on the bus.
Heard(g, out, boxes) ==
  [h \in Gateways |-> IF h = g THEN boxes[h] ELSE Fill(boxes[h], out, Room)]

\* What g yields to its nodes: a claim first, if any, then the frame.  Other
\* messages on the same way may leave it any part of the room.
YieldUp(g, claim, frame) ==
  \E room \in 0..Room :
    /\ upward' = [upward EXCEPT ![g] = Fill(@, claim \o frame, room)]
    /\ missed' = [missed EXCEPT ![g] =
                    IF claim = <<>> THEN @ ELSE Len(upward[g]) >= room]

\* J1939Gateway::init
Start(g) ==
  /\ ~started[g]
  /\ started' = [started EXCEPT ![g] = TRUE]
  /\ IF Name[g] # 0
       THEN /\ inbox' = Heard(g, <<Claim(g, address[g])>>, inbox)
            /\ wrote' = [wrote EXCEPT ![g] = Claim(g, address[g])]
       ELSE UNCHANGED <<inbox, wrote>>
  /\ YieldUp(g, <<ClaimUp(address[g])>>, <<>>)
  /\ UNCHANGED <<address, downward, source, held>>

----------------------------------------------------------------------------
\* isAddressClaim and isRequestAddressClaim: both look for format 0xEA.
IsAddressClaim(f)      == f.pf = "EA"
IsRequestClaim(f, a)   == f.pf = "EA" /\ f.dest \in {All, a}

\* Fault: the wrap around does not look for the preferred address.
NextAddressForever(g) == IF address[g] + 1 >= Null THEN 1 ELSE address[g] + 1

\* Fault: the walk wraps around to address 0.
NextAddressFromZero(g) ==
  LET next == IF address[g] + 1 >= Null THEN 0 ELSE address[g] + 1
  IN IF next = Preferred[g] THEN Null ELSE next

\* The address after the current one, Null once all were tried.
NextAddress(g) ==
  LET next == IF address[g] + 1 >= Null THEN 1 ELSE address[g] + 1
  IN IF next = Preferred[g] THEN Null ELSE next

Contested(g, f) == Name[g] # 0 /\ IsAddressClaim(f) /\ f.src = address[g]

\* The cases of handleAddressClaim that act.
Outranks(g, f) == /\ Contested(g, f)
                  /\ address[g] # Null
                  /\ f.full
                  /\ Name[g] <= f.name
Yields(g, f)   == /\ Contested(g, f)
                  /\ address[g] # Null
                  /\ f.full
                  /\ Name[g] > f.name

Asked(g, f) == Name[g] # 0 /\ ~Contested(g, f) /\ IsRequestClaim(f, address[g])

\* emit forwards what is for this gateway.
Forwarded(g, f, a) == IF Promiscuous[g] \/ f.dest \in {a, All} THEN <<FrameUp>> ELSE <<>>

\* J1939Gateway::emit with a frame that leaves the address as it is, answered
\* with a claim or not.
ReceiveKeep(g) ==
  /\ started[g] /\ inbox[g] # <<>>
  /\ LET f   == Head(inbox[g])
         out == IF Outranks(g, f) \/ Asked(g, f) THEN <<Claim(g, address[g])>> ELSE <<>>
     IN /\ ~Yields(g, f)
        /\ inbox' = Heard(g, out, [inbox EXCEPT ![g] = Tail(@)])
        /\ wrote' = IF out = <<>> THEN wrote ELSE [wrote EXCEPT ![g] = out[1]]
        /\ YieldUp(g, <<>>, Forwarded(g, f, address[g]))
  /\ UNCHANGED <<started, address, downward, source, held>>

\* Fault: the nodes are not told of the new address.
ReceiveYieldQuiet(g) ==
  /\ started[g] /\ inbox[g] # <<>>
  /\ LET f == Head(inbox[g])
         a == IF Arbitrary[g] THEN NextAddress(g) ELSE Null
     IN /\ Yields(g, f)
        /\ address' = [address EXCEPT ![g] = a]
        /\ held' = [held EXCEPT ![g] = @ \cup {a}]
        /\ inbox' = Heard(g, <<Claim(g, a)>>, [inbox EXCEPT ![g] = Tail(@)])
        /\ wrote' = [wrote EXCEPT ![g] = Claim(g, a)]
        /\ YieldUp(g, <<>>, Forwarded(g, f, a))
  /\ UNCHANGED <<started, downward, source>>

\* J1939Gateway::emit with a claim of the gateway's address by a controller
\* of higher priority.
ReceiveYield(g) ==
  /\ started[g] /\ inbox[g] # <<>>
  /\ LET f == Head(inbox[g])
         a == IF Arbitrary[g] THEN NextAddress(g) ELSE Null
     IN /\ Yields(g, f)
        /\ address' = [address EXCEPT ![g] = a]
        /\ held' = [held EXCEPT ![g] = @ \cup {a}]
        /\ inbox' = Heard(g, <<Claim(g, a)>>, [inbox EXCEPT ![g] = Tail(@)])
        /\ wrote' = [wrote EXCEPT ![g] = Claim(g, a)]
        /\ YieldUp(g, <<ClaimUp(a)>>, Forwarded(g, f, a))
  /\ UNCHANGED <<started, downward, source>>

\* Fault: the source address of an outgoing message is not checked.
HandleUnfiltered(g) ==
  /\ downward[g] # <<>>
  /\ LET m == Head(downward[g]) IN
       /\ inbox' = Heard(g, <<m>>, inbox)
       /\ wrote' = [wrote EXCEPT ![g] = m]
  /\ downward' = [downward EXCEPT ![g] = Tail(@)]
  /\ UNCHANGED <<started, address, upward, source, held, missed>>

\* J1939Gateway::handle: an outgoing message of the nodes.
Handle(g) ==
  /\ downward[g] # <<>>
  /\ LET m == Head(downward[g]) IN
       IF Promiscuous[g] \/ (m.src = address[g] /\ address[g] # Null)
         THEN /\ inbox' = Heard(g, <<m>>, inbox)
              /\ wrote' = [wrote EXCEPT ![g] = m]
         ELSE UNCHANGED <<inbox, wrote>>
  /\ downward' = [downward EXCEPT ![g] = Tail(@)]
  /\ UNCHANGED <<started, address, upward, source, held, missed>>

----------------------------------------------------------------------------
\* The nodes take a claim (J1939Adapter::handle, handleJ1939Claim) or a frame.
NodesTake(g) ==
  /\ upward[g] # <<>>
  /\ source' = IF Head(upward[g]).kind = "claim"
                 THEN [source EXCEPT ![g] = Head(upward[g]).address] ELSE source
  /\ upward' = [upward EXCEPT ![g] = Tail(@)]
  /\ UNCHANGED <<started, address, inbox, downward, held, missed, wrote>>

\* A node sends a message from the address it knows (J1939Adapter::handleEvent),
\* if it knows one.
NodeSends(g, dest) ==
  /\ source[g] # Null
  /\ dest # Null
  /\ downward' = [downward EXCEPT ![g] =
                    Fill(@, <<[pf |-> "EF", dest |-> dest, src |-> source[g],
                               full |-> TRUE, name |-> 0]>>, Room)]
  /\ UNCHANGED <<started, address, inbox, upward, source, held, missed, wrote>>

\* Another controller sends a frame; a full receive buffer drops it.
PeerSends(f) ==
  /\ inbox' = [g \in Gateways |-> Fill(inbox[g], <<f>>, Room)]
  /\ UNCHANGED <<started, address, upward, downward, source, held, missed, wrote>>

Next ==
  \/ \E g \in Gateways : Start(g) \/ ReceiveKeep(g) \/ ReceiveYield(g) \/ Handle(g)
                           \/ NodesTake(g) \/ NodeSends(g, All)
  \/ \E f \in PeerFrames : PeerSends(f)

Spec == Init /\ [][Next]_vars

----------------------------------------------------------------------------
UpItems == [kind : {"claim", "frame"}, address : 0..Null]

TypeOK ==
  /\ started \in [Gateways -> BOOLEAN]
  /\ address \in [Gateways -> 1..Null]
  /\ inbox \in [Gateways -> Seq(Frames)]
  /\ upward \in [Gateways -> Seq(UpItems)]
  /\ downward \in [Gateways -> Seq(Frames)]
  /\ source \in [Gateways -> 0..Null]
  /\ held \in [Gateways -> SUBSET (1..Null)]
  /\ missed \in [Gateways -> BOOLEAN]
  /\ wrote \in [Gateways -> Frames]

\* A gateway that loses its address moves on to one it has not had, so that it
\* ends up with an address nobody contests or without one, and does not go
\* round for ever.
NeverRetried ==
  [][\A g \in Gateways : address'[g] # address[g] => address'[g] \notin held[g]]_vars

\* A gateway that filters never speaks again from an address it has given up,
\* although its nodes still send messages from it until the claim has crossed
\* the pipe.
NoStaleSource ==
  [][\A g \in Gateways : ~Promiscuous[g] /\ wrote'[g] # wrote[g] =>
       wrote'[g].src \notin held'[g] \ {address'[g]}]_vars

\* Once the claims have reached them the nodes use the gateway's address,
\* unless the last claim was dropped by a full queue.
NodesFollow ==
  \A g \in Gateways :
    started[g] /\ ~missed[g] /\ (\A k \in 1..Len(upward[g]) : upward[g][k].kind = "frame")
      => source[g] = address[g]

\* What J1939Gateway.h says of the negotiation: two gateways on one bus that
\* prefer the same address do not both keep it.
AddressesNegotiated ==
  (\A g \in Gateways : started[g] /\ inbox[g] = <<>>) =>
    \A g, h \in Gateways : g # h /\ address[g] = address[h] => address[g] = Null
=============================================================================
