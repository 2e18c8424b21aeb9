------------------------------ MODULE MCJ1939 ------------------------------
(* One gateway among controllers that contest its address: the four addresses *)
(* of a small bus, names of higher and of lower priority, requests, claims    *)
(* and messages to it and to others.                                          *)
EXTENDS J1939Gateway

MCNull        == 4
MCPreferred   == [g \in Gateways |-> 2]
MCName        == [g \in Gateways |-> g + 1]
MCArbitrary   == [g \in Gateways |-> TRUE]
MCPromiscuous == [g \in Gateways |-> FALSE]

Contest(pf) == {[pf |-> pf, dest |-> All, src |-> a, full |-> TRUE, name |-> n] :
                  a \in 1..4, n \in {1, 3}}
Request(a)  == [pf |-> "EA", dest |-> a, src |-> 3, full |-> FALSE, name |-> 0]
Message(a)  == [pf |-> "EF", dest |-> a, src |-> 3, full |-> TRUE, name |-> 0]

MCPeerFrames == Contest("EA") \cup Contest("EE")
                  \cup UNION {{Request(a), Message(a)} : a \in {2, 3, 5}}
NoFrames     == {}
=============================================================================
