SPECIFICATION Spec
CONSTANTS
  Gateways = {1}
  Null <- MCNull
  Preferred <- MCPreferred
  Name <- MCName
  Arbitrary <- MCArbitrary
  Promiscuous <- MCPromiscuous
  PeerFrames <- MCPeerFrames
  Room = 2
INVARIANTS
  TypeOK
  NodesFollow
PROPERTIES
  NeverRetried
  NoStaleSource
