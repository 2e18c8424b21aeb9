SPECIFICATION Spec
CONSTANTS
  Gateways = {1, 2}
  Null <- MCNull
  Preferred <- MCPreferred
  Name <- MCName
  Arbitrary <- MCArbitrary
  Promiscuous <- MCPromiscuous
  PeerFrames <- NoFrames
  Room = 2
INVARIANTS
  AddressesNegotiated
