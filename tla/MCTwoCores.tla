----------------------------- MODULE MCTwoCores -----------------------------
(* Queues of different size, small enough to overrun within three messages.  *)
EXTENDS TwoCores
BothAttached == Sides
LeftAttached == {"left"}
=============================================================================
