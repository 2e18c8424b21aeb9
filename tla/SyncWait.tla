------------------------------ MODULE SyncWait ------------------------------
(* The barrier between the two RP2040 cores                                  *)
(* (libraries/Platform/src/Platform/SyncWait.cpp).  Each turn of the loop in *)
(* wait() runs under the spin lock, so a turn is one step.                   *)
EXTENDS Integers

Cores == {"io", "proc"}

VARIABLES
  tickets,  \* tickets_, a uint8_t
  at        \* where a core is: "setup", "wait" (entered), "spin", "past"

syncVars == <<tickets, at>>

\* Fault: a ticket for a core that the RP2040 does not have.
SyncInitThree ==
  /\ tickets = 3
  /\ at = [c \in Cores |-> "setup"]

SyncInit ==
  /\ tickets = 2
  /\ at = [c \in Cores |-> "setup"]

\* A core has finished what it does before the barrier and calls wait().
Enter(c) ==
  /\ at[c] = "setup"
  /\ at' = [at EXCEPT ![c] = "wait"]
  /\ UNCHANGED tickets

\* Fault: the flag spin is forgotten and every turn takes a ticket.
TurnGreedy(c) ==
  /\ at[c] \in {"wait", "spin"}
  /\ IF tickets <= 0
       THEN at' = [at EXCEPT ![c] = "past"] /\ UNCHANGED tickets
       ELSE at' = [at EXCEPT ![c] = "spin"] /\ tickets' = (tickets - 1) % 256

\* Fault: a core takes a ticket when it leaves as well, and below zero.
TurnLeaves(c) ==
  /\ at[c] \in {"wait", "spin"}
  /\ IF tickets <= 0
       THEN at' = [at EXCEPT ![c] = "past"] /\ tickets' = tickets - 1
       ELSE /\ at' = [at EXCEPT ![c] = "spin"]
            /\ tickets' = IF at[c] = "wait" THEN (tickets - 1) % 256 ELSE tickets

\* One turn: leave when no ticket is left, else take one the first time.
Turn(c) ==
  /\ at[c] \in {"wait", "spin"}
  /\ IF tickets <= 0
       THEN at' = [at EXCEPT ![c] = "past"] /\ UNCHANGED tickets
       ELSE /\ at' = [at EXCEPT ![c] = "spin"]
            /\ tickets' = IF at[c] = "wait" THEN (tickets - 1) % 256 ELSE tickets

SyncNext == \E c \in Cores : Enter(c) \/ Turn(c)

SyncSpec == SyncInit /\ [][SyncNext]_syncVars

----------------------------------------------------------------------------
SyncTypeOK ==
  /\ tickets \in 0..255
  /\ at \in [Cores -> {"setup", "wait", "spin", "past"}]

\* No core leaves the barrier while the other is still in its setup.
Together ==
  \A c, d \in Cores : at[c] = "past" => at[d] # "setup"

\* The strengthening that makes Together inductive: a ticket is left for every
\* core that has not taken one, and nobody leaves before the last is taken.
TicketsLeft ==
  /\ tickets = (IF at["io"] \in {"setup", "wait"} THEN 1 ELSE 0)
             + (IF at["proc"] \in {"setup", "wait"} THEN 1 ELSE 0)
  /\ \A c \in Cores : at[c] = "past" => tickets = 0

\* Both cores get past the barrier.
BothStart == <>(\A c \in Cores : at[c] = "past")
=============================================================================
