------------------------------ MODULE TwoCores ------------------------------
(* An ECU: the I/O core and the processing core start through SyncWait, set  *)
(* up their buses and loop, and talk through the pipe.  The I/O bus holds    *)
(* the left node of the pipe and the processing bus the right one.           *)
EXTENDS SyncWait, Pipe

CONSTANTS
  MaxOffered,   \* how many messages each core produces
  Attached,     \* the sides of the pipe that are in the node lists
  InitFirst     \* the buses are initialised before the barrier (bridge.ino)

ASSUME EcuAssumption ==
  /\ MaxOffered \in Nat
  /\ Attached \subseteq Sides
  /\ InitFirst \in BOOLEAN

VARIABLE inited   \* the bus of a core has been initialised

ecuVars == <<syncVars, pipeVars, inited>>

Side(c) == IF c = "io" THEN "left" ELSE "right"

EcuInit ==
  /\ SyncInit
  /\ PipeInit
  /\ inited = [c \in Cores |-> FALSE]

\* A node of the core's bus yields a message; the pipe's node handles it.
Produce(c) ==
  /\ Side(c) \in Attached
  /\ offered[Side(c)] < MaxOffered
  /\ \E passes \in BOOLEAN : (c = "io" => passes) /\ Handle(Side(c), passes)

\* Bus::init: the nodes are initialised and may yield messages (the J1939
\* gateway yields its claim).
BusInit(c) ==
  /\ ~inited[c]
  /\ IF InitFirst THEN at[c] = "setup" ELSE at[c] = "past"
  /\ inited' = [inited EXCEPT ![c] = TRUE]
  /\ Produce(c) \/ UNCHANGED pipeVars
  /\ UNCHANGED syncVars

\* setup() or setup1() reaches sync.wait().
Arrive(c) ==
  /\ InitFirst => inited[c]
  /\ Enter(c)
  /\ UNCHANGED <<pipeVars, inited>>

Spin(c) == Turn(c) /\ UNCHANGED <<pipeVars, inited>>

Looping(c) == at[c] = "past" /\ inited[c]

\* A turn of Bus::loop for the pipe's node, and one for any other node.
LoopPipe(c) ==
  /\ Looping(c)
  /\ Side(c) \in Attached
  /\ PipeEmit(Side(c))
  /\ UNCHANGED <<syncVars, inited>>

LoopNode(c) ==
  /\ Looping(c)
  /\ Produce(c)
  /\ UNCHANGED <<syncVars, inited>>

EcuNext == \E c \in Cores : BusInit(c) \/ Arrive(c) \/ Spin(c)
                              \/ LoopPipe(c) \/ LoopNode(c)

EcuSpec == EcuInit /\ [][EcuNext]_ecuVars

\* Each core runs on its own: setup ends, the spin lock is granted and the
\* bus goes round all its nodes.
EcuFairSpec ==
  /\ EcuSpec
  /\ \A c \in Cores : WF_ecuVars(BusInit(c)) /\ WF_ecuVars(Arrive(c))
                        /\ WF_ecuVars(Spin(c)) /\ WF_ecuVars(LoopPipe(c))

----------------------------------------------------------------------------
EcuTypeOK ==
  /\ SyncTypeOK
  /\ PipeTypeOK
  /\ inited \in [Cores -> BOOLEAN]

\* No message crosses the pipe while a core is still in its setup.
NothingCrossesEarly ==
  (\E s \in Sides : yielded[s] > 0) => \A c \in Cores : at[c] # "setup"

\* Every message that the queue took is yielded on the bus of the other core.
\* For the left node this is what Pipe.h promises of left().
Delivered(s) ==
  \A n \in 1..MaxOffered :
    (\E k \in 1..Len(WriteQueue(s)) : WriteQueue(s)[k] = n) ~> last[Other(s)] >= n

LeftDelivered  == Delivered("left")
BothDelivered  == Delivered("left") /\ Delivered("right")
=============================================================================
