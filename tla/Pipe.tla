-------------------------------- MODULE Pipe --------------------------------
(* The pipe between the buses of the two cores                               *)
(* (libraries/Platform/src/Platform/Pipe.cpp): two bounded queues of the     *)
(* pico SDK, whose queue_try_add and queue_try_remove are atomic and never   *)
(* block.  A message is the number its node gave it, so that order, loss and *)
(* duplication can be told; the bus never hands a message back to the node   *)
(* that yielded it, so a node handles only what its own core produced.       *)
EXTENDS Naturals, Sequences

CONSTANTS LeftCapacity, RightCapacity   \* the arguments of the constructor

ASSUME CapacityAssumption == LeftCapacity \in Nat /\ RightCapacity \in Nat

Sides == {"left", "right"}

VARIABLES
  left_queue, right_queue,
  offered,    \* messages a node was given to handle
  refused,    \* of these, how many its filter discarded
  overruns,   \* and how many onBufferOverrun was called for
  yielded,    \* messages a node yielded to its bus
  last        \* the number of the last message yielded

pipeVars == <<left_queue, right_queue, offered, refused, overruns, yielded, last>>

PipeInit ==
  /\ left_queue = <<>>
  /\ right_queue = <<>>
  /\ offered = [s \in Sides |-> 0]
  /\ refused = [s \in Sides |-> 0]
  /\ overruns = [s \in Sides |-> 0]
  /\ yielded = [s \in Sides |-> 0]
  /\ last = [s \in Sides |-> 0]

Other(s) == IF s = "left" THEN "right" ELSE "left"

\* write_queue(): the left node writes the right queue and reads the left one.
WriteQueue(s) == IF s = "left" THEN right_queue ELSE left_queue
Capacity(s)   == IF s = "left" THEN RightCapacity ELSE LeftCapacity

WriteTo(s, q) ==
  IF s = "left" THEN right_queue' = q /\ UNCHANGED left_queue
                ELSE left_queue' = q /\ UNCHANGED right_queue

\* Fault: the result of queue_try_add is ignored.
HandleSilent(s, passes) ==
  /\ offered' = [offered EXCEPT ![s] = @ + 1]
  /\ IF ~passes
       THEN /\ refused' = [refused EXCEPT ![s] = @ + 1]
            /\ UNCHANGED <<left_queue, right_queue>>
       ELSE /\ UNCHANGED refused
            /\ IF Len(WriteQueue(s)) < Capacity(s)
                 THEN WriteTo(s, Append(WriteQueue(s), offered[s] + 1))
                 ELSE UNCHANGED <<left_queue, right_queue>>
  /\ UNCHANGED <<overruns, yielded, last>>

\* PipeNode::handle, with the verdict of the filter.
Handle(s, passes) ==
  /\ offered' = [offered EXCEPT ![s] = @ + 1]
  /\ \/ /\ ~passes
        /\ refused' = [refused EXCEPT ![s] = @ + 1]
        /\ UNCHANGED <<left_queue, right_queue, overruns>>
     \/ /\ passes
        /\ Len(WriteQueue(s)) < Capacity(s)
        /\ WriteTo(s, Append(WriteQueue(s), offered[s] + 1))
        /\ UNCHANGED <<refused, overruns>>
     \/ /\ passes
        /\ Len(WriteQueue(s)) >= Capacity(s)
        /\ overruns' = [overruns EXCEPT ![s] = @ + 1]
        /\ UNCHANGED <<left_queue, right_queue, refused>>
  /\ UNCHANGED <<yielded, last>>

\* Fault: the newest message is taken first.
PipeEmitNewest(s) ==
  LET q == WriteQueue(Other(s)) IN
  /\ q # <<>>
  /\ WriteTo(Other(s), SubSeq(q, 1, Len(q) - 1))
  /\ last' = [last EXCEPT ![s] = q[Len(q)]]
  /\ yielded' = [yielded EXCEPT ![s] = @ + 1]
  /\ UNCHANGED <<offered, refused, overruns>>

\* Fault: the right node reads the queue that it writes.
PipeEmitOwn(s) ==
  LET q == WriteQueue("right") IN
  /\ q # <<>>
  /\ WriteTo("right", Tail(q))
  /\ last' = [last EXCEPT ![s] = Head(q)]
  /\ yielded' = [yielded EXCEPT ![s] = @ + 1]
  /\ UNCHANGED <<offered, refused, overruns>>

\* PipeNode::emit: at most one message for each turn of the bus.
PipeEmit(s) ==
  LET q == WriteQueue(Other(s)) IN
  /\ q # <<>>
  /\ WriteTo(Other(s), Tail(q))
  /\ last' = [last EXCEPT ![s] = Head(q)]
  /\ yielded' = [yielded EXCEPT ![s] = @ + 1]
  /\ UNCHANGED <<offered, refused, overruns>>

PipeNext ==
  \E s \in Sides : PipeEmit(s) \/ \E passes \in BOOLEAN : Handle(s, passes)

PipeSpec == PipeInit /\ [][PipeNext]_pipeVars

----------------------------------------------------------------------------
Counts == [Sides -> Nat]

PipeTypeOK ==
  /\ left_queue \in Seq(Nat) /\ right_queue \in Seq(Nat)
  /\ offered \in Counts /\ refused \in Counts /\ overruns \in Counts
  /\ yielded \in Counts /\ last \in Counts

\* No message is lost silently or made up: every message handed to a node was
\* refused by the filter, reported as an overrun, yielded on the other side,
\* or waits in the queue.
Accounted ==
  \A s \in Sides :
    offered[s] = refused[s] + overruns[s] + yielded[Other(s)] + Len(WriteQueue(s))

\* Messages keep their order across the cores and none is seen twice, whatever
\* is dropped between them.
InOrder ==
  \A s \in Sides :
    LET q == WriteQueue(s) IN
    /\ last[Other(s)] <= offered[s]
    /\ \A k \in 1..Len(q) : last[Other(s)] < q[k] /\ q[k] <= offered[s]
    /\ \A j, k \in 1..Len(q) : j < k => q[j] < q[k]
=============================================================================
