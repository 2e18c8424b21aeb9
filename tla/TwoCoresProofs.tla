--------------------------- MODULE TwoCoresProofs ---------------------------
(* Proofs about the two cores of an ECU: the barrier they start at            *)
(* (SyncWait), the pipe between them (Pipe), and the ECU they are built into  *)
(* (TwoCores), every step of which is a step of the barrier, of the pipe, or  *)
(* of neither.  Nothing is assumed of the capacities of the queues, of how    *)
(* many messages are offered, of which nodes are attached and of whether the  *)
(* buses are initialised before the barrier.                                  *)
EXTENDS TwoCores, SequenceTheorems, TLAPS

\* The barrier's two variables keep their types: the ticket counter never
\* wraps below zero (SyncWait.cpp:15-30 decrements it only while it is
\* positive).
THEOREM SyncTypeCorrect == SyncSpec => []SyncTypeOK
<1>1. SyncInit => SyncTypeOK
  BY DEF SyncInit, SyncTypeOK
<1>2. SyncTypeOK /\ [SyncNext]_syncVars => SyncTypeOK'
  <2> SUFFICES ASSUME SyncTypeOK, [SyncNext]_syncVars PROVE SyncTypeOK'
    OBVIOUS
  <2>1. CASE UNCHANGED syncVars
    BY <2>1 DEF syncVars, SyncTypeOK
  <2>2. ASSUME NEW c \in Cores, Enter(c) PROVE SyncTypeOK'
    BY <2>2 DEF Enter, SyncTypeOK
  <2>3. ASSUME NEW c \in Cores, Turn(c) PROVE SyncTypeOK'
    BY <2>3 DEF Turn, SyncTypeOK
  <2>4. QED
    BY <2>1, <2>2, <2>3 DEF SyncNext
<1>3. QED
  BY <1>1, <1>2, PTL DEF SyncSpec

\* TicketsLeft, the strengthening, is an invariant: the counter equals the
\* number of cores that have not taken a ticket, and a core leaves only at 0.
THEOREM TicketsCounted == SyncSpec => []TicketsLeft
<1>1. SyncInit => TicketsLeft
  BY DEF SyncInit, TicketsLeft, Cores
<1>2. SyncTypeOK /\ TicketsLeft /\ [SyncNext]_syncVars => TicketsLeft'
  <2> SUFFICES ASSUME SyncTypeOK, TicketsLeft, [SyncNext]_syncVars
               PROVE  TicketsLeft'
    OBVIOUS
  <2>1. CASE UNCHANGED syncVars
    BY <2>1 DEF syncVars, TicketsLeft
  <2>2. ASSUME NEW c \in Cores, Enter(c) PROVE TicketsLeft'
    BY <2>2 DEF Enter, TicketsLeft, SyncTypeOK, Cores
  <2>3. ASSUME NEW c \in Cores, Turn(c) PROVE TicketsLeft'
    BY <2>3 DEF Turn, TicketsLeft, SyncTypeOK, Cores
  <2>4. QED
    BY <2>1, <2>2, <2>3 DEF SyncNext
<1>3. QED
  BY <1>1, <1>2, SyncTypeCorrect, PTL DEF SyncSpec

\* No core leaves wait() while the other is still in its setup.
THEOREM CoresStartTogether == SyncSpec => []Together
<1>1. SyncTypeOK /\ TicketsLeft => Together
  BY DEF SyncTypeOK, TicketsLeft, Together, Cores
<1>2. QED
  BY <1>1, SyncTypeCorrect, TicketsCounted, PTL

----------------------------------------------------------------------------
\* There are two sides of a pipe, each the other's other.
LEMMA OtherSide ==
  ASSUME NEW s \in Sides
  PROVE  /\ Other(s) \in Sides
         /\ Other(s) # s
         /\ Other(Other(s)) = s
         /\ \A t \in Sides : t = s \/ t = Other(s)
BY DEF Other, Sides

\* Each node writes a queue of its own, so a step of one side leaves the
\* queue of the other alone.
LEMMA WriteToQueue ==
  ASSUME NEW s \in Sides, NEW q, WriteTo(s, q)
  PROVE  /\ WriteQueue(s)' = q
         /\ WriteQueue(Other(s))' = WriteQueue(Other(s))
BY DEF WriteTo, WriteQueue, Other, Sides

\* Queues hold message numbers.
LEMMA QueueType ==
  PipeTypeOK => \A s \in Sides : WriteQueue(s) \in Seq(Nat)
BY DEF PipeTypeOK, WriteQueue

\* What handling a message does to the counters and the two queues: it is
\* refused, reported or queued.
LEMMA HandleEffect ==
  ASSUME NEW s \in Sides, NEW passes \in BOOLEAN, Handle(s, passes)
  PROVE  /\ yielded' = yielded /\ last' = last
         /\ offered' = [offered EXCEPT ![s] = @ + 1]
         /\ WriteQueue(Other(s))' = WriteQueue(Other(s))
         /\ \/ /\ refused' = [refused EXCEPT ![s] = @ + 1]
               /\ overruns' = overruns
               /\ WriteQueue(s)' = WriteQueue(s)
            \/ /\ refused' = refused
               /\ overruns' = [overruns EXCEPT ![s] = @ + 1]
               /\ WriteQueue(s)' = WriteQueue(s)
            \/ /\ refused' = refused
               /\ overruns' = overruns
               /\ Len(WriteQueue(s)) < Capacity(s)
               /\ WriteQueue(s)' = Append(WriteQueue(s), offered[s] + 1)
BY WriteToQueue DEF Handle, WriteQueue

\* Handling a message appends it to one queue or drops it, and leaves the other queue alone.
LEMMA HandleQueues ==
  ASSUME NEW s \in Sides, NEW passes \in BOOLEAN, Handle(s, passes)
  PROVE  /\ WriteQueue(Other(s))' = WriteQueue(Other(s))
         /\ \/ WriteQueue(s)' = WriteQueue(s)
            \/ WriteQueue(s)' = Append(WriteQueue(s), offered[s] + 1)
BY HandleEffect

\* And what a turn of the bus does to them.
LEMMA EmitQueues ==
  ASSUME NEW s \in Sides, PipeEmit(s)
  PROVE  /\ WriteQueue(s)' = WriteQueue(s)
         /\ WriteQueue(Other(s)) # <<>>
         /\ WriteQueue(Other(s))' = Tail(WriteQueue(Other(s)))
BY WriteToQueue, OtherSide DEF PipeEmit

\* One message more in any column of the account is one more in its sum, and
\* one that moves from the queue to the other side leaves the sum alone.
LEMMA CountMoves ==
  ASSUME NEW r \in Nat, NEW o \in Nat, NEW y \in Nat, NEW n \in Nat
  PROVE  /\ (r + 1) + o + y + n = (r + o + y + n) + 1
         /\ r + (o + 1) + y + n = (r + o + y + n) + 1
         /\ r + o + y + (n + 1) = (r + o + y + n) + 1
         /\ r + o + (y + 1) + (n - 1) = r + o + y + n
OBVIOUS

----------------------------------------------------------------------------
\* The counters and the two queues keep their types (Pipe.cpp:16-45).
THEOREM PipeTypeCorrect == PipeSpec => []PipeTypeOK
<1>1. PipeInit => PipeTypeOK
  BY DEF PipeInit, PipeTypeOK, Counts
<1>2. PipeTypeOK /\ [PipeNext]_pipeVars => PipeTypeOK'
  <2> SUFFICES ASSUME PipeTypeOK, [PipeNext]_pipeVars PROVE PipeTypeOK'
    OBVIOUS
  <2>1. CASE UNCHANGED pipeVars
    BY <2>1 DEF pipeVars, PipeTypeOK, Counts
  <2>2. ASSUME NEW s \in Sides, NEW passes \in BOOLEAN, Handle(s, passes)
        PROVE  PipeTypeOK'
    <3>1. WriteQueue(s) \in Seq(Nat) /\ offered[s] \in Nat
      BY QueueType DEF PipeTypeOK, Counts
    <3>2. WriteQueue(s)' \in Seq(Nat)
      BY <2>2, <3>1, HandleQueues
    <3>3. WriteQueue(Other(s))' \in Seq(Nat)
      BY <2>2, QueueType, OtherSide, HandleQueues
    <3>4. left_queue' \in Seq(Nat) /\ right_queue' \in Seq(Nat)
      BY <3>2, <3>3 DEF WriteQueue, Other, Sides
    <3>5. /\ offered' \in Counts /\ refused' \in Counts
          /\ overruns' \in Counts
      <4>1. /\ offered' = [offered EXCEPT ![s] = @ + 1]
            /\ refused' \in {refused, [refused EXCEPT ![s] = @ + 1]}
            /\ overruns' \in {overruns, [overruns EXCEPT ![s] = @ + 1]}
        BY <2>2, HandleEffect
      <4>2. \A f \in Counts : [f EXCEPT ![s] = @ + 1] \in Counts
        BY DEF Counts
      <4>3. QED
        BY <4>1, <4>2 DEF PipeTypeOK
    <3>6. yielded' \in Counts /\ last' \in Counts
      BY <2>2, HandleEffect DEF PipeTypeOK
    <3>7. QED
      BY <3>4, <3>5, <3>6 DEF PipeTypeOK
  <2>3. ASSUME NEW s \in Sides, PipeEmit(s) PROVE PipeTypeOK'
    <3>1. /\ WriteQueue(Other(s)) \in Seq(Nat)
          /\ WriteQueue(Other(s)) # <<>>
      BY <2>3, QueueType, OtherSide, EmitQueues
    <3>2. /\ Head(WriteQueue(Other(s))) \in Nat
          /\ Tail(WriteQueue(Other(s))) \in Seq(Nat)
      BY <3>1
    <3>3. /\ WriteQueue(s)' \in Seq(Nat)
          /\ WriteQueue(Other(s))' \in Seq(Nat)
      BY <2>3, <3>2, QueueType, EmitQueues
    <3>4. left_queue' \in Seq(Nat) /\ right_queue' \in Seq(Nat)
      BY <3>3 DEF WriteQueue, Other, Sides
    <3>5. yielded' \in Counts /\ last' \in Counts
      BY <2>3, <3>2 DEF PipeEmit, PipeTypeOK, Counts
    <3>6. QED
      BY <2>3, <3>4, <3>5 DEF PipeEmit, PipeTypeOK
  <2>4. QED
    BY <2>1, <2>2, <2>3 DEF PipeNext
<1>3. QED
  BY <1>1, <1>2, PTL DEF PipeSpec

\* Every message a node was handed is refused, reported, yielded on the other
\* side or waiting: none is lost silently (Pipe.cpp:16-31).
THEOREM NothingLostSilently == PipeSpec => []Accounted
<1>1. PipeInit => Accounted
  BY DEF PipeInit, Accounted, WriteQueue, Other, Sides
<1>2. PipeTypeOK /\ Accounted /\ [PipeNext]_pipeVars => Accounted'
  <2> SUFFICES ASSUME PipeTypeOK, Accounted, [PipeNext]_pipeVars
               PROVE  Accounted'
    OBVIOUS
  <2>1. CASE UNCHANGED pipeVars
    BY <2>1 DEF pipeVars, Accounted, WriteQueue
  <2>2. ASSUME NEW s \in Sides, NEW passes \in BOOLEAN, Handle(s, passes)
        PROVE  Accounted'
    <3>1. Len(WriteQueue(s)) \in Nat /\ Len(WriteQueue(Other(s))) \in Nat
      BY QueueType, OtherSide
    <3>2. Len(Append(WriteQueue(s), offered[s] + 1)) = Len(WriteQueue(s)) + 1
      BY QueueType DEF PipeTypeOK, Counts
    <3>3. /\ offered[s] \in Nat /\ refused[s] \in Nat /\ overruns[s] \in Nat
          /\ yielded[Other(s)] \in Nat
      BY OtherSide DEF PipeTypeOK, Counts
    <3>4. offered[s] = refused[s] + overruns[s] + yielded[Other(s)]
                         + Len(WriteQueue(s))
      BY DEF Accounted
    <3>5. /\ offered'[s] = offered[s] + 1
          /\ yielded'[Other(s)] = yielded[Other(s)]
      BY <2>2, HandleEffect DEF PipeTypeOK, Counts
    <3>6. offered'[s] = refused'[s] + overruns'[s] + yielded'[Other(s)]
                          + Len(WriteQueue(s)')
      <4>1. CASE /\ refused' = [refused EXCEPT ![s] = @ + 1]
                 /\ overruns' = overruns
                 /\ WriteQueue(s)' = WriteQueue(s)
        <5>1. /\ refused'[s] = refused[s] + 1
              /\ overruns'[s] = overruns[s]
              /\ Len(WriteQueue(s)') = Len(WriteQueue(s))
          BY <3>2, <4>1 DEF PipeTypeOK, Counts
        <5>2. (refused[s] + 1) + overruns[s] + yielded[Other(s)]
                + Len(WriteQueue(s)) = offered[s] + 1
          BY <3>1, <3>3, <3>4, CountMoves
        <5>3. QED
          BY <3>5, <5>1, <5>2
      <4>2. CASE /\ refused' = refused
                 /\ overruns' = [overruns EXCEPT ![s] = @ + 1]
                 /\ WriteQueue(s)' = WriteQueue(s)
        <5>1. /\ refused'[s] = refused[s]
              /\ overruns'[s] = overruns[s] + 1
              /\ Len(WriteQueue(s)') = Len(WriteQueue(s))
          BY <3>2, <4>2 DEF PipeTypeOK, Counts
        <5>2. refused[s] + (overruns[s] + 1) + yielded[Other(s)]
                + Len(WriteQueue(s)) = offered[s] + 1
          BY <3>1, <3>3, <3>4, CountMoves
        <5>3. QED
          BY <3>5, <5>1, <5>2
      <4>3. CASE /\ refused' = refused
                 /\ overruns' = overruns
                 /\ WriteQueue(s)' = Append(WriteQueue(s), offered[s] + 1)
        <5>1. /\ refused'[s] = refused[s]
              /\ overruns'[s] = overruns[s]
              /\ Len(WriteQueue(s)') = Len(WriteQueue(s)) + 1
          BY <3>2, <4>3 DEF PipeTypeOK, Counts
        <5>2. refused[s] + overruns[s] + yielded[Other(s)]
                + (Len(WriteQueue(s)) + 1) = offered[s] + 1
          BY <3>1, <3>3, <3>4, CountMoves
        <5>3. QED
          BY <3>5, <5>1, <5>2
      <4>4. QED
        BY <2>2, <4>1, <4>2, <4>3, HandleEffect
    <3>7. /\ offered'[Other(s)] = offered[Other(s)]
          /\ refused'[Other(s)] = refused[Other(s)]
          /\ overruns'[Other(s)] = overruns[Other(s)]
          /\ yielded'[s] = yielded[s]
          /\ WriteQueue(Other(s))' = WriteQueue(Other(s))
      <4>1. /\ offered'[Other(s)] = offered[Other(s)]
            /\ yielded'[s] = yielded[s]
            /\ WriteQueue(Other(s))' = WriteQueue(Other(s))
        BY <2>2, HandleEffect, OtherSide DEF PipeTypeOK, Counts
      <4>2. refused'[Other(s)] = refused[Other(s)]
        BY <2>2, HandleEffect, OtherSide DEF PipeTypeOK, Counts
      <4>3. overruns'[Other(s)] = overruns[Other(s)]
        BY <2>2, HandleEffect, OtherSide DEF PipeTypeOK, Counts
      <4>4. QED
        BY <4>1, <4>2, <4>3
    <3>8. offered'[Other(s)] = refused'[Other(s)] + overruns'[Other(s)]
                          + yielded'[s] + Len(WriteQueue(Other(s))')
      BY <3>7, OtherSide DEF Accounted
    <3>9. QED
      BY <3>6, <3>8, OtherSide DEF Accounted
  <2>3. ASSUME NEW s \in Sides, PipeEmit(s) PROVE Accounted'
    <3>1. /\ WriteQueue(Other(s)) \in Seq(Nat)
          /\ WriteQueue(Other(s)) # <<>>
      BY <2>3, QueueType, OtherSide, EmitQueues
    <3>2. /\ Len(WriteQueue(Other(s))) \in Nat
          /\ Len(Tail(WriteQueue(Other(s)))) = Len(WriteQueue(Other(s))) - 1
      BY <3>1
    <3>3. /\ yielded' = [yielded EXCEPT ![s] = @ + 1]
          /\ UNCHANGED <<offered, refused, overruns>>
      BY <2>3 DEF PipeEmit
    <3>4. offered'[s] = refused'[s] + overruns'[s] + yielded'[Other(s)]
                          + Len(WriteQueue(s)')
      BY <2>3, <3>3, OtherSide, EmitQueues DEF Accounted, PipeTypeOK, Counts
    <3>5. /\ offered[Other(s)] \in Nat /\ refused[Other(s)] \in Nat
          /\ overruns[Other(s)] \in Nat /\ yielded[s] \in Nat
          /\ yielded'[s] = yielded[s] + 1
      BY <3>3, OtherSide DEF PipeTypeOK, Counts
    <3>6. offered[Other(s)] = refused[Other(s)] + overruns[Other(s)]
                                + yielded[s] + Len(WriteQueue(Other(s)))
      BY OtherSide DEF Accounted
    <3>7. Len(WriteQueue(Other(s))') = Len(WriteQueue(Other(s))) - 1
      BY <2>3, <3>2, EmitQueues
    <3>8. offered'[Other(s)] = refused'[Other(s)] + overruns'[Other(s)]
                          + yielded'[s] + Len(WriteQueue(Other(s))')
      BY <3>2, <3>3, <3>5, <3>6, <3>7
    <3>9. QED
      BY <3>4, <3>8, OtherSide DEF Accounted
  <2>4. QED
    BY <2>1, <2>2, <2>3 DEF PipeNext
<1>3. QED
  BY <1>1, <1>2, PipeTypeCorrect, PTL DEF PipeSpec

\* Messages keep their order and none is seen twice, whatever is dropped
\* between them.
THEOREM OrderKept == PipeSpec => []InOrder
<1>1. PipeInit => InOrder
  BY DEF PipeInit, InOrder, WriteQueue, Other, Sides
<1>2. PipeTypeOK /\ InOrder /\ [PipeNext]_pipeVars => InOrder'
  <2> SUFFICES ASSUME PipeTypeOK, InOrder, [PipeNext]_pipeVars PROVE InOrder'
    OBVIOUS
  <2> DEFINE Ordered(q, lo, hi) ==
               /\ lo <= hi
               /\ \A k \in 1..Len(q) : lo < q[k] /\ q[k] <= hi
               /\ \A j, k \in 1..Len(q) : j < k => q[j] < q[k]
  <2>1. InOrder <=> \A s \in Sides : Ordered(WriteQueue(s), last[Other(s)], offered[s])
    BY DEF InOrder
  <2>2. InOrder' <=> \A s \in Sides :
                       Ordered(WriteQueue(s)', last'[Other(s)], offered'[s])
    BY DEF InOrder
  <2>3. \A q \in Seq(Nat), lo \in Nat, hi \in Nat :
          Ordered(q, lo, hi) => /\ Ordered(q, lo, hi + 1)
                                /\ Ordered(Append(q, hi + 1), lo, hi + 1)
    OBVIOUS
  <2>4. \A q \in Seq(Nat), lo \in Nat, hi \in Nat :
          Ordered(q, lo, hi) /\ q # <<>> => Ordered(Tail(q), Head(q), hi)
    OBVIOUS
  <2> HIDE DEF Ordered
  <2>5. CASE UNCHANGED pipeVars
    BY <2>1, <2>2, <2>5 DEF pipeVars, WriteQueue
  <2>6. ASSUME NEW s \in Sides, NEW passes \in BOOLEAN, Handle(s, passes)
        PROVE  InOrder'
    <3>1. /\ last[Other(s)] \in Nat /\ offered[s] \in Nat
          /\ WriteQueue(s) \in Seq(Nat)
      BY QueueType, OtherSide DEF PipeTypeOK, Counts
    <3>2. /\ last' = last
          /\ offered'[s] = offered[s] + 1
          /\ offered'[Other(s)] = offered[Other(s)]
          /\ WriteQueue(Other(s))' = WriteQueue(Other(s))
          /\ \/ WriteQueue(s)' = WriteQueue(s)
             \/ WriteQueue(s)' = Append(WriteQueue(s), offered[s] + 1)
      BY <2>6, HandleEffect, OtherSide DEF PipeTypeOK, Counts
    <3>3. Ordered(WriteQueue(s)', last'[Other(s)], offered'[s])
      BY <2>1, <2>3, <3>1, <3>2
    <3>4. Ordered(WriteQueue(Other(s))', last'[s], offered'[Other(s)])
      BY <2>1, <3>2, OtherSide
    <3>5. QED
      BY <2>2, <3>3, <3>4, OtherSide
  <2>7. ASSUME NEW s \in Sides, PipeEmit(s) PROVE InOrder'
    <3>1. /\ last[s] \in Nat /\ offered[Other(s)] \in Nat
          /\ WriteQueue(Other(s)) \in Seq(Nat)
      BY QueueType, OtherSide DEF PipeTypeOK, Counts
    <3>2. /\ offered' = offered
          /\ last'[s] = Head(WriteQueue(Other(s)))
          /\ last'[Other(s)] = last[Other(s)]
          /\ WriteQueue(s)' = WriteQueue(s)
          /\ WriteQueue(Other(s)) # <<>>
          /\ WriteQueue(Other(s))' = Tail(WriteQueue(Other(s)))
      BY <2>7, EmitQueues, OtherSide DEF PipeEmit, PipeTypeOK, Counts
    <3>3. Ordered(WriteQueue(Other(s))', last'[s], offered'[Other(s)])
      BY <2>1, <2>4, <3>1, <3>2, OtherSide
    <3>4. Ordered(WriteQueue(s)', last'[Other(s)], offered'[s])
      BY <2>1, <3>2
    <3>5. QED
      BY <2>2, <3>3, <3>4, OtherSide
  <2>8. QED
    BY <2>5, <2>6, <2>7 DEF PipeNext
<1>3. QED
  BY <1>1, <1>2, PipeTypeCorrect, PTL DEF PipeSpec

----------------------------------------------------------------------------
\* Which part each action of the ECU moves.
LEMMA EcuSteps ==
  ASSUME [EcuNext]_ecuVars
  PROVE  [SyncNext]_syncVars /\ [PipeNext]_pipeVars
<1>1. CASE UNCHANGED ecuVars
  BY <1>1 DEF ecuVars
<1>2. ASSUME NEW c \in Cores, BusInit(c)
      PROVE  UNCHANGED syncVars /\ [PipeNext]_pipeVars
  BY <1>2 DEF BusInit, Produce, PipeNext, Side, Sides
<1>3. ASSUME NEW c \in Cores, Arrive(c)
      PROVE  SyncNext /\ UNCHANGED pipeVars
  BY <1>3 DEF Arrive, SyncNext
<1>4. ASSUME NEW c \in Cores, Spin(c)
      PROVE  SyncNext /\ UNCHANGED pipeVars
  BY <1>4 DEF Spin, SyncNext
<1>5. ASSUME NEW c \in Cores, LoopPipe(c)
      PROVE  UNCHANGED syncVars /\ PipeNext
  BY <1>5 DEF LoopPipe, PipeNext, Side, Sides
<1>6. ASSUME NEW c \in Cores, LoopNode(c)
      PROVE  UNCHANGED syncVars /\ PipeNext
  BY <1>6 DEF LoopNode, Produce, PipeNext, Side, Sides
<1>7. QED
  BY <1>1, <1>2, <1>3, <1>4, <1>5, <1>6 DEF EcuNext

\* The ECU runs the barrier and the pipe as they are specified alone: nothing
\* else in setup, setup1 and the loops touches their state.
THEOREM EcuImplements == EcuSpec => SyncSpec /\ PipeSpec
<1>1. EcuInit => SyncInit /\ PipeInit
  BY DEF EcuInit
<1>2. [EcuNext]_ecuVars => [SyncNext]_syncVars /\ [PipeNext]_pipeVars
  BY EcuSteps
<1>3. QED
  BY <1>1, <1>2, PTL DEF EcuSpec, SyncSpec, PipeSpec

\* The variables of the ECU keep their types.
THEOREM EcuTypeCorrect == EcuSpec => []EcuTypeOK
<1>1. EcuInit => inited \in [Cores -> BOOLEAN]
  BY DEF EcuInit
<1>2. inited \in [Cores -> BOOLEAN] /\ [EcuNext]_ecuVars
        => (inited \in [Cores -> BOOLEAN])'
  BY DEF EcuNext, ecuVars, BusInit, Arrive, Spin, LoopPipe, LoopNode
<1>3. SyncTypeOK /\ PipeTypeOK /\ inited \in [Cores -> BOOLEAN] <=> EcuTypeOK
  BY DEF EcuTypeOK
<1>4. QED
  BY <1>1, <1>2, <1>3, EcuImplements, SyncTypeCorrect, PipeTypeCorrect, PTL
     DEF EcuSpec

\* Nothing is lost silently and the order is kept in the ECU as well.
THEOREM EcuAccounted == EcuSpec => []Accounted
BY EcuImplements, NothingLostSilently, PTL

\* The order of the messages across the cores.
THEOREM EcuInOrder == EcuSpec => []InOrder
BY EcuImplements, OrderKept, PTL

\* No message crosses the pipe while a core is in its setup (standalone.ino
\* and bridge.ino call wait() before they loop).
THEOREM CrossesAfterStart == EcuSpec => []NothingCrossesEarly
<1>1. EcuInit => NothingCrossesEarly
  <2>1. EcuInit => \A s \in Sides : yielded[s] = 0
    BY DEF EcuInit, PipeInit
  <2>2. QED
    BY <2>1 DEF NothingCrossesEarly
<1>2. /\ EcuTypeOK /\ Together /\ NothingCrossesEarly
      /\ [EcuNext]_ecuVars
      => NothingCrossesEarly'
  <2> SUFFICES ASSUME EcuTypeOK, Together, NothingCrossesEarly,
                      [EcuNext]_ecuVars
               PROVE  NothingCrossesEarly'
    OBVIOUS
  <2>1. ASSUME UNCHANGED yielded
        PROVE  NothingCrossesEarly'
    <3>1. \A c \in Cores : at[c] # "setup" => at'[c] # "setup"
      BY EcuSteps DEF SyncNext, Enter, Turn, syncVars, EcuTypeOK, SyncTypeOK
    <3>2. QED
      BY <2>1, <3>1 DEF NothingCrossesEarly
  <2>2. ASSUME NEW c \in Cores, LoopPipe(c)
        PROVE  NothingCrossesEarly'
    BY <2>2 DEF LoopPipe, Looping, Together, NothingCrossesEarly, syncVars
  <2>3. ASSUME NEW c \in Cores, BusInit(c) PROVE UNCHANGED yielded
    BY <2>3 DEF BusInit, Produce, Handle, pipeVars
  <2>4. ASSUME NEW c \in Cores, LoopNode(c) PROVE UNCHANGED yielded
    BY <2>4 DEF LoopNode, Produce, Handle
  <2>5. ASSUME NEW c \in Cores, Arrive(c) \/ Spin(c) PROVE UNCHANGED yielded
    BY <2>5 DEF Arrive, Spin, pipeVars
  <2>6. CASE UNCHANGED ecuVars
    BY <2>1, <2>6 DEF ecuVars, pipeVars
  <2>7. QED
    BY <2>1, <2>2, <2>3, <2>4, <2>5, <2>6 DEF EcuNext
<1>3. EcuSpec => []Together
  BY EcuImplements, CoresStartTogether, PTL
<1>4. QED
  BY <1>1, <1>2, <1>3, EcuTypeCorrect, PTL DEF EcuSpec
=============================================================================
