------------------------- MODULE SettingsRefinement -------------------------
(* Each channel of the settings node implements SettingsTransaction, for     *)
(* every set of settings, every deadline and every order of frames: proof.   *)
(*                                                                           *)
(* The mapping shows the one active sequence of a channel, so it needs       *)
(* Exclusive; that a sequence ends only in EXIT or at its deadline needs     *)
(* OnCourse, which keeps NextState away from its default branch.             *)
EXTENDS SettingsProofs

Transaction(c) == INSTANCE SettingsTransaction WITH txn <- Txn(c)

----------------------------------------------------------------------------
\* What Following says of the state after the one a response matched.
LEMMA CourseLeads ==
  ASSUME TypeOK, OnCourse, NEW s \in Seqs, Active(s), state[s] # "EXIT"
  PROVE  \/ NextState(s) = state[s]
         \/ /\ NextState(s) \in Course(s) \ {"ENTER"}
            /\ NextState(s) # "READY"
            /\ s \in Updates => update[s] \in Items
<1>1. state[s] \in Course(s) /\ (s \in Updates => update[s] \in Items)
  BY DEF OnCourse
<1>2. "READY" \notin AllItems /\ "ENTER" \notin AllItems /\ "EXIT" \notin AllItems
      /\ RetrieveStates \cap AllItems = {} /\ InitStates \cap AllItems = {}
  BY DEF AllItems, RetrieveStates, InitStates
<1>3. CASE s \in Inits
  <2>1. s \in {"initE", "initF"} /\ s \notin Updates /\ s \notin Resets
        /\ s \notin Retrieves
    BY <1>3 DEF Inits, Updates, Resets, Retrieves
  <2>2. /\ Course(s) = {"ENTER", "EXIT"} \cup InitStates
        /\ AfterEnter(s) = "INIT_00"
    BY <1>3, <2>1 DEF Course, AfterEnter
  <2>3. CASE state[s] = "ENTER"
    BY <2>1, <2>2, <2>3 DEF NextState, InitStates
  <2>4. CASE state[s] \in InitStates
    <3>1. /\ AfterInit(state[s]) \in {"EXIT"} \cup InitStates
          /\ NextState(s) \in {AfterInit(state[s]), "EXIT"}
      BY <2>1, <2>4 DEF AfterInit, NextState, InitStates
    <3>2. QED
      BY <2>1, <2>2, <3>1 DEF InitStates
  <2>5. QED
    BY <1>1, <2>2, <2>3, <2>4
<1>4. CASE s \in Retrieves
  BY <1>1, <1>4 DEF Active, Course, NextState, AfterEnter, Reads, ReadBack,
     Inits, Retrieves, InitStates, Updates, Resets, OnE
<1>5. CASE s \in Resets
  BY <1>1, <1>5 DEF Active, Course, NextState, AfterEnter, Reads, ReadBack,
     Inits, Retrieves, InitStates, Updates, Resets, OnE
<1>6. CASE s \in Updates
  BY <1>1, <1>2, <1>6, ItemsAssumption
     DEF Active, Course, NextState, AfterEnter, Reads, ReadBack,
     Inits, Retrieves, InitStates, Updates, Resets, OnE, RetrieveStates
<1>7. QED
  BY <1>3, <1>4, <1>5, <1>6
     DEF Seqs, OnE, OnF, Inits, Retrieves, Updates, Resets

\* After the exit from settings mode a sequence is over.
LEMMA ExitEnds ==
  ASSUME OnCourse, NEW s \in Seqs, state[s] = "EXIT"
  PROVE  NextState(s) = "READY"
<1>1. s \in Updates => update[s] # "EXIT"
  BY ItemsAssumption DEF OnCourse, Active, AllItems
<1>2. QED
  BY <1>1 DEF NextState, InitStates

\* No step takes a sequence off its course.
LEMMA OnCourseNext == TypeOK /\ OnCourse /\ [Next]_vars => OnCourse'
<1> SUFFICES ASSUME TypeOK, OnCourse, [Next]_vars PROVE OnCourse'
  OBVIOUS
<1>1. ASSUME \A s \in Seqs : Active(s)' => state'[s] = state[s],
             UNCHANGED update
      PROVE  OnCourse'
  BY <1>1 DEF OnCourse, Active, Course
<1>2. ASSUME NEW S \in SUBSET Seqs, Trigger(S),
             \A s \in Updates : ~Active(s) /\ state'[s] # "READY"
               => update'[s] \in Items,
             \A s \in Updates : Active(s) => update'[s] = update[s]
      PROVE  OnCourse'
  <2>1. \A s \in Seqs : state'[s] = state[s] \/
                        (state'[s] = "ENTER" /\ state[s] = "READY")
    BY <1>2 DEF Trigger, Active
  <2>2. SUFFICES ASSUME NEW s \in Seqs, Active(s)'
                 PROVE  /\ state'[s] \in Course(s)'
                        /\ s \in Updates => update'[s] \in Items
    BY DEF OnCourse
  <2>3. CASE state'[s] = "ENTER" /\ state[s] = "READY"
    <3>1. "ENTER" \in Course(s)'
      BY DEF Course, Seqs, OnE, OnF, Inits, Retrieves, Updates, Resets
    <3>2. QED
      BY <1>2, <2>2, <2>3, <3>1 DEF Active
  <2>4. CASE state'[s] = state[s]
    <3>1. Active(s)
      BY <2>2, <2>4 DEF Active
    <3>2. /\ state[s] \in Course(s)
          /\ s \in Updates => update[s] \in Items /\ update'[s] = update[s]
      BY <1>2, <3>1 DEF OnCourse
    <3>3. Course(s)' = Course(s)
      <4>1. CASE s \in Updates
        BY <3>2, <4>1 DEF Course, Reads
      <4>2. CASE s \notin Updates
        BY <4>2 DEF Course, Reads
      <4>3. QED
        BY <4>1, <4>2
    <3>4. QED
      BY <2>4, <3>2, <3>3
  <2>5. QED
    BY <2>1, <2>3, <2>4
<1>3. ASSUME NEW cmd \in Commands, cmd[1] \in Items, Change(cmd[1], cmd[2])
      PROVE  OnCourse'
  <2> DEFINE u == Update(ItemChannel(cmd[1]))
  <2>1. u \in Updates /\ u \in Seqs /\ ~Active(u)
    BY <1>3, CommandItem, ChannelsSplit DEF Change, Ready
  <2>2. Trigger({u}) /\ update' = [update EXCEPT ![u] = cmd[1]]
    BY <1>3 DEF Change
  <2>3. \A s \in Updates : Active(s) => update'[s] = update[s]
    BY <2>1, <2>2 DEF TypeOK
  <2>4. \A s \in Updates : ~Active(s) /\ state'[s] # "READY"
          => update'[s] \in Items
    BY <1>3, <2>1, <2>2 DEF Trigger, TypeOK, Active, Updates, Seqs, OnE, OnF
  <2>5. QED
    BY <1>2, <2>1, <2>2, <2>3, <2>4
<1>4. ASSUME NEW S \in SUBSET Seqs, S \cap Updates = {}, Trigger(S),
             UNCHANGED update
      PROVE  OnCourse'
  <2>1. \A s \in Updates : state'[s] = state[s]
    BY <1>4 DEF Trigger, Active, Updates, Seqs, OnE, OnF
  <2>2. QED
    BY <1>2, <1>4, <2>1 DEF Active
<1>5. CASE RequestCurrent
  BY <1>4, <1>5 DEF RequestCurrent, Retrieves, Updates, Seqs, OnE, OnF
<1>6. CASE ResetSettingsToDefault
  BY <1>4, <1>6 DEF ResetSettingsToDefault, Resets, Updates, Seqs, OnE, OnF
<1>7. ASSUME NEW c \in Channels, NEW f \in Responses, NEW code \in Payload[f],
             HandleFrame(c, f, code)
      PROVE  OnCourse'
  <2>1. SUFFICES ASSUME NEW s \in Seqs, Active(s)'
                 PROVE  /\ state'[s] \in Course(s)'
                        /\ s \in Updates => update'[s] \in Items
    BY DEF OnCourse
  <2>2. /\ update' = update
        /\ \/ state'[s] = state[s]
           \/ /\ state'[s] = NextState(s)
              /\ MatchState(f, state[s])
              /\ NextState(s) # state[s]
    BY <1>7 DEF HandleFrame, TypeOK
  <2>3. Course(s)' = Course(s)
    BY <2>2 DEF Course
  <2>4. CASE state'[s] = state[s]
    BY <2>1, <2>2, <2>3, <2>4 DEF OnCourse, Active
  <2>5. CASE /\ state'[s] = NextState(s)
             /\ MatchState(f, state[s])
             /\ NextState(s) # state[s]
    <3>1. Active(s)
      BY <2>5 DEF MatchState, Active
    <3>2. state[s] # "EXIT"
      BY <2>1, <2>5, ExitEnds DEF Active
    <3>3. QED
      BY <2>2, <2>3, <2>5, <3>1, <3>2, CourseLeads
  <2>6. QED
    BY <2>2, <2>4, <2>5
<1>8. CASE Emit
  BY <1>1, <1>8 DEF Emit, Active
<1>9. CASE Tick
  BY <1>1, <1>9 DEF Tick, Active
<1>10. CASE UNCHANGED vars
  BY <1>1, <1>10 DEF vars, Active
<1>11. QED
  BY <1>3, <1>5, <1>6, <1>7, <1>8, <1>9, <1>10 DEF Next

\* A sequence stays on its course: no frame takes it to a state its class has
\* no case for (Settings.cpp:389-554).
THEOREM StaysOnCourse == Spec => []OnCourse
<1>1. Init => OnCourse
  BY DEF Init, OnCourse, Active, Course, Inits, Updates
<1>2. QED
  BY <1>1, OnCourseNext, TypeCorrect, PTL DEF Spec

----------------------------------------------------------------------------
\* The refinement mapping: an idle channel, and a busy one.
Shown(s) == [op |-> Op(s), phase |-> Phase(state[s]),
             asked |-> sent[s], overdue |-> Overdue(s)]

\* The parts of what a sequence shows of itself.
LEMMA ShownFields ==
  ASSUME NEW s
  PROVE  /\ Shown(s).op = Op(s) /\ Shown(s).phase = Phase(state[s])
         /\ Shown(s).asked = sent[s] /\ Shown(s).overdue = Overdue(s)
BY DEF Shown

\* A ready channel shows no transaction.
LEMMA TxnIdle ==
  ASSUME NEW c
  PROVE  Ready(c) => Txn(c) = Transaction(c)!Idle
BY DEF Txn, Transaction!Idle, Transaction!Stage

\* A channel shows its one active sequence, before and after a step.
LEMMA TxnShown ==
  ASSUME NEW c \in Channels, NEW s \in On(c)
  PROVE  /\ Exclusive /\ Active(s) => Txn(c) = Shown(s)
         /\ (Exclusive /\ Active(s))' => Txn(c)' = Shown(s)'
<1>1. ASSUME Exclusive, Active(s) PROVE Txn(c) = Shown(s)
  <2>1. ~Ready(c) /\ \A t \in On(c) : Active(t) => t = s
    BY <1>1 DEF Exclusive, Ready
  <2>2. (CHOOSE t \in On(c) : Active(t)) = s
    BY <1>1, <2>1
  <2>3. QED
    BY <2>1, <2>2 DEF Txn, Shown
<1>2. ASSUME Exclusive', Active(s)' PROVE Txn(c)' = Shown(s)'
  <2>1. ~Ready(c)' /\ \A t \in On(c) : Active(t)' => t = s
    BY <1>2 DEF Exclusive, Ready
  <2>2. (CHOOSE t \in On(c) : Active(t)') = s
    BY <1>2, <2>1
  <2>3. QED
    BY <2>1, <2>2 DEF Txn, Shown
<1>3. QED
  BY <1>1, <1>2

\* A step that leaves the sequences of a channel as they are is a stutter.
LEMMA TxnSame ==
  ASSUME Exclusive, Exclusive', NEW c \in Channels,
         \A s \in On(c) : /\ state'[s] = state[s] /\ sent'[s] = sent[s]
                          /\ Overdue(s)' = Overdue(s)
  PROVE  Txn(c)' = Txn(c)
<1>1. CASE Ready(c)
  <2>1. Ready(c)'
    BY <1>1 DEF Ready, Active
  <2>2. QED
    BY <1>1, <2>1 DEF Txn
<1>2. CASE ~Ready(c)
  <2>1. PICK s \in On(c) : Active(s)
    BY <1>2 DEF Ready
  <2>2. Active(s)'
    BY <2>1 DEF Active
  <2>3. Shown(s)' = Shown(s)
    BY DEF Shown
  <2>4. QED
    BY <2>1, <2>2, <2>3, TxnShown
<1>3. QED
  BY <1>1, <1>2

\* Triggering one sequence of an idle channel begins a transaction.
LEMMA TriggerBegins ==
  ASSUME TypeOK, Exclusive, Exclusive', NEW c \in Channels, Ready(c),
         NEW S \in SUBSET (Seqs \ Inits), Trigger(S),
         NEW s \in S \cap On(c)
  PROVE  Transaction(c)!Begin
<1>1. /\ s \in Seqs /\ s \notin Inits /\ ~Active(s)
  BY DEF Ready
<1>2. state'[s] = "ENTER" /\ sent'[s] = FALSE /\ age'[s] = 0
  BY <1>1 DEF Trigger
<1>3. Active(s)' /\ ~Overdue(s)'
  BY <1>2, TimeoutAssumption DEF Active, Overdue
<1>4. Op(s) \in {"retrieve", "update", "reset"}
  BY <1>1 DEF Op, Seqs, OnE, OnF, Inits, Retrieves, Updates, Resets
<1>5. Op(s)' = Op(s)
  BY DEF Op
<1>6. Shown(s)' = Transaction(c)!Opening(Op(s))
  <2>1. Phase("ENTER") = "enter"
    BY DEF Phase, RetrieveStates
  <2>2. Phase(state[s])' = "enter"
    BY <1>2, <2>1
  <2>3. Overdue(s)' = FALSE
    BY <1>3 DEF Overdue
  <2>4. QED
    BY <1>2, <1>5, <2>2, <2>3 DEF Shown, Transaction!Opening, Transaction!Stage
<1>7. QED
  BY <1>3, <1>4, <1>6, TxnIdle, TxnShown
     DEF Transaction!Begin, Transaction!Ops

\* What the phases of the states are.
LEMMA Phases ==
  /\ Phase("ENTER") = "enter" /\ Phase("EXIT") = "exit"
  /\ \A st \in RetrieveStates : Phase(st) = "read"
  /\ \A st \in InitStates \cup {"RESET"} \cup AllItems : Phase(st) = "work"
BY DEF Phase, RetrieveStates, InitStates, AllItems

\* Each class of sequences is one operation.
LEMMA Operations ==
  /\ \A s \in Inits : Op(s) = "init"
  /\ \A s \in Retrieves : Op(s) = "retrieve"
  /\ \A s \in Updates : Op(s) = "update"
  /\ \A s \in Resets : Op(s) = "reset"
BY DEF Op, Inits, Retrieves, Updates, Resets

\* Every state but EXIT leads to a state of a phase that may follow its own.
LEMMA PhaseFollows ==
  ASSUME TypeOK, OnCourse, NEW s \in Seqs, Active(s), state[s] # "EXIT",
         NextState(s) # state[s], NEW c
  PROVE  Phase(NextState(s))
           \in Transaction(c)!Following(Op(s), Phase(state[s]))
<1> DEFINE F(op, ph) == Transaction(c)!Following(op, ph)
<1>1. /\ state[s] \in Course(s) /\ (s \in Updates => update[s] \in Items)
      /\ ReadBack(s) \in RetrieveStates
      /\ Reads(s) \subseteq RetrieveStates
  BY DEF OnCourse, ReadBack, Reads, RetrieveStates
<1>2. /\ F("retrieve", "enter") = {"read"}
      /\ \A op \in {"init", "update", "reset"} : F(op, "enter") = {"work"}
      /\ F("init", "work") = {"work", "exit"}
      /\ \A op \in {"update", "reset"} : F(op, "work") = {"read"}
      /\ \A op : F(op, "read") = {"read", "exit"}
  BY DEF Transaction!Following
<1> HIDE DEF F
<1>3. CASE state[s] \in RetrieveStates
  <2>1. NextState(s) \in {"RETRIEVE_71E_2X", "EXIT"}
    <3>1. s \in Updates => state[s] # update[s]
      BY <1>1, <1>3, ItemsAssumption DEF RetrieveStates, AllItems
    <3>2. QED
      BY <1>1, <1>3, <3>1 DEF NextState, RetrieveStates, InitStates
  <2>2. Phase(NextState(s)) \in {"read", "exit"} /\ Phase(state[s]) = "read"
    BY <1>3, <2>1, Phases DEF RetrieveStates
  <2>3. QED
    BY <1>2, <2>2 DEF F
<1>4. CASE state[s] = "ENTER"
  <2>1. NextState(s) = AfterEnter(s) /\ Phase(state[s]) = "enter"
    <3>1. s \in Updates => state[s] # update[s]
      BY <1>1, <1>4, ItemsAssumption DEF AllItems
    <3>2. QED
      BY <1>4, <3>1, Phases DEF NextState, InitStates
  <2>2. CASE s \in Retrieves
    <3>1. AfterEnter(s) = ReadBack(s)
      BY <2>2 DEF AfterEnter, Inits, Retrieves, Updates, Resets
    <3>2. QED
      BY <1>1, <1>2, <2>1, <2>2, <3>1, Phases, Operations DEF F
  <2>3. CASE s \notin Retrieves
    <3>1. AfterEnter(s) \in InitStates \cup {"RESET"} \cup AllItems
      BY <1>1, <2>3, ItemsAssumption
         DEF AfterEnter, Inits, Retrieves, Updates, Resets, InitStates,
             Seqs, OnE, OnF
    <3>2. Op(s) \in {"init", "update", "reset"}
      BY <2>3, Operations
         DEF Seqs, OnE, OnF, Inits, Retrieves, Updates, Resets
    <3>3. QED
      BY <1>2, <2>1, <3>1, <3>2, Phases DEF F
  <2>4. QED
    BY <2>2, <2>3
<1>5. CASE state[s] \notin RetrieveStates \cup {"ENTER"}
  <2>1. CASE s \in Inits
    <3>1. state[s] \in InitStates /\ s \notin Updates /\ s \notin Resets
      BY <1>1, <1>5, <2>1 DEF Course, Inits, Retrieves, Updates, Resets
    <3>2. NextState(s) \in {"EXIT"} \cup InitStates
      BY <3>1 DEF NextState, AfterInit, InitStates
    <3>3. QED
      BY <1>2, <2>1, <3>1, <3>2, Phases, Operations DEF F
  <2>2. CASE s \in Updates
    <3>1. state[s] = update[s] /\ state[s] \in AllItems
      BY <1>1, <1>5, <2>2, ItemsAssumption
         DEF Course, Inits, Retrieves, Updates, Resets
    <3>2. NextState(s) = ReadBack(s)
      BY <2>2, <3>1
         DEF NextState, InitStates, AllItems, Updates, Resets
    <3>3. QED
      BY <1>1, <1>2, <2>2, <3>1, <3>2, Phases, Operations DEF F
  <2>3. CASE s \in Resets
    <3>1. state[s] = "RESET" /\ s \notin Updates
      BY <1>1, <1>5, <2>3 DEF Course, Inits, Retrieves, Updates, Resets
    <3>2. NextState(s) = ReadBack(s)
      BY <2>3, <3>1 DEF NextState, InitStates
    <3>3. QED
      BY <1>1, <1>2, <2>3, <3>1, <3>2, Phases, Operations DEF F
  <2>4. s \notin Retrieves
    BY <1>1, <1>5 DEF Course, Inits, Retrieves, Updates, Resets
  <2>5. QED
    BY <2>1, <2>2, <2>3, <2>4
       DEF Seqs, OnE, OnF, Inits, Retrieves, Updates, Resets
<1>6. QED
  BY <1>3, <1>4, <1>5

\* The operation of a busy channel is not "none".
LEMMA BusyNotIdle ==
  ASSUME NEW c \in Channels, NEW s \in On(c), Txn(c) = Shown(s)
  PROVE  Txn(c) # Transaction(c)!Idle
<1>1. Op(s) # "none"
  BY ChannelsSplit, Operations
     DEF Seqs, OnE, OnF, Inits, Retrieves, Updates, Resets
<1>2. QED
  BY <1>1, ShownFields DEF Transaction!Idle, Transaction!Stage

\* A response to the active sequence is an answer, or ends the transaction.
LEMMA ResponseAnswers ==
  ASSUME TypeOK, OnCourse, Exclusive, Exclusive',
         NEW c \in Channels, NEW f \in Responses, NEW code \in Payload[f],
         HandleFrame(c, f, code)
  PROVE  [Transaction(c)!Next]_(Txn(c))
<1>1. /\ \A s \in On(c) : s \in Seqs
      /\ \A s \in Seqs : MatchState(f, state[s]) => Active(s)
  BY ChannelsSplit DEF MatchState, Active
<1>2. CASE \A s \in On(c) : MatchState(f, state[s]) => NextState(s) = state[s]
  <2>1. \A s \in On(c) : /\ state'[s] = state[s] /\ sent'[s] = sent[s]
                         /\ age'[s] = age[s]
    BY <1>1, <1>2 DEF HandleFrame
  <2>2. QED
    BY <2>1, TxnSame DEF Overdue, Active
<1>3. ASSUME NEW s \in On(c), MatchState(f, state[s]), NextState(s) # state[s]
      PROVE  Transaction(c)!Next
  <2>1. /\ s \in Seqs /\ Active(s) /\ Txn(c) = Shown(s)
        /\ \A t \in On(c) : t # s => ~Active(t)
    BY <1>1, <1>3, TxnShown DEF Exclusive
  <2>2. /\ state'[s] = NextState(s) /\ sent'[s] = FALSE
        /\ NextState(s) # "READY" => age'[s] = age[s]
        /\ \A t \in On(c) : t # s => ~Active(t)'
    BY <1>1, <1>3, <2>1 DEF HandleFrame, Active
  <2>3. CASE state[s] = "EXIT"
    <3>1. NextState(s) = "READY"
      BY <2>1, <2>3, ExitEnds
    <3>2. Ready(c)'
      BY <2>2, <3>1 DEF Ready, Active
    <3>3. Txn(c)' = Transaction(c)!Idle
      BY <3>2 DEF Txn, Transaction!Idle, Transaction!Stage
    <3>4. Txn(c).phase = "exit"
      BY <2>1, <2>3, Phases DEF Shown
    <3>5. QED
      BY <3>3, <3>4 DEF Transaction!Next, Transaction!Finish
  <2>4. CASE state[s] # "EXIT"
    <3>1. NextState(s) # "READY"
      BY <1>3, <2>1, <2>4, CourseLeads
    <3>2. Active(s)' /\ Overdue(s)' = Overdue(s) /\ Op(s)' = Op(s)
      BY <2>1, <2>2, <3>1 DEF Active, Overdue, Op
    <3>3. Txn(c)' = Shown(s)'
      BY <3>2, TxnShown
    <3>4. Shown(s)' = Transaction(c)!Stage(Op(s), Phase(NextState(s)),
                                           FALSE, Overdue(s))
      <4>1. Phase(state[s])' = Phase(NextState(s))
        BY <2>2
      <4>2. QED
        BY <2>2, <3>2, <4>1, Zenon DEF Shown, Transaction!Stage
    <3>5. Phase(NextState(s))
            \in Transaction(c)!Following(Txn(c).op, Txn(c).phase)
      BY <1>3, <2>1, <2>4, PhaseFollows DEF Shown
    <3>6. Txn(c) # Transaction(c)!Idle
      BY <2>1, BusyNotIdle
    <3>7. Transaction(c)!Answer
      <4>1. Txn(c)' = Transaction(c)!Stage(Txn(c).op, Phase(NextState(s)),
                                           FALSE, Txn(c).overdue)
        BY <2>1, <3>3, <3>4, ShownFields
      <4>2. QED
        BY <3>5, <3>6, <4>1 DEF Transaction!Answer
    <3>8. QED
      BY <3>7 DEF Transaction!Next
  <2>5. QED
    BY <2>3, <2>4
<1>4. QED
  BY <1>2, <1>3

\* A turn of emit asks, or gives an overdue transaction up.
LEMMA EmitAsks ==
  ASSUME TypeOK, Exclusive, Exclusive', NEW c \in Channels, Emit
  PROVE  [Transaction(c)!Next]_(Txn(c))
<1>1. \A s \in On(c) : s \in Seqs
  BY ChannelsSplit
<1>2. CASE Ready(c)
  <2>1. \A s \in On(c) : ~Active(s) /\ ~Active(s)'
    BY <1>1, <1>2 DEF Emit, Active, Ready
  <2>2. Txn(c)' = Txn(c)
    BY <2>1 DEF Txn, Ready
  <2>3. QED
    BY <2>2
<1>3. ASSUME NEW s \in On(c), Active(s)
      PROVE  [Transaction(c)!Next]_(Txn(c))
  <2>1. /\ Txn(c) = Shown(s) /\ Txn(c) # Transaction(c)!Idle
        /\ \A t \in On(c) : t # s => ~Active(t)
    BY <1>3, TxnShown, BusyNotIdle DEF Exclusive
  <2>2. CASE Overdue(s)
    <3>1. \A t \in On(c) : ~Active(t)'
      BY <1>1, <2>1, <2>2 DEF Emit, Active
    <3>2. Txn(c)' = Transaction(c)!Idle
      BY <3>1 DEF Txn, Ready, Transaction!Idle, Transaction!Stage
    <3>3. Txn(c).overdue
      BY <2>1, <2>2, ShownFields
    <3>4. QED
      BY <3>2, <3>3 DEF Transaction!Next, Transaction!GiveUp
  <2>3. CASE ~Overdue(s)
    <3>1. state'[s] = state[s] /\ age'[s] = age[s] /\ Op(s)' = Op(s)
      BY <1>1, <2>3 DEF Emit, Op
    <3>2. sent'[s] = TRUE
      BY <1>1, <1>3, <2>3 DEF Emit, Yielding
    <3>3. Active(s)' /\ Overdue(s)' = FALSE /\ Overdue(s) = FALSE
      BY <1>3, <2>3, <3>1 DEF Active, Overdue
    <3>4. Txn(c)' = Shown(s)'
      BY <3>3, TxnShown
    <3>5. CASE sent[s] = TRUE
      <4>1. Shown(s)' = Shown(s)
        BY <3>1, <3>2, <3>3, <3>5 DEF Shown
      <4>2. QED
        BY <2>1, <3>4, <4>1
    <3>6. CASE sent[s] = FALSE
      <4>1. Shown(s)' = Transaction(c)!Stage(Op(s), Phase(state[s]), TRUE, FALSE)
        BY <3>1, <3>2, <3>3 DEF Shown, Transaction!Stage
      <4>2. /\ ~Txn(c).asked /\ ~Txn(c).overdue
            /\ Txn(c).op = Op(s) /\ Txn(c).phase = Phase(state[s])
        BY <2>1, <2>3, <3>6, ShownFields
      <4>3. Transaction(c)!Ask
        BY <2>1, <3>4, <4>1, <4>2 DEF Transaction!Ask
      <4>4. QED
        BY <4>3 DEF Transaction!Next
    <3>7. QED
      BY <1>1, <3>5, <3>6 DEF TypeOK
  <2>4. QED
    BY <2>2, <2>3
<1>4. QED
  BY <1>2, <1>3 DEF Ready

\* The clock lets a transaction run over its deadline.
LEMMA TickExpires ==
  ASSUME TypeOK, Exclusive, Exclusive', NEW c \in Channels, Tick
  PROVE  [Transaction(c)!Next]_(Txn(c))
<1>1. UNCHANGED <<state, sent>> /\ \A s \in On(c) : Active(s)' = Active(s)
  BY DEF Tick, Active
<1>2. CASE Ready(c)
  <2>1. Txn(c)' = Txn(c)
    BY <1>1, <1>2 DEF Txn, Ready
  <2>2. QED
    BY <2>1
<1>3. ASSUME NEW s \in On(c), Active(s)
      PROVE  [Transaction(c)!Next]_(Txn(c))
  <2>1. /\ Txn(c) = Shown(s) /\ Txn(c)' = Shown(s)'
        /\ Txn(c) # Transaction(c)!Idle
    BY <1>1, <1>3, TxnShown, BusyNotIdle
  <2>2. /\ state'[s] = state[s] /\ sent'[s] = sent[s] /\ Op(s)' = Op(s)
        /\ Phase(state[s])' = Phase(state[s])
    BY <1>1 DEF Op
  <2>3. CASE Overdue(s)' = TRUE
    <3>1. Shown(s)' = Transaction(c)!Stage(Op(s), Phase(state[s]), sent[s], TRUE)
      BY <2>2, <2>3 DEF Shown, Transaction!Stage
    <3>2. /\ Txn(c).op = Op(s) /\ Txn(c).phase = Phase(state[s])
          /\ Txn(c).asked = sent[s]
      BY <2>1, ShownFields
    <3>3. Transaction(c)!Expire
      BY <2>1, <3>1, <3>2 DEF Transaction!Expire
    <3>4. QED
      BY <3>3 DEF Transaction!Next
  <2>4. CASE Overdue(s)' = FALSE
    <3>1. Overdue(s) = FALSE
      <4>1. s \in Seqs /\ ~Overdue(s)'
        BY <2>4, ChannelsSplit
      <4>2. Overdue(s) => age'[s] = age[s]
        BY <4>1 DEF Tick
      <4>3. QED
        BY <1>1, <4>1, <4>2 DEF Overdue
    <3>2. Shown(s)' = Shown(s)
      BY <2>2, <2>4, <3>1 DEF Shown
    <3>3. QED
      BY <2>1, <3>2
  <2>5. QED
    BY <2>3, <2>4 DEF Overdue
<1>4. QED
  BY <1>2, <1>3 DEF Ready

\* A command begins a transaction on the channels it triggers.
LEMMA CommandBegins ==
  ASSUME TypeOK, Exclusive, Exclusive', NEW c \in Channels,
         NEW cmd \in Commands, cmd[1] \in Items, Change(cmd[1], cmd[2])
  PROVE  [Transaction(c)!Next]_(Txn(c))
<1> DEFINE d == ItemChannel(cmd[1])
<1>1. /\ d \in Channels /\ Update(d) \in On(d)
      /\ Update(d) \in Seqs \ Inits
      /\ \A e \in Channels : Update(d) \in On(e) => e = d
  BY CommandItem, ChannelsSplit
     DEF Channels, On, OnE, OnF, Update, Seqs, Inits, Updates
<1>2. Ready(d) /\ Trigger({Update(d)})
  BY DEF Change
<1>3. CASE c = d
  BY <1>1, <1>2, <1>3, TriggerBegins DEF Transaction!Next
<1>4. CASE c # d
  <2>1. \A s \in On(c) : s \in Seqs /\ s # Update(d)
    BY <1>1, <1>4, ChannelsSplit
  <2>2. \A s \in On(c) : /\ state'[s] = state[s] /\ sent'[s] = sent[s]
                         /\ age'[s] = age[s]
    BY <1>2, <2>1 DEF Trigger
  <2>3. QED
    BY <2>2, TxnSame DEF Overdue, Active
<1>5. QED
  BY <1>3, <1>4

\* Every step of the node is a step or a stutter of each channel.
LEMMA TransactionStep ==
  ASSUME TypeOK, OnCourse, Exclusive, Exclusive', [Next]_vars,
         NEW c \in Channels
  PROVE  [Transaction(c)!Next]_(Txn(c))
<1>1. ASSUME NEW cmd \in Commands, cmd[1] \in Items, Change(cmd[1], cmd[2])
      PROVE  [Transaction(c)!Next]_(Txn(c))
  BY <1>1, CommandBegins
<1>2. ASSUME NEW S \in SUBSET (Seqs \ Inits), S \cap On(c) # {}, Trigger(S),
             Ready(c)
      PROVE  Transaction(c)!Next
  BY <1>2, TriggerBegins DEF Transaction!Next
<1>3. CASE RequestCurrent
  <2>1. Trigger(Retrieves) /\ Ready(c)
    BY <1>3 DEF RequestCurrent, Channels
  <2>2. /\ Retrieves \in SUBSET (Seqs \ Inits)
        /\ Retrieves \cap On(c) # {}
    BY DEF Retrieves, Seqs, Inits, On, OnE, OnF
  <2>3. QED
    BY <1>2, <2>1, <2>2
<1>4. CASE ResetSettingsToDefault
  <2>1. Trigger(Resets) /\ Ready(c)
    BY <1>4 DEF ResetSettingsToDefault, Channels
  <2>2. Resets \in SUBSET (Seqs \ Inits) /\ Resets \cap On(c) # {}
    BY DEF Resets, Seqs, Inits, On, OnE, OnF
  <2>3. QED
    BY <1>2, <2>1, <2>2
<1>5. ASSUME NEW d \in Channels, NEW f \in Responses, NEW code \in Payload[f],
             HandleFrame(d, f, code)
      PROVE  [Transaction(c)!Next]_(Txn(c))
  <2>1. CASE c = d
    BY <1>5, <2>1, ResponseAnswers
  <2>2. CASE c # d
    <3>1. \A s \in On(c) : s \in Seqs /\ s \notin On(d)
      BY <2>2, ChannelsSplit DEF Channels, On, OnE, OnF
    <3>2. \A s \in On(c) : /\ state'[s] = state[s] /\ sent'[s] = sent[s]
                           /\ age'[s] = age[s]
      BY <1>5, <3>1 DEF HandleFrame
    <3>3. QED
      BY <3>2, TxnSame DEF Overdue, Active
  <2>3. QED
    BY <2>1, <2>2
<1>6. CASE Emit
  BY <1>6, EmitAsks
<1>7. CASE Tick
  BY <1>7, TickExpires
<1>8. CASE UNCHANGED vars
  BY <1>8, TxnSame DEF vars, Overdue, Active
<1>9. QED
  BY <1>1, <1>3, <1>4, <1>5, <1>6, <1>7, <1>8 DEF Next

\* Each channel of the node implements the transaction specification: a
\* transaction enters settings mode, does its work, reads back and leaves, asks
\* at most once for each answer, and ends early only at its deadline.
THEOREM ChannelsImplement == Spec => Transactions
<1>1. ASSUME Init, Exclusive, NEW c \in Channels
      PROVE  Transaction(c)!Init
  <2>1. PICK s \in On(c) : s \in Inits /\ s \in Seqs
    BY DEF Channels, On, OnE, OnF, Inits, Seqs
  <2>2. state[s] = "ENTER" /\ sent[s] = FALSE /\ age[s] = 0
    BY <1>1, <2>1 DEF Init
  <2>3. Active(s) /\ Overdue(s) = FALSE
    BY <2>2, TimeoutAssumption DEF Active, Overdue
  <2>4. Shown(s) = Transaction(c)!Opening("init")
    BY <2>1, <2>2, <2>3, Phases, Operations
       DEF Shown, Transaction!Opening, Transaction!Stage
  <2>5. QED
    BY <1>1, <2>3, <2>4, TxnShown DEF Transaction!Init
<1>2. Init /\ Exclusive => OnChannelE!Init /\ OnChannelF!Init
  <2>1. Transaction("E")!Init <=> OnChannelE!Init
    BY DEF Transaction!Init, OnChannelE!Init, Transaction!Opening,
           OnChannelE!Opening, Transaction!Stage, OnChannelE!Stage
  <2>2. Transaction("F")!Init <=> OnChannelF!Init
    BY DEF Transaction!Init, OnChannelF!Init, Transaction!Opening,
           OnChannelF!Opening, Transaction!Stage, OnChannelF!Stage
  <2>3. QED
    BY <1>1, <2>1, <2>2 DEF Channels
<1>3. TypeOK /\ OnCourse /\ Exclusive /\ Exclusive' /\ [Next]_vars
        => [OnChannelE!Next]_(Txn("E")) /\ [OnChannelF!Next]_(Txn("F"))
  <2>1. Transaction("E")!Next <=> OnChannelE!Next
    BY DEF Transaction!Next, OnChannelE!Next, Transaction!Begin,
       OnChannelE!Begin, Transaction!Ask, OnChannelE!Ask, Transaction!Answer,
       OnChannelE!Answer, Transaction!Finish, OnChannelE!Finish,
       Transaction!Expire, OnChannelE!Expire, Transaction!GiveUp,
       OnChannelE!GiveUp, Transaction!Idle, OnChannelE!Idle,
       Transaction!Stage, OnChannelE!Stage, Transaction!Opening,
       OnChannelE!Opening, Transaction!Ops, OnChannelE!Ops,
       Transaction!Following, OnChannelE!Following
  <2>2. Transaction("F")!Next <=> OnChannelF!Next
    BY DEF Transaction!Next, OnChannelF!Next, Transaction!Begin,
       OnChannelF!Begin, Transaction!Ask, OnChannelF!Ask, Transaction!Answer,
       OnChannelF!Answer, Transaction!Finish, OnChannelF!Finish,
       Transaction!Expire, OnChannelF!Expire, Transaction!GiveUp,
       OnChannelF!GiveUp, Transaction!Idle, OnChannelF!Idle,
       Transaction!Stage, OnChannelF!Stage, Transaction!Opening,
       OnChannelF!Opening, Transaction!Ops, OnChannelF!Ops,
       Transaction!Following, OnChannelF!Following
  <2>3. QED
    BY <2>1, <2>2, TransactionStep DEF Channels
<1>4. QED
  BY <1>2, <1>3, TypeCorrect, StaysOnCourse, OneAtATime, PTL
     DEF Spec, Transactions, OnChannelE!Spec, OnChannelF!Spec
=============================================================================
