------------------------------ MODULE Settings ------------------------------
(* The settings node of libraries/Vehicle/src/Vehicle/Settings.cpp: eight    *)
(* request sequences (init, retrieve, update and reset on each of the two    *)
(* channels), the STATE event they keep current, and the 500 ms deadline.    *)
(*                                                                           *)
(* The environment is open: any response frame may arrive at any moment, so  *)
(* lost, late, reordered and duplicated responses are all behaviours of this *)
(* module.  SettingsBus closes it with the BCM.                              *)
EXTENDS Naturals, SettingsCodec

CONSTANTS Items,    \* the settings in play
          Timeout   \* the deadline of a sequence, in clock ticks (500 ms)

ASSUME ItemsAssumption   == Items \subseteq AllItems
ASSUME TimeoutAssumption == Timeout \in Nat \ {0}

VARIABLES
  state,      \* state_ of each sequence
  sent,       \* sent_: the request for the current state was yielded
  age,        \* clock - started_ of a sequence under way, up to Timeout
  second,     \* state2x_: the first of the two 0x21/0x22 frames was seen; as
              \* no ready sequence reads sent_, started_ or state2x_ before it
              \* resets them, they are kept FALSE and 0 while it is ready
  update,     \* update_ of the two update sequences: the setting to change
  value,      \* value_ of the two update sequences: the code to send for it
  event,      \* event_, as the value of each setting
  available   \* available_: event_ has news

vars == <<state, sent, age, second, update, value, event, available>>

----------------------------------------------------------------------------
\* The sequences, under the names of the members that hold them.
OnE  == {"initE", "retrieveE", "updateE", "resetE"}
OnF  == {"initF", "retrieveF", "updateF", "resetF"}
Seqs == OnE \cup OnF

On(c)     == IF c = "E" THEN OnE ELSE OnF
Chan(s)   == IF s \in OnE THEN "E" ELSE "F"
Update(c) == IF c = "E" THEN "updateE" ELSE "updateF"
Inits     == {"initE", "initF"}
Retrieves == {"retrieveE", "retrieveF"}
Updates   == {"updateE", "updateF"}
Resets    == {"resetE", "resetF"}

\* The states of a sequence; the state that changes a setting has its name.
InitStates     == {"INIT_00", "INIT_20", "INIT_40", "INIT_60"}
RetrieveStates == {"RETRIEVE_71E_10", "RETRIEVE_71E_2X", "RETRIEVE_71F_05"}
States == {"READY", "ENTER", "EXIT", "RESET"} \cup InitStates
            \cup RetrieveStates \cup Items

\* Response frames, named for the state they acknowledge; the state frames by
\* their first byte.
StateFrames == {"05", "10", "21", "22"}
Responses   == {"ENTER", "EXIT", "RESET"} \cup InitStates \cup Items
                 \cup StateFrames

\* matchState: the response a state waits for.
MatchState(f, st) ==
  CASE st = "READY"           -> FALSE
    [] st = "RETRIEVE_71E_10" -> f = "10"
    [] st = "RETRIEVE_71E_2X" -> f \in {"21", "22"}
    [] st = "RETRIEVE_71F_05" -> f = "05"
    [] OTHER                  -> f = st

\* nextE and nextF of the four classes.
\* Fault: channel F reads its settings back with the request of channel E.
ReadBackE(s) == "RETRIEVE_71E_10"

ReadBack(s) == IF s \in OnE THEN "RETRIEVE_71E_10" ELSE "RETRIEVE_71F_05"

AfterEnter(s) ==
  CASE s \in Inits     -> "INIT_00"
    [] s \in Retrieves -> ReadBack(s)
    [] s \in Updates   -> update[s]
    [] s \in Resets    -> "RESET"

\* Fault: the init goes on after its last state.
AfterInitOn(st) ==
  CASE st = "INIT_00" -> "INIT_20"
    [] st = "INIT_20" -> "INIT_40"
    [] st = "INIT_40" -> "INIT_60"
    [] OTHER          -> "INIT_80"

AfterInit(st) ==
  CASE st = "INIT_00" -> "INIT_20"
    [] st = "INIT_20" -> "INIT_40"
    [] st = "INIT_40" -> "INIT_60"
    [] OTHER          -> "EXIT"

\* Fault: settings mode is left before the second half of the readback.
NextStateExitEarly(s) ==
  LET st == state[s] IN
  CASE st = "ENTER"                    -> AfterEnter(s)
    [] st \in InitStates               -> IF s \in OnE THEN AfterInit(st) ELSE "EXIT"
    [] s \in Updates /\ st = update[s] -> ReadBack(s)
    [] s \in Resets /\ st = "RESET"    -> ReadBack(s)
    [] st \in {"RETRIEVE_71E_10", "RETRIEVE_71F_05"} -> "EXIT"
    [] st = "EXIT" /\ s \in OnE \ Inits -> "RETRIEVE_71E_2X"
    [] OTHER                           -> "READY"

\* Fault: the sequence ends without leaving settings mode.
NextStateNoExit(s) ==
  LET st == state[s] IN
  CASE st = "ENTER"                    -> AfterEnter(s)
    [] st \in InitStates               -> IF s \in OnE THEN AfterInit(st) ELSE "EXIT"
    [] s \in Updates /\ st = update[s] -> ReadBack(s)
    [] s \in Resets /\ st = "RESET"    -> ReadBack(s)
    [] st = "RETRIEVE_71E_10"          -> "RETRIEVE_71E_2X"
    [] OTHER                           -> "READY"

\* Fault: one of the frames 0x21 and 0x22 counts for both.
NextStateOneFrame(s) ==
  LET st == state[s] IN
  CASE st = "ENTER"                            -> AfterEnter(s)
    [] st \in InitStates                       -> IF s \in OnE THEN AfterInit(st) ELSE "EXIT"
    [] s \in Updates /\ st = update[s]         -> ReadBack(s)
    [] s \in Resets /\ st = "RESET"            -> ReadBack(s)
    [] st = "RETRIEVE_71E_10"                  -> "RETRIEVE_71E_2X"
    [] st \in {"RETRIEVE_71E_2X", "RETRIEVE_71F_05"} -> "EXIT"
    [] OTHER                                   -> "READY"

NextState(s) ==
  LET st == state[s] IN
  CASE st = "ENTER"                            -> AfterEnter(s)
    [] st \in InitStates                       ->
         IF s \in OnE THEN AfterInit(st) ELSE "EXIT"
    [] s \in Updates /\ st = update[s]         -> ReadBack(s)
    [] s \in Resets /\ st = "RESET"            -> ReadBack(s)
    [] st = "RETRIEVE_71E_10"                  -> "RETRIEVE_71E_2X"
    [] st = "RETRIEVE_71E_2X"                  ->
         IF second[s] THEN "EXIT" ELSE "RETRIEVE_71E_2X"
    [] st = "RETRIEVE_71F_05"                  -> "EXIT"
    [] OTHER                                   -> "READY"

----------------------------------------------------------------------------
Active(s) == state[s] # "READY"
Ready(c)  == \A s \in On(c) : ~Active(s)    \* readyE, readyF

\* SettingsSequence::trigger on every sequence of S.
Trigger(S) ==
  LET T == {s \in S : ~Active(s)} IN
  /\ state' = [s \in Seqs |-> IF s \in T THEN "ENTER" ELSE state[s]]
  /\ sent'  = [s \in Seqs |-> IF s \in T THEN FALSE ELSE sent[s]]
  /\ age'   = [s \in Seqs |-> IF s \in T THEN 0 ELSE age[s]]

\* The node after its constructor and Settings::init.
Init ==
  /\ state = [s \in Seqs |-> IF s \in Inits THEN "ENTER" ELSE "READY"]
  /\ sent = [s \in Seqs |-> FALSE]
  /\ age = [s \in Seqs |-> 0]
  /\ second = [s \in Seqs |-> FALSE]
  /\ update = [s \in Updates |-> "READY"]
  /\ value = [s \in Updates |-> 255]
  /\ event = [i \in Items |-> 0]
  /\ available = FALSE

\* Fault: setPayload is called without asking whether the channel is ready.
ChangeUnguarded(i, dir) ==
  LET u == Update(ItemChannel(i)) IN
  /\ \E code \in CommandCode(i, dir, event[i]) :
       /\ update' = [update EXCEPT ![u] = i]
       /\ value'  = [value EXCEPT ![u] = code]
  /\ Trigger({u})
  /\ UNCHANGED <<second, event, available>>

\* One of the commands that change a setting; a command that is refused (the
\* channel is busy, or the value is at the end of its range) changes nothing.
Change(i, dir) ==
  LET u == Update(ItemChannel(i)) IN
  /\ Ready(ItemChannel(i))
  /\ \E code \in CommandCode(i, dir, event[i]) :
       /\ update' = [update EXCEPT ![u] = i]
       /\ value'  = [value EXCEPT ![u] = code]
  /\ Trigger({u})
  /\ UNCHANGED <<second, event, available>>

\* Fault: only channel E is asked whether it is ready.
RequestCurrentE ==
  /\ Ready("E")
  /\ Trigger(Retrieves)
  /\ UNCHANGED <<second, update, value, event, available>>

RequestCurrent ==
  /\ Ready("E") /\ Ready("F")
  /\ Trigger(Retrieves)
  /\ UNCHANGED <<second, update, value, event, available>>

ResetSettingsToDefault ==
  /\ Ready("E") /\ Ready("F")
  /\ Trigger(Resets)
  /\ UNCHANGED <<second, update, value, event, available>>

\* Fault: the frame of channel F does not make the event available.
HandleStateQuietF(f, code) ==
  /\ event' = [i \in Items |->
                 IF StateFrame(i) = f THEN Decode(i, code[i], event[i])
                                      ELSE event[i]]
  /\ available' = (available \/ f \in StateFrames \ {"05"})

\* handleState: a state frame carries the code of each setting it reports,
\* whichever sequence asked for it and whether any did.
HandleState(f, code) ==
  /\ event' = [i \in Items |->
                 IF StateFrame(i) = f THEN Decode(i, code[i], event[i])
                                      ELSE event[i]]
  /\ available' = (available \/ f \in StateFrames)

\* Fault: sent_ is cleared even when the state stays the same.
HandleFrameResend(c, f, code) ==
  LET matched == {s \in On(c) : MatchState(f, state[s])}
      moved   == {s \in matched : NextState(s) # state[s]}
  IN
  /\ state' = [s \in Seqs |-> IF s \in moved THEN NextState(s) ELSE state[s]]
  /\ sent'  = [s \in Seqs |-> sent[s] /\ s \notin matched]
  /\ age'   = [s \in Seqs |->
                 IF s \in moved /\ NextState(s) = "READY" THEN 0 ELSE age[s]]
  /\ second' = [s \in Seqs |->
                  \/ s \in matched /\ state[s] = "RETRIEVE_71E_2X" /\ ~second[s]
                  \/ s \notin moved /\ second[s]]
  /\ HandleState(f, code)
  /\ UNCHANGED <<update, value>>

\* SettingsSequence::handle on the four sequences of the channel, then
\* handleState.
HandleFrame(c, f, code) ==
  LET matched == {s \in On(c) : MatchState(f, state[s])}
      moved   == {s \in matched : NextState(s) # state[s]}
  IN
  /\ state' = [s \in Seqs |-> IF s \in moved THEN NextState(s) ELSE state[s]]
  /\ sent'  = [s \in Seqs |-> IF s \in moved THEN FALSE ELSE sent[s]]
  /\ age'   = [s \in Seqs |->
                 IF s \in moved /\ NextState(s) = "READY" THEN 0 ELSE age[s]]
  /\ second' = [s \in Seqs |->
                  \/ s \in matched /\ state[s] = "RETRIEVE_71E_2X" /\ ~second[s]
                  \/ s \notin moved /\ second[s]]
  /\ HandleState(f, code)
  /\ UNCHANGED <<update, value>>

\* Settings::emit: every sequence is read, which gives up the overdue ones and
\* yields the requests not yet sent; then the event, once both channels are
\* ready.
Overdue(s)  == Active(s) /\ age[s] >= Timeout
Yielding(s) == Active(s) /\ ~Overdue(s) /\ ~sent[s]

\* Fault: read returns for a request already sent before it looks at the clock.
EmitPatient ==
  LET gone(s) == Overdue(s) /\ ~sent[s] IN
  /\ state' = [s \in Seqs |-> IF gone(s) THEN "READY" ELSE state[s]]
  /\ age'   = [s \in Seqs |-> IF gone(s) THEN 0 ELSE age[s]]
  /\ sent'  = [s \in Seqs |-> sent[s] \/ Yielding(s)]
  /\ second' = [s \in Seqs |-> second[s] /\ ~gone(s)]
  /\ available' = (available /\ \E s \in Seqs : state'[s] # "READY")
  /\ UNCHANGED <<update, value, event>>

Emit ==
  /\ state' = [s \in Seqs |-> IF Overdue(s) THEN "READY" ELSE state[s]]
  /\ age'   = [s \in Seqs |-> IF Overdue(s) THEN 0 ELSE age[s]]
  /\ sent'  = [s \in Seqs |-> (sent[s] \/ Yielding(s)) /\ ~Overdue(s)]
  /\ second' = [s \in Seqs |-> second[s] /\ ~Overdue(s)]
  /\ available' = (available /\ \E s \in Seqs : state'[s] # "READY")
  /\ UNCHANGED <<update, value, event>>

\* The clock advances; the age of a sequence is followed up to its deadline.
Tick ==
  /\ \E s \in Seqs : Active(s) /\ ~Overdue(s)
  /\ age' = [s \in Seqs |-> IF Active(s) /\ ~Overdue(s) THEN age[s] + 1 ELSE age[s]]
  /\ UNCHANGED <<state, sent, second, update, value, event, available>>

\* What the bits of a frame may report: a code for each setting that its first
\* byte stands for.
Payload ==
  [f \in Responses |->
     {code \in [Items -> 0..7] :
        \A i \in Items : code[i] \in (IF StateFrame(i) = f THEN Codes(i) ELSE {0})}]

Next ==
  \/ \E cmd \in Commands : cmd[1] \in Items /\ Change(cmd[1], cmd[2])
  \/ RequestCurrent
  \/ ResetSettingsToDefault
  \/ \E c \in Channels, f \in Responses : \E code \in Payload[f] : HandleFrame(c, f, code)
  \/ Emit
  \/ Tick

Spec == Init /\ [][Next]_vars

\* The loop keeps calling emit and the clock keeps running; nothing is assumed
\* of the BCM or of the commands.
FairSpec == Spec /\ WF_vars(Emit) /\ WF_vars(Tick)

----------------------------------------------------------------------------
\* Every variable has the type of the member it stands for.
TypeOK ==
  /\ state \in [Seqs -> States]
  /\ sent \in [Seqs -> BOOLEAN]
  /\ age \in [Seqs -> 0..Timeout]
  /\ second \in [Seqs -> BOOLEAN]
  /\ update \in [Updates -> {"READY"} \cup Items]
  /\ value \in [Updates -> 0..255]
  /\ event \in [Items -> 0..12]
  /\ available \in BOOLEAN

\* At most one sequence of a channel is under way.  The four sequences of a
\* channel share its response frames (handleFrame offers each frame to all of
\* them), so a second one would consume the first one's answers.
Exclusive ==
  \A c \in Channels : \A s, t \in On(c) : Active(s) /\ Active(t) => s = t

\* A sequence stays on the course of its class, and an update is for one of
\* the settings: no frame takes it to a state that its nextE or nextF has no
\* case for, which would end it without leaving settings mode.
Reads(s) == IF s \in OnE THEN {"RETRIEVE_71E_10", "RETRIEVE_71E_2X"}
                         ELSE {"RETRIEVE_71F_05"}

Course(s) ==
  CASE s \in Inits     -> {"ENTER", "EXIT"} \cup InitStates
    [] s \in Retrieves -> {"ENTER", "EXIT"} \cup Reads(s)
    [] s \in Updates   -> {"ENTER", "EXIT", update[s]} \cup Reads(s)
    [] s \in Resets    -> {"ENTER", "EXIT", "RESET"} \cup Reads(s)

OnCourse ==
  \A s \in Seqs : Active(s) =>
    state[s] \in Course(s) /\ (s \in Updates => update[s] \in Items)

\* The setting and the code of an update under way do not change until it
\* ends: setPayload writes them before trigger is asked, so only the readyE and
\* readyF guards keep a second command from redirecting the first.
PayloadStable ==
  [][\A s \in Updates : Active(s) /\ state'[s] # "READY" =>
       update'[s] = update[s] /\ value'[s] = value[s]]_vars

\* Each channel, seen through its active sequence, is a transaction.
Op(s) == CASE s \in Inits     -> "init"
           [] s \in Retrieves -> "retrieve"
           [] s \in Updates   -> "update"
           [] s \in Resets    -> "reset"

Phase(st) == CASE st = "ENTER"              -> "enter"
               [] st = "EXIT"               -> "exit"
               [] st \in RetrieveStates     -> "read"
               [] OTHER                     -> "work"

Txn(c) ==
  IF Ready(c)
    THEN [op |-> "none", phase |-> "none", asked |-> FALSE, overdue |-> FALSE]
    ELSE LET s == CHOOSE t \in On(c) : Active(t)
         IN [op |-> Op(s), phase |-> Phase(state[s]),
             asked |-> sent[s], overdue |-> Overdue(s)]

OnChannelE == INSTANCE SettingsTransaction WITH txn <- Txn("E")
OnChannelF == INSTANCE SettingsTransaction WITH txn <- Txn("F")

\* Both channels of the node implement the transaction specification, whatever
\* frames arrive.
Transactions == OnChannelE!Spec /\ OnChannelF!Spec

\* A channel always comes back to ready, even if the BCM never answers: the
\* settings menu cannot be locked out for good.
ComesBack == \A c \in Channels : ~Ready(c) ~> Ready(c)
=============================================================================
