----------------------------- MODULE SettingsBus -----------------------------
(* The settings node talking to the BCM over the two settings channels.       *)
(*                                                                            *)
(* Requests and responses travel in order, but they cross the two CAN queues  *)
(* and the pipe between the cores, any of which may drop a frame when it is   *)
(* full, and take any time.  The BCM is modelled from docs/settings.md.       *)
EXTENDS Settings, Sequences

CONSTANTS MaxCommands,  \* how many commands the user issues
          LateCommands, \* how many, when answers may be late
          MaxLosses     \* how many frames are lost, when the BCM is prompt

ASSUME BudgetAssumption == {MaxCommands, LateCommands} \subseteq Nat /\ MaxLosses \in Nat

VARIABLES
  requests,   \* frames on their way to the BCM, by channel
  replies,    \* frames on their way to the node, by channel
  inMode,     \* the BCM is in settings mode, by channel
  codes,      \* the settings the BCM stores
  published,  \* the last event yielded, what the displays show
  outcome,    \* how the last transaction of a channel ended
  commands, losses,  \* how many are left
  prompt      \* the BCM answers before the deadline, but frames are lost; or the
              \* answers come at any time, and all of them do

envVars == <<requests, replies, inMode, codes, commands, losses, prompt>>
busVars == <<vars, envVars, published, outcome>>

Outcomes == {"none", "running", "complete", "overdue"}

BusInit ==
  /\ Init
  /\ requests = [c \in Channels |-> <<>>]
  /\ replies = [c \in Channels |-> <<>>]
  /\ inMode = [c \in Channels |-> FALSE]
  /\ codes \in [Items -> {0, 1}]
  /\ published = event
  /\ outcome = [c \in Channels |-> "none"]
  /\ prompt \in BOOLEAN
  /\ commands = IF prompt THEN MaxCommands ELSE LateCommands
  /\ losses = IF prompt THEN MaxLosses ELSE 0

----------------------------------------------------------------------------
\* Settings::emit reads the sequences in this order.
ReadOrder(c) ==
  IF c = "E" THEN <<"initE", "retrieveE", "updateE", "resetE">>
             ELSE <<"initF", "retrieveF", "updateF", "resetF">>

\* Fault: the value of an update is not passed on to the frame.
RequestNoValue(s) == [state |-> state[s], value |-> 0]

\* fillRequest: the frame of a state; only an update carries a value.
Request(s) == [state |-> state[s],
               value |-> IF s \in Updates /\ state[s] = update[s]
                           THEN value[s] ELSE 0]

\* What emit yields on a channel: the requests of the sequences that ask.
Yielded(c) ==
  LET asks(s) == IF Yielding(s) THEN <<Request(s)>> ELSE <<>>
      order   == ReadOrder(c)
  IN asks(order[1]) \o asks(order[2]) \o asks(order[3]) \o asks(order[4])

UserCommand ==
  /\ commands > 0
  /\ \/ \E cmd \in Commands : cmd[1] \in Items /\ Change(cmd[1], cmd[2])
     \/ RequestCurrent
     \/ ResetSettingsToDefault
  /\ outcome' = [c \in Channels |-> IF Ready(c)' THEN outcome[c] ELSE "running"]
  /\ commands' = commands - 1
  /\ UNCHANGED <<prompt, requests, replies, inMode, codes, losses, published>>

NodeEmit ==
  /\ Emit
  /\ requests' = [c \in Channels |-> requests[c] \o Yielded(c)]
  /\ published' = IF available /\ ~available' THEN event ELSE published
  /\ outcome' = [c \in Channels |->
                   IF ~Ready(c) /\ Ready(c)' THEN "overdue" ELSE outcome[c]]
  /\ UNCHANGED <<prompt, replies, inMode, codes, commands, losses>>

\* A response reaches the node.
Deliver(c) ==
  /\ replies[c] # <<>>
  /\ HandleFrame(c, Head(replies[c]).frame, Head(replies[c]).code)
  /\ replies' = [replies EXCEPT ![c] = Tail(@)]
  /\ outcome' = [outcome EXCEPT ![c] =
                   IF ~Ready(c) /\ Ready(c)'
                     THEN IF \E s \in Inits : Active(s) /\ s \in On(c)
                            THEN "none" ELSE "complete"
                     ELSE @]
  /\ UNCHANGED <<prompt, requests, inMode, codes, commands, losses, published>>

----------------------------------------------------------------------------
\* The BCM.  It answers a request for the settings with their codes, stores
\* what an update says, goes back to code 0 on a reset, and outside settings
\* mode answers nothing but the request to enter it.
Reply(f) == [frame |-> f, code |-> [i \in Items |-> IF StateFrame(i) = f THEN codes[i] ELSE 0]]

Answers(st) ==
  CASE st = "RETRIEVE_71E_10" -> <<Reply("10")>>
    [] st = "RETRIEVE_71E_2X" -> <<Reply("21"), Reply("22")>>
    [] st = "RETRIEVE_71F_05" -> <<Reply("05")>>
    [] OTHER                  -> <<Reply(st)>>

Serves(c, st) == st = "ENTER" \/ inMode[c]

BCMHandle(c) ==
  /\ requests[c] # <<>>
  /\ LET r == Head(requests[c]) IN
       IF Serves(c, r.state)
         THEN /\ inMode' = [inMode EXCEPT ![c] = r.state # "EXIT"]
              /\ codes' = [i \in Items |->
                             CASE r.state = i -> r.value
                               [] r.state = "RESET" /\ ItemChannel(i) = c -> 0
                               [] OTHER -> codes[i]]
              /\ replies' = [replies EXCEPT ![c] = @ \o Answers(r.state)]
         ELSE UNCHANGED <<inMode, codes, replies>>
  /\ requests' = [requests EXCEPT ![c] = Tail(@)]
  /\ UNCHANGED <<prompt, vars, commands, losses, published, outcome>>

\* A queue on the way is full and drops the frame.
LoseRequest(c) ==
  /\ losses > 0
  /\ requests[c] # <<>>
  /\ requests' = [requests EXCEPT ![c] = Tail(@)]
  /\ losses' = losses - 1
  /\ UNCHANGED <<prompt, vars, replies, inMode, codes, commands, published, outcome>>

LoseReply(c) ==
  /\ losses > 0
  /\ replies[c] # <<>>
  /\ replies' = [replies EXCEPT ![c] = Tail(@)]
  /\ losses' = losses - 1
  /\ UNCHANGED <<prompt, vars, requests, inMode, codes, commands, published, outcome>>

Drained(c) == requests[c] = <<>> /\ replies[c] = <<>>

ClockTick ==
  /\ Tick
  /\ prompt => /\ \A c \in Channels : Drained(c)
               /\ \A s \in Seqs : ~Yielding(s)
  /\ UNCHANGED <<envVars, published, outcome>>

BusNext ==
  \/ UserCommand
  \/ NodeEmit
  \/ \E c \in Channels : Deliver(c) \/ BCMHandle(c)
  \/ \E c \in Channels : LoseRequest(c) \/ LoseReply(c)
  \/ ClockTick

BusSpec == BusInit /\ [][BusNext]_busVars

\* Both loops keep running, the BCM keeps serving and the clock keeps going.
BusFairSpec ==
  /\ BusSpec
  /\ WF_busVars(NodeEmit)
  /\ WF_busVars(ClockTick)
  /\ \A c \in Channels : WF_busVars(Deliver(c)) /\ WF_busVars(BCMHandle(c))

----------------------------------------------------------------------------
\* The BCM is never sent anything but ENTER outside settings mode: it would
\* ignore the request, and the sequence would hang until its deadline.  With
\* late answers this is so for two commands but not for three: the answers to
\* ENTER pile up, and one meets a sequence that has not sent its own.
CommandsInMode ==
  \A c \in Channels :
    requests[c] # <<>> => Serves(c, Head(requests[c]).state)

\* Once an update has been acknowledged by a prompt BCM, it holds the value it
\* was given: the acknowledgement carries no value, so a stale one would look
\* the same.
UpdateApplied ==
  prompt => \A u \in Updates :
    state[u] \in RetrieveStates \cup {"EXIT"} => codes[update[u]] = value[u]

\* After a transaction that ran to its end the displays show what the BCM
\* stores, for every setting of the channel.  With late answers this is so for
\* three commands but not for four.
DisplayCurrent ==
  \A c \in Channels :
    /\ outcome[c] = "complete"
    /\ Drained(c)
    /\ ~available
    => \A i \in Items : ItemChannel(i) = c =>
         published[i] = Decode(i, codes[i], published[i])

\* After a transaction that ran to its end a prompt BCM has left settings mode.
LeavesMode ==
  prompt => \A c \in Channels : outcome[c] = "complete" /\ Drained(c) => ~inMode[c]

\* With a prompt BCM a sequence advances only on the answer to a request it has
\* sent: handle does not look at sent_, so a response left over from before
\* would do as well.
AnsweredWhenAsked ==
  [][prompt => \A s \in Seqs : Active(s) /\ state'[s] \notin {state[s], "READY"} => sent[s]]_busVars

\* News of a setting is published in the end: the event waits until neither
\* channel has a sequence under way.
NewsPublished == available ~> ~available
=============================================================================
