----------------------------- MODULE Bluetooth -----------------------------
(* The Bluetooth node (libraries/Bluetooth/src/Bluetooth/Node.cpp): the bus  *)
(* polls it, and the callbacks of the radio tell it of a phone that comes    *)
(* and goes.  ble_conn.update() makes the callbacks from loop(), on the I/O  *)
(* core.  The node is on the bus of that core in standalone.ino and on the   *)
(* bus of the other one in bridge.ino; then the two interleave.              *)
EXTENDS Naturals

CONSTANTS
  OtherCore,  \* whether the node is on the processing core's bus (bridge.ino)
  MaxChanges  \* bound: times the phone comes or goes

VARIABLES
  link,      \* external: a phone is connected
  radio,     \* external: what update() last told the callbacks
  data,      \* event_.data[0]
  emit_,     \* emit_
  callback,  \* place of onConnect or onDisconnect: "none" or "stored"
  bus,       \* place of emit or handle: "idle", "yields" or "yielded"
  shown,     \* state in the last event that the displays received
  changes    \* times the phone came or went

bleVars == <<link, radio, data, emit_, callback, bus, shown, changes>>

BleInit ==
  /\ link = FALSE /\ radio = FALSE /\ shown = FALSE
  /\ data = FALSE /\ emit_ = FALSE
  /\ callback = "none"
  /\ bus = "idle"
  /\ changes = 0

\* By itself, or since DISCONNECT_CMD or FORGET_CMD closed the connection.
PhoneComesOrGoes ==
  /\ changes < MaxChanges
  /\ changes' = changes + 1
  /\ link' = ~link
  /\ UNCHANGED <<radio, data, emit_, callback, bus, shown>>

\* onConnect() or onDisconnect(): first the data, then the flag.
Callback ==
  /\ radio # link
  /\ callback = "none"
  /\ OtherCore \/ bus = "idle"
  /\ radio' = link
  /\ IF data # link THEN data' = link /\ callback' = "stored"
                    ELSE UNCHANGED <<data, callback>>
  /\ UNCHANGED <<link, emit_, bus, shown, changes>>

CallbackEnds ==
  /\ callback = "stored"
  /\ emit_' = TRUE
  /\ callback' = "none"
  /\ UNCHANGED <<link, radio, data, bus, shown, changes>>

\* emit() finds the flag set, or handle() gets a request for the state.
Begin ==
  /\ bus = "idle"
  /\ OtherCore \/ callback = "none"
  /\ bus' = "yields"
  /\ UNCHANGED <<link, radio, data, emit_, callback, shown, changes>>

BleEmit    == emit_ /\ Begin
BleRequest == Begin

\* yield() hands the event to the other nodes of the bus.
Yield ==
  /\ bus = "yields"
  /\ shown' = data
  /\ bus' = "yielded"
  /\ UNCHANGED <<link, radio, data, emit_, callback, changes>>

\* The flag is cleared after the event is out.
Clear ==
  /\ bus = "yielded"
  /\ emit_' = FALSE
  /\ bus' = "idle"
  /\ UNCHANGED <<link, radio, data, callback, shown, changes>>

BleNext ==
  \/ PhoneComesOrGoes
  \/ Callback \/ CallbackEnds
  \/ BleEmit \/ BleRequest
  \/ Yield \/ Clear

\* Both cores loop for ever.  loop() calls update() once a turn, whatever the
\* bus has done in between.
BleFairSpec ==
  /\ BleInit
  /\ [][BleNext]_bleVars
  /\ SF_bleVars(Callback) /\ WF_bleVars(CallbackEnds)
  /\ WF_bleVars(BleEmit) /\ WF_bleVars(Yield) /\ WF_bleVars(Clear)

\* Node.h says of the STATE event that it holds the current connection state.
\* The displays have nothing else to go by: when the phone stays as it is,
\* what they show becomes the state of the connection.
StateReported == (changes = MaxChanges) ~> (shown = link)
=============================================================================
