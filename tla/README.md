# TLA+ models of r51-ecu-head

TLA+ specifications of the ECUs in this repository, checked with TLC on small
instances and, for the theorems listed below, proved with TLAPS for every value
of the constants. `PROJECT.json` lists the runs, the source lines each
definition stands for, the hazards in the code and the theorems.

Paths below are relative to `src/`; `Vehicle/`, `Core/` and so on stand for
`src/libraries/Vehicle/src/Vehicle/` and its likes.

## 1. The system

Three Arduino programs for the RP2040: `ecus/bridge` (vehicle CAN, J1939 and
Bluetooth), `ecus/controller` (J1939 and the screen) and `ecus/standalone`
(all of it in one). Each runs on both cores of the chip. Each core has a *bus*
(the Caster library) with a list of nodes. The bus calls `init` once on every
node and then `emit` on every node in turn, for ever. A message that a node
yields is handed to `handle` of every other node of the same bus, synchronously,
before `yield` returns. There are no threads inside a core, no locks besides
the spin lock of the startup barrier, and no interrupts that the nodes see.
What makes the system hard is between the buses: two cores with a lossy pipe
between them, CAN controllers with small FIFOs, and devices that answer late,
in another order or not at all.

| component | state | operations | interacts with |
|---|---|---|---|
| Settings node (`Vehicle/Settings.cpp`) | eight request sequences (state, sent, start time), the packed STATE event, `available_` | 14 commands, two channels of response frames, `emit` | BCM by CAN frames 0x70E/0x71E and 0x70F/0x71F; the screen by events |
| SyncWait (`Platform/SyncWait.cpp`) | a ticket count under a spin lock | `wait` | both cores |
| Pipe (`Platform/Pipe.cpp`, `ecus/*/Pipe.h`) | two bounded queues | `handle` with a filter, `emit` | both buses |
| J1939Gateway (`Core/J1939Gateway.cpp`) | address, preferred address, NAME | `init`, `handle`, `emit` | J1939 bus; adapters through J1939_CLAIM messages |
| J1939Adapter (`Core/J1939Adapter.cpp`) | source address | event to message and back | gateway, through the pipe |
| PlatformConfigStore (`Platform/Config.cpp`) | a flash page | `load`, `save` of the tire map | TirePressure |
| TirePressure, Illum, Defrost (`Vehicle/BCM.cpp`) | tire map, last pressures, momentary output | frames, swap commands | screen, config store, GPIO |
| MomentaryOutput (`Vehicle/MomentaryOutput.cpp`) | pin, phase, trigger time | `trigger`, `update` | GPIO |
| Climate (`Vehicle/Climate.cpp`) | three events, two control frames of bits that flip, startup pulse | two status frames, commands, `emit` | climate controller by CAN, screen |
| ECM, IPDM (`Vehicle/ECM.cpp`, `IPDM.cpp`) | last event, ticker | frames, `emit` | screen |
| Keybox, Keypad (`Blink/`) | believed state, fault and duty cycle of each output | commands, requests, claims, fault reports, keys | power, screen, two devices on J1939 |
| Fusion stereo (`Controls/Fusion.cpp`) | boot machine, reassembly of state frames, menus, volume | J1939 messages, commands | HMI |
| HMI (`Controls/HMI.cpp`) | page, copies of all events | events, serial commands of the screen | everything |
| Power, Nav, Steering (`Controls/`) | brightness, long press and repeat timers | key events, encoder events | HMI, stereo, climate |
| RotaryEncoder, steering keypad | last position and button | polling | controls |
| Bluetooth (`Bluetooth/`) | connection, RealDash frames | callbacks, `emit` | phone |
| RealDash and CAN gateways (`Core/RealDash.cpp`, `Core/CAN.cpp`) | heartbeat counter | copies of frames | connections |
| Console (`Console/`) | parser of words | text commands | any event |

### What is hard, and what would make it right

* **Settings.** A change of a setting is four to six exchanges over a channel
  that loses frames, under one deadline for all of them, with the four
  sequences of a channel listening to the same answers. Right means: one
  transaction at a time, in protocol order, no command redirecting another, no
  request outside settings mode, the displays showing what the BCM stores when
  it is over, and never a sequence that stays busy. The values themselves go
  through two different encodings: right means that one command is one step of
  the menu and touches nothing else.
* **Two cores.** Right means: they start together, no message is lost without
  being reported, doubled or overtaken, and what enters the pipe leaves it.
* **J1939.** The address can be lost at any moment while the nodes on the other
  core still use it. Right means: the negotiation ends, nobody speaks in the name
  of another controller, the nodes learn the new address.
* **Config store and tires.** The tire map lives in flash, whose bits only go
  from one to zero, while swaps, frames and power failures come in any order.
  Right means: no tire is ever hidden, pressures stay with their tires, a boot
  brings back the last map.
* **Stereo.** The head unit reports its state in messages of several frames that
  are told apart by a counter of three bits, and boots in a chain of requests with
  one timer that three states share. Right means: a boot ends, its timer never
  fires under a stereo that plays, no frame changes what its message is not about,
  what was learnt during a boot is shown when it is over, and a step of one level
  leaves the others alone although fade and volume share one representation.
* **Climate.** A command is a bit that *differs* from the last frame. Right means:
  it arrives although frames are lost, and a restart, which puts all bits back to
  zero, commands nothing. Every state reported is shown (it is not: finding 1).
* **Power panel.** Outputs trip and recover in the device, a claim restarts the
  keypad, commands cross reports. Right means: the LEDs tell the truth.
* **Keys and knobs.** A press, its release and its timeout are handled in two
  places. Right means: each press leads to one action, and in the meaning of the
  page it began on. The display changes its page by itself while the node asks it
  for a row, and the answer shares the line with reports.
* **Defrost output.** A press that is released by polling, with a cooldown. Right
  means: the button is let go.
* **Bluetooth.** Callbacks of one core write a node that the other core polls.

## 2. The modules

| module | models | state and actions against the code |
|---|---|---|
| `SettingsCodec` | the encodings of the nine settings | `Decode` is the switches of `handleState05/10/21/22`, `CommandTable` those of the toggle/next/prev methods; two tables because the code has two |
| `Settings` | the settings node, open to any frame at any time | one entry of `state`, `sent`, `age`, `second` for each `SettingsSequence` member (`state_`, `sent_`, clock minus `started_`, `state2x_`); actions `Change`, `RequestCurrent`, `ResetSettingsToDefault`, `HandleFrame` (all four sequences of the channel and the state frame, as in `handleFrame`), `Emit` (all eight `read`s, then the event), `Tick` |
| `SettingsTransaction` | what a channel promises: the abstract specification | one record: operation, phase, asked, overdue |
| `SettingsBus` | `Settings` with the BCM and channels that lose or delay frames | `requests`, `replies`, and the BCM's mode and settings; the BCM is external, modelled from how the node uses it and from `docs/settings.md` |
| `SettingsMenu` | the bits: the four bytes of the event, the eight of each state frame | `Set`/`Get` are the setters and getters, `Extract` the masks of `handleState*`; the BCM answers at once |
| `SyncWait` | the barrier | one `Turn` is one pass through the loop, which runs under the spin lock |
| `Pipe` | both pipe nodes and both queues | `Handle`, `PipeEmit`; counters of offered, refused, dropped and yielded messages are history |
| `TwoCores` | an ECU: `SyncWait` and `Pipe` composed with the two setups and loops | `InitFirst` chooses between `bridge.ino` (buses initialised before the barrier) and `standalone.ino` (after it); `Attached` says which pipe nodes are in the node lists |
| `J1939Gateway` | gateways on one bus, each with its nodes behind a pipe | `Start` is `init`, `ReceiveKeep` and `ReceiveYield` are `emit` with a frame that leaves or takes the address, `Handle` is `handle`; `NodesTake`, `NodeSends` are the adapter; `held`, `missed`, `wrote` are history |
| `ConfigStore` | `PlatformConfigStore` and the page of flash | `Load` is the constructor, `Save` is `saveTireMap` with all of `save`; `Program` is what programming a page of NOR flash does |
| `TirePressure` | the tire pressure node with its store, across boots | `Boot`, `HandleFrame`, `YieldEvent`, `Swap` are the constructor and the handlers; `SwapCut` is a swap in whose `save` the power fails; `reported`, `saved`, `cuts` are history |
| `Fusion` | the stereo node as operators on one record | each `Handle*` maps the record before a message to the one after it; `sent` are the frames it writes, `shown` the last event of each kind the displays got; `ResetResumes` says what the external `Ticker::reset()` does to a paused ticker |
| `StereoBus` | `Fusion` on its bus | the head unit (external), a bus that loses frames, a claim and its loss, the two tickers, a user; `head` and `mixed` are history |
| `Climate` | the climate node and the A/C amplifier | `HandleSystemFrame` is the airflow and the system part of `handleSystemFrame`, `HandleClimateEvent` the commands, `Emit` the control frames with the pulse of the first 400 ms, `Restart` a new boot; `credit` and `phantom` are history |
| `MomentaryOutput` | the output and `Defrost` | `Trigger`, `Update`, and time with a bound on how long the loop may be held up |
| `PowerPanel` | keypad, keybox and `PowerControls` as one record, with the two devices | they sit on one bus, so a key is handled through all three before `handle` returns; `news` are fault reports on their way, `doubt` is history |
| `Keys` | `LongPressButton`, `RepeatButton` and the steering controls | `KeyPressed`, `KeyReleased` are what the ladder reports, `KeysEmit` the poll; `sent` is history |
| `Screen` | `HMI`, `NavControls` and the display | `Reads` is one message of the serial line, `Knob` an encoder event through both nodes with the `getVal` it asks; `rx` is the line; `swallowed` and `wrong` are history |
| `Bluetooth` | the Bluetooth node and its callbacks, statement by statement | `Callback`, `CallbackEnds` on the I/O core; `Begin`, `Yield`, `Clear` are the parts of `emit` and `handle` on the core of its bus |

`MC*` modules give the constants their values. Definitions whose comment begins
with "Fault:" are wrong variants of the definition that follows them; no
behaviour of the system uses them. Each shows that one of the properties
notices that fault: when it takes the place of the definition after it, the
property fails (the table `mutants` of `PROJECT.json`).

## 3. The runs

| run | expects | what it shows |
|---|---|---|
| `settings_node` | pass | The node against *every* response frame in every order. `Exclusive`: at most one sequence of a channel is under way. `OnCourse`: a sequence is always in a state its class has a case for. `PayloadStable`: a second command does not redirect an update under way. `Transactions`: each channel implements `SettingsTransaction`. `ComesBack`: every sequence ends |
| `settings_loss` | pass | Node and BCM with one frame lost anywhere, and, with one command, with answers later than the deadline, so that frames of a sequence that was given up meet the next one. `CommandsInMode`: nothing but ENTER reaches a BCM outside settings mode. `UpdateApplied`: an acknowledged update is what the BCM holds. `DisplayCurrent`: after a complete transaction the published event is what the BCM stores. `LeavesMode`, `AnsweredWhenAsked`, `NewsPublished` |
| `two_cores` | pass | `Accounted`, `InOrder`, `NothingCrossesEarly`, `BothStart`, `BothDelivered` |
| `bridge_pipe` | violation | `LeftDelivered` (finding 2) |
| `bluetooth_bridge` | violation | `StateReported` (finding 3) |
| `j1939_gateway` | pass | `NeverRetried`, `NoStaleSource`, `NodesFollow` with frames of other controllers that contest the address |
| `j1939_claims` | violation | `AddressesNegotiated` (finding 4) |
| `tires` | pass | Frames, swaps, boots and power failures in any order. `EveryTireMapped`: no position loses its sensor. `ShownWhereMounted`: the values on display move with the map. `NoOlderMap`: a boot finds the last map saved or none |
| `tires_reboot` | violation | `SurvivesReboot` (finding 5) |
| `stereo` | pass | Seven scripts: a boot with and without losses, volume and fade, tone and balance, media, texts with losses, the settings menu. `BootEnds`; `OnUndisturbed`: the boot's timer rests while the stereo plays; `ShownCurrent`: the displays have what the node has; `Attributed`: no frame changes anything in the name of another message; `EchoAsMeant`: a step sent to the stereo and reported back is one step of one level |
| `cabin` | pass | Six parts, each in all its behaviours. `CommandsArrive`, `NoPhantom` (climate); `PressEnds` (defrost); `LedsTrue` (panel); `EveryPressAnswered` (steering keys): one command per press, short or long; `EncoderMeant`: a knob acts on the row the driver sees; `KnobPressInPage`; `OneMenuStep`: every combination of the nine settings, one command is one step of one setting, or none at its end |
| `climate_mode` | violation | `SystemShown` (finding 1) |

### Bounds, and why they are enough

* `Timeout = 1` (settings). The deadline is compared with the clock only by
  `read`, and `Tick` may happen between any two steps. With one tick the
  deadline can pass in every state of every sequence. A larger value only adds
  states in which nothing differs.
* `Items = {doorUnlock, seat}` in `settings_node`, and `wiper` besides in
  `settings_loss`. The sequences treat the settings alike except for the channel,
  and channel F has one setting only. What differs between settings is their
  encoding, which `cabin` checks for all nine, and the state frame that reports
  them: `doorUnlock` is in 0x10, which is asked for alone, and `wiper` in 0x22, the
  second frame of a pair. A sequence that took one frame for both would leave the
  wiper unread when the other one is lost, and `DisplayCurrent` fails for that
  variant. That the code accepts a *second copy* of one frame for both
  (`Settings.cpp:436`) is in the model, but a BCM sends such a copy only late.
* `MaxCommands = 2`, `MaxLosses = 1`. Two commands are a transaction and one
  that meets its remains; with the init sequences this is up to three
  transactions of a channel. One loss anywhere is enough for every sequence to
  run into its deadline.
* `prompt` is chosen at the start and separates two regimes. `TRUE`: the clock
  advances only when no frame is on its way, i.e. the BCM answers within 500 ms or
  not at all. `FALSE`: any delay, no loss, and `LateCommands = 1` besides the init
  sequences, which are the transactions whose remains it meets; two commands make,
  even with two items, a run of 580,000 states that takes the whole time of the others.
  `UpdateApplied`, `LeavesMode` and `AnsweredWhenAsked` are stated for the first. With late
  answers `UpdateApplied` does *not* hold: the acknowledgement of an update names
  the setting and not the value, so that an old one passes for a new one.
  Exploration with five commands and no loss found this; fewer do not show it.
  Nor are the other two properties the node's merit in that regime: with the
  item `doorUnlock`, one channel and no loss, `CommandsInMode` holds up to `LateCommands = 2` and fails
  with 3, `DisplayCurrent` holds up to 3 and fails with 4, each by a frame of an
  older transaction that is taken for the current one's. (With `wiper` both hold and
  fail alike as far as explored, which is up to 3 commands.) What is checked against
  every late or left-over answer is the node's side, in `settings_node`: such an
  answer moves a sequence by one phase at most and in order. The theorems about the bus
  are therefore about the prompt regime, and there for any number of commands.
* `LeftCapacity = 2`, `RightCapacity = 1`, `MaxOffered = 4`. The capacities
  differ, so swapping them shows, and four messages fill and overrun both. The
  theorems hold for every capacity and number of messages. The run starts in the
  bridge's order, buses before the barrier, where messages are in the pipe before
  the cores meet; with the other order nothing can be in it. The theorems hold for
  both.
* `Null = 4`, `Room = 2` (J1939): four addresses, preferred in the middle so
  that the walk wraps, and frames that contest each of them with a higher and a
  lower name. The theorems are for every size, 0xFE included.
* `Pressures = {0, 1}` (tires): any two sensors differ in some frame, which is
  all that tells positions apart. Operands of a swap are four bits; 4 stands for
  4 to 15, which the code treats alike. `MaxCuts = 1`: after one failure inside a
  save the page is as it was or `Garbled`, and a second one adds no other page.
  The theorems hold for any number. `tires_reboot` has none: the map is lost
  without any failure.
* The page of flash is a map, erased, or garbled. That every AND of images of two
  or more of the 24 maps is garbled, i.e. its CRC does not fit, was computed for
  all of them.
* `stereo`: the head unit's and the user's choices are grouped into scripts, since
  what they touch is disjoint: a state with a volume, a menu and a title in
  progress at once differs from three states in nothing but its size. Losses are
  isolated, one per two messages; a counter of `NumIds = 3` identifiers (8 in the
  code) repeats earlier than the code's, so mistakes are more likely, not less.
  Losses that hide a whole round of identifiers are left out: they would make two
  messages look like one. The theorems hold for every counter of three or more, for
  messages of any length and for any mixture of the scripts. Five of the scripts
  begin with messages of the head unit that arrive in one order and without loss, so
  that the script is about a stereo that plays; the node meets them like any others,
  with timers, claims and the user in between. Levels have two to seven
  values; `VolumeMax = 6` is larger than the cut of the largest fade, so that
  volumes on both sides of it occur.
* `cabin`: the parts share no variable, so any interleaving of them is a pair of
  behaviours of single parts; a behaviour is one of a part. Climate: two commands,
  two lost frames, one restart. Three frames carry the initial content, and
  `MaxLost = 2` cannot lose all; with three, `NoPhantom` fails, as the code must
  expect. `PhantomNeedsLosses` says the same for every length of the start: no
  phantom command before as many frames are lost as a start sends. (The factory unit
  sends at least four pairs of initialization frames, `docs/climate.md:745`; the code
  leaves off after `CONTROL_INIT_EXPIRE`, which is three.) Defrost: milliseconds of which three are a press; the theorem is for
  all. Panel: an output with an LED of its own and one that trips, two trips.
  Keys: two ladders with two keys and one with one, long presses of one and three
  units. Screen: four inputs and three reports in the line, enough for a press,
  a page that changes under it and a release or a timeout.
* `bluetooth_bridge`: `MaxChanges = 2` is the shortest history whose end can be
  lost. With `OtherCore = FALSE`, the arrangement of `standalone.ino`, TLC finds no
  violation of the same property.

Deadlock is checked in all runs but those of `TwoCores` and `MCCabin`. The first
stop when both cores have produced `MaxOffered` messages and the queues are empty;
in the second the bounds on inputs stop the screen.

### Fairness

Liveness needs that `Emit`, `Tick`, `PipeEmit` and the startup steps happen when
they stay possible. The Arduino core calls `loop` and `loop1` for ever; the bus
goes round all its nodes in each (`standalone.ino:283-295`); `millis()` advances
by itself. The two cores are separate processors, so fairness is stated for
each. The spin lock of the RP2040 is granted eventually. `BusFairSpec` also
assumes a BCM that keeps serving, which `ComesBack` in `settings_node` does not
need: there only the deadline brings a sequence back. In `StereoBus`
the two tickers become due and `Emits` is called; nothing is assumed of the head
unit, so that `BootEnds` is due to the node alone. In `Climate`, `Emit` and the
time; the lost frames are bounded by `MaxLost`. In `Bluetooth`, the callback is
strongly fair: `loop()` calls `update()` in each turn, whatever the bus did before.
Nothing is assumed of users, commands or losses.

## 4. What is proved

All by TLAPS, from no assumptions besides the named `ASSUME`s of the modules,
which TLC evaluates in the runs, and those that the theorem on the defrost output
states. Each invariant named below was checked by TLC on the instance of its run
before it was proved.

* **Settings** (`SettingsProofs`, `SettingsRefinement`), for every set of settings
  and every deadline. `TypeCorrect` is the invariant `TypeOK`. `OneAtATime` is
  `Exclusive`, inductive together with the types: commands start a sequence only
  on a ready channel, `RequestCurrent` and `ResetSettingsToDefault` start one on
  each of two ready channels, and frames, clock and emit never start one.
  `UpdateNotRedirected` follows since `update` and `value` are written only when
  the channel is ready. `StaysOnCourse` is `OnCourse`, inductive with `Exclusive`:
  `NextState` falls through to READY for a state outside the class, so the
  invariant says that this never happens. `ChannelsImplement` is the refinement
  `Spec => Transactions`. The mapping `Txn(c)` shows the one active sequence of
  a channel (that there is one is `Exclusive`). Every step of the node is then one
  step of `SettingsTransaction` or a stutter: a command begins (`CommandBegins`),
  emit asks or gives up (`EmitAsks`), a response answers or finishes
  (`ResponseAnswers`, which needs `OnCourse`), the clock expires (`TickExpires`).
* **Settings on the bus** (`SettingsBusProofs`), for every set of settings, every
  deadline, any number of commands and of lost frames. `BusImplementsNode` says that
  the BCM and its channels are one of the environments the node was proved against,
  so that `Exclusive` and `OnCourse` hold on the bus as well. What a *prompt* BCM
  adds is `PromptInv`: a channel has at most one request or its answer on its way,
  and it is for the state of the one sequence that is waiting (`OnTheWay`); by that
  state the BCM is in settings mode or not (`Moded`), it holds the update or not yet
  (`Stored`), and the event has seen the frames that have come (`Seen`). From it
  follow `PromptInMode`, `UpdatesArrive`, `PromptDisplays`, `ModeIsLeft` and
  `AdvancesWhenAsked`. None of the five is inductive: each needs that there is no
  second exchange whose frames could be taken for those of the first.
* **Two cores** (`TwoCoresProofs`). The barrier's
  `Together` is not inductive: `TicketsLeft` is, which counts the tickets left
  against the cores that have not taken one. `NothingLostSilently` and
  `OrderKept` are for every capacity and unboundedly many messages. `EcuImplements`
  shows that the composition implements barrier and pipe, so that their theorems
  carry over; `CrossesAfterStart` combines both: a message is yielded only by a
  core that is past the barrier, and then the other one has left its setup.
* **J1939** (`J1939Proofs`), for every number of gateways, every size of the
  address space and every frame on the bus. The invariant `Walk` says that the
  addresses a gateway has held are exactly the arc from its preferred address to
  the current one, around the end of the space, or that it has none any more.
  `NeverRetried` itself is not inductive: that the next address was not held
  needs that the held ones are an arc. `AddressNeverRetried` and
  `NeverSpeaksAsAnother` follow. The assumption that the preferred address is
  not 0 is needed: the walk goes from 253 to 1, never meets 0 and would go
  round for ever. No ECU is configured that way (0x18, 0x19, 0x20).
  `GatewayTypeCorrect` is `TypeOK` for every capacity of the queue. `NodesLearnAddress`
  is `NodesFollow`; its invariant says that the last claim in the queue to the nodes
  has the gateway's address, and that with none in it the nodes have that address
  already, unless the last claim found no room.
* **Tires** (`TirePressureProofs`), for every set of pressures and any number of
  power failures. `EveryTireKept` is `EveryTireMapped`, inductive with the types:
  a swap of a permutation is one (`SwappedPermutation`), and what reaches the
  flash is the node's own map or no map (`PageAfterSwap`). `ShownRight` needs
  `Current`, which says of the stored event what `ShownWhereMounted` says of the
  published one, and that both agree. `BootsLastMap` needs `LastInFlash`: a map
  in flash is the last one saved. It is inductive because programming over
  another map leaves none.

* **Defrost and keys** (`CabinProofs`). `PressAlwaysEnds` is `PressEnds` for a drained
  output and all times whose gap is no longer than the cooldown. The invariant
  must say how long ago the last `update` was: an overdue press is younger than
  the trigger time and *that* gap. Without the assumption it is false, since
  `update` forgets a press that it sees after the cooldown. `PressesAnswered` is
  `EveryPressAnswered` for every ladder and all times; the invariant says that the
  state of a button remembers whether this press was answered.
* **Climate** (`CabinProofs`), for every set of bits, any number of commands and
  restarts. `ClimateInductive`: while the initial frames go out (`Starting`) the
  amplifier knows all bits of a frame as zero or every one sent so far was lost;
  after that, each bit that it has not seen yet was flipped by a command. Hence
  `PhantomNeedsLosses`, and `NoPhantomCommands` where the bus loses fewer frames
  than that.
* **Screen** (`CabinProofs`). `PressesEndWithPage` is `KnobPressInPage`, which is
  inductive. `EncoderCommandsMeant` is `EncoderMeant`: as long as `getVal` has not
  taken a page report for its answer, the last page report on the line is the page
  of the display, and with none on the line the node knows that page (`Tracks`).
* **Panel** (`CabinProofs`). `LedsAreTrue` is `LedsTrue`, for any devices, outputs that
  can trip and number of trips. `PanelInductive` says of each output: the last report
  about it that is on its way, or with none the node's record of faults, tells
  whether it has tripped; its LED shows that record and the believed state; and it
  is on only if the node believes so and no report about it is on its way.
* **Stereo** (`StereoProofs`), for every set of reports, commands and requests, every
  limit of the levels, messages of any length, and isolated losses. Each handler is proved to be a step of one kind:
  it leaves everything alone that properties are about, or it moves levels, the life
  of the node (discovery, boot, power), or the source; and what is shown stays
  current. `BusInv` adds to that the place of the node in the message under way
  (`Placement`): between isolated losses either the frame that comes next continues
  the message the node is in, or the node does not take it for a continuation. From
  it follow `StereoTypeCorrect`, `TimerNeverTurnsOff`, `DisplaysShowStereo` and
  `FramesAttributed`. `LevelsMoveAsMeant` is `EchoAsMeant`: of the volumes of two zones
  the larger one is the volume, and a node that has a fade keeps it, since it takes
  one from a report only when it has none.
  `ReportsAssumption` is about the outside: the head unit reports levels within their
  limits, which the node does not check; a message of a state with several frames
  has more than one; and a command that sets the fade has a number.
  `FadeAssumption` leaves out multipliers so small that a difference of two volumes
  would be a fade beyond the largest one; 24 / 3 is 8 in the code.

Only model-checked:

* `OneMenuStep`: one finite instance, the nine settings of the car, all of whose
  states the run visits.
* The regime of late answers of `SettingsBus`, for the reason given under the
  bounds.
* `ComesBack`, `NewsPublished`, `BothStart`, `BothDelivered`, `BootEnds` and
  `CommandsArrive`: liveness under fairness is out of the prover's reach.

## 5. Where code and comments disagree

1. `handleSystemFrame` overwrites what it noted of a change of mode
   (`Vehicle/Climate.cpp:143-145`), so a change of the mode alone is not published
   until another change comes. `Vehicle/ClimateEvents.h:12` says of the event that
   it holds the climate system state, and `docs/climate.md:340` that the current
   state is shown on the screen. Run `climate_mode`.
2. The bridge's list `proc_nodes` (`bridge.ino:97-116`) lacks `pipe.right()`. What
   the left node queues is never read, and nothing that the processing core
   yields reaches the I/O core. Run `bridge_pipe`.
3. The bridge's processing bus owns `ble_monitor`, whose callbacks run on the I/O
   core (`bridge.ino:109-110`, `213-218`). `emit` yields the event and clears the
   flag afterwards (`Bluetooth/Node.cpp:36-37`): a callback in between is
   forgotten. `Bluetooth/Node.h:11` promises the current connection state. Run
   `bluetooth_bridge`.
4. `isAddressClaim` (`Core/J1939Gateway.cpp:19`) tests for the PDU format of a
   request (0xEA), while claims are sent as 0xEE. Two gateways with the same
   preferred address keep it. The unit tests build their claims with 0xEA00.
   Run `j1939_claims`.
5. `Platform/Config.cpp:62` programs the page without erasing it; only a page
   that was invalid at boot is erased. `Vehicle/Config.h:6-7` promises values that
   are persistent across reboots. The first save after an erase persists; a
   second one with another map makes the page invalid, and the next boot
   returns to the default. Run `tires_reboot`.

Met while modelling, and not the subject of a run:

* `SettingsSequence::handle` is documented to reset the sequence on a frame that
  does not match (`Vehicle/Settings.cpp:332-335`); it ignores the frame.
* `Platform/Pipe.h:44-45` says that the left node writes to the left queue; it
  writes to the right one, whose capacity is the second argument, so the
  standalone ECU's 256 places are those of the other direction. `Pipe` has it as
  the code does.
* `getVal` waits for the display's answer for ever, and takes any message for it
  (`HMI.cpp:1303`). A page report swallowed that way leaves `page_` behind, and a
  knob then acts on a row of another page. `EncoderMeant` ends there.
* `navDown` on the first row of the third settings page goes to the first one
  (`HMI.cpp:967-968`). Rotating the pages never reaches the vehicle page, unlike
  `Screen.h:45`. A row 0 of the stereo's menu becomes item 255.
* Audio: `SETTINGS_EXIT` is announced with the identifier of an item, and fade is
  set with that of balance (`Audio.h:232`, `355`); `RADIO_PREV` in manual mode
  seeks upward (`Fusion.cpp:282`).
* Keybox: an output that is believed on survives the reset or recovery of a fault,
  so the next toggle is lost; the state request leaves out pin 12; a fault clears
  the duty cycle sent but not the one remembered. A claim turns the LEDs off and
  nobody reports the outputs again. Of the two spot lights that one key toggles
  one is shown. `LedsTrue` leaves these out by name.
* Two equal climate commands of which the first frame is lost cancel each other.
* A lost release makes a repeating key repeat for ever.

## 6. Abstractions

* A frame is named by what it acknowledges or, for a state frame, by its first
  byte; the bits are in `SettingsMenu`, which the run `cabin` holds. The request frames carry the state they
  were filled for and the value of an update.
* `started_` and the clock are one number, the age of a sequence, capped at the
  deadline, where it stops mattering. `sent_`, `started_` and `state2x_` of a
  ready sequence are kept at FALSE and 0, since `trigger` and `reset` write them
  before they are read again.
* `handle` and `emit` run to their end without interference, since a core has
  one loop. Caster delivers a yielded message before `yield` returns; the nodes
  modelled here do not react to what they yield themselves.
* A write to a CAN connection never fails in `J1939Gateway`; `write` drops the
  frame when the FIFO is full. In `SettingsBus` that is a lost frame.
* The gateway's `emit` calls are those of one bus turn per frame; the queue to
  the nodes has *any* part of its room left when the gateway yields, because
  other traffic shares the pipe. The J1939 adapter's handling of incoming
  events changes no state and is left out.
* `wrote` starts as a claim of the null address, which stands for "nothing yet".
* `NoStaleSource` is about gateways that filter (standalone). Those of the
  bridge and the controller are promiscuous and forward everything by design.
* `save` is one step besides failures of power: interrupts are off and the other
  core is idled around it. A failure while the sector is erased at boot leaves
  a page that the next boot erases again, as `Erased` and `Garbled` do. The
  tire node's ticker and the request for its state both lead to `YieldEvent`.
* Time is counted in units that tell the deadlines apart: 100 ms for the climate
  node, trigger and cooldown in a few milliseconds for the output, the long press
  and repeat times for keys. A ticker is paused, running or due, and becomes due at
  any time; `Ticker` belongs to an external library. Whether its `reset()` resumes
  a paused ticker is the constant `ResetResumes`, FALSE in the run; the properties
  hold either way.
* The stereo's strings are the number of their frames that fit the buffer, its
  frequencies and gains small numbers; a menu's items are numbers.
* The writes of values into fields of the display (text, pictures, values) are
  left out of `Screen`; commands that change its page, its selection or its
  brightness are kept. The display is external: it changes its page by touch or
  by itself and reports it.
* The keybox and the keypad obey a command at once. The head unit sends a message
  frame by frame without another message in between; the A/C amplifier acts on
  bits that differ from the last frame it received.
* The Canny connections, Caster, the pico SDK's queues and spin locks, and the
  BCM are not part of the repository; they are modelled as the code uses them.

### Not modelled

* `Vehicle/ECM.cpp`, `IPDM.cpp` and `Illum`: each copies bits of one message into one
  event and yields it when it changed, on request or periodically. A property of
  that would repeat the assignment.
* `RotaryEncoder`: polls a device and yields the difference of two readings; its
  events are inputs of `Screen`.
* RealDash and CAN gateways: copies of messages to and from a connection.
* Messages and events: value types. Console: text in, text out. Test helpers,
  `tools/`, `ui/`, hardware setup, the watchdog: no protocol.
* Interrupt-level races of the Arduino libraries are out of the model's reach.

## 7. Plan

All components with state that outlives a message are modelled, and every safety
property of the passing runs but `OneMenuStep` is a theorem, in the regimes that
section 4 names; `OneMenuStep` is about one finite table, which TLC visits whole. What is left, in this order:

1. An abstract specification of what the tire map promises across boots, with
   `TirePressure` shown to implement it, and one of the stereo's boot.
2. The regime of late answers: which part of the displays' agreement survives an
   answer that is later than the deadline, as an invariant.
