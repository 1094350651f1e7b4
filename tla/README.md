# Verification of joc-app-rust

TLA+ specifications of the flight application in `src/`, the runs of the model
checker TLC on small instances, and proofs that the TLA+ proof system checks
for every instance. Paths below are those of the repository, with its root
called `src/`: the crate is in `src/src/`.

## 1. The system

An application partition for a microcontroller. The kernel (a fixed-priority,
preemptive, single-core RTOS) calls `rust_app_start`, which spawns the tasks of
the application; they reach drivers and kernel through a table of C functions
(`abi.rs`, `device/`). Two builds matter: the default one reads sensors (or a
recorded flight), the one with the cargo feature `hil` gets its sensor data from
a PC over `usb0` and runs the control step on events.

| Component | State | Operations | Interacts by | What makes it correct |
|---|---|---|---|---|
| control task, prio 4 (`flyctrl/control.rs`) | filter and controller context, hold altitude | read frame, `step_hil`, PWM, publish | reads `SENSOR_FRAME`, `G_CMD_*`; writes `EST_STATE`, `G_ACTUATOR_CMD`; `HIL_EVT`, `EST_MTX` | never stopped for ever; acts on every sample and command; a frame of one instant |
| sensors task, prio 5 (`flyctrl/sensors_task.rs`) | the drivers | read all, write the frame | `SENSOR_FRAME`, `SENSOR_SEQ` | a frame torn by one sample at most |
| uplink task, prio 10 (`flyctrl/uplink.rs`) | parser, parameters, mission, fence, override, commands | poll `usb0`, route a frame to its handler, answer, parameter stream | all `G_*` state, `SENSOR_FRAME` (HIL), `HIL_EVT`, `USB_TX_MTX` | see mission, fence, parameters, override |
| telemetry task, prio 12 (`flyctrl/telemetry.rs`) | sequence number, snapshot | snapshot, burst of frames | `EST_MTX`, `USB_TX_MTX` | a burst describes one estimate; frames do not mix; cycles end |
| mutex, semaphore, sleep (`rtos_sync.rs`) | kernel semaphores | lock, guard, wait, give, msleep | everything above | exclusion, no deadlock, waits that end |
| mission store and handshake (`uplink.rs` 148-166, 650-721) | slots, count, handshake state | request list, count, item | ground station over `usb0` | a completed upload is what a download returns |
| fence, parameters, RC override, commands (`uplink.rs`) | fixed tables, flags, ages | one handler per message | control reads them without a lock | indices in range, range checks, nothing stale |
| log (`log.rs`) | ring of bytes, head, tail, flag | `emit`, `log_task` | every task logs; `uart0` | never blocks; whole lines in order; critical entries kept |
| frame parser, GPS, SBUS (`uplink.rs` 216-298, `sensors/gps`, `sensors/rc`) | partial frame, last value, health | feed bytes, drain, read | byte streams | every whole frame is found, staleness noticed |
| IMU, baro, mag, simulated sensors, sensor stack (`sensors/stack.rs`, `sensors/sim`) | handle and healthy flag; playback index | construct, advance, read | `sensors` task; the chips share `i2c0` | one sensor's failure costs its own readings only; a recorded frame is one frame |
| start-up (`lib.rs`, `spawn_flyctrl` in `flyctrl/mod.rs`) | what is initialised, which tasks exist | version check, fill the globals, init the semaphores, spawn | writes all globals; the tasks it creates may run at once | nothing is used before it is initialised |
| device and ABI layer | handles | open, forward a call | kernel | - |

What is hard here: priorities instead of locks (the frame is read without one,
and is safe or not because of who can preempt whom); a mutex between the hard
real-time task and the lowest task; an event that counts to one; a handshake
without timeouts over a link that drops frames; a byte ring whose consistency
rests on a flag that is only tried; commands that are flags set in one task and
read in another.

## 2. Modules

| Module | Role |
|---|---|
| `FlightTasks` | the four flight tasks, the kernel's scheduling, the shared frame, estimate, transmit ring, event and arm command, in both builds |
| `EstRegister` | what `EST_STATE` under `EST_MTX` promises: an atomic register |
| `StartUp` | `rust_app_start` and `spawn_flyctrl` in front of `FlightTasks`; refines it |
| `HilLoop` | the HIL build with the set point and the motor command that go round through the simulator; refines `FlightTasks` |
| `FlightTasksProofs` | proofs about `FlightTasks` |
| `StartUpProofs`, `HilProofs` | proofs about `StartUp`; about the frame of `FlightTasks`, and `HilLoop` |
| `Mission` | the board's half of the mission handshake, under arbitrary messages |
| `MissionLink` | `Mission`, a ground station (`tools/verify_mission.py`) and a link that loses frames |
| `MissionProofs` | proofs about `Mission` and `MissionLink`, and that `Uplink` keeps what is promised of its protocols |
| `GroundCommands` | arm, mode and RC override commands from uplink to control, and the altitude that control holds |
| `GroundTables` | the parameter table with its stream, and the fence, as the ground station writes and reads them |
| `Uplink` | the protocols of the uplink task that `MissionLink`, `GroundCommands` and `GroundTables` model, one of them followed at a time |
| `GroundProofs`, `TablesProofs` | proofs about `GroundCommands` and `GroundTables` |
| `FrameParser` | `FxParser`, which puts MAVLink frames together from bytes |
| `SbusReceiver` | the driver of the RC receiver, and the receiver |
| `GpsDriver` | the driver of the GPS: baud probe, lines, fixes |
| `SensorStack` | the sensors task with the stack of drivers it builds and reads, the chips on `i2c0`, and the playback of a recorded flight |
| `Streams` | the four of them, each on its own port |
| `StreamsProofs` | proofs about the four of them, and that each behaves in `Streams` as by itself |
| `LogRing` | the log, byte by byte, with two tasks that log and `log_task` |
| `LossyLog` | what the log promises its reader: whole lines, in order, each at most once |
| `LogRingProofs` | proofs about `LogRing`: the flag, the entries in the ring, and that it implements `LossyLog` |

Definitions that end in a way that a comment calls a fault (`TelemKeepsLock`,
`HandleCountGoesOn`, `EvictableFirst`, ...) are not part of any specification:
each is an action as a plausible bug would have it, and the property that it
is there for fails when it takes the place of the right one.

### FlightTasks

A step is the code of one task between two points at which somebody else could
notice a preemption: a read or write of one shared field, a `sem_wait`, a
`sem_give`, a sleep. `Running(t)` says that `t` is the runnable task of highest
priority; every step but `Wake` is a step of that task. `Wake(t)` ends
`msleep(t)` at any moment: no clock is modelled, so every phase between the
4 ms, 20 ms, 1 ms and telemetry periods is covered, and some that cannot happen.

* `pc[t]` is the place in the loop; `C_`, `S_`, `U_`, `T_` for the four tasks.
* `sem` are the counts of `EST_MTX`, `USB_TX_MTX`, `HIL_EVT`; `Take` and `Give` are
  `rtos_sync.rs`' lock/wait and unlock/give with the kernel's limit on a count
  (`EvtLimit` for the event, the third argument of `sem_init`: the code passes 1, and so
  do all runs; the proofs hold for every limit).
* The frame's fields hold the number of the sample they come from (`Sample`,
  counted modulo `NSamples`; a reader only compares neighbours, so three suffice).
* `ControlStep` is one step although it spans `control.rs` 86-242: nothing
  outranks control, so nobody sees its middle. What `step_hil` computes is any
  outcome of `Est` and `Health`; `armed` follows the code (the RC arm switch, or
  the command of the ground station).
* Uplink in one poll handles one message: an arm command with its answer, another
  message that is answered, or (HIL) an injection that writes some fields and gives.
  HIL_SENSOR, HIL_GPS and the set point come in any order and at any time, also before
  the first HIL_SENSOR.
* Telemetry has its snapshot, its burst under `USB_TX_MTX`, and in the HIL build a
  second lock for the actuator frame.

### StartUp

`at` is the step that the host task takes next, `inited` and `spawned` what it has made.
The memory of a global before its initialisation is what `.rust_bss` is: zero. For a
semaphore that is a count of 0 (whoever waits for it waits for ever), for `EST_STATE` an
estimate that calls itself healthy (`Zeroed`). The priority of the task that runs
`rust_app_start` is the kernel's affair and not in the repository, so its steps interleave
freely with those of the tasks it has created; a later task is created while control
already flies. `CheckVersion` may refuse (`at = -1`), and then nothing ever runs.

`StartsAsSpecified` says that all this is a behaviour of `FlightTasks`: before control exists
it shows as `Init`, the creation of each other task as the end of that task's first sleep.
The fault `BootFillsLast` (filling `EST_STATE` after the tasks exist) breaks it.

### HilLoop

Every action of `FlightTasks`, with what it does to `G_HIL_SETPOINT` and `G_ACTUATOR_CMD`,
and the steps between: the set point is decoded, stored in two parts (eleven fields in the
code; two suffice to be torn), marked valid, and then the frame is written and the event
given; telemetry copies the motors one by one. Neither global has a lock. A motor command
and an estimate are told by their age in control cycles (`Older`), up to `MaxAge`, because
"not of an older cycle than" is all that the property asks.

### Mission and MissionLink

Only the uplink task touches the mission state, so each handler is one action:
`HandleRequestList`, `HandleCount(n)`, `HandleItem(item)` with its three ways out.
An item is its sequence number and a waypoint, the other fields of
MISSION_ITEM_INT being copied as one. `received` and `uploaded` are history: what
came since the last MISSION_COUNT, and the items of the last completed upload.

`MissionLink` adds the two directions of the link in order, `LoseFrame` (a write to
a full transmit ring is dropped, a damaged frame is not parsed) and `BreakOff` (the
tool is stopped). The ground station is the repository's own: it waits a fixed
time (0.2 s to 0.8 s against the board's poll of 1 ms: `BoardDone`), reads what is
there and sends its next item whether or not the board has asked for it.

### GroundCommands and GroundTables

Both have the uplink loop on one side and control on the other, which preempts it
between any two statements; so a handler is split at each store that control reads.

`GroundCommands` is the build without `hil` (the other one ignores mode and hold
altitude). A command is stored (`UplinkCommand`) and then acknowledged (`UplinkAck`).
An override is stored channel by channel (`UplinkChannel`; the order is the
compiler's), then its valid flag, then its time stamp. What a channel holds is the
*age*, in turns of the loop, of the message that it comes from: the code stores PWM
values, and age is what tells a legal value from a stale one. `UplinkTurn` counts
`G_APP_TICKS` modulo `TickMod` (2^32 in the code) and makes all channels one turn
older; `FreshTicks` is the limit of 200. `ControlStep` is a whole cycle: its only wait,
for `EST_MTX`, comes after everything that it reads, and is in `FlightTasks`. `Stick` are the throttle values that an override or the receiver may carry.
Altitude
is in steps of LAND (0.02 m), pointing down; the estimate of a cycle may be anything.

`GroundTables` has a step for each message of the parameter and fence protocols, one
for the stream (`UplinkStream`: at most one value a turn), one for the capability
answer that ends the turn, and `SyncGains` for control. `gcs` is what the ground
station has received last, `missed` where the last frame was dropped (a full
transmit ring), `offered` what a stream has offered: all three are history. A
value is legal, too low, too high or NaN, since that is what the range check tells apart.
Reading the fence out of bounds is a panic, which ends the program.

### Uplink

The handlers that `route_frame` chooses between touch the state of their own protocol only (a
COMMAND_LONG is either a command of `GroundCommands` or the capability request of
`GroundTables`), so interleaving the protocols would multiply states and add no behaviour of
any of them. A behaviour of `Uplink` follows one: the mission store under arbitrary messages
(`Mission`), the same store with the tool and its link (`MissionLink`), the commands, or the
tables; the state of the others stays as it is.

### FrameParser, SbusReceiver, GpsDriver, SensorStack and Streams

The first three turn bytes into messages and belong to one task each, so a step is one byte; how
bytes are spread over reads matters only for the GPS, whose `drain` returns at the first
sentence it knows and drops the rest of the read (`chunk`).

`FrameParser` keeps the whole stream as history and compares the frames that it has handed
on with `Cut`, a definition that looks at the stream as a whole. `SbusReceiver` has a
receiver that sends frame after frame over a line that loses bytes; a stick may look like a
header or a footer. `clear` counts the frames since the last loss that came whole and
were not ambiguous. `GpsDriver` groups characters into three cells of a sentence (head, tail
with checksum, newline): what the line buffer's limit, a lost piece and a cut read can tell
apart. `FieldChar` gives the fields of an RMC sentence as NMEA has them; `HasFix`
reads the one that the code reads, `SaysFix` what the sentence says. The requirement
`FixesAreSent` is about `SaysFix`, so that a driver which also took positions from RMC, as
its header says, would meet it; that this one does not is `FixesAreTaken`.

`SensorStack` builds the drivers in the order of `SensorStack::new` (a missing device is a
panic, by `expect`, and the fault handler stops the system), then repeats the sampling cycle:
advance the playback or not, read the sources one after the other, store the frame. The
chips on `i2c0` may stop answering and answer again between any two reads. A
reading is told by the cycle that it was taken in. What the GPS and the RC driver return is
in their own modules.

`Streams` lets one of four ports be followed: they share nothing, so the interleavings of
their steps add nothing, and one run covers the four.

### LogRing

`emit` is split at every store that another task could see half done: try_lock,
the choice of `ring_push` (room, give up old Info entries, give the new one up),
the cells, the tail, unlock. `log_task` is split likewise (flag, copy of an entry,
head, unlock, packing, writing). The ring holds numbers: length, level letter,
line. The lengths of texts are in `Text`; a text longer than the buffer is cut and
the newline then falls outside: the panic. `uart` is history, all bytes written.
`Device::write` waits for the transmission (`sending`), during which the others run.

## 3. Runs

| Run | Instance | Shows |
|---|---|---|
| `flight` | `StartUp`, no HIL, 3 samples, 1 estimate with 2 verdicts, bursts of 2 frames, limit 1 | `StartsAsSpecified` (refinement of `FlightTasks`); `NothingUsedUninitialised`; `TornByOneSample`; `IdleOnlyAsleep`; `EstAtomicFromStart` (refinement of `EstRegister`); `ArmTakesEffect` |
| `hil` | `HilLoop`, 2 samples, 2 set points, 2 motors, ages up to 1, limit 1 | `TxExclusive` with telemetry's second lock; `HilReadsWhole`; `NoLostWakeup`; `SetpointWhole`; `ActuatorsNotOlder`; `LostOnlyWhileBlocked`; `TelemCycles`; `InjectionTaken`; `ArmTakesEffect` |
| `one_step` | HIL | violated: `OneStepPerPhysicsStep` (finding) |
| `uplink` | `Uplink`: 3 slots, 2 waypoints, numbers up to 4, plans of 1 or 2 items, 2 faults; 2 channels, limit 2, counter modulo 3, 2 altitudes, one throttle; 2 parameters, 2 fence slots, counts up to 3 | `IdleStoresUpload`; `WaitsInOrder`; `AcceptedIsStored`; `UploadsRecover`; `RecentOverride`; `OnlyPendingUnacknowledged`; `HoldMovesOnlyAtArming`; `OverrideEnds`; `GroundKnowsTable`; `StreamOffersAll`; `StreamEnds`; `StoredIsFetchable`; `PanicOnlyByCount` |
| `mission_mixed` | the store and the tool, as in `uplink` | violated: `DownloadIsUpload` (finding) |
| `land` | 1 channel, 3 altitudes | violated: `LandDescendsGradually` (finding) |
| `gains` | the tables, as in `uplink` | violated: `GainsLegal` (finding) |
| `streams` | frames of at most 5 bytes in streams of 9; 5 SBUS frames of one stick, 2 bytes lost; 3 sentences, reads of 3 cells, 1 cell lost, 2 baud rates; cycles modulo 3, recordings of 3 frames of 2 periods | `FramesAreCuts`; `QuietResyncs`; `FollowsReceiver`; `FixesAreSent`; `FailsSoftly` |
| `rmc` | the GPS, as in `streams` | violated: `FixesAreTaken` (finding) |
| `log` | ring of 11 bytes, lines of 2 to 4, packets of 9, 3 calls that get the flag | `WholeEntries`; `PopperFindsFlagFree`; `LinesWholeAndInOrder` (refinement of `LossyLog`); `CriticalLostByExactFit`; `DrainedWhenQuiet` |
| `log_panic` | same | violated: `NeverPanics` (finding) |
| `log_critical` | same | violated: `CriticalKept` (finding) |

Why the bounds are enough. `flight`: three samples tell the last from the one
before and from an older one; two frames give a burst a first, a gap and a last;
of the estimate's three fields, two have two values each (armed and the verdict), which tells
a mixture from either, and the zeroed verdict from the filled one. `hil`: two samples suffice
because the properties only ask whether a field is taken or newer; two motors have a
preemption between them; an age up to 1 tells this cycle from any earlier. `uplink`: three slots and
numbers up to four reach the last slot, a number one too large and a count that is
too large by one; two items have a first, a next and a last, and two
faults are one to leave a half-done upload behind and one within the next;
two channels can be of two messages; with the limit 2 and the counter modulo
3 the ages 0 and 1 are in force, 2 is beyond the limit and 3 has come round; two modes are
LAND and another one, and one throttle suffices because no property that holds depends on it
(`land` has two, and needs a height of two steps, to be missed by one); two
parameters have a first and a last; two slots with counts up to three have an index
that is last, one too large for the array but not for the count, and a count that
falls short of what is stored.
`streams`: nine bytes hold two of the shortest frames with noise between, or a header with
an impossible length and a frame after it; the length byte may be the magic byte. Five SBUS
frames are one that loses a byte, two that realign, and a second loss or an
ambiguous frame in between. Three sentences are one with a fix, one that loses its head or
end, and one after it; a line of three cells can overflow. Cycles modulo 3 tell this cycle from the
one before and from an older one; a recording of three frames of two periods each comes round.
`log`: with 11 bytes, entries of 4, 5 and 6 wrap, fill the ring exactly (5 and 6),
leave too little room and make one or two old entries go; with packets of 9 an
entry of the longest line is split between its text and its newline; three calls
are what it takes to fill the ring and then need room. A ring filled again after
two losses in a row needs a fourth call and is not covered.

Deadlock is checked in every run but `uplink` and `gains`: none of the systems may stop, except
that a panic of the fence ends the program there. In `LogRing`, after a panic, the kernel's fault handler
has taken over (`Halted`).

## 4. Fairness

* `FlightTasks`, `StartUp`, `HilLoop`: the processor takes steps while some task is runnable, and a sleep
  ends. Weak fairness of `CpuNext` says nothing of a single task: with fixed
  priorities a low task may starve. The liveness properties therefore have the
  premise `NoOverload`, that the processor is idle again and again, which the code
  does not enforce but its periods are chosen for. It is a premise in the formula,
  not an assumption of the model, so that it is visible in each of them. Where control runs on events,
  `ArmTakesEffect` has the further premise `SimulatorRuns`, that injections keep coming: without
  a simulator control never cycles again, and an ARM waits for ever. In `StartUp` the
  host task goes on too (weak fairness of `BootNext`): it is a task like the others, and
  ends its work.
* `Uplink` has the fairness of each of its protocols while it is the one that is followed.
* `MissionLink`: uplink polls for ever; a ground station that has begun goes on;
  somebody starts another upload again and again (strong fairness of `StartUpload`,
  which competes with downloads). Faults are bounded by `MaxFaults`, so "once frames are no
  longer lost" is part of every behaviour.
* `GroundCommands`: uplink goes on with what it has begun, and comes to the end of its turn
  again and again (strong fairness of `UplinkTurn`) however many messages arrive,
  because one read returns at most 64 bytes. That control leaves uplink time is the
  premise `NoOverload` of `FlightTasks`; here it is the fairness itself.
* `GroundTables`: the same two steps of a turn, `UplinkStream` and `UplinkAnswer`. Weak
  fairness suffices: `StreamEnds` has the premise that requests for a stream cease, and
  no other message takes the turn's steps away.
* `LogRing`: a task that is inside `emit`, and `log_task`, go on; transmissions and
  sleeps end. The calls that get the flag are bounded by `MaxCalls`: "once nobody
  logs any more".

## 5. Proofs

All for every value of the constants that satisfies the named assumptions
(`FlightAssumption`, `HilAssumption`, `ZeroAssumption`, `MissionAssumption`, `LinkAssumption`,
`GroundAssumption`, `TablesAssumption`, `FrameAssumption`, `SbusAssumption`, `GpsAssumption`,
`StackAssumption`, `LogAssumption`). Every safety property of every passing run is a
theorem; what is left to TLC alone are the seven liveness properties.

Two techniques recur. A definition that is recursive over data (the cut of a stream, the walk
over the ring, the flattening of a sequence) is first shown to have a solution and to
satisfy its equation; then what it computes is proved by the least counterexample
(`LeastNat`; upwards from the beginning or down from the end), since the library's induction theorems take
an operator as a parameter, which the provers cannot instantiate. And a property that looks at
the whole past is not proved of the past: the invariant says how what has been done and
what is in hand continue, for *every* continuation of the stream.

`FlightTasksProofs`. The inductive invariant `IInv` has five parts: types; who holds
`EST_MTX` (`EstInv`: the count is one exactly when neither control nor telemetry is in its
guarded region, and never both are); the same for `USB_TX_MTX` (`TxInv`); the burst
counter against the place in the burst (`BurstInv`); what control has published and
telemetry copied so far (`CopyInv`: field by field, the part of `EST_STATE` already
written equals `r`, the part of `snap` already copied equals `EST_STATE`). The last
is what the refinement needs. Theorems: `TypeCorrect`, `TransmitExclusive`, `NoDeadlock`
(`IdleOnlyAsleep`: whoever waits for a mutex has a holder who is not waiting, because
no guarded region contains a wait), and `EstStateIsAtomic`, the refinement of
`EstRegister`: publication maps to the write when control takes the mutex, the snapshot
to the read when telemetry does.

`HilProofs`. `FrameInv` adds to `IInv` what ties the writer of the frame to its reader:
each build has one writer, and the marker is odd while it writes (`WriterInv`); while
uplink writes, control is held up (`BlockedInv`); what sensors has stored so far is the new
sample and the rest the one before (`TornInv`). The argument in the HIL build is one of
priorities: uplink would not run if control could, control waits for the event or for
`EST_MTX`, and nothing that could end either wait runs before uplink sleeps. Hence
`HilFrameWhole`, `WakeupKept`, `LossBound`, and `TornBound` for the other build.
`HilIsFlight` shows that `HilLoop` refines `FlightTasks`, so that these carry over;
`SetpointIsWhole` repeats the argument for the set point, and `ActuatorsKeepUp` is about ages:
every step that could make the motor command older than the estimate makes both older.

`StartUpProofs`. `BootInv` says that the order of `Boot` is the order of everything that is
initialised or created (`OrderInv`), that nothing but this has changed before control
exists (`BeforeControl`), and that `IInv` holds from then on. The creation of control yields
exactly `Init`, each later creation a `Wake`. Theorems: `NothingIsUsedUninitialised`,
`NoDeadlockFromPowerOn`, `TypeCorrectFromPowerOn`, the refinement `StartIsFlight` and
`EstAtomicFromPowerOn`, in both builds.

`MissionProofs`. The three properties of the run together are inductive
(`MissionInv`): the last slot filled by `StoreItem` completes the sequence that
`WaitsInOrder` has kept, which is what `IdleStoresUpload` then says of the store. One
lemma per handler. Theorems
`MissionTypeCorrect` (so no slot is ever indexed out of range), `UploadInOrder`,
`StoreIsLastUpload`.
For the link, `LinkInv` adds what is under way: at most one frame to the board and, within
an upload, at most the answer to the last one (`ToBoardInv`, `ToHostInv`); and once the
board has taken this upload's MISSION_COUNT, it has either stored a beginning of
the plan without having accepted anything (`Underway`) or all of it (`Done`). A lost item
leaves it `Underway`, for every later item is refused. Hence `UploadIsStored`.
For `Uplink`, `UplinkInv` is `LinkInv` and that the tool has nothing on the way where anybody
may speak to the store: `UplinkStoresMissions`. `UplinkKeepsProtocols` says that `Uplink`
implements `GroundCommands` and `GroundTables`, so that their theorems hold of it.

`GroundProofs`. `OverrideIsRecent` needs to know why storing the channels *before* the time
stamp is harmless, and the stamp before the channels would not be: `StampTellsAge` says
that the distance of stamp and counter, modulo the width, is the age of every channel
that is not of the message being stored, or that the channel's age has come round. A turn
adds one to both sides (arithmetic modulo any `TickMod`), a store
sets an age to 0. `AcksInForce` rests on `PendingInForce` (the command at hand has
been stored), `HoldAtArming` on `LockFollowsArmed` (the latch is the armed flag
published last).

`TablesProofs`. `TablesInv` adds to the properties what they need: a stream has offered the
parameters below its index (`StreamInv`); the count exceeds the fence only if a
message said so (`CountInv`). With counts up to FENCE_MAX, `PanicOnlyByCount` then says
that the fence never panics.

`StreamsProofs`, one invariant for each input.
`FrameParser`: `BegunInv` says that a frame that has been begun fits into the buffer together
with what it still needs, and that its magic byte is as far back in the stream as the parser
has bytes of it. So a stretch without a magic byte as long as the buffer cannot be inside
a frame (`ParserResyncs`), and no frame outgrows the buffer (`FrameFits`). `CutsInv` says
that, whatever bytes follow, the frames cut from the whole stream are those already handed
on and then those cut from where the present frame began: one byte moves a
frame at most from the second part to the first. With nothing following, that is `ParserCuts`.
`SbusReceiver`: `SbusInv` ties the driver's buffer to the frame on the line: once a frame has
come whole and unambiguous, the buffer is exactly what has come of the next (`Aligned`);
after a loss, in a frame in which nothing looks like a header, it is empty or holds at least as
much (`Realigns`), so that it is full before the frame ends. Hence `ReceiverIsFollowed`.
`GpsDriver`: `GpsInv` orders what is on its way. The cells of the driver's line, of the read
and of the port come in the order of their sentences, a newline ends its sentence (`Sorted`,
`Later`), and every position returned is older than all of them (`Fixed`), so none
comes twice. Hence `PositionsAreSent`.
`SensorStack`: `StackInv` tells each reading by the cycle and the source that it is of, read
by read (`SensorsFailSoftly`).
`StreamsCompose` and `InputsKeepPromises` carry the four to `Streams`.

`LogRingProofs`. Every action is first reduced to what it does to the flag and the
places (`Stays`, `Enters`, `Leaves`, `Idles`), and the invariant `FlagIInv` (flag taken
exactly while one task is inside) is proved over these four: `FlagExcludes`, and
with the priorities `PopperNeverRefused`.
For the entries, `Laid(R, h, u, es, off)` says that the ring `R` holds the entries `es` back
to back in the `u` cells from `h` on, the k-th from `off[k]`; `LogIInv` is `FlagIInv` and that
such entries exist between head and tail (`RingIs`), that an emitter's entry is one of those its
call may store and lies in the free cells once written (`EmitterInv`), and that what
`log_task` has in hand is a whole entry, or the rest of one that fits the next packet
(`PopperInv`). `WholeEntries` alone is not inductive: nothing in it says what is in the cells
that publishing the tail will add, nor that a newline stands only at the end of an entry,
which is why its bytes and one more are all that it needs in a packet. The operators are
treated first: `HopWalks` and `RingReads` (what the walk and `Stored` find is `es`),
`LaidCells`, `LaidAppend`, `LaidDrop` (writing, publishing, taking and evicting), `CrlfConcat` (a
split line loses nothing). Then one lemma per action. Theorems: `EntriesKept`,
`EntriesWhole`, `CriticalLeavesPrinted`, `LogTypes`. `LinesKept` is the refinement of
`LossyLog`: with `Hand` for the entry that has left the ring and is not packed, the
reader's queue is `Hand \o es`; publishing appends to it or, at an exact fit, empties its part
in the ring; eviction thins it; taking an entry moves it from `es` to `Hand`; and packing
delivers it.

Five type invariants (of `FlightTasks`, `Mission`, `LogRing`, `GroundCommands` and
`GroundTables`) are theorems and no run's property: the runs ask harder questions.

Only model-checked: the liveness properties, which are out of the prover's reach
(`ArmTakesEffect`, `TelemCycles`, `InjectionTaken`, `UploadsRecover`,
`OverrideEnds`, `StreamEnds`, `DrainedWhenQuiet`). The seven violated properties are not theorems.

## 6. What the runs found

* The messages of a physics step are not merged into one control step (`one_step`).
* A broken-off upload leaves a mixture that is served as a mission (`mission_mixed`).
* LAND aims at the ground at once, not one step below the present altitude (`land`).
* A text that fills the buffer of `emit` makes the task panic (`log_panic`).

* A Warn or Error entry that is stored is lost when the next entry fits exactly, although
  `log.rs` 12-13 guarantee it (`log_critical`). `CriticalLostByExactFit`, which holds,
  shows that there is no other way.
* NaN passes the range check of PARAM_SET and reaches the controller, although `uplink.rs` 312
  says that no illegal gain is ever written (`gains`).
* No RMC sentence ever gives a position: `ublox.rs` 213 takes field 3, the latitude, for the
  status (`rmc`). And it ends the read, with the beginning of a GGA behind it.

Seen while modelling and stated by no property: the GPS probe waits 300 ms at each baud
rate for a sentence that comes once a second (`ublox.rs` 25 says the window is enough), and then
stays with 9600; the RC driver never ages its channels, so a receiver that falls
silent leaves the last sticks in force; MISSION_COUNT(0) makes the board
wait for an item instead of clearing the mission; when the last MISSION_ACK is lost
the ground station's retry of the item is not answered; an ARM in the HIL build is
acknowledged at once and takes effect with the next injected frame; after a MISSION_COUNT
lost during a broken-off upload the ground station may see ACCEPTED for an upload
whose total was the old one (hence the premise `mine` of `AcceptedIsStored`);
`docs/LINKUP_PLAN.md` 75 says uplink sleeps 10 ms, `uplink.rs` 870 has 1 ms, so the
200 turns that an override lasts are about 0.2 s and not the 2 s of `uplink.rs` 189 and 769;
the valid flag of an override is never taken back, so that it revives for 200 turns each
time the counter comes round (the last case of `RecentOverride`, after 49 days); an
ARM is stored whatever the health (`docs/uplink-plan.md` 109 and 168 say it is
refused when critical); the parameter stream does not send again what was
dropped (`docs/uplink-plan.md` 80 says the next round makes up for it); the count of the fence only grows, so a smaller fence cannot
replace a larger one, and a count above 64 makes a fetch panic (`PanicOnlyByCount`);
a failed read of the IMU, the barometer or the magnetometer gives zeros as `Some`, the
frame is stored with `imu_ok` TRUE, and nobody looks at `healthy` after the start, although
`stack.rs` 10-12 says that fault detection takes it into account (the second case of
`FailsSoftly`: zero readings are marked nowhere but in the driver); a driver whose device is missing
returns `None` so that "the layer above degrades" (`mpu6050.rs` 3), but `stack.rs` 72-84
takes it with `expect`, which panics and stops the system, possibly seconds after control has
begun to fly because the GPS probe comes in between (the first case of `FailsSoftly` says no
more than that this cannot happen once a frame is stored); the parser can stay out of step for
ever on a message repeated without a pause whose payload contains the magic byte
(`uplink.rs` 223; `QuietResyncs` needs the pause); the motors of one actuator message may be
of different cycles (`ActuatorsNotOlder` says how far); `lib.rs` 50-57 takes the values of the
bytes at `_appdata_lma`, `_sappdata` and `_eappdata` for their addresses, so that
what it says it does, the copy of `.data`, is not what happens;
`Mutex::init` ignores the ceiling that `mod.rs` 182-185 passes, so sensors and uplink run
while control waits for `EST_MTX` that telemetry holds (`LostOnlyWhileBlocked` says what
that may cost; how long it takes needs a clock).

## 7. Not modelled

The filter, controllers, fault detection and MAVLink encoding are in the external
crate `flyctrl_core`; FlightTasks takes any of their results. The kernel is
external: scheduling and semaphores are modelled as the code relies on them. Time
is not modelled but as the order of wake-ups. The drivers' conversions and the contents of
the telemetry messages are arithmetic on floats. The recorded flight (`dataset_data.rs`) is
data. Of start-up, the copy of `.data` and the demo and test builds; of control, the PWM
outputs, which nothing reads; of uplink, the intervals a ground station asks for, which
nothing reads either. When `usb0` is not there, uplink returns at once
(`uplink.rs` 821-827), which is the case of `FlightTasks` in which it never wakes; telemetry
warns and goes on without a downlink (`telemetry.rs` 44-48): it takes
its snapshots and neither locks `USB_TX_MTX` nor sends, a cycle that `FlightTasks` leaves out. The device layer forwards calls, and
what the callees do is the kernel's. The on-target tests test the kernel. Memory ordering
plays no part: one core.

## 8. Plan

Done, in this order: `FlightTasks` (the flight-critical sharing), `EstRegister`,
`Mission`, `MissionLink`, `LogRing`, `LossyLog`, `GroundCommands`, `GroundTables`, `Uplink`,
`FrameParser`, `SbusReceiver`, `GpsDriver`, `Streams`; then `HilLoop`, `StartUp`,
`SensorStack`; and proofs about all of them, last about the four inputs (`StreamsProofs`) and
the ring of the log with the refinement of `LossyLog` (`LogRingProofs`).

Next:

1. `FrameParser` in front of the mission handshake: a link that damages bytes instead of
   one that loses frames, so that `MissionLink`'s `LoseFrame` is shown and not assumed.
