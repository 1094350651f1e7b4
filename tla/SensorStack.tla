----------------------------- MODULE SensorStack -----------------------------
(***************************************************************************)
(* The sensors task with the stack of drivers it builds and reads, in both *)
(* builds: drivers of real sensors, or the playback of a recorded flight.  *)
(* What the GPS and the RC driver make of their bytes is in GpsDriver and  *)
(* SbusReceiver, how the frame is written field by field in FlightTasks.   *)
(* A reading is told by the cycle it was taken in, modulo NCycles, a       *)
(* recorded one by its index.                                              *)
(***************************************************************************)
EXTENDS Integers, Sequences

CONSTANTS NCycles,       \* cycles are counted modulo NCycles
          DatasetLen,    \* frames of the recording (1000 in the code)
          StepsPerFrame  \* sampling periods of 2 ms in one of the 50 Hz (10)

ASSUME StackAssumption == {NCycles, DatasetLen, StepsPerFrame} \subseteq Nat \ {0}

VARIABLES
  real,     \* the build: is the cargo feature "real-sensors" on?
  missing,  \* the devices that the RTOS has not registered or cannot open
  silent,   \* the chips on i2c0 that do not acknowledge
  turn,     \* what the task is at: "build", "advance", "read", "halted"
  next,     \* the source it builds or reads next
  chipHealthy, \* the drivers on i2c0 none of whose reads has failed
  idx, acc, \* PLAYBACK, acc in sampling periods
  cycle,    \* the cycle at hand
  got,      \* what it has read so far
  frame     \* what SENSOR_FRAME holds

busVars   == <<real, missing, silent>>
stackVars == <<busVars, turn, next, chipHealthy, idx, acc, cycle, got, frame>>

\* SensorStack::new builds in this order; mag is built and never read.
Source == <<"imu", "baro", "gps", "rc", "mag">>
Read   == {"imu", "baro", "gps", "rc"}
Chip   == {"imu", "baro", "mag"}
DeviceOf == [imu |-> "i2c0", baro |-> "i2c0", gps |-> "uart1", rc |-> "uart2",
             mag |-> "i2c0"]

Zero      == -1
None      == -2
Elsewhere == -3   \* what the GPS or the RC driver returns

Unread  == [s \in Read |-> None]
NoFrame == [s \in Read |-> None]

-----------------------------------------------------------------------------
(* The task *)

\* new of a driver: of the chips only the IMU is written to, to wake it up.
\* None is a panic, by expect, and the fault handler stops the system.
Construct ==
  /\ turn = "build"
  /\ IF real /\ \/ DeviceOf[Source[next]] \in missing
                \/ Source[next] = "imu" /\ "imu" \in silent
     THEN turn' = "halted" /\ UNCHANGED next
     ELSE IF next < Len(Source)
          THEN next' = next + 1 /\ UNCHANGED turn
          ELSE next' = 1 /\ turn' = "advance"
  /\ UNCHANGED <<busVars, chipHealthy, idx, acc, cycle, got, frame>>

\* Playback::advance, in the build without sensors.
Advance ==
  /\ turn = "advance"
  /\ IF real THEN UNCHANGED <<idx, acc>>
     ELSE /\ acc' = (acc + 1) % StepsPerFrame
          /\ idx' = IF acc' = 0 THEN (idx + 1) % DatasetLen ELSE idx
  /\ turn' = "read"
  /\ UNCHANGED <<busVars, next, chipHealthy, cycle, got, frame>>

\* Fault: after a failure the driver returns what it read before.
ReadChipOld(s) ==
  IF s \in silent
  THEN got' = [got EXCEPT ![s] = frame[s]] /\ chipHealthy' = chipHealthy \ {s}
  ELSE got' = [got EXCEPT ![s] = cycle] /\ UNCHANGED chipHealthy

\* i2c_write_read fails as soon as one of its transactions does.  Then the
\* reading is zero, and the driver is not healthy from then on.
ReadChip(s) ==
  IF s \in silent
  THEN got' = [got EXCEPT ![s] = Zero] /\ chipHealthy' = chipHealthy \ {s}
  ELSE got' = [got EXCEPT ![s] = cycle] /\ UNCHANGED chipHealthy

\* The sources are read one after the other.
ReadSource ==
  /\ turn = "read"
  /\ LET s == Source[next] IN
     /\ s \in Read
     /\ CASE ~real -> got' = [got EXCEPT ![s] = idx] /\ UNCHANGED chipHealthy
          [] real /\ s \in Chip -> ReadChip(s)
          [] OTHER -> got' = [got EXCEPT ![s] = Elsewhere] /\ UNCHANGED chipHealthy
  /\ next' = next + 1
  /\ UNCHANGED <<busVars, turn, idx, acc, cycle, frame>>

\* The frame is written, with imu_ok and baro_ok TRUE whatever has been read,
\* and the task sleeps.
StoreFrame ==
  /\ turn = "read" /\ Source[next] \notin Read
  /\ frame' = got
  /\ got' = Unread
  /\ cycle' = (cycle + 1) % NCycles
  /\ next' = 1 /\ turn' = "advance"
  /\ UNCHANGED <<busVars, chipHealthy, idx, acc>>

\* After a panic nothing happens any more.
Halted == turn = "halted" /\ UNCHANGED stackVars

-----------------------------------------------------------------------------
(* The bus *)

\* A chip stops answering, or answers again.
ChipChanges ==
  /\ real
  /\ \E s \in Chip :
       silent' = IF s \in silent THEN silent \ {s} ELSE silent \cup {s}
  /\ UNCHANGED <<real, missing, turn, next, chipHealthy, idx, acc, cycle, got, frame>>

StackInit ==
  /\ real \in BOOLEAN
  /\ missing \in SUBSET {"i2c0", "uart1", "uart2"}
  /\ silent \in SUBSET Chip
  /\ turn = "build" /\ next = 1
  /\ chipHealthy = Chip
  /\ idx = 0 /\ acc = 0
  /\ cycle = 0
  /\ got = Unread
  /\ frame = NoFrame

StackNext ==
  Construct \/ Advance \/ ReadSource \/ StoreFrame \/ Halted \/ ChipChanges

StackSpec == StackInit /\ [][StackNext]_stackVars
-----------------------------------------------------------------------------
(* Properties *)

\* The cycle whose frame is the last one stored.
LastCycle == (cycle + NCycles - 1) % NCycles

\* A sensor that fails after the start costs its own readings and no more: the
\* task never halts once it has stored a frame, each reading in the frame is of
\* the frame's own cycle or zero, and zero only if the driver has owned up to a
\* failure; a recorded frame is never put together from two.
FailsSoftly ==
  /\ turn = "halted" => frame = NoFrame
  /\ frame # NoFrame =>
       IF real
       THEN \A s \in Chip \cap Read :
              \/ frame[s] = LastCycle
              \/ frame[s] = Zero /\ s \notin chipHealthy
       ELSE \A s \in Read : frame[s] = frame["imu"] /\ frame[s] \in 0 .. DatasetLen - 1
=============================================================================
