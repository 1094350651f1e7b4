---------------------------- MODULE FlightTasks ----------------------------
(***************************************************************************)
(* The four flight tasks of src/src/flyctrl on the fixed-priority,         *)
(* preemptive, single-core RTOS, and the state they share: SENSOR_FRAME    *)
(* with its SENSOR_SEQ marker, EST_STATE under EST_MTX, the usb0 transmit  *)
(* ring under USB_TX_MTX and, in the hardware-in-the-loop build, the event *)
(* HIL_EVT.  A step is the code between two points where a preemption      *)
(* could be noticed; the task that takes it is always the runnable task of *)
(* highest priority, and a sleeping task may wake between any two steps.   *)
(***************************************************************************)
EXTENDS Integers

CONSTANTS Hil,          \* the build: is the cargo feature "hil" on?
          NSamples,     \* sensor samples are numbered modulo NSamples
          ArmSamples,   \* the samples whose RC arm switch is on
          Est, Est0,    \* the vehicle states step_hil can return; the empty one
          Health,       \* the health verdicts step_hil can return
          TelemFrames,  \* frames of one telemetry burst (six in the code)
          EvtLimit      \* where sem_give stops counting

ASSUME FlightAssumption ==
  /\ Hil \in BOOLEAN
  /\ NSamples \in Nat \ {0}
  /\ Est0 \in Est
  /\ "Degraded" \in Health
  /\ TelemFrames \in Nat \ {0}
  /\ EvtLimit \in Nat \ {0}

VARIABLES
  pc,            \* where each task stands in its loop; "sleep" inside msleep
  sem,           \* the counts of the three RTOS semaphores
  SENSOR_SEQ,    \* the seqlock marker, of which only the parity is documented
  SENSOR_FRAME,  \* which sample each field of the shared frame comes from
  incoming,      \* what the frame's writer is storing, field by field
  written,       \* how many fields of it are stored
  phys,          \* the last sample produced (by the drivers, or by the PC)
  G_CMD_ARMED,   \* the ground station's arm command
  r,             \* control: the result of this cycle's step_hil
  EST_STATE,     \* the published estimate
  snap,          \* telem: the copy of EST_STATE this cycle works on
  burst          \* telem: frames of this cycle's burst written so far

vars == <<pc, sem, SENSOR_SEQ, SENSOR_FRAME, incoming, written, phys,
          G_CMD_ARMED, r, EST_STATE, snap, burst>>

frameVars == <<SENSOR_SEQ, SENSOR_FRAME, incoming, written, phys>>
estVars   == <<r, EST_STATE>>
telemVars == <<snap, burst>>

-----------------------------------------------------------------------------
(* Tasks, semaphores, data *)

Task == {"control", "sensors", "uplink", "telem"}

\* A smaller number is a higher priority (spawn_rt calls of spawn_flyctrl).
Prio == [control |-> 4, sensors |-> 5, uplink |-> 10, telem |-> 12]

Sem == {"EST_MTX", "USB_TX_MTX", "HIL_EVT"}

\* The counts that Mutex::init and Semaphore::init give them.
InitialCount == [s \in Sem |-> IF s = "HIL_EVT" THEN 0 ELSE 1]

\* The points at which a task is inside sem_wait, and the semaphore it is for.
WaitPoint ==
  [C_lock |-> "EST_MTX", T_lock |-> "EST_MTX", U_tx |-> "USB_TX_MTX",
   T_tx |-> "USB_TX_MTX", T_htx |-> "USB_TX_MTX", C_wait |-> "HIL_EVT"]

Sample   == 0 .. NSamples - 1
NoSample == -1      \* None, or an RC input with the arm switch off
Keep     == -2      \* the writer leaves this field as it is

\* The order in which both writers store the fields.
FieldOrder == <<"imu", "baro", "gps", "rc", "armed">>
Field      == {"imu", "baro", "gps", "rc", "armed"}

Outcome == [armed : BOOLEAN, est : Est, health : Health]
Empty   == [armed |-> FALSE, est |-> Est0, health |-> "Degraded"]
NoView  == [armed |-> FALSE, est |-> Est0, health |-> "none"]

NextSample == (phys + 1) % NSamples

-----------------------------------------------------------------------------
(* The scheduler *)

Runnable(t) ==
  /\ pc[t] # "sleep"
  /\ pc[t] \in DOMAIN WaitPoint => sem[WaitPoint[pc[t]]] > 0

\* The task the processor executes.
Running(t) ==
  /\ Runnable(t)
  /\ \A u \in Task : Runnable(u) => Prio[t] =< Prio[u]

Idle == \A t \in Task : ~Runnable(t)

\* Task t executes the code at label `at`, and then stands at `to`.
Go(t, at, to) ==
  /\ pc[t] = at
  /\ Running(t)
  /\ pc' = [pc EXCEPT ![t] = to]

\* sem_wait returns: the count is positive (Runnable) and drops by one.
Take(s) == sem' = [sem EXCEPT ![s] = @ - 1]

\* sem_give: the count rises up to where the kernel stops counting.
Give(s) == sem' = [sem EXCEPT ![s] = IF @ < EvtLimit THEN @ + 1 ELSE @]

-----------------------------------------------------------------------------
(* The shared frame, written by sensors or, in the HIL build, by uplink *)

BeginWrite(values) ==
  /\ SENSOR_SEQ' = (SENSOR_SEQ + 1) % 2
  /\ incoming' = values
  /\ written' = 0
  /\ UNCHANGED SENSOR_FRAME

WriteField ==
  /\ written < 5
  /\ LET f == FieldOrder[written + 1]
     IN SENSOR_FRAME' = [SENSOR_FRAME EXCEPT
                           ![f] = IF incoming[f] = Keep THEN @ ELSE incoming[f]]
  /\ written' = written + 1
  /\ UNCHANGED <<SENSOR_SEQ, incoming>>

\* Fault: the write is closed with the last field missing.
EndWriteShort ==
  /\ written = 4
  /\ SENSOR_SEQ' = (SENSOR_SEQ + 1) % 2
  /\ incoming' = [f \in Field |-> Keep]
  /\ written' = 0
  /\ UNCHANGED SENSOR_FRAME

EndWrite ==
  /\ written = 5
  /\ SENSOR_SEQ' = (SENSOR_SEQ + 1) % 2
  /\ incoming' = [f \in Field |-> Keep]
  /\ written' = 0
  /\ UNCHANGED SENSOR_FRAME

-----------------------------------------------------------------------------
(* control, priority 4 *)

\* Faults: the arm command is not heeded; the IMU sample is not cleared.
ControlStepDeaf ==
  /\ Go("control", "C_read", "C_lock")
  /\ SENSOR_FRAME' = IF Hil THEN [SENSOR_FRAME EXCEPT !.imu = NoSample]
                            ELSE SENSOR_FRAME
  /\ \E e \in Est, h \in Health :
       r' = [armed |-> SENSOR_FRAME.armed \in ArmSamples, est |-> e, health |-> h]
  /\ UNCHANGED <<sem, SENSOR_SEQ, incoming, written, phys, G_CMD_ARMED,
                 EST_STATE, telemVars>>

ControlStepKeepsImu ==
  /\ Go("control", "C_read", "C_lock")
  /\ \E e \in Est, h \in Health :
       r' = [armed |-> G_CMD_ARMED, est |-> e, health |-> h]
  /\ UNCHANGED <<sem, frameVars, G_CMD_ARMED, EST_STATE, telemVars>>

\* What one cycle does up to the publication: it reads the frame and the arm
\* command, clears the IMU sample in the HIL build, and runs step_hil.
ControlStep ==
  /\ Go("control", "C_read", "C_lock")
  /\ SENSOR_FRAME' = IF Hil THEN [SENSOR_FRAME EXCEPT !.imu = NoSample]
                            ELSE SENSOR_FRAME
  /\ \E e \in Est, h \in Health :
       r' = [armed  |-> SENSOR_FRAME.armed \in ArmSamples \/ G_CMD_ARMED,
             est    |-> e,
             health |-> h]
  /\ UNCHANGED <<sem, SENSOR_SEQ, incoming, written, phys, G_CMD_ARMED,
                 EST_STATE, telemVars>>

ControlLock ==
  /\ Go("control", "C_lock", "C_armed")
  /\ Take("EST_MTX")
  /\ UNCHANGED <<frameVars, G_CMD_ARMED, estVars, telemVars>>

\* The publication stores one member of EST_STATE after the other.
ControlPublish ==
  /\ \/ /\ Go("control", "C_armed", "C_est")
        /\ EST_STATE' = [EST_STATE EXCEPT !.armed = r.armed]
     \/ /\ Go("control", "C_est", "C_health")
        /\ EST_STATE' = [EST_STATE EXCEPT !.est = r.est]
     \/ /\ Go("control", "C_health", "C_unlock")
        /\ EST_STATE' = [EST_STATE EXCEPT !.health = r.health]
  /\ UNCHANGED <<sem, frameVars, G_CMD_ARMED, r, telemVars>>

\* The guard is dropped and the cycle ends in msleep(4) or HIL_EVT.wait().
ControlUnlock ==
  /\ Go("control", "C_unlock", IF Hil THEN "C_wait" ELSE "sleep")
  /\ Give("EST_MTX")
  /\ r' = Empty
  /\ UNCHANGED <<frameVars, G_CMD_ARMED, EST_STATE, telemVars>>

ControlWait ==
  /\ Go("control", "C_wait", "C_read")
  /\ Take("HIL_EVT")
  /\ UNCHANGED <<frameVars, G_CMD_ARMED, estVars, telemVars>>

ControlNext ==
  ControlStep \/ ControlLock \/ ControlPublish \/ ControlUnlock \/ ControlWait

-----------------------------------------------------------------------------
(* sensors, priority 5: samples and writes the frame, except in the HIL build *)

SensorsRead ==
  /\ Go("sensors", "S_read", IF Hil THEN "sleep" ELSE "S_write")
  /\ IF Hil
     THEN UNCHANGED frameVars
     ELSE /\ phys' = NextSample
          /\ BeginWrite([f \in Field |-> NextSample])
  /\ UNCHANGED <<sem, G_CMD_ARMED, estVars, telemVars>>

SensorsWrite ==
  /\ \/ Go("sensors", "S_write", "S_write") /\ WriteField
     \/ Go("sensors", "S_write", "sleep") /\ EndWrite
  /\ UNCHANGED <<sem, phys, G_CMD_ARMED, estVars, telemVars>>

SensorsNext == SensorsRead \/ SensorsWrite

-----------------------------------------------------------------------------
(* uplink, priority 10 *)

\* COMMAND_LONG(ARM_DISARM): the command is stored, then acknowledged.
UplinkArm ==
  /\ Go("uplink", "U_poll", "U_tx")
  /\ G_CMD_ARMED' \in BOOLEAN
  /\ UNCHANGED <<sem, frameVars, estVars, telemVars>>

\* Fault: the answer is written without the guard.
UplinkReplyUnlocked ==
  /\ Go("uplink", "U_poll", "U_put")
  /\ UNCHANGED <<sem, frameVars, G_CMD_ARMED, estVars, telemVars>>

\* Any other answer of this task: a reply, a streamed parameter, the version.
UplinkReply ==
  /\ Go("uplink", "U_poll", "U_tx")
  /\ UNCHANGED <<sem, frameVars, G_CMD_ARMED, estVars, telemVars>>

\* send_frame: the lock, the two halves of the copy into the ring, the unlock.
UplinkLock ==
  /\ Go("uplink", "U_tx", "U_put")
  /\ Take("USB_TX_MTX")
  /\ UNCHANGED <<frameVars, G_CMD_ARMED, estVars, telemVars>>

UplinkPut ==
  /\ \/ Go("uplink", "U_put", "U_mid")
     \/ Go("uplink", "U_mid", "U_unlock")
  /\ UNCHANGED <<sem, frameVars, G_CMD_ARMED, estVars, telemVars>>

\* Fault: the guard is never dropped.
UplinkKeepsLock ==
  /\ Go("uplink", "U_unlock", "U_poll")
  /\ UNCHANGED <<sem, frameVars, G_CMD_ARMED, estVars, telemVars>>

UplinkUnlock ==
  /\ Go("uplink", "U_unlock", "U_poll")
  /\ Give("USB_TX_MTX")
  /\ UNCHANGED <<frameVars, G_CMD_ARMED, estVars, telemVars>>

\* What hil_write_sensor_frame stores for each kind of injected message, n
\* being the number of its sample.
Injection(kind, n) ==
  [imu  |-> IF kind = "HIL_SENSOR" THEN n ELSE Keep,
   baro |-> IF kind = "HIL_SENSOR" THEN n ELSE Keep,
   gps  |-> IF kind = "HIL_GPS" THEN n ELSE Keep,
   rc |-> NoSample, armed |-> NoSample]

Message == {"HIL_SENSOR", "HIL_GPS", "SET_POSITION"}

\* A HIL_SENSOR opens a physics step; a HIL_GPS is of the step that is open, or
\* of the first if there is none.  It and the set point
\* (SET_POSITION_TARGET_LOCAL_NED) are taken at any time.
UplinkInject(kind) ==
  /\ Hil
  /\ Go("uplink", "U_poll", "U_write")
  /\ phys' = IF kind = "HIL_SENSOR" THEN NextSample ELSE phys
  /\ BeginWrite(Injection(kind, IF phys' \in Sample THEN phys' ELSE 0))
  /\ UNCHANGED <<sem, G_CMD_ARMED, estVars, telemVars>>

\* Fault: the event is given before the frame is complete.
UplinkWriteGivesEarly ==
  /\ \/ Go("uplink", "U_write", "U_write") /\ WriteField /\ Give("HIL_EVT")
     \/ Go("uplink", "U_write", "U_give") /\ EndWrite /\ UNCHANGED sem
  /\ UNCHANGED <<phys, G_CMD_ARMED, estVars, telemVars>>

UplinkWrite ==
  /\ \/ Go("uplink", "U_write", "U_write") /\ WriteField
     \/ Go("uplink", "U_write", "U_give") /\ EndWrite
  /\ UNCHANGED <<sem, phys, G_CMD_ARMED, estVars, telemVars>>

\* Fault: the event is not given.
UplinkForgetsGive ==
  /\ Go("uplink", "U_give", "U_poll")
  /\ UNCHANGED <<sem, frameVars, G_CMD_ARMED, estVars, telemVars>>

UplinkGive ==
  /\ Go("uplink", "U_give", "U_poll")
  /\ Give("HIL_EVT")
  /\ UNCHANGED <<frameVars, G_CMD_ARMED, estVars, telemVars>>

\* The bytes read are used up: msleep(1).
UplinkSleep ==
  /\ Go("uplink", "U_poll", "sleep")
  /\ UNCHANGED <<sem, frameVars, G_CMD_ARMED, estVars, telemVars>>

UplinkNext ==
  \/ UplinkArm \/ UplinkReply \/ UplinkLock \/ UplinkPut \/ UplinkUnlock
  \/ (\E kind \in Message : UplinkInject(kind))
  \/ UplinkWrite \/ UplinkGive \/ UplinkSleep

-----------------------------------------------------------------------------
(* telem, priority 12 *)

\* Fault: the snapshot is taken without the guard.
TelemLockFree ==
  /\ Go("telem", "T_lock", "T_est")
  /\ UNCHANGED <<sem, frameVars, G_CMD_ARMED, estVars, telemVars>>

TelemLock ==
  /\ Go("telem", "T_lock", "T_est")
  /\ Take("EST_MTX")
  /\ UNCHANGED <<frameVars, G_CMD_ARMED, estVars, telemVars>>

\* The snapshot copies one member of EST_STATE after the other.
TelemCopy ==
  /\ \/ /\ Go("telem", "T_est", "T_health")
        /\ snap' = [snap EXCEPT !.est = EST_STATE.est]
     \/ /\ Go("telem", "T_health", "T_armed")
        /\ snap' = [snap EXCEPT !.health = EST_STATE.health]
     \/ /\ Go("telem", "T_armed", "T_unlock")
        /\ snap' = [snap EXCEPT !.armed = EST_STATE.armed]
  /\ UNCHANGED <<sem, frameVars, G_CMD_ARMED, estVars, burst>>

\* Fault: the guard outlives the snapshot.
TelemKeepsLock ==
  /\ Go("telem", "T_unlock", "T_tx")
  /\ UNCHANGED <<sem, frameVars, G_CMD_ARMED, estVars, telemVars>>

TelemUnlock ==
  /\ Go("telem", "T_unlock", "T_tx")
  /\ Give("EST_MTX")
  /\ UNCHANGED <<frameVars, G_CMD_ARMED, estVars, telemVars>>

\* The burst: one lock around all its frames.
TelemTxLock ==
  /\ Go("telem", "T_tx", "T_put")
  /\ Take("USB_TX_MTX")
  /\ UNCHANGED <<frameVars, G_CMD_ARMED, estVars, telemVars>>

TelemPut ==
  /\ \/ Go("telem", "T_put", "T_mid") /\ UNCHANGED burst
     \/ /\ Go("telem", "T_mid",
              IF burst + 1 < TelemFrames THEN "T_put" ELSE "T_txend")
        /\ burst' = burst + 1
  /\ UNCHANGED <<sem, frameVars, G_CMD_ARMED, estVars, snap>>

\* The end of the burst, and in the other build the end of the cycle: msleep(20).
TelemTxEnd ==
  /\ Go("telem", "T_txend", IF Hil THEN "T_htx" ELSE "sleep")
  /\ Give("USB_TX_MTX")
  /\ burst' = 0
  /\ snap' = IF Hil THEN snap ELSE NoView
  /\ UNCHANGED <<frameVars, G_CMD_ARMED, estVars>>

\* Fault: the second frame is written without the guard.
TelemHilLockFree ==
  /\ Go("telem", "T_htx", "T_hput")
  /\ UNCHANGED <<sem, frameVars, G_CMD_ARMED, estVars, telemVars>>

\* HIL build: HIL_ACTUATOR_CONTROLS under a second lock of its own.
TelemHilLock ==
  /\ Go("telem", "T_htx", "T_hput")
  /\ Take("USB_TX_MTX")
  /\ UNCHANGED <<frameVars, G_CMD_ARMED, estVars, telemVars>>

TelemHilPut ==
  /\ \/ Go("telem", "T_hput", "T_hmid")
     \/ Go("telem", "T_hmid", "T_hend")
  /\ UNCHANGED <<sem, frameVars, G_CMD_ARMED, estVars, telemVars>>

TelemHilEnd ==
  /\ Go("telem", "T_hend", "sleep")
  /\ Give("USB_TX_MTX")
  /\ snap' = NoView
  /\ UNCHANGED <<frameVars, G_CMD_ARMED, estVars, burst>>

TelemNext ==
  \/ TelemLock \/ TelemCopy \/ TelemUnlock \/ TelemTxLock \/ TelemPut
  \/ TelemTxEnd \/ TelemHilLock \/ TelemHilPut \/ TelemHilEnd

-----------------------------------------------------------------------------
(* The system *)

\* Where a task resumes when its msleep is over: the top of its loop.
LoopTop ==
  [control |-> "C_read", sensors |-> "S_read", uplink |-> "U_poll",
   telem |-> "T_lock"]

\* The tick interrupt ends a task's msleep; a task that has not run yet starts.
Wake(t) ==
  /\ pc[t] = "sleep"
  /\ pc' = [pc EXCEPT ![t] = LoopTop[t]]
  /\ UNCHANGED <<sem, frameVars, G_CMD_ARMED, estVars, telemVars>>

\* What spawn_flyctrl makes: the globals and the semaphores are initialised,
\* then the tasks are created, control as the first of the four.
Init ==
  /\ pc = [t \in Task |-> IF t = "control" THEN "C_read" ELSE "sleep"]
  /\ sem = InitialCount
  /\ SENSOR_SEQ = 0
  /\ SENSOR_FRAME = [f \in Field |-> NoSample]
  /\ incoming = [f \in Field |-> Keep]
  /\ written = 0
  /\ phys = NoSample
  /\ G_CMD_ARMED = FALSE
  /\ r = Empty
  /\ EST_STATE = Empty
  /\ snap = NoView
  /\ burst = 0

CpuNext == ControlNext \/ SensorsNext \/ UplinkNext \/ TelemNext

Next == CpuNext \/ \E t \in Task : Wake(t)

Spec == Init /\ [][Next]_vars

\* The processor never stops with work to do, and every msleep ends.
Fairness == WF_vars(CpuNext) /\ \A t \in Task : WF_vars(Wake(t))

FairSpec == Spec /\ Fairness
-----------------------------------------------------------------------------
(* Properties *)

TypeOK ==
  /\ pc["control"] \in {"sleep", "C_read", "C_lock", "C_armed", "C_est",
                        "C_health", "C_unlock", "C_wait"}
  /\ pc["sensors"] \in {"sleep", "S_read", "S_write"}
  /\ pc["uplink"] \in {"sleep", "U_poll", "U_tx", "U_put", "U_mid", "U_unlock",
                       "U_write", "U_give"}
  /\ pc["telem"] \in {"sleep", "T_lock", "T_est", "T_health", "T_armed",
                      "T_unlock", "T_tx", "T_put", "T_mid", "T_txend", "T_htx",
                      "T_hput", "T_hmid", "T_hend"}
  /\ DOMAIN pc = Task
  /\ sem \in [Sem -> 0 .. EvtLimit]
  /\ SENSOR_SEQ \in {0, 1}
  /\ SENSOR_FRAME \in [Field -> Sample \cup {NoSample}]
  /\ incoming \in [Field -> Sample \cup {NoSample, Keep}]
  /\ written \in 0 .. 5
  /\ phys \in Sample \cup {NoSample}
  /\ G_CMD_ARMED \in BOOLEAN
  /\ r \in Outcome
  /\ EST_STATE \in Outcome
  /\ snap \in [armed : BOOLEAN, est : Est, health : Health \cup {"none"}]
  /\ burst \in 0 .. TelemFrames

\* The two guarded regions of EST_MTX and the three of USB_TX_MTX.
ControlHoldsEst == pc["control"] \in {"C_armed", "C_est", "C_health", "C_unlock"}
TelemHoldsEst   == pc["telem"] \in {"T_est", "T_health", "T_armed", "T_unlock"}
TelemHoldsTx    == pc["telem"] \in {"T_put", "T_mid", "T_txend", "T_hput", "T_hmid", "T_hend"}
UplinkHoldsTx   == pc["uplink"] \in {"U_put", "U_mid", "U_unlock"}

\* While telem works on a finished snapshot.
TelemSending ==
  pc["telem"] \in {"T_tx", "T_put", "T_mid", "T_txend", "T_htx", "T_hput", "T_hmid", "T_hend"}

\* The frames of usb0 are never interleaved: telem is never between the first
\* and the last byte of its burst while uplink is inside a frame of its own.
TxExclusive == ~(TelemHoldsTx /\ UplinkHoldsTx)

\* EST_STATE is an atomic register.  The publication takes effect when control
\* takes EST_MTX, the snapshot when telem does.
ER == INSTANCE EstRegister WITH
        Initial <- Empty,
        value   <- IF ControlHoldsEst THEN r ELSE EST_STATE,
        view    <- IF TelemHoldsEst THEN EST_STATE
                   ELSE IF TelemSending THEN snap ELSE NoView

\* Every downlink burst describes one estimate that control published as a
\* whole, the latest one when the burst took its snapshot.
EstAtomic == ER!RSpec

\* Build without HIL: the frame control reads is the last sample up to some
\* field and the one before it from there on; it is all one sample when the
\* marker is even.  (A reader does not check the marker, control.rs 91-97.)
TornByOneSample ==
  pc["control"] = "C_read" /\ ~Hil =>
    \E k \in 0 .. 5, before \in {NoSample, (phys + NSamples - 1) % NSamples} :
      /\ \A i \in 1 .. 5 :
           SENSOR_FRAME[FieldOrder[i]] = IF i =< k THEN phys ELSE before
      /\ SENSOR_SEQ = 0 => k = 5 \/ phys = NoSample

\* HIL build: control never reads a frame in the middle of its writing, because
\* it only wakes after a give, or after telem's unlock with uplink asleep.
HilReadsWhole == Hil /\ pc["control"] = "C_read" => SENSOR_SEQ = 0

\* HIL build: an IMU sample that control has not taken is announced: the event
\* is pending, or uplink is on its way to give it, or control is about to read.
NoLostWakeup ==
  Hil /\ SENSOR_FRAME.imu # NoSample =>
    \/ sem["HIL_EVT"] > 0
    \/ pc["uplink"] \in {"U_write", "U_give"}
    \/ pc["control"] = "C_read"

\* HIL build: an IMU sample is lost to the next one only while control is kept
\* waiting for EST_MTX.
LostOnlyWhileBlocked ==
  [][ /\ Hil
      /\ SENSOR_FRAME.imu # NoSample
      /\ SENSOR_FRAME'.imu \notin {SENSOR_FRAME.imu, NoSample}
      => pc["control"] = "C_lock" ]_vars

\* No deadlock among the tasks: with the processor idle every task is asleep,
\* or control waits for the event that the next injected frame gives.
IdleOnlyAsleep ==
  Idle => \A t \in Task : pc[t] \in {"sleep", "C_wait"}

\* The processor is not overloaded for ever.  Nothing in the code ensures it
\* (there is no budget or watchdog), so it is a premise of what follows.
NoOverload == []<>Idle

\* Every telemetry cycle reaches its end, although all others preempt it.
TelemCycles == NoOverload => (pc["telem"] = "T_lock" ~> pc["telem"] = "sleep")

\* The simulator keeps sending: uplink injects again and again.
SimulatorRuns == []<>(pc["uplink"] = "U_give")

\* An accepted ARM command that stands is published; in the HIL build only if
\* injected frames keep coming, since control runs on nothing else.
ArmTakesEffect ==
  NoOverload /\ (Hil => SimulatorRuns)
    => (G_CMD_ARMED ~> EST_STATE.armed \/ ~G_CMD_ARMED)

\* HIL build: an injected IMU sample is taken.
InjectionTaken ==
  NoOverload => (SENSOR_FRAME.imu # NoSample ~> SENSOR_FRAME.imu = NoSample)

\* What uplink.rs 141-144 says of the HIL event: the messages of one physics
\* step make one wake-up, so every control step after the link is up has the
\* IMU sample of that physics step.
OneStepPerPhysicsStep ==
  Hil /\ pc["control"] = "C_read" /\ phys # NoSample => SENSOR_FRAME.imu = phys
=============================================================================
