------------------------------ MODULE HilProofs ------------------------------
(***************************************************************************)
(* Proofs about the frame that sensors or uplink write and control reads   *)
(* (FlightTasks, both builds), and about the set point and the actuator    *)
(* command of the HIL build (HilLoop).  The argument is one about          *)
(* priorities: while uplink stores something, control is held up, because  *)
(* uplink would not run otherwise, and nothing of lower priority can end   *)
(* its wait until uplink sleeps.                                           *)
(***************************************************************************)
EXTENDS HilLoop, FlightTasksProofs

\* control cannot run: it waits for an event or a mutex that is not there.
ControlBlocked ==
  \/ pc["control"] = "C_wait" /\ sem["HIL_EVT"] = 0
  \/ pc["control"] = "C_lock" /\ sem["EST_MTX"] = 0

\* Each build has one writer, and the marker is odd while it writes.
WriterInv ==
  /\ Hil => pc["sensors"] # "S_write" /\ pc["control"] # "sleep"
  /\ ~Hil => pc["uplink"] \notin {"U_write", "U_give"}
  /\ SENSOR_SEQ = IF pc["uplink"] = "U_write" \/ pc["sensors"] = "S_write"
                  THEN 1 ELSE 0

\* While uplink writes the frame, control is held up; and by EST_MTX when the
\* frame still has an IMU sample that control has not taken.
BlockedInv ==
  pc["uplink"] = "U_write" =>
    /\ ControlBlocked
    /\ written = 0 /\ SENSOR_FRAME.imu # NoSample => pc["control"] = "C_lock"

\* Build without HIL: what sensors has stored is the new sample, the rest of the
\* frame the sample before.
TornInv ==
  ~Hil =>
    IF pc["sensors"] = "S_write"
    THEN /\ phys \in Sample
         /\ incoming = [f \in Field |-> phys]
         /\ \E before \in {NoSample, (phys + NSamples - 1) % NSamples} :
              \A i \in 1 .. 5 :
                SENSOR_FRAME[FieldOrder[i]] = IF i =< written THEN phys ELSE before
    ELSE \A i \in 1 .. 5 : SENSOR_FRAME[FieldOrder[i]] = phys

FrameInv == WriterInv /\ BlockedInv /\ NoLostWakeup /\ TornInv

-----------------------------------------------------------------------------
\* Only a task that no other task of higher priority could replace runs.
LEMMA LowerWaits ==
  ASSUME NEW t \in Task, NEW u \in Task, Running(t), Prio[u] < Prio[t]
  PROVE  ~Runnable(u)
<1>1. Prio[t] \in Nat /\ Prio[u] \in Nat
  BY DEF Prio, Task
<1>2. QED
  BY <1>1 DEF Running

\* A task at a point where it waits for nothing could run.
LEMMA ReadyAt ==
  ASSUME NEW t \in Task, pc[t] # "sleep", pc[t] \notin DOMAIN WaitPoint
  PROVE  Runnable(t)
BY DEF Runnable

\* When uplink runs, control is held up.
LEMMA UplinkRunsBlocked ==
  ASSUME IInv, WriterInv, Hil, Running("uplink")
  PROVE  ControlBlocked
<1>1. ~Runnable("control")
  BY LowerWaits DEF Task, Prio
<1>2. /\ pc["control"] \in DOMAIN WaitPoint
      /\ ~(sem[WaitPoint[pc["control"]]] > 0)
  BY <1>1 DEF Runnable, WriterInv
<1>3. pc["control"] \in {"C_lock", "C_wait"}
  BY <1>2 DEF WaitPoint, IInv, TypeOK
<1>4. sem["HIL_EVT"] \in Nat /\ sem["EST_MTX"] \in Nat
  BY FlightAssumption DEF IInv, TypeOK, Sem
<1>5. QED
  BY <1>2, <1>3, <1>4 DEF ControlBlocked, WaitPoint

\* Neither control, when it is held up, nor telem runs while uplink writes.
LEMMA WritingKeepsOut ==
  ASSUME IInv, BlockedInv, pc["uplink"] = "U_write"
  PROVE  ~Running("control") /\ ~Running("telem")
<1>1. Runnable("uplink")
  BY ReadyAt DEF Task, WaitPoint
<1>2. ~Running("telem")
  BY <1>1, LowerWaits DEF Task, Prio
<1>3. ~Runnable("control")
  BY DEF BlockedInv, ControlBlocked, Runnable, WaitPoint
<1>4. QED
  BY <1>2, <1>3 DEF Running

-----------------------------------------------------------------------------
LEMMA InitFrameInv == Init => FrameInv
<1> SUFFICES ASSUME Init PROVE FrameInv
  OBVIOUS
<1>1. /\ pc["control"] = "C_read" /\ pc["sensors"] = "sleep" /\ pc["uplink"] = "sleep"
      /\ SENSOR_SEQ = 0 /\ phys = NoSample
  BY DEF Init, Task
<1>2. SENSOR_FRAME = [f \in Field |-> NoSample]
  BY DEF Init
<1>3. SENSOR_FRAME.imu = NoSample /\ \A i \in 1 .. 5 : SENSOR_FRAME[FieldOrder[i]] = phys
  BY <1>1, <1>2 DEF Field, FieldOrder
<1>4. QED
  BY <1>1, <1>3 DEF FrameInv, WriterInv, BlockedInv, NoLostWakeup, TornInv

-----------------------------------------------------------------------------
(* One lemma per task: its steps preserve FrameInv. *)

LEMMA ControlFrameInv == IInv /\ FrameInv /\ ControlNext => FrameInv'
<1> SUFFICES ASSUME IInv, FrameInv, ControlNext PROVE FrameInv'
  OBVIOUS
<1> USE DEF FrameInv
<1>t. DOMAIN pc = Task /\ Task = {"control", "sensors", "uplink", "telem"}
  BY DEF IInv, TypeOK, Task
<1>1. /\ Running("control")
      /\ pc'["sensors"] = pc["sensors"] /\ pc'["uplink"] = pc["uplink"]
      /\ UNCHANGED <<SENSOR_SEQ, written, incoming, phys>>
  <2>1. \E from, to : Go("control", from, to)
    BY DEF ControlNext, ControlStep, ControlLock, ControlPublish, ControlUnlock, ControlWait
  <2>2. UNCHANGED <<SENSOR_SEQ, written, incoming, phys>>
    BY DEF ControlNext, ControlStep, ControlLock, ControlPublish, ControlUnlock,
       ControlWait, frameVars
  <2>3. QED
    BY <1>t, <2>1, <2>2, GoMoves DEF Go
<1>2. pc["uplink"] # "U_write"
  BY <1>1, WritingKeepsOut
<1>3. /\ ~Hil => SENSOR_FRAME' = SENSOR_FRAME
      /\ SENSOR_FRAME'.imu \in {SENSOR_FRAME.imu, NoSample}
      /\ Hil => pc'["control"] # "sleep"
      /\ \/ SENSOR_FRAME'.imu = SENSOR_FRAME.imu /\ pc["control"] # "C_read"
            /\ (sem'["HIL_EVT"] = sem["HIL_EVT"] \/ pc'["control"] = "C_read")
         \/ Hil => SENSOR_FRAME'.imu = NoSample
  <2>1. CASE ControlStep
    <3>1. /\ Go("control", "C_read", "C_lock")
          /\ SENSOR_FRAME' = IF Hil THEN [SENSOR_FRAME EXCEPT !.imu = NoSample]
                                    ELSE SENSOR_FRAME
      BY <2>1 DEF ControlStep
    <3>2. pc'["control"] = "C_lock"
      BY <1>t, <3>1, GoMoves
    <3>3. SENSOR_FRAME \in [Field -> Sample \cup {NoSample}]
      BY DEF IInv, TypeOK
    <3>4. Hil => SENSOR_FRAME'.imu = NoSample
      BY <3>1, <3>3 DEF Field
    <3>5. QED
      BY <3>1, <3>2, <3>4
  <2>2. CASE ControlLock \/ ControlPublish \/ ControlUnlock
    <3>1. /\ SENSOR_FRAME' = SENSOR_FRAME
          /\ \/ sem' = sem
             \/ sem' = [sem EXCEPT !["EST_MTX"] = @ - 1]
             \/ Give("EST_MTX")
          /\ \E to \in {"C_armed", "C_est", "C_health", "C_unlock",
                        IF Hil THEN "C_wait" ELSE "sleep"} :
             \E from \in {"C_lock", "C_armed", "C_est", "C_health", "C_unlock"} :
               Go("control", from, to)
      BY <2>2 DEF ControlLock, ControlPublish, ControlUnlock, frameVars, Take
    <3>2. pc["control"] # "C_read" /\ (Hil => pc'["control"] # "sleep")
      BY <1>t, <3>1, GoMoves
    <3>3. sem'["HIL_EVT"] = sem["HIL_EVT"]
      BY <3>1 DEF Give, IInv, TypeOK, Sem
    <3>4. QED
      BY <3>1, <3>2, <3>3
  <2>3. CASE ControlWait
    <3>1. SENSOR_FRAME' = SENSOR_FRAME /\ Go("control", "C_wait", "C_read")
      BY <2>3 DEF ControlWait, frameVars
    <3>2. pc["control"] = "C_wait" /\ pc'["control"] = "C_read"
      BY <1>t, <3>1, GoMoves
    <3>3. QED
      BY <3>1, <3>2
  <2>4. QED
    BY <2>1, <2>2, <2>3 DEF ControlNext
<1>4. WriterInv' /\ BlockedInv'
  BY <1>1, <1>2, <1>3 DEF WriterInv, BlockedInv
<1>5. NoLostWakeup'
  BY <1>1, <1>2, <1>3 DEF NoLostWakeup
<1>6. TornInv'
  BY <1>1, <1>3 DEF TornInv
<1>7. QED
  BY <1>4, <1>5, <1>6

LEMMA TelemFrameInv == IInv /\ FrameInv /\ TelemNext => FrameInv'
<1> SUFFICES ASSUME IInv, FrameInv, TelemNext PROVE FrameInv'
  OBVIOUS
<1> USE DEF FrameInv
<1>t. DOMAIN pc = Task /\ Task = {"control", "sensors", "uplink", "telem"}
  BY DEF IInv, TypeOK, Task
<1>1. /\ \E from, to : Go("telem", from, to)
      /\ UNCHANGED <<SENSOR_SEQ, SENSOR_FRAME, incoming, written, phys>>
  BY DEF TelemNext, TelemLock, TelemCopy, TelemUnlock, TelemTxLock, TelemPut,
     TelemTxEnd, TelemHilLock, TelemHilPut, TelemHilEnd, frameVars
<1>2. /\ Running("telem") /\ pc'["sensors"] = pc["sensors"]
      /\ pc'["uplink"] = pc["uplink"] /\ pc'["control"] = pc["control"]
  BY <1>t, <1>1, GoMoves DEF Go
<1>3. pc["uplink"] # "U_write"
  BY <1>2, WritingKeepsOut
<1>4. \/ sem' = sem
      \/ sem' = [sem EXCEPT !["EST_MTX"] = @ - 1]
      \/ sem' = [sem EXCEPT !["USB_TX_MTX"] = @ - 1]
      \/ Give("EST_MTX") \/ Give("USB_TX_MTX")
  BY DEF TelemNext, TelemLock, TelemCopy, TelemUnlock, TelemTxLock, TelemPut,
     TelemTxEnd, TelemHilLock, TelemHilPut, TelemHilEnd, Take
<1>5. sem'["HIL_EVT"] = sem["HIL_EVT"]
  BY <1>4 DEF Give, IInv, TypeOK, Sem
<1>6. WriterInv' /\ BlockedInv' /\ NoLostWakeup'
  BY <1>1, <1>2, <1>3, <1>5 DEF WriterInv, BlockedInv, NoLostWakeup
<1>7. TornInv'
  BY <1>1, <1>2 DEF TornInv
<1>8. QED
  BY <1>6, <1>7

\* The sample before the next one is the present one.
LEMMA BeforeNext ==
  ASSUME phys \in Sample
  PROVE  (NextSample + NSamples - 1) % NSamples = phys
<1>1. NSamples \in Nat \ {0} /\ phys \in 0 .. NSamples - 1
  BY FlightAssumption DEF Sample
<1>2. CASE phys + 1 < NSamples
  <2>1. (phys + 1) % NSamples = phys + 1
    BY <1>1, <1>2
  <2>2. (phys + NSamples) % NSamples = phys
    BY <1>1
  <2>3. QED
    BY <1>1, <2>1, <2>2 DEF NextSample
<1>3. CASE phys + 1 = NSamples
  <2>1. (phys + 1) % NSamples = 0
    BY <1>1, <1>3
  <2>2. (NSamples - 1) % NSamples = NSamples - 1
    BY <1>1
  <2>3. QED
    BY <1>1, <1>3, <2>1, <2>2 DEF NextSample
<1>4. QED
  BY <1>1, <1>2, <1>3

\* The five fields are different and all there.
LEMMA FieldPlaces ==
  /\ \A i \in 1 .. 5 : FieldOrder[i] \in Field
  /\ \A i, j \in 1 .. 5 : i # j => FieldOrder[i] # FieldOrder[j]
  /\ FieldOrder[1] = "imu"
BY DEF FieldOrder, Field

LEMMA SensorsFrameInv == IInv /\ FrameInv /\ SensorsNext => FrameInv'
<1> SUFFICES ASSUME IInv, FrameInv, SensorsNext PROVE FrameInv'
  OBVIOUS
<1> USE DEF FrameInv
<1>t. DOMAIN pc = Task /\ Task = {"control", "sensors", "uplink", "telem"}
  BY DEF IInv, TypeOK, Task
<1>1. CASE SensorsRead
  <2>1. /\ Go("sensors", "S_read", IF Hil THEN "sleep" ELSE "S_write")
        /\ sem' = sem
    BY <1>1 DEF SensorsRead
  <2>2. /\ pc["sensors"] = "S_read"
        /\ pc'["sensors"] = IF Hil THEN "sleep" ELSE "S_write"
        /\ pc'["control"] = pc["control"] /\ pc'["uplink"] = pc["uplink"]
    BY <1>t, <2>1, GoMoves
  <2>3. CASE Hil
    <3>1. UNCHANGED <<SENSOR_SEQ, SENSOR_FRAME, incoming, written, phys>>
      BY <1>1, <2>3 DEF SensorsRead, frameVars
    <3>2. QED
      BY <2>1, <2>2, <2>3, <3>1
         DEF WriterInv, BlockedInv, ControlBlocked, NoLostWakeup, TornInv
  <2>4. CASE ~Hil
    <3>1. /\ phys' = NextSample
          /\ SENSOR_SEQ' = (SENSOR_SEQ + 1) % 2
          /\ incoming' = [f \in Field |-> NextSample]
          /\ written' = 0
          /\ SENSOR_FRAME' = SENSOR_FRAME
      BY <1>1, <2>4 DEF SensorsRead, BeginWrite
    <3>2. NextSample \in Sample
      BY NextSampleType DEF IInv, TypeOK
    <3>3. pc["uplink"] # "U_write" /\ SENSOR_SEQ = 0
      BY <2>2, <2>4 DEF WriterInv
    <3>4. WriterInv' /\ BlockedInv' /\ NoLostWakeup'
      BY <2>2, <2>4, <3>1, <3>3 DEF WriterInv, BlockedInv, NoLostWakeup
    <3>5. \A i \in 1 .. 5 : SENSOR_FRAME[FieldOrder[i]] = phys
      BY <2>2, <2>4 DEF TornInv
    <3>6. phys \in {NoSample, (NextSample + NSamples - 1) % NSamples}
      BY BeforeNext DEF IInv, TypeOK
    <3>7. \A i \in 1 .. 5 :
            SENSOR_FRAME'[FieldOrder[i]] = IF i =< written' THEN phys' ELSE phys
      BY <3>1, <3>5
    <3>8. TornInv'
      BY <2>2, <2>4, <3>1, <3>2, <3>6, <3>7 DEF TornInv
    <3>9. QED
      BY <3>4, <3>8
  <2>5. QED
    BY <2>3, <2>4
<1>2. CASE SensorsWrite
  <2>1. /\ \/ Go("sensors", "S_write", "S_write") /\ WriteField
           \/ Go("sensors", "S_write", "sleep") /\ EndWrite
        /\ UNCHANGED <<sem, phys>>
    BY <1>2 DEF SensorsWrite
  <2>2. /\ pc["sensors"] = "S_write"
        /\ \/ pc'["sensors"] = "S_write" /\ WriteField
           \/ pc'["sensors"] = "sleep" /\ EndWrite
        /\ pc'["control"] = pc["control"] /\ pc'["uplink"] = pc["uplink"]
    BY <1>t, <2>1, GoMoves
  <2>3. ~Hil /\ pc["uplink"] # "U_write" /\ SENSOR_SEQ = 1
    BY <2>2 DEF WriterInv
  <2>4. WriterInv' /\ BlockedInv' /\ NoLostWakeup'
    BY <2>2, <2>3 DEF WriterInv, BlockedInv, NoLostWakeup, WriteField, EndWrite
  <2>5. PICK before \in {NoSample, (phys + NSamples - 1) % NSamples} :
          \A i \in 1 .. 5 :
            SENSOR_FRAME[FieldOrder[i]] = IF i =< written THEN phys ELSE before
    BY <2>2, <2>3 DEF TornInv
  <2>6. phys \in Sample /\ incoming = [f \in Field |-> phys]
    BY <2>2, <2>3 DEF TornInv
  <2>7. CASE WriteField
    <3>1. /\ written \in 0 .. 4 /\ written' = written + 1 /\ incoming' = incoming
          /\ SENSOR_FRAME' = [SENSOR_FRAME EXCEPT
               ![FieldOrder[written + 1]] =
                 IF incoming[FieldOrder[written + 1]] = Keep THEN @
                 ELSE incoming[FieldOrder[written + 1]]]
      BY <2>7 DEF WriteField, IInv, TypeOK
    <3>2. /\ written + 1 \in 1 .. 5
          /\ FieldOrder[written + 1] \in Field
      BY <3>1, FieldPlaces
    <3>3. incoming[FieldOrder[written + 1]] = phys /\ phys # Keep
      BY <2>6, <3>2 DEF Sample, Keep
    <3>4. SENSOR_FRAME' = [SENSOR_FRAME EXCEPT ![FieldOrder[written + 1]] = phys]
      BY <3>1, <3>3
    <3>5. DOMAIN SENSOR_FRAME = Field
      BY DEF IInv, TypeOK
    <3>6. ASSUME NEW i \in 1 .. 5
          PROVE  SENSOR_FRAME'[FieldOrder[i]] = IF i =< written' THEN phys ELSE before
      <4>1. CASE i = written + 1
        BY <3>1, <3>2, <3>4, <3>5, <4>1
      <4>2. CASE i # written + 1
        <5>1. FieldOrder[i] # FieldOrder[written + 1]
          BY <3>2, <4>2, FieldPlaces
        <5>2. SENSOR_FRAME'[FieldOrder[i]] = SENSOR_FRAME[FieldOrder[i]]
          BY <3>4, <3>5, <5>1, FieldPlaces
        <5>3. i =< written' <=> i =< written
          BY <3>1, <4>2
        <5>4. QED
          BY <2>5, <5>2, <5>3
      <4>3. QED
        BY <4>1, <4>2
    <3>7. pc'["sensors"] = "S_write"
      BY <2>2, <2>7, <3>1 DEF EndWrite
    <3>8. phys' = phys
      BY <2>1
    <3>9. TornInv'
      BY <2>3, <2>6, <3>1, <3>6, <3>7, <3>8 DEF TornInv
    <3>10. QED
      BY <2>4, <3>9
  <2>8. CASE EndWrite
    <3>1. written = 5 /\ SENSOR_FRAME' = SENSOR_FRAME /\ written' = 0
      BY <2>8 DEF EndWrite
    <3>2. pc'["sensors"] = "sleep"
      BY <2>2, <3>1 DEF WriteField
    <3>3. \A i \in 1 .. 5 : SENSOR_FRAME'[FieldOrder[i]] = phys'
      BY <2>1, <2>5, <3>1
    <3>4. QED
      BY <2>4, <3>2, <3>3 DEF TornInv
  <2>9. QED
    BY <2>2, <2>7, <2>8
<1>3. QED
  BY <1>1, <1>2 DEF SensorsNext

LEMMA UplinkFrameInv == IInv /\ FrameInv /\ UplinkNext => FrameInv'
<1> SUFFICES ASSUME IInv, FrameInv, UplinkNext PROVE FrameInv'
  OBVIOUS
<1> USE DEF FrameInv
<1>t. DOMAIN pc = Task /\ Task = {"control", "sensors", "uplink", "telem"}
  BY DEF IInv, TypeOK, Task
<1>1. /\ \E from, to : Go("uplink", from, to)
      /\ \A u \in Task \ {"uplink"} : pc'[u] = pc[u]
  <2>1. \E from, to : Go("uplink", from, to)
    BY DEF UplinkNext, UplinkArm, UplinkReply, UplinkLock, UplinkPut, UplinkUnlock,
       UplinkInject, UplinkWrite, UplinkGive, UplinkSleep
  <2>2. QED
    BY <1>t, <2>1, GoMoves
<1>2. Running("uplink")
  BY <1>1 DEF Go
<1>3. CASE UplinkArm \/ UplinkReply \/ UplinkLock \/ UplinkPut \/ UplinkUnlock \/ UplinkSleep
  <2>1. /\ \E from \in {"U_poll", "U_tx", "U_put", "U_mid", "U_unlock"},
              to \in {"U_poll", "U_tx", "U_put", "U_mid", "U_unlock", "sleep"} :
             Go("uplink", from, to)
        /\ UNCHANGED <<SENSOR_SEQ, SENSOR_FRAME, incoming, written, phys>>
        /\ \/ sem' = sem
           \/ sem' = [sem EXCEPT !["USB_TX_MTX"] = @ - 1]
           \/ Give("USB_TX_MTX")
    BY <1>3 DEF UplinkArm, UplinkReply, UplinkLock, UplinkPut, UplinkUnlock,
       UplinkSleep, frameVars, Take
  <2>2. /\ pc["uplink"] \notin {"U_write", "U_give"}
        /\ pc'["uplink"] \notin {"U_write", "U_give"}
    BY <1>t, <2>1, GoMoves
  <2>3. sem'["HIL_EVT"] = sem["HIL_EVT"]
    BY <2>1 DEF Give, IInv, TypeOK, Sem
  <2>4. WriterInv' /\ BlockedInv' /\ NoLostWakeup'
    BY <1>1, <2>1, <2>2, <2>3 DEF WriterInv, BlockedInv, NoLostWakeup, Task
  <2>5. TornInv'
    BY <1>1, <2>1 DEF TornInv, Task
  <2>6. QED
    BY <2>4, <2>5
<1>4. CASE \E kind \in Message : UplinkInject(kind)
  <2>1. PICK kind \in Message : UplinkInject(kind)
    BY <1>4
  <2>2. /\ Hil /\ Go("uplink", "U_poll", "U_write") /\ sem' = sem
        /\ SENSOR_SEQ' = (SENSOR_SEQ + 1) % 2
        /\ SENSOR_FRAME' = SENSOR_FRAME
    BY <2>1 DEF UplinkInject, BeginWrite
  <2>3. pc["uplink"] = "U_poll" /\ pc'["uplink"] = "U_write"
    BY <1>t, <2>2, GoMoves
  <2>4. ControlBlocked
    BY <1>2, <2>2, UplinkRunsBlocked
  <2>5. WriterInv'
    BY <1>1, <2>2, <2>3 DEF WriterInv, Task
  <2>6. SENSOR_FRAME.imu # NoSample => pc["control"] = "C_lock"
    BY <2>2, <2>3, <2>4, FlightAssumption
       DEF NoLostWakeup, ControlBlocked, IInv, TypeOK, Sem
  <2>7. BlockedInv' /\ NoLostWakeup' /\ TornInv'
    BY <1>1, <2>2, <2>3, <2>4, <2>6
       DEF BlockedInv, ControlBlocked, NoLostWakeup, TornInv, Task
  <2>8. QED
    BY <2>5, <2>7
<1>5. CASE UplinkWrite
  <2>1. /\ \/ Go("uplink", "U_write", "U_write") /\ WriteField
           \/ Go("uplink", "U_write", "U_give") /\ EndWrite
        /\ sem' = sem
    BY <1>5 DEF UplinkWrite
  <2>2. /\ pc["uplink"] = "U_write"
        /\ \/ pc'["uplink"] = "U_write" /\ WriteField
           \/ pc'["uplink"] = "U_give" /\ EndWrite
    BY <1>t, <2>1, GoMoves
  <2>3. Hil
    BY <2>2 DEF WriterInv
  <2>4. WriterInv'
    BY <1>1, <2>2, <2>3 DEF WriterInv, WriteField, EndWrite, Task
  <2>5. ControlBlocked
    BY <2>2 DEF BlockedInv
  <2>6. pc'["uplink"] = "U_write" => written' # 0
    BY <2>2 DEF WriteField, EndWrite, IInv, TypeOK
  <2>7. BlockedInv' /\ NoLostWakeup' /\ TornInv'
    BY <1>1, <2>1, <2>2, <2>3, <2>5, <2>6
       DEF BlockedInv, ControlBlocked, NoLostWakeup, TornInv, Task
  <2>8. QED
    BY <2>4, <2>7
<1>6. CASE UplinkGive
  <2>1. /\ Go("uplink", "U_give", "U_poll") /\ Give("HIL_EVT")
        /\ UNCHANGED <<SENSOR_SEQ, SENSOR_FRAME, incoming, written, phys>>
    BY <1>6 DEF UplinkGive, frameVars
  <2>2. pc["uplink"] = "U_give" /\ pc'["uplink"] = "U_poll"
    BY <1>t, <2>1, GoMoves
  <2>3. sem'["HIL_EVT"] > 0
    BY <2>1, FlightAssumption DEF Give, IInv, TypeOK, Sem
  <2>4. WriterInv' /\ BlockedInv' /\ NoLostWakeup'
    BY <1>1, <2>1, <2>2, <2>3 DEF WriterInv, BlockedInv, NoLostWakeup, Task
  <2>5. TornInv'
    BY <1>1, <2>1 DEF TornInv, Task
  <2>6. QED
    BY <2>4, <2>5
<1>7. QED
  BY <1>3, <1>4, <1>5, <1>6 DEF UplinkNext

LEMMA WakeFrameInv == IInv /\ FrameInv /\ (\E t \in Task : Wake(t)) => FrameInv'
<1> SUFFICES ASSUME IInv, FrameInv, NEW t \in Task, Wake(t) PROVE FrameInv'
  OBVIOUS
<1> USE DEF FrameInv
<1>1. UNCHANGED <<sem, SENSOR_SEQ, SENSOR_FRAME, incoming, written, phys>>
  BY DEF Wake, frameVars
<1>2. /\ pc'["control"] = pc["control"] \/ (pc["control"] = "sleep" /\ pc'["control"] = "C_read")
      /\ pc'["sensors"] = pc["sensors"] \/ (pc["sensors"] = "sleep" /\ pc'["sensors"] = "S_read")
      /\ pc'["uplink"] = pc["uplink"] \/ (pc["uplink"] = "sleep" /\ pc'["uplink"] = "U_poll")
  BY WakeMoves DEF Task, LoopTop, IInv, TypeOK
<1>3. WriterInv' /\ BlockedInv' /\ NoLostWakeup'
  BY <1>1, <1>2 DEF WriterInv, BlockedInv, ControlBlocked, NoLostWakeup
<1>4. TornInv'
  BY <1>1, <1>2 DEF TornInv
<1>5. QED
  BY <1>3, <1>4

LEMMA StutterFrameInv == FrameInv /\ UNCHANGED vars => FrameInv'
BY DEF FrameInv, WriterInv, BlockedInv, ControlBlocked, NoLostWakeup, TornInv, vars

-----------------------------------------------------------------------------
THEOREM FrameInductive == Spec => []FrameInv
<1>1. IInv /\ FrameInv /\ [Next]_vars => FrameInv'
  BY ControlFrameInv, SensorsFrameInv, UplinkFrameInv, TelemFrameInv, WakeFrameInv,
     StutterFrameInv DEF Next, CpuNext
<1>2. QED
  BY <1>1, InitFrameInv, Inductive, PTL DEF Spec

\* control.rs 99-118, HIL build: control never copies a frame that uplink is in
\* the middle of storing.
THEOREM HilFrameWhole == Spec => []HilReadsWhole
<1>1. IInv /\ FrameInv => HilReadsWhole
  BY DEF FrameInv, WriterInv, BlockedInv, ControlBlocked, HilReadsWhole
<1>2. QED
  BY <1>1, FrameInductive, Inductive, PTL

\* uplink.rs 141-146 and control.rs 296-297: an IMU sample in the frame is never
\* without a wake-up that is pending, about to be given or being answered.
THEOREM WakeupKept == Spec => []NoLostWakeup
<1>1. FrameInv => NoLostWakeup
  BY DEF FrameInv
<1>2. QED
  BY <1>1, FrameInductive, PTL

\* control.rs 91-97, build without HIL: the snapshot that control takes without
\* looking at the marker mixes at most two samples, next to each other.
THEOREM TornBound == Spec => []TornByOneSample
<1>1. ASSUME IInv, FrameInv, pc["control"] = "C_read", ~Hil
      PROVE  \E k \in 0 .. 5, before \in {NoSample, (phys + NSamples - 1) % NSamples} :
               /\ \A i \in 1 .. 5 :
                    SENSOR_FRAME[FieldOrder[i]] = IF i =< k THEN phys ELSE before
               /\ SENSOR_SEQ = 0 => k = 5 \/ phys = NoSample
  <2>1. CASE pc["sensors"] = "S_write"
    <3>1. SENSOR_SEQ = 1 /\ written \in 0 .. 5
      BY <1>1, <2>1 DEF FrameInv, WriterInv, IInv, TypeOK
    <3>2. \E before \in {NoSample, (phys + NSamples - 1) % NSamples} :
            \A i \in 1 .. 5 :
              SENSOR_FRAME[FieldOrder[i]] = IF i =< written THEN phys ELSE before
      BY <1>1, <2>1 DEF FrameInv, TornInv
    <3>3. QED
      BY <3>1, <3>2
  <2>2. CASE pc["sensors"] # "S_write"
    <3>1. \A i \in 1 .. 5 :
            SENSOR_FRAME[FieldOrder[i]] = IF i =< 5 THEN phys ELSE NoSample
      BY <1>1, <2>2 DEF FrameInv, TornInv
    <3>2. QED
      BY <3>1
  <2>3. QED
    BY <2>1, <2>2
<1>2. IInv /\ FrameInv => TornByOneSample
  BY <1>1 DEF TornByOneSample
<1>3. QED
  BY <1>2, FrameInductive, Inductive, PTL

\* What a step does to the IMU slot: control empties it, uplink fills it at the
\* first field of a write, and in the HIL build nobody else touches it.
LEMMA ImuWriters ==
  ASSUME IInv, FrameInv, Hil, [Next]_vars,
         SENSOR_FRAME'.imu \notin {SENSOR_FRAME.imu, NoSample}
  PROVE  pc["uplink"] = "U_write" /\ written = 0
<1> USE DEF FrameInv
<1>1. SENSOR_FRAME \in [Field -> Sample \cup {NoSample}]
  BY DEF IInv, TypeOK
<1>2. SENSOR_FRAME' # SENSOR_FRAME
  OBVIOUS
<1>3. ~ControlNext
  <2>1. ~ControlStep
    BY <1>1 DEF ControlStep, Field
  <2>2. QED
    BY <1>2, <2>1 DEF ControlNext, ControlLock, ControlPublish, ControlUnlock,
       ControlWait, frameVars
<1>4. ~SensorsNext
  <2>1. ~SensorsRead
    BY <1>2 DEF SensorsRead, frameVars
  <2>2. ~SensorsWrite
    BY DEF SensorsWrite, Go, WriterInv
  <2>3. QED
    BY <2>1, <2>2 DEF SensorsNext
<1>5. ~TelemNext
  BY <1>2 DEF TelemNext, TelemLock, TelemCopy, TelemUnlock, TelemTxLock, TelemPut,
     TelemTxEnd, TelemHilLock, TelemHilPut, TelemHilEnd, frameVars
<1>6. ~(\E t \in Task : Wake(t)) /\ ~UNCHANGED vars
  BY <1>2 DEF Wake, frameVars, vars
<1>7. ASSUME UplinkNext PROVE UplinkWrite /\ WriteField
  BY <1>2, <1>7 DEF UplinkNext, UplinkArm, UplinkReply, UplinkLock, UplinkPut,
     UplinkUnlock, UplinkInject, UplinkWrite, UplinkGive, UplinkSleep, frameVars,
     BeginWrite, EndWrite
<1>8. UplinkWrite /\ WriteField
  BY <1>3, <1>4, <1>5, <1>6, <1>7 DEF Next, CpuNext
<1>9. pc["uplink"] = "U_write"
  BY <1>8 DEF UplinkWrite, Go
<1>10. written \in 0 .. 4 /\ FieldOrder[written + 1] = "imu"
  BY <1>1, <1>8 DEF WriteField, IInv, TypeOK, FieldOrder, Field
<1>11. written = 0
  BY <1>10 DEF FieldOrder
<1>12. QED
  BY <1>9, <1>11

\* uplink.rs 124-130: an IMU sample that control has not taken is replaced only
\* while control waits for EST_MTX.
THEOREM LossBound == Spec => LostOnlyWhileBlocked
<1>1. ASSUME IInv, FrameInv, [Next]_vars, Hil, SENSOR_FRAME.imu # NoSample,
             SENSOR_FRAME'.imu \notin {SENSOR_FRAME.imu, NoSample}
      PROVE  pc["control"] = "C_lock"
  BY <1>1, ImuWriters DEF FrameInv, BlockedInv
<1>2. IInv /\ FrameInv /\ [Next]_vars =>
        [ /\ Hil
          /\ SENSOR_FRAME.imu # NoSample
          /\ SENSOR_FRAME'.imu \notin {SENSOR_FRAME.imu, NoSample}
          => pc["control"] = "C_lock" ]_vars
  BY <1>1
<1>3. QED
  BY <1>2, FrameInductive, Inductive, PTL DEF Spec, LostOnlyWhileBlocked

-----------------------------------------------------------------------------
(* HilLoop: its steps are steps of FlightTasks, or stutter there. *)

\* What each step of HilLoop does in FlightTasks.
LEMMA HilSteps ==
  ASSUME [HNext]_hvars
  PROVE  [Next]_vars
<1>1. CASE HControlNext
  BY <1>1 DEF HControlNext, HControlStep, HControlPublish, ControlNext, Next, CpuNext
<1>2. CASE SensorsNext
  BY <1>2 DEF Next, CpuNext
<1>3. CASE HUplinkNext
  <2>1. ASSUME NEW kind \in Message, UplinkInject(kind) PROVE UplinkNext
    BY <2>1 DEF UplinkNext
  <2>2. "SET_POSITION" \in Message
    BY DEF Message
  <2>3. UplinkNext \/ UNCHANGED vars
    BY <1>3, <2>1, <2>2 DEF HUplinkNext, SetPointDecode, SetPointStore, SetPointValid,
       SetPointInject, UplinkNext
  <2>4. QED
    BY <2>3 DEF Next, CpuNext
<1>4. CASE HTelemNext
  <2>1. TelemNext \/ UNCHANGED vars
    BY <1>4 DEF HTelemNext, HTelemCopy, MotorsCopy, HTelemHilPut, HTelemHilEnd, TelemNext
  <2>2. QED
    BY <2>1 DEF Next, CpuNext
<1>5. CASE \E t \in Task : HWake(t)
  BY <1>5 DEF HWake, Next
<1>6. CASE UNCHANGED hvars
  BY <1>6 DEF hvars
<1>7. QED
  BY <1>1, <1>2, <1>3, <1>4, <1>5, <1>6 DEF HNext, HCpuNext

\* HilLoop implements FlightTasks: what is proved of FlightTasks holds in it.
THEOREM HilIsFlight == HSpec => Spec
<1>1. HInit => Init
  BY DEF HInit
<1>2. QED
  BY <1>1, HilSteps, PTL DEF HSpec, Spec

-----------------------------------------------------------------------------
(* The set point *)

\* uplink does nothing else between the decoding and the write of the frame,
\* and control is held up meanwhile; what is not being stored is whole.
SpInv ==
  /\ spAt # "none" => Hil /\ pc["uplink"] = "U_poll" /\ ControlBlocked
  /\ spAt \in {"none", "pos", "rest", "valid", "inject"}
  /\ DOMAIN G_HIL_SETPOINT = Part
  /\ spAt # "rest" => G_HIL_SETPOINT["pos"] = G_HIL_SETPOINT["rest"]
  /\ spAt = "rest" => G_HIL_SETPOINT["pos"] = sp
  /\ spAt = "inject" => G_HIL_SETPOINT_VALID
  /\ spAt \in {"none", "pos"} /\ ~G_HIL_SETPOINT_VALID =>
       G_HIL_SETPOINT["pos"] = ZeroSetPoint

\* Neither control nor telem runs while uplink has a set point in hand.
LEMMA StoringKeepsOut ==
  ASSUME SpInv, spAt # "none"
  PROVE  ~Running("control") /\ ~Running("telem")
<1>1. Runnable("uplink")
  BY ReadyAt DEF SpInv, Task, WaitPoint
<1>2. ~Running("telem")
  BY <1>1, LowerWaits DEF Task, Prio
<1>3. ~Runnable("control")
  BY DEF SpInv, ControlBlocked, Runnable, WaitPoint
<1>4. QED
  BY <1>2, <1>3 DEF Running

LEMMA InitSpInv == HInit => SpInv
BY DEF HInit, SpInv, Part

LEMMA NextSpInv == IInv /\ FrameInv /\ SpInv /\ [HNext]_hvars => SpInv'
<1> SUFFICES ASSUME IInv, FrameInv, SpInv, [HNext]_hvars PROVE SpInv'
  OBVIOUS
<1>t. DOMAIN pc = Task /\ Task = {"control", "sensors", "uplink", "telem"}
  BY DEF IInv, TypeOK, Task
<1>0. ASSUME UNCHANGED spVars, spAt = "none" PROVE SpInv'
  BY <1>0 DEF SpInv, spVars
<1>1. CASE HControlNext
  <2>1. /\ UNCHANGED spVars
        /\ \E from, to : Go("control", from, to)
    BY <1>1 DEF HControlNext, HControlStep, HControlPublish, ControlStep, ControlLock,
       ControlPublish, ControlUnlock, ControlWait
  <2>2. QED
    BY <1>0, <2>1, StoringKeepsOut DEF Go
<1>2. CASE HTelemNext
  <2>1. UNCHANGED spVars
    BY <1>2 DEF HTelemNext, HTelemCopy, MotorsCopy, HTelemHilPut, HTelemHilEnd, spVars
  <2>2. Running("telem")
    BY <1>2 DEF HTelemNext, HTelemCopy, MotorsCopy, HTelemHilPut, HTelemHilEnd,
       TelemLock, TelemCopy, TelemUnlock, TelemTxLock, TelemPut, TelemTxEnd,
       TelemHilLock, TelemHilPut, TelemHilEnd, Go
  <2>3. QED
    BY <1>0, <2>1, <2>2, StoringKeepsOut
<1>3. CASE SensorsNext /\ UNCHANGED <<spVars, ageVars>>
  <2>1. /\ UNCHANGED spVars /\ sem' = sem
        /\ \E from, to : Go("sensors", from, to)
    BY <1>3 DEF SensorsNext, SensorsRead, SensorsWrite
  <2>2. pc'["uplink"] = pc["uplink"] /\ pc'["control"] = pc["control"]
    BY <1>t, <2>1, GoMoves
  <2>3. QED
    BY <2>1, <2>2 DEF SpInv, spVars, ControlBlocked
<1>4. CASE HUplinkNext
  <2>1. CASE SetPointDecode
    <3>1. ControlBlocked
      BY <2>1, UplinkRunsBlocked DEF SetPointDecode, FrameInv
    <3>2. pc' = pc /\ sem' = sem
      BY <2>1 DEF SetPointDecode, vars
    <3>3. QED
      BY <2>1, <3>1, <3>2 DEF SetPointDecode, AtPoll, SpInv, ControlBlocked
  <2>2. CASE SetPointStore
    <3>1. pc' = pc /\ sem' = sem /\ spAt \in {"pos", "rest"}
      BY <2>2 DEF SetPointStore, vars, Part
    <3>2. G_HIL_SETPOINT' = [G_HIL_SETPOINT EXCEPT ![spAt] = sp] /\ sp' = sp
          /\ G_HIL_SETPOINT_VALID' = G_HIL_SETPOINT_VALID
          /\ spAt' = IF spAt = "pos" THEN "rest" ELSE "valid"
      BY <2>2 DEF SetPointStore
    <3>3. QED
      BY <3>1, <3>2 DEF SpInv, ControlBlocked, Part
  <2>3. CASE SetPointValid
    BY <2>3 DEF SetPointValid, SpInv, ControlBlocked, vars
  <2>4. CASE SetPointInject
    BY <2>4 DEF SetPointInject, SpInv
  <2>5. CASE /\ pc["uplink"] = "U_poll" => spAt = "none"
             /\ UNCHANGED <<spVars, ageVars>>
    <3>1. spAt = "none"
      BY <2>5 DEF SpInv
    <3>2. QED
      BY <1>0, <2>5, <3>1
  <2>6. QED
    BY <1>4, <2>1, <2>2, <2>3, <2>4, <2>5 DEF HUplinkNext
<1>5. CASE \E t \in Task : HWake(t)
  <2>1. PICK t \in Task : HWake(t)
    BY <1>5
  <2>2. UNCHANGED spVars /\ sem' = sem
    BY <2>1 DEF HWake, Wake
  <2>3. /\ pc["uplink"] = "U_poll" => pc'["uplink"] = "U_poll"
        /\ pc["control"] # "sleep" => pc'["control"] = pc["control"]
    BY <1>t, <2>1, WakeMoves DEF HWake
  <2>4. QED
    BY <2>2, <2>3 DEF SpInv, spVars, ControlBlocked
<1>6. CASE UNCHANGED hvars
  BY <1>6 DEF hvars, vars, spVars, SpInv, ControlBlocked
<1>7. QED
  BY <1>1, <1>2, <1>3, <1>4, <1>5, <1>6 DEF HNext, HCpuNext

\* control.rs 152-165 and uplink.rs 536-544: the set point that control flies is
\* one that the simulator sent as a whole, or the zero one before the first.
THEOREM SetpointIsWhole == HSpec => []SetpointWhole
<1>1. SpInv => SetpointWhole
  BY DEF SpInv, ControlBlocked, SetpointWhole
<1>2. QED
  BY <1>1, InitSpInv, NextSpInv, HilIsFlight, Inductive, FrameInductive, PTL DEF HSpec

-----------------------------------------------------------------------------
(* The actuator command *)

\* The command is stored before the estimate of its cycle is published, so it is
\* never older; telem's copies keep the order in which they were made.
AgeInv ==
  /\ cmdAge \in Age /\ estAge \in Age /\ snapAge \in Age /\ motors \in Seq(Age)
  /\ pc["control"] \in {"C_lock", "C_armed", "C_est"} => cmdAge = 0
  /\ cmdAge =< estAge
  /\ HasEstimate => estAge =< snapAge
  /\ motors # <<>> => pc["telem"] \in {"T_hput", "T_hmid", "T_hend"}
  /\ pc["telem"] \in {"T_hmid", "T_hend"} => Len(motors) = NMotors
  /\ \A i \in 1 .. Len(motors) : cmdAge =< motors[i] /\ motors[i] =< snapAge
  /\ \A i, j \in 1 .. Len(motors) : i < j => motors[j] =< motors[i]

\* Growing older keeps the order of two ages.
LEMMA OlderKeepsOrder ==
  ASSUME NEW a \in Age, NEW b \in Age
  PROVE  /\ Older(a) \in Age
         /\ 0 \in Age /\ 0 =< a
         /\ a =< b => Older(a) =< Older(b)
BY HilAssumption DEF Age, Older

LEMMA InitAgeInv == HInit => AgeInv
<1> SUFFICES ASSUME HInit PROVE AgeInv
  OBVIOUS
<1>1. /\ pc["control"] = "C_read" /\ pc["telem"] = "sleep"
      /\ cmdAge = MaxAge /\ estAge = MaxAge /\ snapAge = 0 /\ motors = <<>>
  BY DEF HInit, Init, Task
<1>2. MaxAge \in Age /\ 0 \in Age
  BY HilAssumption DEF Age
<1>3. QED
  BY <1>1, <1>2 DEF AgeInv, HasEstimate, Age

\* The steps that leave the ages alone and the two tasks where they can be.
LEMMA AgesKept ==
  ASSUME AgeInv, UNCHANGED ageVars,
         \/ pc'["control"] = pc["control"]
         \/ pc["control"] \in {"C_lock", "C_armed", "C_est"}
         \/ pc'["control"] \notin {"C_lock", "C_armed", "C_est"},
         \/ pc'["telem"] = pc["telem"]
         \/ ~HasEstimate /\ ~HasEstimate'
         \/ /\ HasEstimate
            /\ pc["telem"] \notin {"T_hput", "T_hmid", "T_hend"}
            /\ pc'["telem"] \notin {"T_hmid", "T_hend"}
         \/ /\ pc["telem"] \in {"T_hput", "T_hmid"} /\ Len(motors) = NMotors
            /\ pc'["telem"] \in {"T_hmid", "T_hend"}
  PROVE  AgeInv'
BY DEF AgeInv, HasEstimate, ageVars

LEMMA NextAgeInv == IInv /\ AgeInv /\ [HNext]_hvars => AgeInv'
<1> SUFFICES ASSUME IInv, AgeInv, [HNext]_hvars PROVE AgeInv'
  OBVIOUS
<1>t. DOMAIN pc = Task /\ Task = {"control", "sensors", "uplink", "telem"}
  BY DEF IInv, TypeOK, Task
<1>1. CASE HControlStep
  <2>1. /\ Go("control", "C_read", "C_lock")
        /\ cmdAge' = 0 /\ estAge' = Older(estAge)
        /\ snapAge' = IF HasEstimate THEN Older(snapAge) ELSE snapAge
        /\ motors' = [i \in DOMAIN motors |-> Older(motors[i])]
    BY <1>1 DEF HControlStep, ControlStep
  <2>2. pc'["control"] = "C_lock" /\ pc'["telem"] = pc["telem"]
    BY <1>t, <2>1, GoMoves
  <2>3. /\ motors \in Seq(Age) /\ DOMAIN motors = 1 .. Len(motors)
        /\ \A i \in 1 .. Len(motors) : motors[i] \in Age
    BY DEF AgeInv
  <2>4. /\ motors' \in Seq(Age) /\ Len(motors') = Len(motors)
        /\ \A i \in 1 .. Len(motors) : motors'[i] = Older(motors[i])
    BY <2>1, <2>3, OlderKeepsOrder
  <2>5. motors' # <<>> => motors # <<>>
    BY <2>3, <2>4
  <2>6. motors # <<>> => HasEstimate
    BY DEF AgeInv, HasEstimate
  <2>7. cmdAge' \in Age /\ estAge' \in Age /\ snapAge' \in Age
    BY <2>1, OlderKeepsOrder DEF AgeInv
  <2>8. cmdAge' =< estAge' /\ (HasEstimate' => estAge' =< snapAge')
    BY <2>1, <2>2, <2>7, OlderKeepsOrder DEF AgeInv, HasEstimate
  <2>9. \A i \in 1 .. Len(motors') : cmdAge' =< motors'[i] /\ motors'[i] =< snapAge'
    <3> SUFFICES ASSUME NEW i \in 1 .. Len(motors)
                 PROVE  0 =< Older(motors[i]) /\ Older(motors[i]) =< snapAge'
      BY <2>1, <2>4
    <3>1. motors[i] \in Age /\ motors[i] =< snapAge /\ snapAge \in Age
      BY <2>3 DEF AgeInv
    <3>2. HasEstimate
      BY <2>6, <2>3
    <3>3. QED
      BY <2>1, <3>1, <3>2, OlderKeepsOrder
  <2>10. \A i, j \in 1 .. Len(motors') : i < j => motors'[j] =< motors'[i]
    BY <2>3, <2>4, OlderKeepsOrder DEF AgeInv
  <2>11. QED
    BY <2>1, <2>2, <2>4, <2>5, <2>7, <2>8, <2>9, <2>10 DEF AgeInv
<1>2. CASE HControlPublish
  <2>1. /\ \/ Go("control", "C_armed", "C_est") \/ Go("control", "C_est", "C_health")
           \/ Go("control", "C_health", "C_unlock")
        /\ estAge' = IF pc["control"] = "C_est" THEN 0 ELSE estAge
        /\ UNCHANGED <<cmdAge, snapAge, motors>>
    BY <1>2 DEF HControlPublish, ControlPublish
  <2>2. /\ pc["control"] \in {"C_armed", "C_est"} \/ pc'["control"] = "C_unlock"
        /\ pc'["telem"] = pc["telem"]
    BY <1>t, <2>1, GoMoves
  <2>3. estAge' \in Age /\ estAge' =< estAge /\ cmdAge =< estAge'
    BY <2>1, OlderKeepsOrder DEF AgeInv, Age
  <2>4. HasEstimate => estAge' =< snapAge
    BY <2>3 DEF AgeInv, Age
  <2>5. QED
    BY <2>1, <2>2, <2>3, <2>4 DEF AgeInv, HasEstimate
<1>3. CASE (ControlLock \/ ControlUnlock \/ ControlWait) /\ UNCHANGED <<spVars, ageVars>>
  <2>1. /\ \/ Go("control", "C_lock", "C_armed")
           \/ Go("control", "C_unlock", IF Hil THEN "C_wait" ELSE "sleep")
           \/ Go("control", "C_wait", "C_read")
        /\ UNCHANGED ageVars
    BY <1>3 DEF ControlLock, ControlUnlock, ControlWait
  <2>2. /\ pc["control"] = "C_lock" \/ pc'["control"] \in {"C_wait", "sleep", "C_read"}
        /\ pc'["telem"] = pc["telem"]
    BY <1>t, <2>1, GoMoves
  <2>3. QED
    BY <2>1, <2>2 DEF AgeInv, HasEstimate, ageVars
<1>4. CASE (SensorsNext /\ UNCHANGED <<spVars, ageVars>>) \/ HUplinkNext
  <2>1. /\ UNCHANGED ageVars
        /\ \/ \E t \in {"sensors", "uplink"} : \E from, to : Go(t, from, to)
           \/ pc' = pc
    BY <1>4 DEF SensorsNext, SensorsRead, SensorsWrite, HUplinkNext, SetPointDecode,
       SetPointStore, SetPointValid, SetPointInject, UplinkArm, UplinkReply, UplinkLock,
       UplinkPut, UplinkUnlock, UplinkInject, UplinkWrite, UplinkGive, UplinkSleep,
       ageVars, vars
  <2>2. pc'["control"] = pc["control"] /\ pc'["telem"] = pc["telem"]
    BY <1>t, <2>1, GoMoves
  <2>3. QED
    BY <2>1, <2>2 DEF AgeInv, HasEstimate, ageVars
<1>5. CASE HTelemNext
  <2>1. CASE HTelemCopy
    <3>1. /\ \/ Go("telem", "T_est", "T_health") \/ Go("telem", "T_health", "T_armed")
             \/ Go("telem", "T_armed", "T_unlock")
          /\ snapAge' = IF pc["telem"] = "T_est" THEN estAge ELSE snapAge
          /\ UNCHANGED <<cmdAge, estAge, motors>>
      BY <2>1 DEF HTelemCopy, TelemCopy
    <3>2. /\ pc["telem"] \in {"T_est", "T_health", "T_armed"}
          /\ pc'["telem"] \in {"T_health", "T_armed", "T_unlock"}
          /\ pc'["control"] = pc["control"]
      BY <1>t, <3>1, GoMoves
    <3>3. motors = <<>>
      BY <3>2 DEF AgeInv
    <3>4. snapAge' \in Age /\ estAge =< snapAge'
      BY <3>1, <3>2 DEF AgeInv, HasEstimate, Age
    <3>5. QED
      BY <3>1, <3>2, <3>3, <3>4 DEF AgeInv
  <2>2. CASE MotorsCopy
    <3>1. /\ pc["telem"] = "T_hput" /\ pc' = pc
          /\ motors' = Append(motors, cmdAge)
          /\ UNCHANGED <<cmdAge, estAge, snapAge>>
      BY <2>2 DEF MotorsCopy, vars
    <3>2. motors \in Seq(Age) /\ cmdAge \in Age /\ Len(motors) \in Nat
      BY DEF AgeInv
    <3>3. /\ motors' \in Seq(Age) /\ Len(motors') = Len(motors) + 1
          /\ \A i \in 1 .. Len(motors) : motors'[i] = motors[i]
          /\ motors'[Len(motors) + 1] = cmdAge
      BY <3>1, <3>2
    <3>4. cmdAge =< snapAge /\ cmdAge =< cmdAge
      BY <3>1 DEF AgeInv, HasEstimate, Age
    <3>5. \A i \in 1 .. Len(motors') : i \in 1 .. Len(motors) \/ i = Len(motors) + 1
      BY <3>2, <3>3
    <3>6. \A i \in 1 .. Len(motors') : cmdAge' =< motors'[i] /\ motors'[i] =< snapAge'
      BY <3>1, <3>3, <3>4, <3>5 DEF AgeInv
    <3>7. \A i, j \in 1 .. Len(motors') : i < j => motors'[j] =< motors'[i]
      <4> SUFFICES ASSUME NEW i \in 1 .. Len(motors'), NEW j \in 1 .. Len(motors'), i < j
                   PROVE  motors'[j] =< motors'[i]
        OBVIOUS
      <4>1. i \in 1 .. Len(motors)
        BY <3>2, <3>3
      <4>2. CASE j \in 1 .. Len(motors)
        BY <3>3, <4>1, <4>2 DEF AgeInv
      <4>3. CASE j = Len(motors) + 1
        BY <3>3, <4>1, <4>3 DEF AgeInv
      <4>4. QED
        BY <3>5, <4>2, <4>3
    <3>8. QED
      BY <3>1, <3>3, <3>6, <3>7 DEF AgeInv, HasEstimate
  <2>3. CASE HTelemHilPut
    <3>1. /\ Go("telem", "T_hput", "T_hmid") \/ Go("telem", "T_hmid", "T_hend")
          /\ Len(motors) = NMotors /\ UNCHANGED ageVars
      BY <2>3 DEF HTelemHilPut, TelemHilPut
    <3>2. /\ pc["telem"] \in {"T_hput", "T_hmid"} /\ pc'["telem"] \in {"T_hmid", "T_hend"}
          /\ pc'["control"] = pc["control"]
      BY <1>t, <3>1, GoMoves
    <3>3. QED
      BY <3>1, <3>2, AgesKept
  <2>4. CASE HTelemHilEnd
    <3>1. /\ Go("telem", "T_hend", "sleep")
          /\ snapAge' = 0 /\ motors' = <<>> /\ UNCHANGED <<cmdAge, estAge>>
      BY <2>4 DEF HTelemHilEnd, TelemHilEnd
    <3>2. pc'["telem"] = "sleep" /\ pc'["control"] = pc["control"]
      BY <1>t, <3>1, GoMoves
    <3>3. 0 \in Age
      BY OlderKeepsOrder DEF AgeInv
    <3>4. QED
      BY <3>1, <3>2, <3>3 DEF AgeInv, HasEstimate
  <2>5. CASE /\ \/ TelemLock \/ TelemUnlock \/ TelemTxLock \/ TelemPut
                \/ TelemTxEnd \/ TelemHilLock
             /\ UNCHANGED <<spVars, ageVars>>
    <3>1. UNCHANGED ageVars
      BY <2>5
    <3>2. CASE TelemLock
      <4>1. Go("telem", "T_lock", "T_est")
        BY <3>2 DEF TelemLock
      <4>2. /\ pc["telem"] = "T_lock" /\ pc'["telem"] = "T_est"
            /\ pc'["control"] = pc["control"]
        BY <1>t, <4>1, GoMoves
      <4>3. QED
        BY <3>1, <4>2, AgesKept DEF HasEstimate
    <3>3. CASE TelemUnlock \/ TelemTxLock \/ TelemPut \/ TelemTxEnd \/ TelemHilLock
      <4>1. \E from \in {"T_unlock", "T_tx", "T_put", "T_mid", "T_txend", "T_htx"},
               to \in {"T_tx", "T_put", "T_mid", "T_txend", "T_htx", "T_hput", "sleep"} :
              Go("telem", from, to)
        BY <3>3 DEF TelemUnlock, TelemTxLock, TelemPut, TelemTxEnd, TelemHilLock
      <4>2. /\ pc["telem"] \in {"T_unlock", "T_tx", "T_put", "T_mid", "T_txend", "T_htx"}
            /\ pc'["telem"] \notin {"T_hmid", "T_hend"}
            /\ pc'["control"] = pc["control"]
        BY <1>t, <4>1, GoMoves
      <4>3. QED
        BY <3>1, <4>2, AgesKept DEF HasEstimate
    <3>4. QED
      BY <2>5, <3>2, <3>3
  <2>6. QED
    BY <1>5, <2>1, <2>2, <2>3, <2>4, <2>5 DEF HTelemNext
<1>6. CASE \E t \in Task : HWake(t)
  <2>1. PICK t \in Task : HWake(t)
    BY <1>6
  <2>2. /\ pc'["control"] \in {pc["control"], "C_read"}
        /\ pc'["telem"] = pc["telem"] \/ (pc["telem"] = "sleep" /\ pc'["telem"] = "T_lock")
    BY <1>t, <2>1, WakeMoves DEF HWake, LoopTop
  <2>3. UNCHANGED ageVars
    BY <2>1 DEF HWake
  <2>4. QED
    BY <2>2, <2>3 DEF AgeInv, HasEstimate, ageVars
<1>7. CASE UNCHANGED hvars
  BY <1>7 DEF hvars, vars, AgeInv, HasEstimate, ageVars
<1>8. QED
  BY <1>1, <1>2, <1>3, <1>4, <1>5, <1>6, <1>7 DEF HNext, HCpuNext, HControlNext

\* telemetry.rs 122-137: the motors that telem copies without a lock are of the
\* cycle of the estimate sent with them or of later ones, in order.
THEOREM ActuatorsKeepUp == HSpec => []ActuatorsNotOlder
<1>1. AgeInv => ActuatorsNotOlder
  BY DEF AgeInv, ActuatorsNotOlder
<1>2. QED
  BY <1>1, InitAgeInv, NextAgeInv, HilIsFlight, Inductive, PTL DEF HSpec
=============================================================================
