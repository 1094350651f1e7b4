------------------------- MODULE FlightTasksProofs -------------------------
(***************************************************************************)
(* Proofs about FlightTasks, for every build, sample count, estimate set,  *)
(* burst length and counting limit that FlightAssumption allows.           *)
(***************************************************************************)
EXTENDS FlightTasks, TLAPS

\* EST_MTX is taken by exactly the task that stands in a guarded region.
EstInv ==
  /\ sem["EST_MTX"] = IF ControlHoldsEst \/ TelemHoldsEst THEN 0 ELSE 1
  /\ ~(ControlHoldsEst /\ TelemHoldsEst)

\* The same of USB_TX_MTX.
TxInv ==
  /\ sem["USB_TX_MTX"] = IF UplinkHoldsTx \/ TelemHoldsTx THEN 0 ELSE 1
  /\ TxExclusive

\* How many frames of the burst are out, by where telem stands.
BurstInv ==
  /\ pc["telem"] \in {"T_put", "T_mid"} => burst < TelemFrames
  /\ pc["telem"] \notin {"T_put", "T_mid", "T_txend"} => burst = 0

\* What a half-made publication has stored, and a half-made copy has read.
CopyInv ==
  /\ pc["control"] \in {"C_est", "C_health", "C_unlock"} => EST_STATE.armed = r.armed
  /\ pc["control"] \in {"C_health", "C_unlock"} => EST_STATE.est = r.est
  /\ pc["control"] = "C_unlock" => EST_STATE.health = r.health
  /\ pc["telem"] \in {"T_health", "T_armed", "T_unlock"} => snap.est = EST_STATE.est
  /\ pc["telem"] \in {"T_armed", "T_unlock"} => snap.health = EST_STATE.health
  /\ pc["telem"] = "T_unlock" => snap.armed = EST_STATE.armed
  /\ TelemSending => snap \in Outcome

IInv == TypeOK /\ EstInv /\ TxInv /\ BurstInv /\ CopyInv

-----------------------------------------------------------------------------
\* A task that goes on from a sem_wait found a positive count.
LEMMA GoTakes ==
  ASSUME NEW t, NEW at, NEW to, Go(t, at, to), at \in DOMAIN WaitPoint
  PROVE  sem[WaitPoint[at]] > 0
BY DEF Go, Running, Runnable

\* The step from a label to a label moves one task.
LEMMA GoMoves ==
  ASSUME DOMAIN pc = Task, NEW t \in Task, NEW at, NEW to, Go(t, at, to)
  PROVE  /\ pc[t] = at
         /\ pc'[t] = to
         /\ \A u \in Task \ {t} : pc'[u] = pc[u]
         /\ DOMAIN pc' = Task
BY DEF Go

\* Samples stay in range.
LEMMA NextSampleType ==
  ASSUME phys \in Sample \cup {NoSample}
  PROVE  NextSample \in Sample
BY FlightAssumption DEF NextSample, Sample, NoSample

\* The counts of the semaphores stay between 0 and where the kernel stops.
LEMMA TakeType ==
  ASSUME sem \in [Sem -> 0 .. EvtLimit], NEW s \in Sem, sem[s] > 0, Take(s)
  PROVE  sem' \in [Sem -> 0 .. EvtLimit]
BY FlightAssumption DEF Take

LEMMA GiveType ==
  ASSUME sem \in [Sem -> 0 .. EvtLimit], NEW s \in Sem, Give(s)
  PROVE  sem' \in [Sem -> 0 .. EvtLimit]
BY FlightAssumption DEF Give

\* The three steps of a write keep the types of what they change.
LEMMA BeginWriteType ==
  ASSUME TypeOK, NEW values \in [Field -> Sample \cup {NoSample, Keep}],
         BeginWrite(values)
  PROVE  /\ SENSOR_SEQ' \in {0, 1}
         /\ SENSOR_FRAME' \in [Field -> Sample \cup {NoSample}]
         /\ incoming' \in [Field -> Sample \cup {NoSample, Keep}]
         /\ written' \in 0 .. 5
BY DEF BeginWrite, TypeOK

LEMMA WriteFieldType ==
  ASSUME TypeOK, WriteField
  PROVE  /\ SENSOR_SEQ' \in {0, 1}
         /\ SENSOR_FRAME' \in [Field -> Sample \cup {NoSample}]
         /\ incoming' \in [Field -> Sample \cup {NoSample, Keep}]
         /\ written' \in 0 .. 5
<1>1. written \in 0 .. 4
  BY DEF WriteField, TypeOK
<1>2. FieldOrder[written + 1] \in Field
  BY <1>1 DEF FieldOrder, Field
<1>3. SENSOR_FRAME' \in [Field -> Sample \cup {NoSample}]
  BY <1>2 DEF WriteField, TypeOK
<1>4. QED
  BY <1>1, <1>3 DEF WriteField, TypeOK

LEMMA EndWriteType ==
  ASSUME TypeOK, EndWrite
  PROVE  /\ SENSOR_SEQ' \in {0, 1}
         /\ SENSOR_FRAME' \in [Field -> Sample \cup {NoSample}]
         /\ incoming' \in [Field -> Sample \cup {NoSample, Keep}]
         /\ written' \in 0 .. 5
BY DEF EndWrite, TypeOK

-----------------------------------------------------------------------------
LEMMA InitIInv == Init => IInv
<1> SUFFICES ASSUME Init PROVE IInv
  OBVIOUS
<1>1. /\ pc["control"] = "C_read" /\ pc["sensors"] = "sleep"
      /\ pc["uplink"] = "sleep" /\ pc["telem"] = "sleep"
      /\ DOMAIN pc = Task
  BY DEF Init, Task
<1>2. /\ sem \in [Sem -> 0 .. EvtLimit]
      /\ sem["EST_MTX"] = 1 /\ sem["USB_TX_MTX"] = 1
  BY FlightAssumption DEF Init, InitialCount, Sem
<1>3. /\ SENSOR_SEQ \in {0, 1}
      /\ SENSOR_FRAME \in [Field -> Sample \cup {NoSample}]
      /\ incoming \in [Field -> Sample \cup {NoSample, Keep}]
      /\ phys \in Sample \cup {NoSample}
      /\ G_CMD_ARMED \in BOOLEAN
  BY DEF Init
<1>9. written \in 0 .. 5
  BY DEF Init
<1>4. /\ r \in Outcome /\ EST_STATE \in Outcome
      /\ snap \in [armed : BOOLEAN, est : Est, health : Health \cup {"none"}]
      /\ burst = 0 /\ burst \in 0 .. TelemFrames
  BY FlightAssumption DEF Init, Outcome, Empty, NoView
<1>5. TypeOK
  BY <1>1, <1>2, <1>3, <1>4, <1>9 DEF TypeOK
<1>6. EstInv /\ TxInv
  BY <1>1, <1>2 DEF EstInv, TxInv, TxExclusive, ControlHoldsEst,
     TelemHoldsEst, UplinkHoldsTx, TelemHoldsTx
<1>7. BurstInv /\ CopyInv
  BY <1>1, <1>4 DEF BurstInv, CopyInv, TelemSending
<1>8. QED
  BY <1>5, <1>6, <1>7 DEF IInv

-----------------------------------------------------------------------------
(* One lemma per task: its steps preserve the inductive invariant. *)

LEMMA ControlIInv == IInv /\ ControlNext => IInv'
<1> SUFFICES ASSUME IInv, ControlNext PROVE IInv'
  OBVIOUS
<1> USE DEF IInv
<1>t. DOMAIN pc = Task /\ Task = {"control", "sensors", "uplink", "telem"}
  BY DEF TypeOK, Task
<1>1. CASE ControlStep
  <2>1. /\ Go("control", "C_read", "C_lock")
        /\ UNCHANGED <<sem, SENSOR_SEQ, incoming, written, phys, G_CMD_ARMED,
                       EST_STATE, snap, burst>>
    BY <1>1 DEF ControlStep, telemVars
  <2>2. /\ pc["control"] = "C_read" /\ pc'["control"] = "C_lock"
        /\ pc'["sensors"] = pc["sensors"] /\ pc'["uplink"] = pc["uplink"]
        /\ pc'["telem"] = pc["telem"] /\ DOMAIN pc' = Task
    BY <1>t, <2>1, GoMoves
  <2>3. SENSOR_FRAME' \in [Field -> Sample \cup {NoSample}]
    BY <1>1 DEF ControlStep, TypeOK
  <2>4. r' \in Outcome
    BY <1>1 DEF ControlStep, TypeOK, Outcome
  <2>5. TypeOK'
    BY <2>1, <2>2, <2>3, <2>4 DEF TypeOK
  <2>6. EstInv' /\ TxInv'
    BY <2>1, <2>2 DEF EstInv, TxInv, TxExclusive, ControlHoldsEst,
       TelemHoldsEst, UplinkHoldsTx, TelemHoldsTx
  <2>7. BurstInv' /\ CopyInv'
    BY <2>1, <2>2 DEF BurstInv, CopyInv, TelemSending
  <2>8. QED
    BY <2>5, <2>6, <2>7
<1>2. CASE ControlLock
  <2>1. /\ Go("control", "C_lock", "C_armed")
        /\ sem' = [sem EXCEPT !["EST_MTX"] = @ - 1]
        /\ UNCHANGED <<SENSOR_SEQ, SENSOR_FRAME, incoming, written, phys,
                       G_CMD_ARMED, r, EST_STATE, snap, burst>>
    BY <1>2 DEF ControlLock, Take, frameVars, estVars, telemVars
  <2>2. /\ pc["control"] = "C_lock" /\ pc'["control"] = "C_armed"
        /\ pc'["sensors"] = pc["sensors"] /\ pc'["uplink"] = pc["uplink"]
        /\ pc'["telem"] = pc["telem"] /\ DOMAIN pc' = Task
    BY <1>t, <2>1, GoMoves
  <2>3. sem["EST_MTX"] > 0
    BY <2>1, GoTakes DEF WaitPoint
  <2>4. sem' \in [Sem -> 0 .. EvtLimit]
    BY <2>1, <2>3, FlightAssumption DEF TypeOK, Sem
  <2>5. TypeOK'
    BY <2>1, <2>2, <2>4 DEF TypeOK
  <2>6. EstInv' /\ TxInv'
    BY <2>1, <2>2, <2>3 DEF EstInv, TxInv, TxExclusive, ControlHoldsEst,
       TelemHoldsEst, UplinkHoldsTx, TelemHoldsTx, TypeOK, Sem
  <2>7. BurstInv' /\ CopyInv'
    BY <2>1, <2>2 DEF BurstInv, CopyInv, TelemSending
  <2>8. QED
    BY <2>5, <2>6, <2>7
<1>3. CASE ControlPublish
  <2>1. /\ UNCHANGED <<sem, SENSOR_SEQ, SENSOR_FRAME, incoming, written, phys,
                       G_CMD_ARMED, r, snap, burst>>
        /\ \/ /\ Go("control", "C_armed", "C_est")
              /\ EST_STATE' = [EST_STATE EXCEPT !.armed = r.armed]
           \/ /\ Go("control", "C_est", "C_health")
              /\ EST_STATE' = [EST_STATE EXCEPT !.est = r.est]
           \/ /\ Go("control", "C_health", "C_unlock")
              /\ EST_STATE' = [EST_STATE EXCEPT !.health = r.health]
    BY <1>3 DEF ControlPublish, frameVars, telemVars
  <2>2. /\ \/ /\ pc["control"] = "C_armed" /\ pc'["control"] = "C_est"
              /\ EST_STATE' = [EST_STATE EXCEPT !.armed = r.armed]
           \/ /\ pc["control"] = "C_est" /\ pc'["control"] = "C_health"
              /\ EST_STATE' = [EST_STATE EXCEPT !.est = r.est]
           \/ /\ pc["control"] = "C_health" /\ pc'["control"] = "C_unlock"
              /\ EST_STATE' = [EST_STATE EXCEPT !.health = r.health]
        /\ pc'["sensors"] = pc["sensors"] /\ pc'["uplink"] = pc["uplink"]
        /\ pc'["telem"] = pc["telem"] /\ DOMAIN pc' = Task
    BY <1>t, <2>1, GoMoves
  <2>3. EST_STATE' \in Outcome
    BY <2>2 DEF TypeOK, Outcome
  <2>4. TypeOK'
    BY <2>1, <2>2, <2>3 DEF TypeOK
  <2>5. EstInv' /\ TxInv'
    BY <2>1, <2>2 DEF EstInv, TxInv, TxExclusive, ControlHoldsEst,
       TelemHoldsEst, UplinkHoldsTx, TelemHoldsTx
  <2>6. ~TelemHoldsEst
    BY <2>2 DEF EstInv, ControlHoldsEst
  <2>7. BurstInv' /\ CopyInv'
    BY <2>1, <2>2, <2>6 DEF BurstInv, CopyInv, TypeOK, Outcome, TelemHoldsEst, TelemSending
  <2>8. QED
    BY <2>4, <2>5, <2>7
<1>4. CASE ControlUnlock
  <2>1. /\ Go("control", "C_unlock", IF Hil THEN "C_wait" ELSE "sleep")
        /\ Give("EST_MTX")
        /\ r' = Empty
        /\ UNCHANGED <<SENSOR_SEQ, SENSOR_FRAME, incoming, written, phys,
                       G_CMD_ARMED, EST_STATE, snap, burst>>
    BY <1>4 DEF ControlUnlock, frameVars, telemVars
  <2>2. /\ pc["control"] = "C_unlock" /\ pc'["control"] \in {"C_wait", "sleep"}
        /\ pc'["sensors"] = pc["sensors"] /\ pc'["uplink"] = pc["uplink"]
        /\ pc'["telem"] = pc["telem"] /\ DOMAIN pc' = Task
    BY <1>t, <2>1, GoMoves
  <2>3. sem' \in [Sem -> 0 .. EvtLimit]
    BY <2>1, GiveType DEF TypeOK, Sem
  <2>4. r' \in Outcome
    BY <2>1, FlightAssumption DEF Outcome, Empty
  <2>5. TypeOK'
    BY <2>1, <2>2, <2>3, <2>4 DEF TypeOK
  <2>6. EstInv' /\ TxInv'
    BY <2>1, <2>2, FlightAssumption DEF Give, EstInv, TxInv, TxExclusive, ControlHoldsEst,
       TelemHoldsEst, UplinkHoldsTx, TelemHoldsTx, TypeOK, Sem
  <2>7. BurstInv' /\ CopyInv'
    BY <2>1, <2>2 DEF BurstInv, CopyInv, TelemSending
  <2>8. QED
    BY <2>5, <2>6, <2>7
<1>5. CASE ControlWait
  <2>1. /\ Go("control", "C_wait", "C_read")
        /\ Take("HIL_EVT")
        /\ UNCHANGED <<SENSOR_SEQ, SENSOR_FRAME, incoming, written, phys,
                       G_CMD_ARMED, r, EST_STATE, snap, burst>>
    BY <1>5 DEF ControlWait, frameVars, estVars, telemVars
  <2>2. /\ pc["control"] = "C_wait" /\ pc'["control"] = "C_read"
        /\ pc'["sensors"] = pc["sensors"] /\ pc'["uplink"] = pc["uplink"]
        /\ pc'["telem"] = pc["telem"] /\ DOMAIN pc' = Task
    BY <1>t, <2>1, GoMoves
  <2>3. sem["HIL_EVT"] > 0
    BY <2>1, GoTakes DEF WaitPoint
  <2>4. sem' \in [Sem -> 0 .. EvtLimit]
    BY <2>1, <2>3, TakeType DEF TypeOK, Sem
  <2>5. TypeOK'
    BY <2>1, <2>2, <2>4 DEF TypeOK
  <2>6. EstInv' /\ TxInv'
    BY <2>1, <2>2 DEF Take, EstInv, TxInv, TxExclusive, ControlHoldsEst,
       TelemHoldsEst, UplinkHoldsTx, TelemHoldsTx, TypeOK, Sem
  <2>7. BurstInv' /\ CopyInv'
    BY <2>1, <2>2 DEF BurstInv, CopyInv, TelemSending
  <2>8. QED
    BY <2>5, <2>6, <2>7
<1>6. QED
  BY <1>1, <1>2, <1>3, <1>4, <1>5 DEF ControlNext

LEMMA SensorsIInv == IInv /\ SensorsNext => IInv'
<1> SUFFICES ASSUME IInv, SensorsNext PROVE IInv'
  OBVIOUS
<1> USE DEF IInv
<1>t. DOMAIN pc = Task /\ Task = {"control", "sensors", "uplink", "telem"}
  BY DEF TypeOK, Task
<1>1. UNCHANGED <<sem, G_CMD_ARMED, r, EST_STATE, snap, burst>>
  BY DEF SensorsNext, SensorsRead, SensorsWrite, estVars, telemVars
<1>2. \E at \in {"S_read", "S_write"}, to \in {"sleep", "S_write"} :
        Go("sensors", at, to)
  BY DEF SensorsNext, SensorsRead, SensorsWrite
<1>3. /\ pc'["sensors"] \in {"sleep", "S_write"}
      /\ pc'["control"] = pc["control"] /\ pc'["uplink"] = pc["uplink"]
      /\ pc'["telem"] = pc["telem"] /\ DOMAIN pc' = Task
  BY <1>t, <1>2, GoMoves
<1>4. /\ SENSOR_SEQ' \in {0, 1}
      /\ SENSOR_FRAME' \in [Field -> Sample \cup {NoSample}]
      /\ incoming' \in [Field -> Sample \cup {NoSample, Keep}]
      /\ written' \in 0 .. 5
      /\ phys' \in Sample \cup {NoSample}
  <2>1. CASE SensorsRead
    <3>1. CASE Hil
      BY <2>1, <3>1 DEF SensorsRead, frameVars, TypeOK
    <3>2. CASE ~Hil
      <4>1. NextSample \in Sample
        BY NextSampleType DEF TypeOK
      <4>2. [f \in Field |-> NextSample] \in [Field -> Sample \cup {NoSample, Keep}]
        BY <4>1
      <4>3. /\ BeginWrite([f \in Field |-> NextSample])
            /\ phys' = NextSample
        BY <2>1, <3>2 DEF SensorsRead
      <4>4. QED
        BY <4>1, <4>2, <4>3, BeginWriteType
    <3>3. QED
      BY <3>1, <3>2
  <2>2. CASE SensorsWrite
    <3>1. /\ WriteField \/ EndWrite
          /\ phys' = phys
      BY <2>2 DEF SensorsWrite
    <3>2. phys' \in Sample \cup {NoSample}
      BY <3>1 DEF TypeOK
    <3>3. QED
      BY <3>1, <3>2, WriteFieldType, EndWriteType
  <2>3. QED
    BY <2>1, <2>2 DEF SensorsNext
<1>5. TypeOK'
  BY <1>1, <1>3, <1>4 DEF TypeOK
<1>6. EstInv' /\ TxInv'
  BY <1>1, <1>3 DEF EstInv, TxInv, TxExclusive, ControlHoldsEst,
     TelemHoldsEst, UplinkHoldsTx, TelemHoldsTx
<1>7. BurstInv' /\ CopyInv'
  BY <1>1, <1>3 DEF BurstInv, CopyInv, TelemSending
<1>8. QED
  BY <1>5, <1>6, <1>7

LEMMA UplinkIInv == IInv /\ UplinkNext => IInv'
<1> SUFFICES ASSUME IInv, UplinkNext PROVE IInv'
  OBVIOUS
<1> USE DEF IInv
<1>t. DOMAIN pc = Task /\ Task = {"control", "sensors", "uplink", "telem"}
  BY DEF TypeOK, Task
<1>u. UNCHANGED <<r, EST_STATE, snap, burst>>
  BY DEF UplinkNext, UplinkArm, UplinkReply, UplinkLock, UplinkPut, UplinkUnlock,
     UplinkInject, UplinkWrite, UplinkGive, UplinkSleep, estVars, telemVars
\* The steps that leave the semaphores and the frame alone.
<1>1. CASE UplinkArm \/ UplinkReply \/ UplinkPut \/ UplinkSleep
  <2>1. /\ \/ Go("uplink", "U_poll", "U_tx") \/ Go("uplink", "U_poll", "sleep")
           \/ Go("uplink", "U_put", "U_mid") \/ Go("uplink", "U_mid", "U_unlock")
        /\ UNCHANGED <<sem, SENSOR_SEQ, SENSOR_FRAME, incoming, written, phys>>
    BY <1>1 DEF UplinkArm, UplinkReply, UplinkPut, UplinkSleep, frameVars
  <2>2. /\ \/ pc["uplink"] = "U_poll" /\ pc'["uplink"] \in {"U_tx", "sleep"}
           \/ pc["uplink"] \in {"U_put", "U_mid"} /\ pc'["uplink"] \in {"U_mid", "U_unlock"}
        /\ pc'["control"] = pc["control"] /\ pc'["sensors"] = pc["sensors"]
        /\ pc'["telem"] = pc["telem"] /\ DOMAIN pc' = Task
    BY <1>t, <2>1, GoMoves
  <2>3. G_CMD_ARMED' \in BOOLEAN
    BY <1>1 DEF UplinkArm, UplinkReply, UplinkPut, UplinkSleep, TypeOK
  <2>4. TypeOK'
    BY <1>u, <2>1, <2>2, <2>3 DEF TypeOK
  <2>5. EstInv' /\ TxInv'
    BY <2>1, <2>2 DEF EstInv, TxInv, TxExclusive, ControlHoldsEst,
       TelemHoldsEst, UplinkHoldsTx, TelemHoldsTx
  <2>6. BurstInv' /\ CopyInv'
    BY <1>u, <2>2 DEF BurstInv, CopyInv, TelemSending
  <2>7. QED
    BY <2>4, <2>5, <2>6
<1>2. CASE UplinkLock
  <2>1. /\ Go("uplink", "U_tx", "U_put")
        /\ Take("USB_TX_MTX")
        /\ UNCHANGED <<SENSOR_SEQ, SENSOR_FRAME, incoming, written, phys, G_CMD_ARMED>>
    BY <1>2 DEF UplinkLock, frameVars
  <2>2. /\ pc["uplink"] = "U_tx" /\ pc'["uplink"] = "U_put"
        /\ pc'["control"] = pc["control"] /\ pc'["sensors"] = pc["sensors"]
        /\ pc'["telem"] = pc["telem"] /\ DOMAIN pc' = Task
    BY <1>t, <2>1, GoMoves
  <2>3. sem["USB_TX_MTX"] > 0
    BY <2>1, GoTakes DEF WaitPoint
  <2>4. sem' \in [Sem -> 0 .. EvtLimit]
    BY <2>1, <2>3, TakeType DEF TypeOK, Sem
  <2>5. TypeOK'
    BY <1>u, <2>1, <2>2, <2>4 DEF TypeOK
  <2>6. EstInv' /\ TxInv'
    BY <2>1, <2>2, <2>3 DEF Take, EstInv, TxInv, TxExclusive, ControlHoldsEst,
       TelemHoldsEst, UplinkHoldsTx, TelemHoldsTx, TypeOK, Sem
  <2>7. BurstInv' /\ CopyInv'
    BY <1>u, <2>2 DEF BurstInv, CopyInv, TelemSending
  <2>8. QED
    BY <2>5, <2>6, <2>7
<1>3. CASE UplinkUnlock
  <2>1. /\ Go("uplink", "U_unlock", "U_poll")
        /\ Give("USB_TX_MTX")
        /\ UNCHANGED <<SENSOR_SEQ, SENSOR_FRAME, incoming, written, phys, G_CMD_ARMED>>
    BY <1>3 DEF UplinkUnlock, frameVars
  <2>2. /\ pc["uplink"] = "U_unlock" /\ pc'["uplink"] = "U_poll"
        /\ pc'["control"] = pc["control"] /\ pc'["sensors"] = pc["sensors"]
        /\ pc'["telem"] = pc["telem"] /\ DOMAIN pc' = Task
    BY <1>t, <2>1, GoMoves
  <2>3. sem' \in [Sem -> 0 .. EvtLimit]
    BY <2>1, GiveType DEF TypeOK, Sem
  <2>4. TypeOK'
    BY <1>u, <2>1, <2>2, <2>3 DEF TypeOK
  <2>5. EstInv' /\ TxInv'
    BY <2>1, <2>2, FlightAssumption DEF Give, EstInv, TxInv, TxExclusive, ControlHoldsEst,
       TelemHoldsEst, UplinkHoldsTx, TelemHoldsTx, TypeOK, Sem
  <2>6. BurstInv' /\ CopyInv'
    BY <1>u, <2>2 DEF BurstInv, CopyInv, TelemSending
  <2>7. QED
    BY <2>4, <2>5, <2>6
\* The steps of an injection, up to the event.
<1>4. CASE (\E kind \in Message : UplinkInject(kind)) \/ UplinkWrite
  <2>1. /\ \/ Go("uplink", "U_poll", "U_write") \/ Go("uplink", "U_write", "U_write")
           \/ Go("uplink", "U_write", "U_give")
        /\ UNCHANGED <<sem, G_CMD_ARMED>>
    BY <1>4 DEF UplinkInject, UplinkWrite
  <2>2. /\ pc["uplink"] \in {"U_poll", "U_write"} /\ pc'["uplink"] \in {"U_write", "U_give"}
        /\ pc'["control"] = pc["control"] /\ pc'["sensors"] = pc["sensors"]
        /\ pc'["telem"] = pc["telem"] /\ DOMAIN pc' = Task
    BY <1>t, <2>1, GoMoves
  <2>3. /\ SENSOR_SEQ' \in {0, 1}
        /\ SENSOR_FRAME' \in [Field -> Sample \cup {NoSample}]
        /\ incoming' \in [Field -> Sample \cup {NoSample, Keep}]
        /\ written' \in 0 .. 5
        /\ phys' \in Sample \cup {NoSample}
    <3>1. CASE \E kind \in Message : UplinkInject(kind)
      <4>1. NextSample \in Sample
        BY NextSampleType DEF TypeOK
      <4>2. PICK kind \in Message : UplinkInject(kind)
        BY <3>1
      <4> DEFINE n == IF phys' \in Sample THEN phys' ELSE 0
      <4>3. phys' \in Sample \cup {NoSample} /\ BeginWrite(Injection(kind, n))
        BY <4>1, <4>2 DEF UplinkInject, TypeOK
      <4>4. n \in Sample
        BY FlightAssumption DEF Sample
      <4> HIDE DEF n
      <4>5. Injection(kind, n) \in [Field -> Sample \cup {NoSample, Keep}]
        BY <4>4 DEF Injection, Field
      <4>6. QED
        BY <4>3, <4>5, BeginWriteType
    <3>2. CASE UplinkWrite
      <4>1. /\ WriteField \/ EndWrite
            /\ phys' = phys
        BY <3>2 DEF UplinkWrite
      <4>2. phys' \in Sample \cup {NoSample}
        BY <4>1 DEF TypeOK
      <4>3. QED
        BY <4>1, <4>2, WriteFieldType, EndWriteType
    <3>3. QED
      BY <1>4, <3>1, <3>2
  <2>4. TypeOK'
    BY <1>u, <2>1, <2>2, <2>3 DEF TypeOK
  <2>5. EstInv' /\ TxInv'
    BY <2>1, <2>2 DEF EstInv, TxInv, TxExclusive, ControlHoldsEst,
       TelemHoldsEst, UplinkHoldsTx, TelemHoldsTx
  <2>6. BurstInv' /\ CopyInv'
    BY <1>u, <2>2 DEF BurstInv, CopyInv, TelemSending
  <2>7. QED
    BY <2>4, <2>5, <2>6
<1>5. CASE UplinkGive
  <2>1. /\ Go("uplink", "U_give", "U_poll")
        /\ Give("HIL_EVT")
        /\ UNCHANGED <<SENSOR_SEQ, SENSOR_FRAME, incoming, written, phys, G_CMD_ARMED>>
    BY <1>5 DEF UplinkGive, frameVars
  <2>2. /\ pc["uplink"] = "U_give" /\ pc'["uplink"] = "U_poll"
        /\ pc'["control"] = pc["control"] /\ pc'["sensors"] = pc["sensors"]
        /\ pc'["telem"] = pc["telem"] /\ DOMAIN pc' = Task
    BY <1>t, <2>1, GoMoves
  <2>3. sem' \in [Sem -> 0 .. EvtLimit]
    BY <2>1, GiveType DEF TypeOK, Sem
  <2>4. TypeOK'
    BY <1>u, <2>1, <2>2, <2>3 DEF TypeOK
  <2>5. EstInv' /\ TxInv'
    BY <2>1, <2>2 DEF Give, EstInv, TxInv, TxExclusive, ControlHoldsEst,
       TelemHoldsEst, UplinkHoldsTx, TelemHoldsTx, TypeOK, Sem
  <2>6. BurstInv' /\ CopyInv'
    BY <1>u, <2>2 DEF BurstInv, CopyInv, TelemSending
  <2>7. QED
    BY <2>4, <2>5, <2>6
<1>6. QED
  BY <1>1, <1>2, <1>3, <1>4, <1>5 DEF UplinkNext

LEMMA TelemIInv == IInv /\ TelemNext => IInv'
<1> SUFFICES ASSUME IInv, TelemNext PROVE IInv'
  OBVIOUS
<1> USE DEF IInv
<1>t. DOMAIN pc = Task /\ Task = {"control", "sensors", "uplink", "telem"}
  BY DEF TypeOK, Task
<1>u. UNCHANGED <<SENSOR_SEQ, SENSOR_FRAME, incoming, written, phys, G_CMD_ARMED,
                  r, EST_STATE>>
  BY DEF TelemNext, TelemLock, TelemCopy, TelemUnlock, TelemTxLock, TelemPut,
     TelemTxEnd, TelemHilLock, TelemHilPut, TelemHilEnd, frameVars, estVars
<1>1. CASE TelemLock
  <2>1. /\ Go("telem", "T_lock", "T_est")
        /\ Take("EST_MTX")
        /\ UNCHANGED <<snap, burst>>
    BY <1>1 DEF TelemLock, telemVars
  <2>2. /\ pc["telem"] = "T_lock" /\ pc'["telem"] = "T_est"
        /\ pc'["control"] = pc["control"] /\ pc'["sensors"] = pc["sensors"]
        /\ pc'["uplink"] = pc["uplink"] /\ DOMAIN pc' = Task
    BY <1>t, <2>1, GoMoves
  <2>3. sem["EST_MTX"] > 0
    BY <2>1, GoTakes DEF WaitPoint
  <2>4. sem' \in [Sem -> 0 .. EvtLimit]
    BY <2>1, <2>3, TakeType DEF TypeOK, Sem
  <2>5. TypeOK'
    BY <1>u, <2>1, <2>2, <2>4 DEF TypeOK
  <2>6. EstInv' /\ TxInv'
    BY <2>1, <2>2, <2>3 DEF Take, EstInv, TxInv, TxExclusive, ControlHoldsEst,
       TelemHoldsEst, UplinkHoldsTx, TelemHoldsTx, TypeOK, Sem
  <2>7. BurstInv' /\ CopyInv'
    BY <1>u, <2>1, <2>2, FlightAssumption DEF BurstInv, CopyInv, TelemSending
  <2>8. QED
    BY <2>5, <2>6, <2>7
<1>2. CASE TelemCopy
  <2>1. /\ UNCHANGED <<sem, burst>>
        /\ \/ /\ Go("telem", "T_est", "T_health")
              /\ snap' = [snap EXCEPT !.est = EST_STATE.est]
           \/ /\ Go("telem", "T_health", "T_armed")
              /\ snap' = [snap EXCEPT !.health = EST_STATE.health]
           \/ /\ Go("telem", "T_armed", "T_unlock")
              /\ snap' = [snap EXCEPT !.armed = EST_STATE.armed]
    BY <1>2 DEF TelemCopy
  <2>2. /\ \/ /\ pc["telem"] = "T_est" /\ pc'["telem"] = "T_health"
              /\ snap' = [snap EXCEPT !.est = EST_STATE.est]
           \/ /\ pc["telem"] = "T_health" /\ pc'["telem"] = "T_armed"
              /\ snap' = [snap EXCEPT !.health = EST_STATE.health]
           \/ /\ pc["telem"] = "T_armed" /\ pc'["telem"] = "T_unlock"
              /\ snap' = [snap EXCEPT !.armed = EST_STATE.armed]
        /\ pc'["control"] = pc["control"] /\ pc'["sensors"] = pc["sensors"]
        /\ pc'["uplink"] = pc["uplink"] /\ DOMAIN pc' = Task
    BY <1>t, <2>1, GoMoves
  <2>3. snap' \in [armed : BOOLEAN, est : Est, health : Health \cup {"none"}]
    BY <2>2 DEF TypeOK, Outcome
  <2>4. TypeOK'
    BY <1>u, <2>1, <2>2, <2>3 DEF TypeOK
  <2>5. EstInv' /\ TxInv'
    BY <2>1, <2>2 DEF EstInv, TxInv, TxExclusive, ControlHoldsEst,
       TelemHoldsEst, UplinkHoldsTx, TelemHoldsTx
  <2>6. BurstInv'
    BY <2>1, <2>2 DEF BurstInv
  <2>7. CopyInv'
    BY <1>u, <2>2 DEF CopyInv, TelemSending, TypeOK
  <2>8. QED
    BY <2>4, <2>5, <2>6, <2>7
<1>3. CASE TelemUnlock
  <2>1. /\ Go("telem", "T_unlock", "T_tx")
        /\ Give("EST_MTX")
        /\ UNCHANGED <<snap, burst>>
    BY <1>3 DEF TelemUnlock, telemVars
  <2>2. /\ pc["telem"] = "T_unlock" /\ pc'["telem"] = "T_tx"
        /\ pc'["control"] = pc["control"] /\ pc'["sensors"] = pc["sensors"]
        /\ pc'["uplink"] = pc["uplink"] /\ DOMAIN pc' = Task
    BY <1>t, <2>1, GoMoves
  <2>3. sem' \in [Sem -> 0 .. EvtLimit]
    BY <2>1, GiveType DEF TypeOK, Sem
  <2>4. snap = EST_STATE
    BY <2>2 DEF CopyInv, TypeOK, Outcome
  <2>5. TypeOK'
    BY <1>u, <2>1, <2>2, <2>3 DEF TypeOK
  <2>6. EstInv' /\ TxInv'
    BY <2>1, <2>2, FlightAssumption DEF Give, EstInv, TxInv, TxExclusive, ControlHoldsEst,
       TelemHoldsEst, UplinkHoldsTx, TelemHoldsTx, TypeOK, Sem
  <2>7. BurstInv'
    BY <2>1, <2>2 DEF BurstInv
  <2>8. CopyInv'
    BY <1>u, <2>1, <2>2, <2>4 DEF CopyInv, TelemSending, TypeOK
  <2>9. QED
    BY <2>5, <2>6, <2>7, <2>8
<1>4. CASE TelemTxLock
  <2>1. /\ Go("telem", "T_tx", "T_put")
        /\ Take("USB_TX_MTX")
        /\ UNCHANGED <<snap, burst>>
    BY <1>4 DEF TelemTxLock, telemVars
  <2>2. /\ pc["telem"] = "T_tx" /\ pc'["telem"] = "T_put"
        /\ pc'["control"] = pc["control"] /\ pc'["sensors"] = pc["sensors"]
        /\ pc'["uplink"] = pc["uplink"] /\ DOMAIN pc' = Task
    BY <1>t, <2>1, GoMoves
  <2>3. sem["USB_TX_MTX"] > 0
    BY <2>1, GoTakes DEF WaitPoint
  <2>4. sem' \in [Sem -> 0 .. EvtLimit]
    BY <2>1, <2>3, TakeType DEF TypeOK, Sem
  <2>5. TypeOK'
    BY <1>u, <2>1, <2>2, <2>4 DEF TypeOK
  <2>6. EstInv' /\ TxInv'
    BY <2>1, <2>2, <2>3 DEF Take, EstInv, TxInv, TxExclusive, ControlHoldsEst,
       TelemHoldsEst, UplinkHoldsTx, TelemHoldsTx, TypeOK, Sem
  <2>7. BurstInv' /\ CopyInv'
    BY <1>u, <2>1, <2>2, FlightAssumption DEF BurstInv, CopyInv, TelemSending
  <2>8. QED
    BY <2>5, <2>6, <2>7
<1>5. CASE TelemPut
  <2>1. /\ UNCHANGED <<sem, snap>>
        /\ \/ Go("telem", "T_put", "T_mid") /\ UNCHANGED burst
           \/ /\ Go("telem", "T_mid",
                    IF burst + 1 < TelemFrames THEN "T_put" ELSE "T_txend")
              /\ burst' = burst + 1
    BY <1>5 DEF TelemPut
  <2>2. /\ \/ pc["telem"] = "T_put" /\ pc'["telem"] = "T_mid" /\ burst' = burst
           \/ /\ pc["telem"] = "T_mid" /\ burst' = burst + 1
              /\ pc'["telem"] = IF burst + 1 < TelemFrames THEN "T_put" ELSE "T_txend"
        /\ pc'["control"] = pc["control"] /\ pc'["sensors"] = pc["sensors"]
        /\ pc'["uplink"] = pc["uplink"] /\ DOMAIN pc' = Task
    BY <1>t, <2>1, GoMoves
  <2>3. burst' \in 0 .. TelemFrames
    BY <2>2, FlightAssumption DEF TypeOK, BurstInv
  <2>4. TypeOK'
    BY <1>u, <2>1, <2>2, <2>3 DEF TypeOK
  <2>5. EstInv' /\ TxInv'
    BY <2>1, <2>2 DEF EstInv, TxInv, TxExclusive, ControlHoldsEst,
       TelemHoldsEst, UplinkHoldsTx, TelemHoldsTx
  <2>6. BurstInv'
    BY <2>2 DEF BurstInv
  <2>7. CopyInv'
    BY <1>u, <2>1, <2>2 DEF CopyInv, TelemSending
  <2>8. QED
    BY <2>4, <2>5, <2>6, <2>7
<1>6. CASE TelemTxEnd
  <2>1. /\ Go("telem", "T_txend", IF Hil THEN "T_htx" ELSE "sleep")
        /\ Give("USB_TX_MTX")
        /\ burst' = 0
        /\ snap' = IF Hil THEN snap ELSE NoView
    BY <1>6 DEF TelemTxEnd
  <2>2. /\ pc["telem"] = "T_txend"
        /\ \/ pc'["telem"] = "T_htx" /\ snap' = snap
           \/ pc'["telem"] = "sleep" /\ snap' = NoView
        /\ pc'["control"] = pc["control"] /\ pc'["sensors"] = pc["sensors"]
        /\ pc'["uplink"] = pc["uplink"] /\ DOMAIN pc' = Task
    BY <1>t, <2>1, GoMoves
  <2>3. sem' \in [Sem -> 0 .. EvtLimit]
    BY <2>1, GiveType DEF TypeOK, Sem
  <2>4. /\ snap' \in [armed : BOOLEAN, est : Est, health : Health \cup {"none"}]
        /\ burst' \in 0 .. TelemFrames
    BY <2>1, <2>2, FlightAssumption DEF TypeOK, NoView
  <2>5. TypeOK'
    BY <1>u, <2>2, <2>3, <2>4 DEF TypeOK
  <2>6. EstInv' /\ TxInv'
    BY <2>1, <2>2, FlightAssumption DEF Give, EstInv, TxInv, TxExclusive, ControlHoldsEst,
       TelemHoldsEst, UplinkHoldsTx, TelemHoldsTx, TypeOK, Sem
  <2>7. BurstInv'
    BY <2>1, <2>2 DEF BurstInv
  <2>8. CopyInv'
    BY <1>u, <2>2 DEF CopyInv, TelemSending
  <2>9. QED
    BY <2>5, <2>6, <2>7, <2>8
<1>7. CASE TelemHilLock
  <2>1. /\ Go("telem", "T_htx", "T_hput")
        /\ Take("USB_TX_MTX")
        /\ UNCHANGED <<snap, burst>>
    BY <1>7 DEF TelemHilLock, telemVars
  <2>2. /\ pc["telem"] = "T_htx" /\ pc'["telem"] = "T_hput"
        /\ pc'["control"] = pc["control"] /\ pc'["sensors"] = pc["sensors"]
        /\ pc'["uplink"] = pc["uplink"] /\ DOMAIN pc' = Task
    BY <1>t, <2>1, GoMoves
  <2>3. sem["USB_TX_MTX"] > 0
    BY <2>1, GoTakes DEF WaitPoint
  <2>4. sem' \in [Sem -> 0 .. EvtLimit]
    BY <2>1, <2>3, TakeType DEF TypeOK, Sem
  <2>5. TypeOK'
    BY <1>u, <2>1, <2>2, <2>4 DEF TypeOK
  <2>6. EstInv' /\ TxInv'
    BY <2>1, <2>2, <2>3 DEF Take, EstInv, TxInv, TxExclusive, ControlHoldsEst,
       TelemHoldsEst, UplinkHoldsTx, TelemHoldsTx, TypeOK, Sem
  <2>7. BurstInv' /\ CopyInv'
    BY <1>u, <2>1, <2>2, FlightAssumption DEF BurstInv, CopyInv, TelemSending
  <2>8. QED
    BY <2>5, <2>6, <2>7
<1>8. CASE TelemHilPut
  <2>1. /\ UNCHANGED <<sem, snap, burst>>
        /\ Go("telem", "T_hput", "T_hmid") \/ Go("telem", "T_hmid", "T_hend")
    BY <1>8 DEF TelemHilPut, telemVars
  <2>2. /\ pc["telem"] \in {"T_hput", "T_hmid"} /\ pc'["telem"] \in {"T_hmid", "T_hend"}
        /\ pc'["control"] = pc["control"] /\ pc'["sensors"] = pc["sensors"]
        /\ pc'["uplink"] = pc["uplink"] /\ DOMAIN pc' = Task
    BY <1>t, <2>1, GoMoves
  <2>3. TypeOK'
    BY <1>u, <2>1, <2>2 DEF TypeOK
  <2>4. EstInv' /\ TxInv'
    BY <2>1, <2>2 DEF EstInv, TxInv, TxExclusive, ControlHoldsEst,
       TelemHoldsEst, UplinkHoldsTx, TelemHoldsTx
  <2>5. BurstInv' /\ CopyInv'
    BY <1>u, <2>1, <2>2 DEF BurstInv, CopyInv, TelemSending
  <2>6. QED
    BY <2>3, <2>4, <2>5
<1>9. CASE TelemHilEnd
  <2>1. /\ Go("telem", "T_hend", "sleep")
        /\ Give("USB_TX_MTX")
        /\ snap' = NoView
        /\ UNCHANGED burst
    BY <1>9 DEF TelemHilEnd
  <2>2. /\ pc["telem"] = "T_hend" /\ pc'["telem"] = "sleep"
        /\ pc'["control"] = pc["control"] /\ pc'["sensors"] = pc["sensors"]
        /\ pc'["uplink"] = pc["uplink"] /\ DOMAIN pc' = Task
    BY <1>t, <2>1, GoMoves
  <2>3. sem' \in [Sem -> 0 .. EvtLimit]
    BY <2>1, GiveType DEF TypeOK, Sem
  <2>4. snap' \in [armed : BOOLEAN, est : Est, health : Health \cup {"none"}]
    BY <2>1, FlightAssumption DEF NoView
  <2>5. TypeOK'
    BY <1>u, <2>1, <2>2, <2>3, <2>4 DEF TypeOK
  <2>6. EstInv' /\ TxInv'
    BY <2>1, <2>2, FlightAssumption DEF Give, EstInv, TxInv, TxExclusive, ControlHoldsEst,
       TelemHoldsEst, UplinkHoldsTx, TelemHoldsTx, TypeOK, Sem
  <2>7. BurstInv' /\ CopyInv'
    BY <1>u, <2>1, <2>2 DEF BurstInv, CopyInv, TelemSending
  <2>8. QED
    BY <2>5, <2>6, <2>7
<1>10. QED
  BY <1>1, <1>2, <1>3, <1>4, <1>5, <1>6, <1>7, <1>8, <1>9 DEF TelemNext

\* A task that wakes stands at the top of its loop, and nothing else changes.
LEMMA WakeMoves ==
  ASSUME DOMAIN pc = Task, NEW t \in Task, Wake(t)
  PROVE  /\ pc[t] = "sleep"
         /\ pc'[t] = LoopTop[t]
         /\ \A u \in Task \ {t} : pc'[u] = pc[u]
         /\ DOMAIN pc' = Task
BY DEF Wake

LEMMA WakeIInv == IInv /\ (\E t \in Task : Wake(t)) => IInv'
<1> SUFFICES ASSUME IInv, NEW t \in Task, Wake(t) PROVE IInv'
  OBVIOUS
<1> USE DEF IInv
<1>1. UNCHANGED <<sem, SENSOR_SEQ, SENSOR_FRAME, incoming, written, phys, G_CMD_ARMED,
                  r, EST_STATE, snap, burst>>
  BY DEF Wake, frameVars, estVars, telemVars
<1>2. DOMAIN pc' = Task /\ \A u \in Task :
        pc'[u] = pc[u] \/ (pc[u] = "sleep" /\ pc'[u] = LoopTop[u])
  BY WakeMoves DEF TypeOK
<1>3. /\ pc'["control"] = pc["control"] \/ (pc["control"] = "sleep" /\ pc'["control"] = "C_read")
      /\ pc'["sensors"] = pc["sensors"] \/ (pc["sensors"] = "sleep" /\ pc'["sensors"] = "S_read")
      /\ pc'["uplink"] = pc["uplink"] \/ (pc["uplink"] = "sleep" /\ pc'["uplink"] = "U_poll")
      /\ pc'["telem"] = pc["telem"] \/ (pc["telem"] = "sleep" /\ pc'["telem"] = "T_lock")
  BY <1>2 DEF Task, LoopTop
<1>4. TypeOK'
  BY <1>1, <1>2, <1>3 DEF TypeOK
<1>5. EstInv' /\ TxInv'
  BY <1>1, <1>3 DEF EstInv, TxInv, TxExclusive, ControlHoldsEst,
       TelemHoldsEst, UplinkHoldsTx, TelemHoldsTx
<1>6. BurstInv' /\ CopyInv'
  BY <1>1, <1>3 DEF BurstInv, CopyInv, TelemSending
<1>7. QED
  BY <1>4, <1>5, <1>6

\* A stuttering step keeps it too.
LEMMA StutterIInv == IInv /\ UNCHANGED vars => IInv'
BY DEF IInv, TypeOK, EstInv, TxInv, TxExclusive, ControlHoldsEst,
       TelemHoldsEst, UplinkHoldsTx, TelemHoldsTx,
   BurstInv, CopyInv, TelemSending, vars

-----------------------------------------------------------------------------
\* The inductive invariant holds in every reachable state.
THEOREM Inductive == Spec => []IInv
<1>1. IInv /\ [Next]_vars => IInv'
  BY ControlIInv, SensorsIInv, UplinkIInv, TelemIInv, WakeIInv, StutterIInv
     DEF Next, CpuNext
<1>2. QED
  BY <1>1, InitIInv, PTL DEF Spec

\* Every variable keeps its type: no semaphore count is taken below zero, the
\* writer never stores past the last field, the burst never exceeds its frames.
THEOREM TypeCorrect == Spec => []TypeOK
<1>1. IInv => TypeOK
  BY DEF IInv
<1>2. QED
  BY <1>1, Inductive, PTL

\* telem.rs and uplink.rs never interleave the bytes of their frames in usb0.
THEOREM TransmitExclusive == Spec => []TxExclusive
<1>1. IInv => TxExclusive
  BY DEF IInv, TxInv
<1>2. QED
  BY <1>1, Inductive, PTL

\* With the processor idle no task is inside a guarded region.
LEMMA IdleIInv == IInv => IdleOnlyAsleep
<1>1. ASSUME IInv, Idle PROVE \A t \in Task : pc[t] \in {"sleep", "C_wait"}
  <2> USE DEF IInv
  <2>1. ~ControlHoldsEst
    BY <1>1 DEF Idle, Runnable, Task, WaitPoint, ControlHoldsEst
  <2>2. ~TelemHoldsEst /\ ~TelemHoldsTx
    BY <1>1 DEF Idle, Runnable, Task, WaitPoint, TelemHoldsEst, TelemHoldsTx
  <2>3. ~UplinkHoldsTx
    BY <1>1 DEF Idle, Runnable, Task, WaitPoint, UplinkHoldsTx
  <2>4. sem["EST_MTX"] = 1 /\ sem["USB_TX_MTX"] = 1
    BY <1>1, <2>1, <2>2, <2>3 DEF EstInv, TxInv
  <2>5. \A t \in Task : /\ pc[t] # "sleep" => pc[t] \in DOMAIN WaitPoint
                        /\ pc[t] # "sleep" => ~(sem[WaitPoint[pc[t]]] > 0)
    BY <1>1 DEF Idle, Runnable
  <2>6. \A t \in Task : pc[t] # "sleep" => pc[t] = "C_wait"
    BY <2>4, <2>5 DEF WaitPoint
  <2>7. QED
    BY <2>6
<1>2. QED
  BY <1>1 DEF IdleOnlyAsleep

\* The four tasks never deadlock: when none can run, none is inside a guarded
\* region, so nobody waits for a mutex, and only HIL_EVT can hold control up.
THEOREM NoDeadlock == Spec => []IdleOnlyAsleep
BY IdleIInv, Inductive, PTL

-----------------------------------------------------------------------------
(* FlightTasks implements EstRegister.  What the refinement mapping shows. *)

Value == IF ControlHoldsEst THEN r ELSE EST_STATE
View  == IF TelemHoldsEst THEN EST_STATE ELSE IF TelemSending THEN snap ELSE NoView

\* control changes the register when it takes EST_MTX, and at no other step.
LEMMA ControlPublishes ==
  ASSUME IInv, ControlNext
  PROVE  View' = View /\ (Value' = Value \/ Value' \in Outcome)
<1> USE DEF IInv
<1>t. DOMAIN pc = Task /\ Task = {"control", "sensors", "uplink", "telem"}
  BY DEF TypeOK, Task
<1>1. CASE ControlStep
  <2>1. /\ Go("control", "C_read", "C_lock")
        /\ EST_STATE' = EST_STATE /\ snap' = snap
    BY <1>1 DEF ControlStep, telemVars
  <2>2. pc["control"] = "C_read" /\ pc'["control"] = "C_lock" /\ pc'["telem"] = pc["telem"]
    BY <1>t, <2>1, GoMoves
  <2>3. QED
    BY <2>1, <2>2 DEF Value, View, ControlHoldsEst, TelemHoldsEst, TelemSending
<1>2. CASE ControlLock
  <2>1. /\ Go("control", "C_lock", "C_armed")
        /\ r' = r /\ EST_STATE' = EST_STATE /\ snap' = snap
    BY <1>2 DEF ControlLock, estVars, telemVars
  <2>2. pc["control"] = "C_lock" /\ pc'["control"] = "C_armed" /\ pc'["telem"] = pc["telem"]
    BY <1>t, <2>1, GoMoves
  <2>3. QED
    BY <2>1, <2>2 DEF Value, View, ControlHoldsEst, TelemHoldsEst, TelemSending, TypeOK
<1>3. CASE ControlPublish
  <2>1. /\ \/ Go("control", "C_armed", "C_est") \/ Go("control", "C_est", "C_health")
           \/ Go("control", "C_health", "C_unlock")
        /\ r' = r /\ snap' = snap
    BY <1>3 DEF ControlPublish, telemVars
  <2>2. /\ pc["control"] \in {"C_armed", "C_est", "C_health"}
        /\ pc'["control"] \in {"C_est", "C_health", "C_unlock"}
        /\ pc'["telem"] = pc["telem"]
    BY <1>t, <2>1, GoMoves
  <2>3. ~TelemHoldsEst /\ ControlHoldsEst /\ ControlHoldsEst'
    BY <2>2 DEF EstInv, ControlHoldsEst
  <2>4. QED
    BY <2>1, <2>2, <2>3 DEF Value, View, TelemHoldsEst, TelemSending
<1>4. CASE ControlUnlock
  <2>1. /\ Go("control", "C_unlock", IF Hil THEN "C_wait" ELSE "sleep")
        /\ EST_STATE' = EST_STATE /\ snap' = snap
    BY <1>4 DEF ControlUnlock, telemVars
  <2>2. /\ pc["control"] = "C_unlock" /\ pc'["control"] \in {"C_wait", "sleep"}
        /\ pc'["telem"] = pc["telem"]
    BY <1>t, <2>1, GoMoves
  <2>3. r = EST_STATE
    BY <2>2 DEF CopyInv, TypeOK, Outcome
  <2>4. QED
    BY <2>1, <2>2, <2>3 DEF Value, View, ControlHoldsEst, TelemHoldsEst, TelemSending
<1>5. CASE ControlWait
  <2>1. /\ Go("control", "C_wait", "C_read")
        /\ EST_STATE' = EST_STATE /\ snap' = snap
    BY <1>5 DEF ControlWait, estVars, telemVars
  <2>2. pc["control"] = "C_wait" /\ pc'["control"] = "C_read" /\ pc'["telem"] = pc["telem"]
    BY <1>t, <2>1, GoMoves
  <2>3. QED
    BY <2>1, <2>2 DEF Value, View, ControlHoldsEst, TelemHoldsEst, TelemSending
<1>6. QED
  BY <1>1, <1>2, <1>3, <1>4, <1>5 DEF ControlNext

\* telem takes a whole value, keeps it for the burst, and lets it go.
LEMMA TelemViews ==
  ASSUME IInv, TelemNext
  PROVE  /\ Value' = Value
         /\ \/ View' = View
            \/ View = NoView /\ View' = Value
            \/ View # NoView /\ View' = NoView
<1> USE DEF IInv
<1>t. DOMAIN pc = Task /\ Task = {"control", "sensors", "uplink", "telem"}
  BY DEF TypeOK, Task
<1>u. r' = r /\ EST_STATE' = EST_STATE
  BY DEF TelemNext, TelemLock, TelemCopy, TelemUnlock, TelemTxLock, TelemPut,
     TelemTxEnd, TelemHilLock, TelemHilPut, TelemHilEnd, estVars
<1>1. CASE TelemLock
  <2>1. Go("telem", "T_lock", "T_est")
    BY <1>1 DEF TelemLock
  <2>2. /\ pc["telem"] = "T_lock" /\ pc'["telem"] = "T_est"
        /\ pc'["control"] = pc["control"]
    BY <1>t, <2>1, GoMoves
  <2>3. sem["EST_MTX"] > 0
    BY <2>1, GoTakes DEF WaitPoint
  <2>4. ~ControlHoldsEst
    BY <2>3 DEF EstInv
  <2>5. QED
    BY <1>u, <2>2, <2>4 DEF Value, View, ControlHoldsEst, TelemHoldsEst, TelemSending
<1>2. CASE TelemCopy
  <2>1. \/ Go("telem", "T_est", "T_health") \/ Go("telem", "T_health", "T_armed")
        \/ Go("telem", "T_armed", "T_unlock")
    BY <1>2 DEF TelemCopy
  <2>2. /\ pc["telem"] \in {"T_est", "T_health", "T_armed"}
        /\ pc'["telem"] \in {"T_health", "T_armed", "T_unlock"}
        /\ pc'["control"] = pc["control"]
    BY <1>t, <2>1, GoMoves
  <2>3. QED
    BY <1>u, <2>2 DEF Value, View, ControlHoldsEst, TelemHoldsEst
<1>3. CASE TelemUnlock
  <2>1. Go("telem", "T_unlock", "T_tx") /\ snap' = snap
    BY <1>3 DEF TelemUnlock, telemVars
  <2>2. /\ pc["telem"] = "T_unlock" /\ pc'["telem"] = "T_tx"
        /\ pc'["control"] = pc["control"]
    BY <1>t, <2>1, GoMoves
  <2>3. snap = EST_STATE
    BY <2>2 DEF CopyInv, TypeOK, Outcome
  <2>4. QED
    BY <1>u, <2>1, <2>2, <2>3 DEF Value, View, ControlHoldsEst, TelemHoldsEst, TelemSending
<1>4. CASE TelemTxLock \/ TelemPut \/ TelemHilLock \/ TelemHilPut
  <2>1. /\ \E at \in {"T_tx", "T_put", "T_mid", "T_htx", "T_hput", "T_hmid"},
              to \in {"T_put", "T_mid", "T_txend", "T_hput", "T_hmid", "T_hend"} :
             Go("telem", at, to)
        /\ snap' = snap
    BY <1>4 DEF TelemTxLock, TelemPut, TelemHilLock, TelemHilPut, telemVars
  <2>2. /\ pc["telem"] \in {"T_tx", "T_put", "T_mid", "T_htx", "T_hput", "T_hmid"}
        /\ pc'["telem"] \in {"T_put", "T_mid", "T_txend", "T_hput", "T_hmid", "T_hend"}
        /\ pc'["control"] = pc["control"]
    BY <1>t, <2>1, GoMoves
  <2>3. QED
    BY <1>u, <2>1, <2>2 DEF Value, View, ControlHoldsEst, TelemHoldsEst, TelemSending
<1>5. CASE TelemTxEnd \/ TelemHilEnd
  <2>1. \/ Go("telem", "T_txend", "T_htx") /\ snap' = snap
        \/ Go("telem", "T_txend", "sleep") \/ Go("telem", "T_hend", "sleep")
    BY <1>5 DEF TelemTxEnd, TelemHilEnd
  <2>2. /\ pc["telem"] \in {"T_txend", "T_hend"}
        /\ pc'["telem"] = "sleep" \/ (pc'["telem"] = "T_htx" /\ snap' = snap)
        /\ pc'["control"] = pc["control"]
    BY <1>t, <2>1, GoMoves
  <2>3. QED
    BY <1>u, <2>2 DEF Value, View, ControlHoldsEst, TelemHoldsEst, TelemSending
<1>6. QED
  BY <1>1, <1>2, <1>3, <1>4, <1>5 DEF TelemNext

\* No other step changes what the register shows.
LEMMA OthersKeep ==
  ASSUME IInv, SensorsNext \/ UplinkNext \/ (\E t \in Task : Wake(t)) \/ UNCHANGED vars
  PROVE  Value' = Value /\ View' = View
<1> USE DEF IInv
<1>t. DOMAIN pc = Task /\ Task = {"control", "sensors", "uplink", "telem"}
  BY DEF TypeOK, Task
<1>1. r' = r /\ EST_STATE' = EST_STATE /\ snap' = snap
  BY DEF SensorsNext, SensorsRead, SensorsWrite, UplinkNext, UplinkArm, UplinkReply,
     UplinkLock, UplinkPut, UplinkUnlock, UplinkInject, UplinkWrite, UplinkGive,
     UplinkSleep, Wake, estVars, telemVars, vars
<1>2. /\ pc'["control"] = pc["control"] \/ (pc["control"] = "sleep" /\ pc'["control"] = "C_read")
      /\ pc'["telem"] = pc["telem"] \/ (pc["telem"] = "sleep" /\ pc'["telem"] = "T_lock")
  <2>1. CASE SensorsNext \/ UplinkNext
    <3>1. \E t \in {"sensors", "uplink"} : \E at, to : Go(t, at, to)
      BY <2>1 DEF SensorsNext, SensorsRead, SensorsWrite, UplinkNext, UplinkArm,
         UplinkReply, UplinkLock, UplinkPut, UplinkUnlock, UplinkInject,
         UplinkWrite, UplinkGive, UplinkSleep
    <3>2. QED
      BY <1>t, <3>1, GoMoves
  <2>2. CASE \E t \in Task : Wake(t)
    BY <1>t, <2>2, WakeMoves DEF LoopTop
  <2>3. CASE UNCHANGED vars
    BY <2>3 DEF vars
  <2>4. QED
    BY <2>1, <2>2, <2>3
<1>3. QED
  BY <1>1, <1>2 DEF Value, View, ControlHoldsEst, TelemHoldsEst, TelemSending

\* EST_STATE is an atomic register between control and telem: no downlink burst
\* mixes two estimates, and each shows the latest one when it took its snapshot.
THEOREM EstStateIsAtomic == Spec => EstAtomic
<1>1. Init => ER!RInit
  BY DEF Init, ER!RInit, Task, ControlHoldsEst, TelemHoldsEst, TelemSending
<1>2. IInv /\ [Next]_vars => [ER!RNext]_(ER!rvars)
  <2> SUFFICES ASSUME IInv, [Next]_vars PROVE [ER!RNext]_(ER!rvars)
    OBVIOUS
  <2>1. View' = View /\ (Value' = Value \/ Value' \in Outcome)
        => [ER!RNext]_(ER!rvars)
    BY DEF ER!RNext, ER!Publish, ER!rvars, Value, View
  <2>2. CASE ControlNext
    BY <2>1, <2>2, ControlPublishes
  <2>3. CASE TelemNext
    BY <2>3, TelemViews DEF ER!RNext, ER!Snapshot, ER!Sent, ER!rvars, Value, View
  <2>4. CASE SensorsNext \/ UplinkNext \/ (\E t \in Task : Wake(t)) \/ UNCHANGED vars
    BY <2>1, <2>4, OthersKeep
  <2>5. QED
    BY <2>2, <2>3, <2>4 DEF Next, CpuNext
<1>3. QED
  BY <1>1, <1>2, Inductive, PTL DEF Spec, EstAtomic, ER!RSpec

=============================================================================
