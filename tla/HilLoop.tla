------------------------------- MODULE HilLoop -------------------------------
(***************************************************************************)
(* The hardware-in-the-loop build of FlightTasks with the two globals the  *)
(* loop through the simulator runs over: G_HIL_SETPOINT, which uplink      *)
(* stores and control reads, and G_ACTUATOR_CMD, which control stores and  *)
(* telem reads, neither of them under a lock.  Every action of FlightTasks *)
(* is here with what it does to them; the stores and copies between two    *)
(* steps of FlightTasks are steps of their own.                            *)
(*                                                                         *)
(* A motor command and an estimate are told apart by their age: how many   *)
(* cycles control has run since the one that made them, up to MaxAge.      *)
(***************************************************************************)
EXTENDS FlightTasks, Sequences

CONSTANTS SetPoint,     \* the set points the simulator sends
          ZeroSetPoint, \* what G_HIL_SETPOINT holds before the first
          NMotors,      \* motors of one command (four in the code)
          MaxAge        \* ages are counted up to here

ASSUME HilAssumption ==
  /\ ZeroSetPoint \in SetPoint
  /\ NMotors \in Nat \ {0}
  /\ MaxAge \in Nat \ {0}

VARIABLES
  G_HIL_SETPOINT,       \* stored in two parts
  G_HIL_SETPOINT_VALID,
  sp,                   \* uplink: the decoded set point
  spAt,                 \* uplink: what is to be done with it
  cmdAge, estAge,       \* the ages of G_ACTUATOR_CMD and of EST_STATE.est
  snapAge,              \* telem: the age of the estimate it works on
  motors                \* telem: the ages of the motors copied so far

spVars  == <<G_HIL_SETPOINT, G_HIL_SETPOINT_VALID, sp, spAt>>
ageVars == <<cmdAge, estAge, snapAge, motors>>
hvars   == <<vars, spVars, ageVars>>

Part     == {"pos", "rest"}
Age      == 0 .. MaxAge
Older(a) == IF a < MaxAge THEN a + 1 ELSE a

\* telem has the estimate of this cycle in hand.
HasEstimate == pc["telem"] \notin {"sleep", "T_lock", "T_est"}

\* uplink has a message to handle and no set point half handled.
AtPoll == pc["uplink"] = "U_poll" /\ spAt = "none"

-----------------------------------------------------------------------------
(* control *)

\* Fault: set_actuator_cmd comes before step_hil, with the command it had before.
HControlStepLate ==
  /\ ControlStep
  /\ cmdAge' = 1
  /\ estAge' = Older(estAge)
  /\ snapAge' = IF HasEstimate THEN Older(snapAge) ELSE snapAge
  /\ motors' = [i \in DOMAIN motors |-> Older(motors[i])]
  /\ UNCHANGED spVars

\* One cycle: what existed is a cycle older; set_actuator_cmd stores the new
\* command in one step, as nothing preempts control.
HControlStep ==
  /\ ControlStep
  /\ cmdAge' = 0
  /\ estAge' = Older(estAge)
  /\ snapAge' = IF HasEstimate THEN Older(snapAge) ELSE snapAge
  /\ motors' = [i \in DOMAIN motors |-> Older(motors[i])]
  /\ UNCHANGED spVars

\* The estimate published is the one of this cycle.
HControlPublish ==
  /\ ControlPublish
  /\ estAge' = IF pc["control"] = "C_est" THEN 0 ELSE estAge
  /\ UNCHANGED <<cmdAge, snapAge, motors, spVars>>

HControlNext ==
  \/ HControlStep \/ HControlPublish
  \/ (ControlLock \/ ControlUnlock \/ ControlWait) /\ UNCHANGED <<spVars, ageVars>>

-----------------------------------------------------------------------------
(* uplink *)

\* SET_POSITION_TARGET_LOCAL_NED is decoded,
SetPointDecode ==
  /\ Hil
  /\ AtPoll /\ Running("uplink")
  /\ sp' \in SetPoint
  /\ spAt' = "pos"
  /\ UNCHANGED <<vars, G_HIL_SETPOINT, G_HIL_SETPOINT_VALID, ageVars>>

\* Fault: the event is given before the set point is complete.
SetPointStoreGives ==
  /\ Running("uplink")
  /\ spAt \in Part
  /\ G_HIL_SETPOINT' = [G_HIL_SETPOINT EXCEPT ![spAt] = sp]
  /\ spAt' = IF spAt = "pos" THEN "rest" ELSE "valid"
  /\ Give("HIL_EVT")
  /\ UNCHANGED <<pc, frameVars, G_CMD_ARMED, estVars, telemVars,
                 G_HIL_SETPOINT_VALID, sp, ageVars>>

\* stored part by part,
SetPointStore ==
  /\ Running("uplink")
  /\ spAt \in Part
  /\ G_HIL_SETPOINT' = [G_HIL_SETPOINT EXCEPT ![spAt] = sp]
  /\ spAt' = IF spAt = "pos" THEN "rest" ELSE "valid"
  /\ UNCHANGED <<vars, G_HIL_SETPOINT_VALID, sp, ageVars>>

\* marked valid,
SetPointValid ==
  /\ Running("uplink")
  /\ spAt = "valid"
  /\ G_HIL_SETPOINT_VALID' = TRUE
  /\ spAt' = "inject"
  /\ UNCHANGED <<vars, G_HIL_SETPOINT, sp, ageVars>>

\* and the frame is written, with the RC input alone, and the event given.
SetPointInject ==
  /\ UplinkInject("SET_POSITION")
  /\ spAt = "inject"
  /\ spAt' = "none"
  /\ sp' = ZeroSetPoint
  /\ UNCHANGED <<G_HIL_SETPOINT, G_HIL_SETPOINT_VALID, ageVars>>

HUplinkNext ==
  \/ SetPointDecode \/ SetPointStore \/ SetPointValid \/ SetPointInject
  \/ /\ pc["uplink"] = "U_poll" => spAt = "none"
     /\ \/ \E kind \in Message \ {"SET_POSITION"} : UplinkInject(kind)
        \/ UplinkArm \/ UplinkReply \/ UplinkLock \/ UplinkPut \/ UplinkUnlock
        \/ UplinkWrite \/ UplinkGive \/ UplinkSleep
     /\ UNCHANGED <<spVars, ageVars>>

-----------------------------------------------------------------------------
(* telem *)

HTelemCopy ==
  /\ TelemCopy
  /\ snapAge' = IF pc["telem"] = "T_est" THEN estAge ELSE snapAge
  /\ UNCHANGED <<cmdAge, estAge, motors, spVars>>

\* actuator_cmd(): the motors are copied one by one, under USB_TX_MTX only.
MotorsCopy ==
  /\ pc["telem"] = "T_hput" /\ Running("telem")
  /\ Len(motors) < NMotors
  /\ motors' = Append(motors, cmdAge)
  /\ UNCHANGED <<vars, cmdAge, estAge, snapAge, spVars>>

\* HIL_ACTUATOR_CONTROLS is written when all are copied.
HTelemHilPut ==
  /\ TelemHilPut
  /\ Len(motors) = NMotors
  /\ UNCHANGED <<spVars, ageVars>>

HTelemHilEnd ==
  /\ TelemHilEnd
  /\ snapAge' = 0
  /\ motors' = <<>>
  /\ UNCHANGED <<cmdAge, estAge, spVars>>

HTelemNext ==
  \/ HTelemCopy \/ MotorsCopy \/ HTelemHilPut \/ HTelemHilEnd
  \/ /\ \/ TelemLock \/ TelemUnlock \/ TelemTxLock \/ TelemPut
        \/ TelemTxEnd \/ TelemHilLock
     /\ UNCHANGED <<spVars, ageVars>>

-----------------------------------------------------------------------------
HInit ==
  /\ Init
  /\ G_HIL_SETPOINT = [p \in Part |-> ZeroSetPoint]
  /\ G_HIL_SETPOINT_VALID = FALSE
  /\ sp = ZeroSetPoint /\ spAt = "none"
  /\ cmdAge = MaxAge /\ estAge = MaxAge /\ snapAge = 0 /\ motors = <<>>

HCpuNext ==
  HControlNext \/ (SensorsNext /\ UNCHANGED <<spVars, ageVars>>)
  \/ HUplinkNext \/ HTelemNext

HWake(t) == Wake(t) /\ UNCHANGED <<spVars, ageVars>>

HNext == HCpuNext \/ \E t \in Task : HWake(t)

HSpec == HInit /\ [][HNext]_hvars

\* The fairness of FlightTasks.
HFairSpec ==
  HSpec /\ WF_hvars(HCpuNext) /\ \A t \in Task : WF_hvars(HWake(t))
-----------------------------------------------------------------------------
(* Properties *)

HTypeOK ==
  /\ G_HIL_SETPOINT \in [Part -> SetPoint]
  /\ G_HIL_SETPOINT_VALID \in BOOLEAN
  /\ sp \in SetPoint
  /\ spAt \in {"none", "pos", "rest", "valid", "inject"}
  /\ cmdAge \in Age /\ estAge \in Age /\ snapAge \in Age
  /\ motors \in Seq(Age) /\ Len(motors) =< NMotors

\* control never reads a set point of which uplink has stored one part, nor one
\* that is stored and not marked valid, although nothing guards the two globals.
SetpointWhole ==
  pc["control"] = "C_read" =>
    /\ G_HIL_SETPOINT["pos"] = G_HIL_SETPOINT["rest"]
    /\ ~G_HIL_SETPOINT_VALID => G_HIL_SETPOINT["pos"] = ZeroSetPoint

\* The motors telem sends to the simulator may be of several cycles of control,
\* as it is preempted between two of them; but each is at least as new as the
\* estimate sent before it, and a later motor never older than an earlier one.
ActuatorsNotOlder ==
  pc["telem"] \in {"T_hmid", "T_hend"} =>
    /\ Len(motors) = NMotors
    /\ \A i \in 1 .. NMotors : motors[i] =< snapAge
    /\ \A i, j \in 1 .. NMotors : i < j => motors[j] =< motors[i]
=============================================================================
