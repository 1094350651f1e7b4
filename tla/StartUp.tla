------------------------------- MODULE StartUp -------------------------------
(***************************************************************************)
(* rust_app_start and spawn_flyctrl in front of FlightTasks.  The host     *)
(* task of the RTOS runs them step by step.  Its priority is the system's  *)
(* affair, so a task that has been created may run between any two of the  *)
(* steps.  Until its step is done, a global of the .rust_bss section is    *)
(* all zero: a semaphore that admits nobody, an estimate that is healthy.  *)
(***************************************************************************)
EXTENDS FlightTasks, Sequences

\* Health::Healthy is the verdict whose number is 0.
ASSUME ZeroAssumption == "Healthy" \in Health

VARIABLES
  at,        \* the step the host task takes next
  inited,    \* the globals that have their initial values
  spawned    \* the tasks that exist

bootVars == <<at, inited, spawned>>
svars    == <<vars, bootVars>>

-----------------------------------------------------------------------------
\* Faults: the estimate is filled when all tasks run; control is created
\* before the mutexes are ready.
BootFillsLast ==
  <<"G_PARAM_VALS", "EST_MTX", "USB_TX_MTX">>
  \o (IF Hil THEN <<"HIL_EVT">> ELSE <<>>)
  \o <<"log", "control", "sensors", "telem", "uplink", "EST_STATE">>

BootSpawnsEarly ==
  <<"EST_STATE", "G_PARAM_VALS", "log", "control", "EST_MTX", "USB_TX_MTX">>
  \o (IF Hil THEN <<"HIL_EVT">> ELSE <<>>)
  \o <<"sensors", "telem", "uplink">>

\* The steps of spawn_flyctrl in their order, named for what they make ready.
Boot ==
  IF Hil
  THEN <<"EST_STATE", "G_PARAM_VALS", "EST_MTX", "USB_TX_MTX", "HIL_EVT",
         "log", "control", "sensors", "telem", "uplink">>
  ELSE <<"EST_STATE", "G_PARAM_VALS", "EST_MTX", "USB_TX_MTX",
         "log", "control", "sensors", "telem", "uplink">>

\* What the zeroed bytes of EST_STATE mean.
Zeroed == [armed |-> FALSE, est |-> Est0, health |-> "Healthy"]

\* The check of the ABI's magic and version; without a match nothing is started.
CheckVersion ==
  /\ at = 0
  /\ at' \in {1, -1}
  /\ UNCHANGED <<vars, inited, spawned>>

AtStep(S) == at \in 1 .. Len(Boot) /\ Boot[at] \in S /\ at' = at + 1

\* EstState::empty() and init_param_defaults().
FillGlobals ==
  /\ AtStep({"EST_STATE", "G_PARAM_VALS"})
  /\ inited' = inited \cup {Boot[at]}
  /\ EST_STATE' = IF Boot[at] = "EST_STATE" THEN Empty ELSE EST_STATE
  /\ UNCHANGED <<pc, sem, frameVars, G_CMD_ARMED, r, telemVars, spawned>>

\* Mutex::init, Semaphore::init.
InitSemaphore ==
  /\ AtStep(Sem)
  /\ inited' = inited \cup {Boot[at]}
  /\ sem' = [sem EXCEPT ![Boot[at]] = InitialCount[Boot[at]]]
  /\ UNCHANGED <<pc, frameVars, G_CMD_ARMED, estVars, telemVars, spawned>>

\* spawn_rt, spawn_log_task: the task exists and is ready at once.
SpawnTask ==
  /\ AtStep(Task \cup {"log"})
  /\ spawned' = spawned \cup {Boot[at]}
  /\ pc' = IF Boot[at] \in Task THEN [pc EXCEPT ![Boot[at]] = LoopTop[Boot[at]]] ELSE pc
  /\ UNCHANGED <<sem, frameVars, G_CMD_ARMED, estVars, telemVars, inited>>

\* rust_app_start has returned -1: nothing of the application ever runs.
Refused == at = -1 /\ UNCHANGED svars

BootNext == CheckVersion \/ FillGlobals \/ InitSemaphore \/ SpawnTask

\* FlightTasks' Init as it is before spawn_flyctrl.
SInit ==
  /\ pc = [t \in Task |-> "sleep"]
  /\ sem = [s \in Sem |-> 0]
  /\ SENSOR_SEQ = 0
  /\ SENSOR_FRAME = [f \in Field |-> NoSample]
  /\ incoming = [f \in Field |-> Keep]
  /\ written = 0
  /\ phys = NoSample
  /\ G_CMD_ARMED = FALSE
  /\ r = Empty
  /\ EST_STATE = Zeroed
  /\ snap = NoView
  /\ burst = 0
  /\ at = 0 /\ inited = {} /\ spawned = {}

SCpuNext == CpuNext /\ UNCHANGED bootVars

SWake(t) == t \in spawned /\ Wake(t) /\ UNCHANGED bootVars

SNext == BootNext \/ Refused \/ SCpuNext \/ \E t \in Task : SWake(t)

SSpec == SInit /\ [][SNext]_svars

\* The fairness of FlightTasks, and of the host task, which is a task as well.
SFairSpec ==
  /\ SSpec
  /\ WF_svars(BootNext) /\ WF_svars(SCpuNext)
  /\ \A t \in Task : WF_svars(SWake(t))
-----------------------------------------------------------------------------
(* Properties *)

\* Until control is created, the start-up is seen as FlightTasks' initial state;
\* from then on everything is what it is.
Ready == "control" \in spawned

F == INSTANCE FlightTasks WITH
       pc        <- IF Ready THEN pc
                    ELSE [t \in Task |-> IF t = "control" THEN "C_read" ELSE "sleep"],
       sem       <- IF Ready THEN sem ELSE InitialCount,
       EST_STATE <- IF Ready THEN EST_STATE ELSE Empty

\* What FlightTasks takes for granted is there by the time a task can tell: all
\* that happens from power-on is a behaviour of FlightTasks.
StartsAsSpecified == F!Spec

\* From power-on: no downlink burst mixes two estimates, or shows the zeroed one.
EstAtomicFromStart == F!EstAtomic

\* No task waits for a semaphore before it is initialised (it would wait for
\* ever, rtos_sync.rs 43-46), and control never flies on gains that are zero.
NothingUsedUninitialised ==
  /\ \A t \in Task : pc[t] \in DOMAIN WaitPoint => WaitPoint[pc[t]] \in inited
  /\ pc["control"] # "sleep" => "G_PARAM_VALS" \in inited
=============================================================================
