--------------------------- MODULE StartUpProofs ---------------------------
(***************************************************************************)
(* Proofs about StartUp: from power-on, with the host task's steps between *)
(* those of the tasks it creates, for both builds and every value of the   *)
(* constants that FlightAssumption and ZeroAssumption allow.               *)
(***************************************************************************)
EXTENDS StartUp, FlightTasksProofs

\* Where the tasks begin in Boot: HIL_EVT takes one place in the HIL build.
K == IF Hil THEN 1 ELSE 0

\* The host task has done the steps before `at` and no other.
OrderInv ==
  /\ at \in -1 .. 10 + K
  /\ "EST_STATE" \in inited <=> at > 1
  /\ "G_PARAM_VALS" \in inited <=> at > 2
  /\ "EST_MTX" \in inited <=> at > 3
  /\ "USB_TX_MTX" \in inited <=> at > 4
  /\ "HIL_EVT" \in inited <=> Hil /\ at > 5
  /\ "control" \in spawned <=> at > 6 + K
  /\ "sensors" \in spawned <=> at > 7 + K
  /\ "telem" \in spawned <=> at > 8 + K
  /\ "uplink" \in spawned <=> at > 9 + K

\* Before control is created nothing but the globals and the counts moves.
BeforeControl ==
  /\ pc = [t \in Task |-> "sleep"]
  /\ sem = [s \in Sem |-> IF s \in inited THEN InitialCount[s] ELSE 0]
  /\ SENSOR_SEQ = 0
  /\ SENSOR_FRAME = [f \in Field |-> NoSample]
  /\ incoming = [f \in Field |-> Keep]
  /\ written = 0
  /\ phys = NoSample
  /\ G_CMD_ARMED = FALSE
  /\ r = Empty
  /\ EST_STATE = IF "EST_STATE" \in inited THEN Empty ELSE Zeroed
  /\ snap = NoView
  /\ burst = 0

BootInv ==
  /\ OrderInv
  /\ ~Ready => BeforeControl
  /\ Ready => IInv
  /\ Ready => \A t \in Task : t \notin spawned => pc[t] = "sleep"
  /\ pc["control"] = "C_wait" => Hil

-----------------------------------------------------------------------------
\* Boot, step by step.
LEMMA BootSteps ==
  /\ Len(Boot) = 9 + K
  /\ Boot[1] = "EST_STATE" /\ Boot[2] = "G_PARAM_VALS"
  /\ Boot[3] = "EST_MTX" /\ Boot[4] = "USB_TX_MTX"
  /\ Hil => Boot[5] = "HIL_EVT"
  /\ Boot[5 + K] = "log" /\ Boot[6 + K] = "control" /\ Boot[7 + K] = "sensors"
  /\ Boot[8 + K] = "telem" /\ Boot[9 + K] = "uplink"
<1>1. CASE Hil
  BY <1>1 DEF Boot, K
<1>2. CASE ~Hil
  BY <1>2 DEF Boot, K
<1>3. QED
  BY <1>1, <1>2

\* Which names a step can have, by its place.
LEMMA BootPlaces ==
  ASSUME at \in 1 .. Len(Boot)
  PROVE  \/ at = 1 /\ Boot[at] = "EST_STATE"
         \/ at = 2 /\ Boot[at] = "G_PARAM_VALS"
         \/ at = 3 /\ Boot[at] = "EST_MTX"
         \/ at = 4 /\ Boot[at] = "USB_TX_MTX"
         \/ at = 5 /\ Hil /\ Boot[at] = "HIL_EVT"
         \/ at = 5 + K /\ Boot[at] = "log"
         \/ at = 6 + K /\ Boot[at] = "control"
         \/ at = 7 + K /\ Boot[at] = "sensors"
         \/ at = 8 + K /\ Boot[at] = "telem"
         \/ at = 9 + K /\ Boot[at] = "uplink"
<1>1. CASE Hil
  <2>1. K = 1
    BY <1>1 DEF K
  <2>2. at \in 1 .. 10
    BY <2>1, BootSteps
  <2>3. QED
    BY <1>1, <2>1, <2>2, BootSteps
<1>2. CASE ~Hil
  <2>1. K = 0
    BY <1>2 DEF K
  <2>2. at \in 1 .. 9
    BY <2>1, BootSteps
  <2>3. QED
    BY <1>2, <2>1, <2>2, BootSteps
<1>3. QED
  BY <1>1, <1>2

\* The zeroed memory of power-on satisfies the invariant.
LEMMA SInitBootInv == SInit => BootInv
BY DEF SInit, BootInv, OrderInv, BeforeControl, Ready, K, Task, Sem

-----------------------------------------------------------------------------
\* The host task's steps keep the order, whatever the tasks do between them.
LEMMA BootOrder == OrderInv /\ BootNext => OrderInv'
<1> SUFFICES ASSUME OrderInv, BootNext PROVE OrderInv'
  OBVIOUS
<1>k. K \in {0, 1} /\ (Hil <=> K = 1)
  BY DEF K
<1>1. CASE CheckVersion
  BY <1>1, <1>k DEF CheckVersion, OrderInv
<1>2. CASE FillGlobals
  <2>1. at' = at + 1 /\ spawned' = spawned
    BY <1>2 DEF FillGlobals, AtStep
  <2>2. \/ at = 1 /\ inited' = inited \cup {"EST_STATE"}
        \/ at = 2 /\ inited' = inited \cup {"G_PARAM_VALS"}
    BY <1>2, BootPlaces DEF FillGlobals, AtStep
  <2>3. QED
    BY <2>1, <2>2, <1>k DEF OrderInv
<1>3. CASE InitSemaphore
  <2>1. at' = at + 1 /\ spawned' = spawned
    BY <1>3 DEF InitSemaphore, AtStep
  <2>2. \/ at = 3 /\ inited' = inited \cup {"EST_MTX"}
        \/ at = 4 /\ inited' = inited \cup {"USB_TX_MTX"}
        \/ at = 5 /\ Hil /\ inited' = inited \cup {"HIL_EVT"}
    BY <1>3, BootPlaces DEF InitSemaphore, AtStep, Sem
  <2>3. QED
    BY <2>1, <2>2, <1>k DEF OrderInv
<1>4. CASE SpawnTask
  <2>1. at' = at + 1 /\ inited' = inited
    BY <1>4 DEF SpawnTask, AtStep
  <2>2. \/ at = 5 + K /\ spawned' = spawned \cup {"log"}
        \/ at = 6 + K /\ spawned' = spawned \cup {"control"}
        \/ at = 7 + K /\ spawned' = spawned \cup {"sensors"}
        \/ at = 8 + K /\ spawned' = spawned \cup {"telem"}
        \/ at = 9 + K /\ spawned' = spawned \cup {"uplink"}
    BY <1>4, BootPlaces DEF SpawnTask, AtStep, Task
  <2>3. QED
    BY <2>1, <2>2, <1>k DEF OrderInv
<1>5. QED
  BY <1>1, <1>2, <1>3, <1>4 DEF BootNext

\* While nothing of the flight tasks changes, neither does IInv.
LEMMA SameIInv == IInv /\ UNCHANGED vars => IInv'
BY StutterIInv

\* The creation of control completes the initial state of FlightTasks.
LEMMA SpawnControl ==
  ASSUME OrderInv, BeforeControl, SpawnTask, Boot[at] = "control"
  PROVE  Init'
<1>k. K \in {0, 1} /\ (Hil <=> K = 1)
  BY DEF K
<1>1. at = 6 + K
  BY BootPlaces DEF SpawnTask, AtStep
<1>2. /\ sem = [s \in Sem |-> IF s \in inited THEN InitialCount[s] ELSE 0]
      /\ EST_STATE = Empty
  BY <1>1, <1>k DEF BeforeControl, OrderInv
<1>3. sem = InitialCount
  BY <1>1, <1>2, <1>k DEF OrderInv, InitialCount, Sem
<1>4. pc' = [pc EXCEPT !["control"] = "C_read"]
  BY DEF SpawnTask, Task, LoopTop
<1>5. pc' = [t \in Task |-> IF t = "control" THEN "C_read" ELSE "sleep"]
  BY <1>4 DEF BeforeControl, Task
<1>6. UNCHANGED <<sem, frameVars, G_CMD_ARMED, estVars, telemVars>>
  BY DEF SpawnTask
<1>7. QED
  BY <1>2, <1>3, <1>5, <1>6 DEF BeforeControl, Init, frameVars, estVars, telemVars

\* A later creation is, for FlightTasks, the end of a sleep.
LEMMA SpawnOther ==
  ASSUME BootInv, SpawnTask, Boot[at] # "control", Ready
  PROVE  \E t \in Task : Wake(t)
<1>k. K \in {0, 1} /\ (Hil <=> K = 1)
  BY DEF K
<1>1. at > 6 + K
  BY <1>k DEF BootInv, OrderInv, Ready
<1>2. \/ at = 7 + K /\ Boot[at] = "sensors" /\ "sensors" \notin spawned
      \/ at = 8 + K /\ Boot[at] = "telem" /\ "telem" \notin spawned
      \/ at = 9 + K /\ Boot[at] = "uplink" /\ "uplink" \notin spawned
  BY <1>1, <1>k, BootPlaces DEF BootInv, OrderInv, SpawnTask, AtStep
<1>3. Boot[at] \in Task /\ pc[Boot[at]] = "sleep"
  BY <1>2 DEF BootInv, Ready, Task
<1>4. Wake(Boot[at])
  BY <1>3 DEF SpawnTask, Wake
<1>5. QED
  BY <1>3, <1>4

\* A step of the processor moves one task, which is awake; control waits for
\* the event in the HIL build only.
LEMMA CpuMoves ==
  ASSUME DOMAIN pc = Task, CpuNext
  PROVE  /\ \E t \in Task : pc[t] # "sleep"
         /\ \A t \in Task : pc[t] = "sleep" => pc'[t] = "sleep"
         /\ pc'["control"] = "C_wait" => pc["control"] = "C_wait" \/ Hil
<1>t. Task = {"control", "sensors", "uplink", "telem"}
  BY DEF Task
<1>1. CASE ControlNext
  <2>1. /\ pc["control"] # "sleep"
        /\ \A u \in Task \ {"control"} : pc'[u] = pc[u]
        /\ pc'["control"] = "C_wait" => Hil
    BY <1>1, <1>t DEF ControlNext, ControlStep, ControlLock, ControlPublish,
                      ControlUnlock, ControlWait, Go
  <2>2. QED
    BY <2>1, <1>t
<1>2. CASE SensorsNext
  <2>1. /\ pc["sensors"] # "sleep"
        /\ \A u \in Task \ {"sensors"} : pc'[u] = pc[u]
    BY <1>2, <1>t DEF SensorsNext, SensorsRead, SensorsWrite, Go
  <2>2. QED
    BY <2>1, <1>t
<1>3. CASE UplinkNext
  <2>1. /\ pc["uplink"] # "sleep"
        /\ \A u \in Task \ {"uplink"} : pc'[u] = pc[u]
    BY <1>3, <1>t DEF UplinkNext, UplinkArm, UplinkReply, UplinkLock, UplinkPut,
                      UplinkUnlock, UplinkInject, UplinkWrite, UplinkGive, UplinkSleep, Go
  <2>2. QED
    BY <2>1, <1>t
<1>4. CASE TelemNext
  <2>1. /\ pc["telem"] # "sleep"
        /\ \A u \in Task \ {"telem"} : pc'[u] = pc[u]
    BY <1>4, <1>t DEF TelemNext, TelemLock, TelemCopy, TelemUnlock, TelemTxLock,
                      TelemPut, TelemTxEnd, TelemHilLock, TelemHilPut, TelemHilEnd, Go
  <2>2. QED
    BY <2>1, <1>t
<1>5. QED
  BY <1>1, <1>2, <1>3, <1>4 DEF CpuNext

\* A step of the processor preserves the invariant; before control exists there
\* is none.
LEMMA CpuBootInv == BootInv /\ SCpuNext => BootInv'
<1> SUFFICES ASSUME BootInv, SCpuNext PROVE BootInv'
  OBVIOUS
<1>1. DOMAIN pc = Task
  BY DEF BootInv, BeforeControl, IInv, TypeOK
<1>2. CpuNext /\ UNCHANGED bootVars
  BY DEF SCpuNext
<1>3. Ready
  BY <1>1, <1>2, CpuMoves DEF BootInv, BeforeControl
<1>4. IInv
  BY <1>3 DEF BootInv
<1>5. IInv'
  BY <1>2, <1>4, ControlIInv, SensorsIInv, UplinkIInv, TelemIInv DEF CpuNext
<1>6. Ready' /\ OrderInv'
  BY <1>2, <1>3 DEF bootVars, Ready, BootInv, OrderInv
<1>7. \A u \in Task : u \notin spawned' => pc'[u] = "sleep"
  BY <1>1, <1>2, <1>3, CpuMoves DEF BootInv, bootVars
<1>8. pc'["control"] = "C_wait" => Hil
  BY <1>1, <1>2, CpuMoves DEF BootInv
<1>9. QED
  BY <1>5, <1>6, <1>7, <1>8 DEF BootInv

\* Only a task that exists wakes.
LEMMA WakeBootInv == BootInv /\ (\E t \in Task : SWake(t)) => BootInv'
<1> SUFFICES ASSUME BootInv, NEW t \in Task, SWake(t) PROVE BootInv'
  OBVIOUS
<1>1. Ready
  <2> SUFFICES ASSUME ~Ready PROVE FALSE
    OBVIOUS
  <2>1. K \in {0, 1}
    BY DEF K
  <2>2. QED
    BY <2>1 DEF BootInv, OrderInv, Ready, SWake, Task
<1>2. IInv /\ DOMAIN pc = Task
  BY <1>1 DEF BootInv, IInv, TypeOK
<1>3. IInv'
  BY <1>2, WakeIInv DEF SWake
<1>4. /\ pc'[t] = LoopTop[t]
      /\ \A u \in Task \ {t} : pc'[u] = pc[u]
  BY <1>2, WakeMoves DEF SWake
<1>5. Ready' /\ OrderInv'
  BY <1>1 DEF SWake, bootVars, Ready, BootInv, OrderInv
<1>6. \A u \in Task : u \notin spawned' => pc'[u] = "sleep"
  BY <1>1, <1>4 DEF BootInv, SWake, bootVars
<1>7. pc'["control"] = "C_wait" => Hil
  BY <1>4 DEF BootInv, Task, LoopTop
<1>8. QED
  BY <1>3, <1>5, <1>6, <1>7 DEF BootInv

\* The steps of the host task.
LEMMA HostBootInv == BootInv /\ BootNext => BootInv'
<1> SUFFICES ASSUME BootInv, BootNext PROVE BootInv'
  OBVIOUS
<1>k. K \in {0, 1} /\ (Hil <=> K = 1)
  BY DEF K
<1>o. OrderInv'
  BY BootOrder DEF BootInv
<1>1. CASE CheckVersion
  <2>1. ~Ready /\ ~Ready' /\ BeforeControl
    BY <1>1, <1>k DEF CheckVersion, BootInv, OrderInv, Ready
  <2>2. QED
    BY <1>1, <1>o, <2>1 DEF CheckVersion, BootInv, BeforeControl, Task, vars,
                            frameVars, estVars, telemVars
<1>2. CASE FillGlobals
  <2>1. at \in {1, 2} /\ (Boot[at] = "EST_STATE" <=> at = 1) /\ Boot[at] \notin Sem
    BY <1>2, BootPlaces DEF FillGlobals, AtStep, Sem
  <2>2. ~Ready /\ ~Ready' /\ BeforeControl
    BY <1>2, <1>k, <2>1 DEF FillGlobals, BootInv, OrderInv, Ready
  <2>3. BeforeControl'
    BY <1>2, <2>1, <2>2 DEF FillGlobals, BeforeControl, frameVars, telemVars
  <2>4. QED
    BY <1>o, <2>2, <2>3 DEF BootInv, BeforeControl, Task
<1>3. CASE InitSemaphore
  <2>1. at \in {3, 4, 5} /\ (at = 5 => Hil) /\ Boot[at] \in Sem
    BY <1>3, <1>k, BootPlaces DEF InitSemaphore, AtStep, Sem
  <2>2. ~Ready /\ ~Ready' /\ BeforeControl
    BY <1>3, <1>k, <2>1 DEF InitSemaphore, BootInv, OrderInv, Ready
  <2>3. sem' = [s \in Sem |-> IF s \in inited' THEN InitialCount[s] ELSE 0]
    BY <1>3, <2>1, <2>2 DEF InitSemaphore, BeforeControl
  <2>4. BeforeControl'
    BY <1>3, <2>1, <2>2, <2>3 DEF InitSemaphore, BeforeControl, frameVars, estVars,
                                  telemVars, Sem
  <2>5. QED
    BY <1>o, <2>2, <2>4 DEF BootInv, BeforeControl, Task
<1>4. CASE SpawnTask /\ Boot[at] = "log"
  <2>1. UNCHANGED <<vars, inited>> /\ spawned' = spawned \cup {"log"}
    BY <1>4 DEF SpawnTask, Task, vars, frameVars, estVars, telemVars
  <2>2. Ready' = Ready /\ (Ready => IInv')
    BY <2>1, SameIInv DEF Ready, BootInv
  <2>3. ~Ready => BeforeControl'
    BY <2>1 DEF BootInv, BeforeControl, vars
  <2>4. QED
    BY <1>o, <2>1, <2>2, <2>3 DEF BootInv, vars
<1>5. CASE SpawnTask /\ Boot[at] = "control"
  <2>1. at = 6 + K
    BY <1>5, BootPlaces DEF SpawnTask, AtStep
  <2>2. ~Ready
    BY <1>k, <2>1 DEF BootInv, OrderInv, Ready
  <2>3. Init'
    BY <1>5, <2>2, SpawnControl DEF BootInv
  <2>4. Init' => IInv'
    BY InitIInv, PTL
  <2>5. Ready'
    BY <1>5 DEF SpawnTask, Ready
  <2>6. pc'["control"] = "C_read" /\ \A t \in Task \ {"control"} : pc'[t] = "sleep"
    BY <2>3 DEF Init, Task
  <2>7. QED
    BY <1>o, <2>3, <2>4, <2>5, <2>6 DEF BootInv, Ready
<1>6. CASE SpawnTask /\ Boot[at] \notin {"log", "control"}
  <2>1. \/ at = 7 + K /\ Boot[at] = "sensors"
        \/ at = 8 + K /\ Boot[at] = "telem"
        \/ at = 9 + K /\ Boot[at] = "uplink"
    BY <1>6, BootPlaces DEF SpawnTask, AtStep, Task
  <2>2. Ready
    BY <1>k, <2>1 DEF BootInv, OrderInv, Ready
  <2>3. IInv /\ DOMAIN pc = Task
    BY <2>2 DEF BootInv, IInv, TypeOK
  <2>4. IInv'
    BY <1>6, <2>2, <2>3, SpawnOther, WakeIInv
  <2>5. Ready' /\ spawned' = spawned \cup {Boot[at]}
    BY <1>6, <2>2 DEF SpawnTask, Ready
  <2>6. pc' = [pc EXCEPT ![Boot[at]] = LoopTop[Boot[at]]]
    BY <1>6, <2>1 DEF SpawnTask, Task
  <2>7. \A t \in Task : t \notin spawned' => pc'[t] = "sleep"
    BY <2>2, <2>3, <2>5, <2>6 DEF BootInv
  <2>8. pc'["control"] = pc["control"]
    BY <1>6, <2>3, <2>6 DEF Task
  <2>9. QED
    BY <1>o, <2>4, <2>5, <2>7, <2>8 DEF BootInv
<1>7. QED
  BY <1>1, <1>2, <1>3, <1>4, <1>5, <1>6 DEF BootNext

-----------------------------------------------------------------------------
\* The start-up invariant holds from power-on.
THEOREM BootInductive == SSpec => []BootInv
<1>1. BootInv /\ [SNext]_svars => BootInv'
  <2> SUFFICES ASSUME BootInv, [SNext]_svars PROVE BootInv'
    OBVIOUS
  <2>1. CASE UNCHANGED svars
    BY <2>1, SameIInv DEF svars, vars, bootVars, BootInv, OrderInv, BeforeControl, Ready
  <2>2. CASE Refused
    BY <2>1, <2>2 DEF Refused
  <2>3. QED
    BY <2>1, <2>2, HostBootInv, CpuBootInv, WakeBootInv DEF SNext
<1>2. QED
  BY <1>1, SInitBootInv, PTL DEF SSpec

\* No task waits for a semaphore that spawn_flyctrl has not initialised yet, and
\* control does not fly before the gains have their defaults.
THEOREM NothingIsUsedUninitialised == SSpec => []NothingUsedUninitialised
<1>1. BootInv => NothingUsedUninitialised
  <2> SUFFICES ASSUME BootInv PROVE NothingUsedUninitialised
    OBVIOUS
  <2>k. K \in {0, 1} /\ (Hil <=> K = 1)
    BY DEF K
  <2>1. CASE ~Ready
    BY <2>1 DEF BootInv, BeforeControl, NothingUsedUninitialised, WaitPoint, Task
  <2>2. CASE Ready
    <3>1. at > 6 + K /\ {"G_PARAM_VALS", "EST_MTX", "USB_TX_MTX"} \subseteq inited
      BY <2>2, <2>k DEF BootInv, OrderInv, Ready
    <3>2. Hil => "HIL_EVT" \in inited
      BY <3>1, <2>k DEF BootInv, OrderInv
    <3>3. TypeOK
      BY <2>2 DEF BootInv, IInv
    <3>4. ASSUME NEW t \in Task, pc[t] \in DOMAIN WaitPoint
          PROVE  WaitPoint[pc[t]] \in inited
      BY <3>1, <3>2, <3>3, <3>4 DEF TypeOK, Task, WaitPoint, BootInv
    <3>5. QED
      BY <3>1, <3>4 DEF NothingUsedUninitialised
  <2>3. QED
    BY <2>1, <2>2
<1>2. QED
  BY <1>1, BootInductive, PTL

\* From power-on the tasks never wait for one another in a circle, also while
\* some of them do not exist yet.
THEOREM NoDeadlockFromPowerOn == SSpec => []IdleOnlyAsleep
<1>1. BootInv => IdleOnlyAsleep
  BY IdleIInv DEF BootInv, BeforeControl, IdleOnlyAsleep
<1>2. QED
  BY <1>1, BootInductive, PTL

\* Every variable has its type from power-on: the zeroed estimate is one too.
THEOREM TypeCorrectFromPowerOn == SSpec => []TypeOK
<1>1. BootInv => TypeOK
  <2> SUFFICES ASSUME BootInv, ~Ready PROVE TypeOK
    BY DEF BootInv, IInv
  <2>1. BeforeControl
    BY DEF BootInv
  <2>2. /\ Empty \in Outcome /\ Zeroed \in Outcome
        /\ NoView \in [armed : BOOLEAN, est : Est, health : Health \cup {"none"}]
    BY FlightAssumption, ZeroAssumption DEF Outcome, Empty, Zeroed, NoView
  <2>3. sem \in [Sem -> 0 .. EvtLimit]
    BY <2>1, FlightAssumption DEF BeforeControl, InitialCount
  <2>4. /\ SENSOR_FRAME \in [Field -> Sample \cup {NoSample}]
        /\ incoming \in [Field -> Sample \cup {NoSample, Keep}]
        /\ DOMAIN pc = Task /\ \A t \in Task : pc[t] = "sleep"
        /\ burst \in 0 .. TelemFrames
    BY <2>1, FlightAssumption DEF BeforeControl
  <2>5. r \in Outcome /\ EST_STATE \in Outcome
        /\ snap \in [armed : BOOLEAN, est : Est, health : Health \cup {"none"}]
    BY <2>1, <2>2 DEF BeforeControl
  <2>6. SENSOR_SEQ \in {0, 1} /\ written \in 0 .. 5 /\ phys \in Sample \cup {NoSample}
    BY <2>1 DEF BeforeControl
  <2>7. G_CMD_ARMED \in BOOLEAN
    BY <2>1 DEF BeforeControl
  <2>8. /\ pc["control"] = "sleep" /\ pc["sensors"] = "sleep"
        /\ pc["uplink"] = "sleep" /\ pc["telem"] = "sleep"
    BY <2>4 DEF Task
  <2>9. QED
    BY <2>3, <2>4, <2>5, <2>6, <2>7, <2>8 DEF TypeOK
<1>2. QED
  BY <1>1, BootInductive, PTL

-----------------------------------------------------------------------------
\* The refinement: the constant-level definitions mean the same in F.
LEMMA SameData ==
  /\ F!Task = Task /\ F!Prio = Prio /\ F!Sem = Sem /\ F!InitialCount = InitialCount
  /\ F!WaitPoint = WaitPoint /\ F!Field = Field /\ F!FieldOrder = FieldOrder
  /\ F!LoopTop = LoopTop /\ F!Empty = Empty /\ F!NoView = NoView
  /\ F!NoSample = NoSample /\ F!Keep = Keep /\ F!Sample = Sample
  /\ F!Message = Message /\ F!Outcome = Outcome
BY DEF F!Task, Task, F!Prio, Prio, F!Sem, Sem, F!InitialCount, InitialCount,
       F!WaitPoint, WaitPoint, F!Field, Field, F!FieldOrder, FieldOrder,
       F!LoopTop, LoopTop, F!Empty, Empty, F!NoView, NoView, F!NoSample, NoSample,
       F!Keep, Keep, F!Sample, Sample, F!Message, Message, F!Outcome, Outcome

\* From the creation of control on, a step from a label to a label is the same.
LEMMA SameGo ==
  ASSUME Ready, Ready'
  PROVE  \A t, from, to : Go(t, from, to) => F!Go(t, from, to)
BY SameData DEF Ready, Go, F!Go, Running, F!Running, Runnable, F!Runnable

\* So is every action of control, ...
LEMMA SameControl == ASSUME Ready, Ready', ControlNext PROVE F!ControlNext
<1> USE DEF Ready, frameVars, F!frameVars, estVars, F!estVars, telemVars,
            F!telemVars
<1>1. ASSUME ControlStep PROVE F!ControlStep
  BY <1>1, SameGo, SameData DEF ControlStep, F!ControlStep
<1>2. ASSUME ControlLock PROVE F!ControlLock
  BY <1>2, SameGo, SameData DEF ControlLock, F!ControlLock, Take, F!Take
<1>3. ASSUME ControlPublish PROVE F!ControlPublish
  BY <1>3, SameGo, SameData DEF ControlPublish, F!ControlPublish
<1>4. ASSUME ControlUnlock PROVE F!ControlUnlock
  BY <1>4, SameGo, SameData DEF ControlUnlock, F!ControlUnlock, Give, F!Give
<1>5. ASSUME ControlWait PROVE F!ControlWait
  BY <1>5, SameGo, SameData DEF ControlWait, F!ControlWait, Take, F!Take
<1>6. QED
  BY <1>1, <1>2, <1>3, <1>4, <1>5 DEF ControlNext, F!ControlNext

\* ... of sensors, ...
LEMMA SameSensors == ASSUME Ready, Ready', SensorsNext PROVE F!SensorsNext
<1> USE DEF Ready, frameVars, F!frameVars, estVars, F!estVars, telemVars,
            F!telemVars
<1>1. ASSUME SensorsRead PROVE F!SensorsRead
  BY <1>1, SameGo, SameData DEF SensorsRead, F!SensorsRead,
      BeginWrite, F!BeginWrite, NextSample, F!NextSample
<1>2. ASSUME SensorsWrite PROVE F!SensorsWrite
  BY <1>2, SameGo, SameData DEF SensorsWrite, F!SensorsWrite,
      WriteField, F!WriteField, EndWrite, F!EndWrite
<1>3. QED
  BY <1>1, <1>2 DEF SensorsNext, F!SensorsNext

\* ... of uplink ...
LEMMA SameUplink == ASSUME Ready, Ready', UplinkNext PROVE F!UplinkNext
<1> USE DEF Ready, frameVars, F!frameVars, estVars, F!estVars, telemVars,
            F!telemVars
<1>1. ASSUME UplinkArm PROVE F!UplinkArm
  BY <1>1, SameGo, SameData DEF UplinkArm, F!UplinkArm
<1>2. ASSUME UplinkReply PROVE F!UplinkReply
  BY <1>2, SameGo, SameData DEF UplinkReply, F!UplinkReply
<1>3. ASSUME UplinkLock PROVE F!UplinkLock
  BY <1>3, SameGo, SameData DEF UplinkLock, F!UplinkLock, Take, F!Take
<1>4. ASSUME UplinkPut PROVE F!UplinkPut
  BY <1>4, SameGo, SameData DEF UplinkPut, F!UplinkPut
<1>5. ASSUME UplinkUnlock PROVE F!UplinkUnlock
  BY <1>5, SameGo, SameData DEF UplinkUnlock, F!UplinkUnlock, Give, F!Give
<1>6. ASSUME NEW kind \in Message, UplinkInject(kind) PROVE F!UplinkInject(kind)
  BY <1>6, SameGo, SameData DEF UplinkInject, F!UplinkInject, BeginWrite,
      F!BeginWrite, NextSample, F!NextSample, Injection, F!Injection
<1>7. ASSUME UplinkWrite PROVE F!UplinkWrite
  BY <1>7, SameGo, SameData DEF UplinkWrite, F!UplinkWrite,
      WriteField, F!WriteField, EndWrite, F!EndWrite
<1>8. ASSUME UplinkGive PROVE F!UplinkGive
  BY <1>8, SameGo, SameData DEF UplinkGive, F!UplinkGive, Give, F!Give
<1>9. ASSUME UplinkSleep PROVE F!UplinkSleep
  BY <1>9, SameGo, SameData DEF UplinkSleep, F!UplinkSleep
<1>10. QED
  BY <1>1, <1>2, <1>3, <1>4, <1>5, <1>6, <1>7, <1>8, <1>9,
     SameData DEF UplinkNext, F!UplinkNext

\* ... and of telem.
LEMMA SameTelem == ASSUME Ready, Ready', TelemNext PROVE F!TelemNext
<1> USE DEF Ready, frameVars, F!frameVars, estVars, F!estVars, telemVars,
            F!telemVars
<1>1. ASSUME TelemLock PROVE F!TelemLock
  BY <1>1, SameGo, SameData DEF TelemLock, F!TelemLock, Take, F!Take
<1>2. ASSUME TelemCopy PROVE F!TelemCopy
  BY <1>2, SameGo, SameData DEF TelemCopy, F!TelemCopy
<1>3. ASSUME TelemUnlock PROVE F!TelemUnlock
  BY <1>3, SameGo, SameData DEF TelemUnlock, F!TelemUnlock, Give, F!Give
<1>4. ASSUME TelemTxLock PROVE F!TelemTxLock
  BY <1>4, SameGo, SameData DEF TelemTxLock, F!TelemTxLock, Take, F!Take
<1>5. ASSUME TelemPut PROVE F!TelemPut
  <2>1. UNCHANGED <<sem, frameVars, G_CMD_ARMED, estVars, snap>>
    BY <1>5 DEF TelemPut
  <2>2. CASE Go("telem", "T_put", "T_mid") /\ UNCHANGED burst
    BY <2>1, <2>2, SameGo, SameData DEF F!TelemPut
  <2>3. ASSUME NEW to,
               to = IF burst + 1 < TelemFrames THEN "T_put" ELSE "T_txend",
               Go("telem", "T_mid", to), burst' = burst + 1
        PROVE  F!TelemPut
    <3>1. F!Go("telem", "T_mid", to)
      BY <2>3, SameGo
    <3>2. UNCHANGED <<IF Ready THEN sem ELSE InitialCount, F!frameVars, G_CMD_ARMED,
                      F!estVars, snap>>
      BY <2>1, SameData
    <3>3. F!Go("telem", "T_mid", IF burst + 1 < TelemFrames THEN "T_put" ELSE "T_txend")
      BY <2>3, <3>1 DEF F!Go
    <3>4. QED
      BY <2>3, <3>2, <3>3 DEF F!TelemPut
  <2>4. QED
    BY <1>5, <2>2, <2>3 DEF TelemPut
<1>6. ASSUME TelemTxEnd PROVE F!TelemTxEnd
  BY <1>6, SameGo, SameData DEF TelemTxEnd, F!TelemTxEnd, Give, F!Give
<1>7. ASSUME TelemHilLock PROVE F!TelemHilLock
  BY <1>7, SameGo, SameData DEF TelemHilLock, F!TelemHilLock, Take, F!Take
<1>8. ASSUME TelemHilPut PROVE F!TelemHilPut
  BY <1>8, SameGo, SameData DEF TelemHilPut, F!TelemHilPut
<1>9. ASSUME TelemHilEnd PROVE F!TelemHilEnd
  BY <1>9, SameGo, SameData DEF TelemHilEnd, F!TelemHilEnd, Give, F!Give
<1>10. QED
  BY <1>1, <1>2, <1>3, <1>4, <1>5, <1>6, <1>7, <1>8, <1>9 DEF TelemNext, F!TelemNext

\* A wake-up, or the creation of one of the other tasks.
LEMMA SameWake ==
  ASSUME Ready, Ready', NEW t \in Task, Wake(t)
  PROVE  F!Wake(t)
BY SameData DEF Ready, Wake, F!Wake, frameVars, F!frameVars, estVars, F!estVars,
                telemVars, F!telemVars

\* What happens before control exists cannot be seen in FlightTasks.
LEMMA HiddenBefore ==
  ASSUME BootInv, BootNext, ~Ready
  PROVE  UNCHANGED F!vars
<1>k. K \in {0, 1} /\ (Hil <=> K = 1)
  BY DEF K
<1>o. BeforeControl /\ OrderInv
  BY DEF BootInv
<1>1. CASE SpawnTask /\ Boot[at] = "control"
  <2>1. Init'
    BY <1>1, <1>o, SpawnControl
  <2>2. Ready'
    BY <1>1 DEF SpawnTask, Ready
  <2>3. QED
    BY <1>o, <2>1, <2>2, SameData DEF BeforeControl, Init, F!vars
<1>2. CASE ~(SpawnTask /\ Boot[at] = "control")
  <2>1. ~Ready'
    BY <1>2 DEF BootNext, CheckVersion, FillGlobals, InitSemaphore, SpawnTask, Ready
  <2>2. UNCHANGED <<frameVars, G_CMD_ARMED, r, telemVars>>
    BY DEF BootNext, CheckVersion, FillGlobals, InitSemaphore, SpawnTask, vars, estVars,
           frameVars, telemVars
  <2>3. QED
    BY <2>1, <2>2, SameData DEF F!vars, frameVars, telemVars
<1>3. QED
  BY <1>1, <1>2

\* A step of the host task after the creation of control creates another task.
LEMMA BootAfter ==
  ASSUME BootInv, BootNext, Ready
  PROVE  Ready' /\ \E t \in Task : Wake(t)
<1>k. K \in {0, 1}
  BY DEF K
<1>1. /\ SpawnTask
      /\ Boot[at] # "control"
  BY <1>k, BootPlaces
     DEF BootNext, CheckVersion, FillGlobals, InitSemaphore, SpawnTask, AtStep, BootInv,
         OrderInv, Ready, Sem
<1>2. Ready'
  BY <1>1 DEF SpawnTask, Ready
<1>3. \E t \in Task : Wake(t)
  BY <1>1, SpawnOther
<1>4. QED
  BY <1>2, <1>3

\* The whole life of the application, from power-on, is a life of FlightTasks:
\* the zeroed globals and the gradual creation of the tasks show nowhere.
THEOREM StartIsFlight == SSpec => StartsAsSpecified
<1>1. SInit => F!Init
  BY SameData DEF SInit, F!Init, Ready
<1>2. BootInv /\ [SNext]_svars => [F!Next]_(F!vars)
  <2> SUFFICES ASSUME BootInv, [SNext]_svars PROVE F!Next \/ UNCHANGED F!vars
    OBVIOUS
  <2>1. CASE BootNext /\ ~Ready
    BY <2>1, HiddenBefore
  <2>2. CASE BootNext /\ Ready
    <3>1. Ready' /\ \E t \in Task : Wake(t)
      BY <2>2, BootAfter
    <3>2. QED
      BY <2>2, <3>1, SameWake, SameData DEF F!Next
  <2>3. CASE SCpuNext
    <3>1. DOMAIN pc = Task
      BY DEF BootInv, BeforeControl, IInv, TypeOK
    <3>2. Ready /\ Ready'
      BY <2>3, <3>1, CpuMoves DEF BootInv, BeforeControl, SCpuNext, bootVars, Ready
    <3>3. QED
      BY <2>3, <3>2, SameControl, SameSensors, SameUplink, SameTelem
         DEF SCpuNext, CpuNext, F!CpuNext, F!Next
  <2>4. ASSUME NEW t \in Task, SWake(t) PROVE F!Next
    <3>1. Ready
      BY <2>4, BootInv DEF BootInv, OrderInv, Ready, SWake, Task, K
    <3>2. Ready'
      BY <2>4, <3>1 DEF SWake, bootVars, Ready
    <3>3. QED
      BY <2>4, <3>1, <3>2, SameWake, SameData DEF SWake, F!Next
  <2>5. CASE Refused \/ UNCHANGED svars
    BY <2>5 DEF Refused, svars, vars, bootVars, F!vars, Ready
  <2>6. QED
    BY <2>1, <2>2, <2>3, <2>4, <2>5 DEF SNext
<1>3. QED
  BY <1>1, <1>2, BootInductive, PTL DEF SSpec, StartsAsSpecified, F!Spec

-----------------------------------------------------------------------------
(* EstRegister, from power-on: the register shows its initial state until    *)
(* control exists, and from then on what it shows in FlightTasks.            *)

BootValue == IF Ready THEN Value ELSE Empty
BootView  == IF Ready THEN View ELSE NoView

\* A step of FlightTasks is a step of the register.
LEMMA RegisterStep ==
  ASSUME IInv, Next \/ UNCHANGED vars
  PROVE  \/ View' = View /\ (Value' = Value \/ Value' \in Outcome)
         \/ Value' = Value /\ View = NoView /\ View' = Value
         \/ Value' = Value /\ View # NoView /\ View' = NoView
BY ControlPublishes, TelemViews, OthersKeep DEF Next, CpuNext

\* What a step from power-on does to the register.
LEMMA BootRegisterStep ==
  ASSUME BootInv, [SNext]_svars
  PROVE  \/ BootView' = BootView /\ (BootValue' = BootValue \/ BootValue' \in Outcome)
         \/ BootValue' = BootValue /\ BootView = NoView /\ BootView' = BootValue
         \/ BootValue' = BootValue /\ BootView # NoView /\ BootView' = NoView
<1>1. CASE ~Ready /\ ~Ready'
  BY <1>1 DEF BootValue, BootView
<1>2. CASE ~Ready /\ Ready'
  <2>1. SpawnTask /\ Boot[at] = "control"
    BY <1>2 DEF SNext, BootNext, CheckVersion, FillGlobals, InitSemaphore, SpawnTask,
                Refused, SCpuNext, SWake, svars, bootVars, Ready
  <2>2. Init'
    BY <1>2, <2>1, SpawnControl DEF BootInv
  <2>3. Value' = Empty /\ View' = NoView
    BY <2>2 DEF Init, Value, View, Task, ControlHoldsEst, TelemHoldsEst, TelemSending
  <2>4. QED
    BY <1>2, <2>3 DEF BootValue, BootView
<1>3. CASE Ready
  <2>1. Ready'
    BY <1>3, BootAfter DEF SNext, Refused, SCpuNext, SWake, svars, bootVars, Ready
  <2>2. Next \/ UNCHANGED vars
    BY <1>3, BootAfter DEF SNext, Refused, SCpuNext, SWake, svars, Next
  <2>3. IInv
    BY <1>3 DEF BootInv
  <2>4. QED
    BY <1>3, <2>1, <2>2, <2>3, RegisterStep DEF BootValue, BootView
<1>4. QED
  BY <1>1, <1>2, <1>3

\* From power-on no downlink burst mixes two estimates, or shows the zeroed
\* EST_STATE that spawn_flyctrl has not filled yet.
THEOREM EstAtomicFromPowerOn == SSpec => EstAtomicFromStart
<1>1. SInit => F!ER!RInit
  BY SameData DEF SInit, F!ER!RInit, Ready, Task, F!ControlHoldsEst, F!TelemHoldsEst,
                  F!TelemSending
<1>2. BootInv /\ [SNext]_svars => [F!ER!RNext]_(F!ER!rvars)
  BY BootRegisterStep, SameData
     DEF F!ER!RNext, F!ER!Publish, F!ER!Snapshot, F!ER!Sent, F!ER!rvars, BootValue,
         BootView, Value, View, Task, ControlHoldsEst, TelemHoldsEst, TelemSending,
         F!ControlHoldsEst, F!TelemHoldsEst, F!TelemSending
<1>3. QED
  BY <1>1, <1>2, BootInductive, PTL DEF SSpec, EstAtomicFromStart, F!EstAtomic, F!ER!RSpec

=============================================================================
