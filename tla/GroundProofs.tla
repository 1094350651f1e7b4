---------------------------- MODULE GroundProofs ----------------------------
(***************************************************************************)
(* Proofs about GroundCommands, for every number of channels and modes,    *)
(* every width of the tick counter and every age limit below it.           *)
(***************************************************************************)
EXTENDS GroundCommands, TLAPS

-----------------------------------------------------------------------------
(* Types *)

\* The machine operations stay within the width of the integer.
LEMMA NextTick ==
  ASSUME NEW n \in 0 .. TickMod - 1
  PROVE  WrappingNext(n) \in 0 .. TickMod - 1
BY GroundAssumption DEF WrappingNext

LEMMA SubTicks ==
  ASSUME NEW m \in 0 .. TickMod - 1, NEW n \in 0 .. TickMod - 1
  PROVE  WrappingSub(m, n) \in 0 .. TickMod - 1
BY GroundAssumption DEF WrappingSub

LEMMA OlderIsAge ==
  ASSUME NEW age \in Age \cup {Never}
  PROVE  Older(age) \in Age \cup {Never}
BY GroundAssumption DEF Older, Age, Never

LEMMA CommandFields ==
  ASSUME NEW c \in Command
  PROVE  /\ c.kind = "ARM" => c.arm \in BOOLEAN
         /\ c.kind = "MODE" => c.mode \in Mode
BY DEF Command

LEMMA InitTypes == GroundInit => GroundTypeOK
<1> SUFFICES ASSUME GroundInit PROVE GroundTypeOK
  OBVIOUS
<1>1. 0 \in Alt /\ 0 \in 0 .. TickMod - 1
  BY GroundAssumption DEF Alt
<1>2. /\ G_RC_OVERRIDE \in [Channel -> Age \cup {Never}]
      /\ sticks \in [Channel -> Age \cup {Never, Receiver}]
  BY DEF GroundInit
<1>3. told \in [armed : BOOLEAN, mode : Mode]
  BY GroundAssumption DEF GroundInit
<1>4. G_CMD_MODE \in Mode /\ target_alt \in Int
  BY GroundAssumption DEF GroundInit
<1>5. hold_alt \in Alt /\ last_est \in Alt
  BY <1>1 DEF GroundInit
<1>6. G_RC_OVERRIDE_TICK \in 0 .. TickMod - 1 /\ G_APP_TICKS \in 0 .. TickMod - 1
  BY <1>1 DEF GroundInit
<1>7. QED
  BY <1>2, <1>3, <1>4, <1>5, <1>6 DEF GroundInit, GroundTypeOK

LEMMA NextTypes == GroundTypeOK /\ [GroundNext]_groundVars => GroundTypeOK'
<1> SUFFICES ASSUME GroundTypeOK, [GroundNext]_groundVars PROVE GroundTypeOK'
  OBVIOUS
<1> USE DEF GroundTypeOK, commandVars, overrideVars, controlVars
<1>1. ASSUME NEW c \in Command, UplinkCommand(c) PROVE GroundTypeOK'
  BY <1>1, CommandFields DEF UplinkCommand
<1>2. CASE UplinkAck
  <2>1. cmd.kind = "ARM" => cmd.arm \in BOOLEAN
    BY CommandFields DEF NoCommand
  <2>2. cmd.kind = "MODE" => cmd.mode \in Mode
    BY CommandFields DEF NoCommand
  <2>3. told' \in [armed : BOOLEAN, mode : Mode]
    BY <1>2, <2>1, <2>2 DEF UplinkAck
  <2>4. QED
    BY <1>2, <2>3 DEF UplinkAck
<1>3. CASE UplinkOverride
  BY <1>3 DEF UplinkOverride
<1>4. ASSUME NEW ch \in Channel, UplinkChannel(ch) PROVE GroundTypeOK'
  <2>1. 0 \in Age
    BY GroundAssumption DEF Age
  <2>2. QED
    BY <1>4, <2>1 DEF UplinkChannel
<1>5. CASE UplinkValid
  BY <1>5 DEF UplinkValid
<1>6. CASE UplinkStamp
  BY <1>6 DEF UplinkStamp
<1>7. CASE UplinkTurn
  BY <1>7, NextTick, OlderIsAge DEF UplinkTurn
<1>8. ASSUME NEW switch \in BOOLEAN, NEW z \in Alt, NEW throttle \in Stick,
             ControlStep(switch, z, throttle)
      PROVE  GroundTypeOK'
  <2>1. Target(throttle) \in Int
    BY GroundAssumption DEF Target, Alt
  <2>2. sticks' \in [Channel -> Age \cup {Never, Receiver}]
    <3>1. G_RC_OVERRIDE \in [Channel -> Age \cup {Never, Receiver}]
      OBVIOUS
    <3>2. [ch \in Channel |-> Receiver] \in [Channel -> Age \cup {Never, Receiver}]
      OBVIOUS
    <3>3. QED
      BY <1>8, <3>1, <3>2 DEF ControlStep
  <2>3. hold_alt' \in Alt
    BY <1>8 DEF ControlStep
  <2>4. (switch \/ G_CMD_ARMED) \in BOOLEAN
    OBVIOUS
  <2>5. alt_locked' \in BOOLEAN /\ armed' \in BOOLEAN
    BY <1>8, <2>4 DEF ControlStep
  <2>6. QED
    BY <1>8, <2>1, <2>2, <2>3, <2>5 DEF ControlStep
<1>9. CASE UNCHANGED groundVars
  BY <1>9 DEF groundVars
<1>10. QED
  BY <1>1, <1>2, <1>3, <1>4, <1>5, <1>6, <1>7, <1>8, <1>9
     DEF GroundNext, CommandsReceive, UplinkStep, ControlCycle

\* The state of commands, override and hold altitude keeps its types: the
\* tick counter and the time stamp stay within their width (uplink.rs 864).
THEOREM GroundTypeCorrect == GroundSpec => []GroundTypeOK
BY InitTypes, NextTypes, PTL DEF GroundSpec

-----------------------------------------------------------------------------
(* The override *)

\* How old the time stamp says the override is.
Elapsed == WrappingSub(G_APP_TICKS, G_RC_OVERRIDE_TICK)

\* The time stamp tells the age of every channel that is not of the message
\* being stored, or has come round since: this is what makes it harmless to
\* store the channels before the stamp.
StampTellsAge ==
  /\ upc = "stamp" => \A ch \in Channel : G_RC_OVERRIDE[ch] = 0
  /\ \A ch \in stored : G_RC_OVERRIDE[ch] = 0
  /\ G_RC_OVERRIDE_VALID /\ upc # "stamp" =>
       \A ch \in Channel \ stored : G_RC_OVERRIDE[ch] \in {Elapsed, TickMod}
  /\ upc # "channels" => stored = {}

OverrideInv == GroundTypeOK /\ StampTellsAge /\ RecentOverride

\* One turn more is one tick more, modulo the width.
LEMMA ElapsedNext ==
  ASSUME NEW m \in 0 .. TickMod - 1, NEW n \in 0 .. TickMod - 1
  PROVE  WrappingSub(WrappingNext(m), n) =
           IF WrappingSub(m, n) = TickMod - 1 THEN 0 ELSE WrappingSub(m, n) + 1
BY GroundAssumption DEF WrappingNext, WrappingSub

LEMMA SameElapsed ==
  ASSUME NEW n \in 0 .. TickMod - 1
  PROVE  WrappingSub(n, n) = 0
BY GroundAssumption DEF WrappingSub

\* A turn ages the channels as it ages the time stamp.
LEMMA TurnKeepsStamp ==
  ASSUME GroundTypeOK, StampTellsAge, UplinkTurn
  PROVE  StampTellsAge'
<1>1. Elapsed \in 0 .. TickMod - 1
  BY SubTicks DEF Elapsed, GroundTypeOK
<1>2. Elapsed' = IF Elapsed = TickMod - 1 THEN 0 ELSE Elapsed + 1
  BY ElapsedNext DEF Elapsed, GroundTypeOK, UplinkTurn
<1>3. stored = {} /\ stored' = {} /\ upc' = "poll"
  BY DEF UplinkTurn, StampTellsAge
<1>4. ASSUME G_RC_OVERRIDE_VALID, NEW ch \in Channel
      PROVE  G_RC_OVERRIDE'[ch] \in {Elapsed', TickMod}
  <2>1. G_RC_OVERRIDE[ch] \in {Elapsed, TickMod}
    BY <1>3, <1>4 DEF StampTellsAge, UplinkTurn
  <2>2. G_RC_OVERRIDE'[ch] = Older(G_RC_OVERRIDE[ch])
    BY DEF UplinkTurn
  <2>3. CASE G_RC_OVERRIDE[ch] = Elapsed
    BY <1>1, <1>2, <2>2, <2>3, GroundAssumption DEF Older
  <2>4. CASE G_RC_OVERRIDE[ch] = TickMod
    BY <2>2, <2>4, GroundAssumption DEF Older
  <2>5. QED
    BY <2>1, <2>3, <2>4
<1>5. G_RC_OVERRIDE_VALID' = G_RC_OVERRIDE_VALID
  BY DEF UplinkTurn
<1>6. QED
  BY <1>3, <1>4, <1>5 DEF StampTellsAge

\* What control takes over the stamp allows.
LEMMA StepTakesRecent ==
  ASSUME GroundTypeOK, StampTellsAge, OverrideValid, NEW ch \in Channel
  PROVE  G_RC_OVERRIDE[ch] \in 0 .. FreshTicks - 1 \/ G_RC_OVERRIDE[ch] = TickMod
<1>1. 0 \in 0 .. FreshTicks - 1
  BY GroundAssumption
<1>2. Elapsed \in 0 .. FreshTicks - 1
  <2>1. Elapsed \in 0 .. TickMod - 1
    BY SubTicks DEF Elapsed, GroundTypeOK
  <2>2. Elapsed < FreshTicks
    BY DEF OverrideValid, Elapsed
  <2>3. QED
    BY <2>1, <2>2, GroundAssumption
<1>3. CASE upc = "stamp" \/ ch \in stored
  BY <1>1, <1>3 DEF StampTellsAge
<1>4. CASE upc # "stamp" /\ ch \notin stored
  BY <1>2, <1>4 DEF StampTellsAge, OverrideValid
<1>5. QED
  BY <1>3, <1>4

LEMMA InitOverride == GroundInit => OverrideInv
<1> SUFFICES ASSUME GroundInit PROVE OverrideInv
  OBVIOUS
<1>1. StampTellsAge
  BY DEF GroundInit, StampTellsAge
<1>2. RecentOverride
  BY DEF GroundInit, RecentOverride
<1>3. QED
  BY <1>1, <1>2, InitTypes DEF OverrideInv

LEMMA NextOverride == OverrideInv /\ [GroundNext]_groundVars => OverrideInv'
<1> SUFFICES ASSUME OverrideInv, [GroundNext]_groundVars PROVE OverrideInv'
  OBVIOUS
<1>1. GroundTypeOK /\ StampTellsAge /\ RecentOverride
  BY DEF OverrideInv
<1>2. GroundTypeOK'
  BY <1>1, NextTypes
<1> SUFFICES StampTellsAge' /\ RecentOverride'
  BY <1>2 DEF OverrideInv
<1>3. ASSUME UNCHANGED <<G_RC_OVERRIDE, G_RC_OVERRIDE_VALID, G_RC_OVERRIDE_TICK,
                         G_APP_TICKS, stored>>,
             upc \notin {"channels", "stamp"}, upc' \notin {"channels", "stamp"}
      PROVE  StampTellsAge'
  BY <1>1, <1>3 DEF StampTellsAge, Elapsed
<1>4. ASSUME UNCHANGED sticks PROVE RecentOverride'
  BY <1>1, <1>4 DEF RecentOverride
<1>5. ASSUME NEW c \in Command, UplinkCommand(c)
      PROVE  StampTellsAge' /\ RecentOverride'
  BY <1>3, <1>4, <1>5 DEF UplinkCommand, overrideVars, controlVars
<1>6. CASE UplinkAck
  BY <1>3, <1>4, <1>6 DEF UplinkAck, overrideVars, controlVars
<1>7. CASE UplinkOverride
  <2>1. StampTellsAge'
    BY <1>1, <1>7 DEF UplinkOverride, StampTellsAge, Elapsed
  <2>2. QED
    BY <2>1, <1>4, <1>7 DEF UplinkOverride, controlVars
<1>8. ASSUME NEW ch \in Channel, UplinkChannel(ch)
      PROVE  StampTellsAge' /\ RecentOverride'
  <2>1. \A d \in Channel : G_RC_OVERRIDE'[d] = IF d = ch THEN 0 ELSE G_RC_OVERRIDE[d]
    BY <1>1, <1>8 DEF UplinkChannel, GroundTypeOK
  <2>2. Elapsed' = Elapsed /\ stored' = stored \cup {ch} /\ upc' = "channels"
    BY <1>8 DEF UplinkChannel, Elapsed
  <2>3. stored \subseteq Channel
    BY <1>1 DEF GroundTypeOK
  <2>4. G_RC_OVERRIDE_VALID' = G_RC_OVERRIDE_VALID /\ upc = "channels"
    BY <1>8 DEF UplinkChannel
  <2>5. StampTellsAge'
    BY <1>1, <2>1, <2>2, <2>3, <2>4 DEF StampTellsAge
  <2>6. QED
    BY <1>4, <1>8, <2>5 DEF UplinkChannel, controlVars
<1>9. CASE UplinkValid
  <2>1. StampTellsAge'
    BY <1>1, <1>9 DEF UplinkValid, StampTellsAge
  <2>2. QED
    BY <1>4, <1>9, <2>1 DEF UplinkValid, controlVars
<1>10. CASE UplinkStamp
  <2>1. Elapsed' = 0
    BY <1>1, <1>10, SameElapsed DEF UplinkStamp, Elapsed, GroundTypeOK
  <2>2. StampTellsAge'
    BY <1>1, <1>10, <2>1 DEF UplinkStamp, StampTellsAge
  <2>3. QED
    BY <1>4, <1>10, <2>2 DEF UplinkStamp, controlVars
<1>11. CASE UplinkTurn
  BY <1>1, <1>4, <1>11, TurnKeepsStamp DEF UplinkTurn, controlVars
<1>12. ASSUME NEW switch \in BOOLEAN, NEW z \in Alt, NEW throttle \in Stick,
              ControlStep(switch, z, throttle)
       PROVE  StampTellsAge' /\ RecentOverride'
  <2>1. StampTellsAge'
    BY <1>1, <1>12 DEF ControlStep, StampTellsAge, Elapsed, overrideVars
  <2>2. CASE OverrideValid
    <3>1. sticks' = G_RC_OVERRIDE
      BY <1>12, <2>2 DEF ControlStep
    <3>2. QED
      BY <1>1, <2>1, <2>2, <3>1, StepTakesRecent DEF RecentOverride
  <2>3. CASE ~OverrideValid
    <3>1. sticks' = [ch \in Channel |-> Receiver]
      BY <1>12, <2>3 DEF ControlStep
    <3>2. QED
      BY <2>1, <3>1 DEF RecentOverride
  <2>4. QED
    BY <2>2, <2>3
<1>13. CASE UNCHANGED groundVars
  <2>1. StampTellsAge'
    BY <1>1, <1>13 DEF groundVars, overrideVars, StampTellsAge, Elapsed
  <2>2. QED
    BY <1>4, <1>13, <2>1 DEF groundVars, controlVars
<1>14. QED
  BY <1>5, <1>6, <1>7, <1>8, <1>9, <1>10, <1>11, <1>12, <1>13
     DEF GroundNext, CommandsReceive, UplinkStep, ControlCycle

\* Control flies on override channels of messages in force only, the wrapping
\* of the counter apart, although it may preempt uplink in the middle of
\* storing a message and nothing is locked (uplink.rs 504-513, 770-776).
THEOREM OverrideIsRecent == GroundSpec => []RecentOverride
<1>1. OverrideInv => RecentOverride
  BY DEF OverrideInv
<1>2. QED
  BY InitOverride, NextOverride, <1>1, PTL DEF GroundSpec

-----------------------------------------------------------------------------
(* Commands *)

\* A command that uplink handles is stored before it is acknowledged.
PendingInForce ==
  /\ upc # "ack" => cmd = NoCommand
  /\ cmd.kind = "ARM" => cmd.arm = G_CMD_ARMED
  /\ cmd.kind = "MODE" => cmd.mode = G_CMD_MODE

CommandInv == GroundTypeOK /\ PendingInForce /\ OnlyPendingUnacknowledged

LEMMA CommandIsRecord ==
  ASSUME NEW c \in Command
  PROVE  /\ c.kind = "ARM" => c = [kind |-> "ARM", arm |-> c.arm]
         /\ c.kind = "MODE" => c = [kind |-> "MODE", mode |-> c.mode]
BY DEF Command

LEMMA InitCommand == GroundInit => CommandInv
<1> SUFFICES ASSUME GroundInit PROVE CommandInv
  OBVIOUS
<1>1. cmd.kind = "none" /\ told.armed = G_CMD_ARMED /\ told.mode = G_CMD_MODE
  BY DEF GroundInit, NoCommand
<1>2. PendingInForce
  BY <1>1 DEF GroundInit, PendingInForce
<1>3. OnlyPendingUnacknowledged
  BY <1>1 DEF OnlyPendingUnacknowledged
<1>4. QED
  BY <1>2, <1>3, InitTypes DEF CommandInv

LEMMA NextCommand == CommandInv /\ [GroundNext]_groundVars => CommandInv'
<1> SUFFICES ASSUME CommandInv, [GroundNext]_groundVars PROVE CommandInv'
  OBVIOUS
<1>1. GroundTypeOK /\ PendingInForce /\ OnlyPendingUnacknowledged
  BY DEF CommandInv
<1>2. GroundTypeOK'
  BY <1>1, NextTypes
<1> SUFFICES PendingInForce' /\ OnlyPendingUnacknowledged'
  BY <1>2 DEF CommandInv
<1>3. ASSUME UNCHANGED commandVars, upc # "ack", upc' # "ack"
      PROVE  PendingInForce' /\ OnlyPendingUnacknowledged'
  BY <1>1, <1>3 DEF commandVars, PendingInForce, OnlyPendingUnacknowledged
<1>4. ASSUME UNCHANGED commandVars, upc' = upc
      PROVE  PendingInForce' /\ OnlyPendingUnacknowledged'
  BY <1>1, <1>4 DEF commandVars, PendingInForce, OnlyPendingUnacknowledged
<1>5. ASSUME NEW c \in Command, UplinkCommand(c)
      PROVE  PendingInForce' /\ OnlyPendingUnacknowledged'
  <2>1. told.armed = G_CMD_ARMED /\ told.mode = G_CMD_MODE
    BY <1>1, <1>5
       DEF UplinkCommand, PendingInForce, OnlyPendingUnacknowledged, NoCommand
  <2>2. PendingInForce'
    BY <1>5 DEF UplinkCommand, PendingInForce
  <2>3. OnlyPendingUnacknowledged'
    BY <1>5, <2>1, CommandIsRecord DEF UplinkCommand, OnlyPendingUnacknowledged
  <2>4. QED
    BY <2>2, <2>3
<1>6. CASE UplinkAck
  <2>1. told'.armed = G_CMD_ARMED
    BY <1>1, <1>6 DEF UplinkAck, PendingInForce, OnlyPendingUnacknowledged
  <2>2. told'.mode = G_CMD_MODE
    BY <1>1, <1>6 DEF UplinkAck, PendingInForce, OnlyPendingUnacknowledged
  <2>3. QED
    BY <1>6, <2>1, <2>2
       DEF UplinkAck, PendingInForce, OnlyPendingUnacknowledged, NoCommand
<1>7. CASE UplinkOverride
  BY <1>3, <1>7 DEF UplinkOverride
<1>8. ASSUME NEW ch \in Channel, UplinkChannel(ch)
      PROVE  PendingInForce' /\ OnlyPendingUnacknowledged'
  BY <1>4, <1>8 DEF UplinkChannel
<1>9. CASE UplinkValid
  BY <1>3, <1>9 DEF UplinkValid
<1>10. CASE UplinkStamp
  BY <1>3, <1>10 DEF UplinkStamp
<1>11. CASE UplinkTurn
  BY <1>4, <1>11 DEF UplinkTurn
<1>12. ASSUME NEW switch \in BOOLEAN, NEW z \in Alt, NEW throttle \in Stick,
              ControlStep(switch, z, throttle)
       PROVE  PendingInForce' /\ OnlyPendingUnacknowledged'
  BY <1>4, <1>12 DEF ControlStep
<1>13. CASE UNCHANGED groundVars
  BY <1>4, <1>13 DEF groundVars
<1>14. QED
  BY <1>5, <1>6, <1>7, <1>8, <1>9, <1>10, <1>11, <1>12, <1>13
     DEF GroundNext, CommandsReceive, UplinkStep, ControlCycle

\* No acknowledgement of a command runs ahead of its effect: at every moment
\* control sees what the ground station was told, or the one command that is
\* about to be acknowledged (uplink.rs 577-629).
THEOREM AcksInForce == GroundSpec => []OnlyPendingUnacknowledged
<1>1. CommandInv => OnlyPendingUnacknowledged
  BY DEF CommandInv
<1>2. QED
  BY InitCommand, NextCommand, <1>1, PTL DEF GroundSpec

-----------------------------------------------------------------------------
(* The altitude to hold *)

\* The flag of control is the armed flag that it published last.
LockFollowsArmed == alt_locked = armed

LEMMA NextLock == LockFollowsArmed /\ [GroundNext]_groundVars => LockFollowsArmed'
<1> SUFFICES ASSUME LockFollowsArmed, [GroundNext]_groundVars PROVE LockFollowsArmed'
  OBVIOUS
<1>1. ASSUME NEW switch \in BOOLEAN, NEW z \in Alt, NEW throttle \in Stick,
             ControlStep(switch, z, throttle)
      PROVE  LockFollowsArmed'
  BY <1>1 DEF ControlStep, LockFollowsArmed
<1>2. CASE UNCHANGED controlVars
  BY <1>2 DEF controlVars, LockFollowsArmed
<1>3. QED
  BY <1>1, <1>2 DEF GroundNext, CommandsReceive, UplinkStep, ControlCycle, groundVars,
     UplinkCommand, UplinkAck, UplinkOverride, UplinkChannel, UplinkValid,
     UplinkStamp, UplinkTurn

\* Control takes the altitude to hold from the estimate of the cycle that sees
\* the vehicle become armed, and keeps it as long as it stays armed
\* (control.rs 216-222).
THEOREM HoldAtArming == GroundSpec => HoldMovesOnlyAtArming
<1>1. GroundInit => LockFollowsArmed
  BY DEF GroundInit, LockFollowsArmed
<1>2. LockFollowsArmed /\ [GroundNext]_groundVars =>
        [/\ ~armed /\ armed' => hold_alt' = last_est'
         /\ armed /\ armed' => hold_alt' = hold_alt]_groundVars
  <2> SUFFICES ASSUME LockFollowsArmed, GroundNext
               PROVE  /\ ~armed /\ armed' => hold_alt' = last_est'
                      /\ armed /\ armed' => hold_alt' = hold_alt
    OBVIOUS
  <2>1. ASSUME NEW switch \in BOOLEAN, NEW z \in Alt, NEW throttle \in Stick,
               ControlStep(switch, z, throttle)
        PROVE  /\ ~armed /\ armed' => hold_alt' = last_est'
               /\ armed /\ armed' => hold_alt' = hold_alt
    BY <2>1 DEF ControlStep, LockFollowsArmed
  <2>2. CASE UNCHANGED controlVars
    BY <2>2 DEF controlVars
  <2>3. QED
    BY <2>1, <2>2 DEF GroundNext, CommandsReceive, UplinkStep, ControlCycle,
       UplinkCommand, UplinkAck, UplinkOverride, UplinkChannel, UplinkValid,
       UplinkStamp, UplinkTurn
<1>3. QED
  BY <1>1, <1>2, NextLock, PTL DEF GroundSpec, HoldMovesOnlyAtArming
=============================================================================
