--------------------------- MODULE GroundCommands ---------------------------
(***************************************************************************)
(* What the ground station tells the uplink task and control then flies    *)
(* on: arm and mode commands (COMMAND_LONG), the RC channel override with  *)
(* its age counted in turns of the uplink loop, and the altitude that      *)
(* control holds.  Build without the feature "hil".  Control preempts      *)
(* uplink between any two of its statements; nothing is locked.  One       *)
(* cycle of control is one step: its wait for EST_MTX before it publishes  *)
(* is the matter of FlightTasks.                                           *)
(***************************************************************************)
EXTENDS Integers

CONSTANTS Channel,     \* channels of an override (eight in the code)
          Mode,        \* the ArduCopter modes that are commanded
          FreshTicks,  \* an override is in force for so many turns (200)
          TickMod,     \* where G_APP_TICKS wraps (2^32)
          Height,      \* estimates go from the ground, 0, up to -Height
          Stick        \* the throttle stick, in steps of LAND upwards

ASSUME GroundAssumption ==
  /\ Channel # {}
  /\ {"STABILIZE", "LAND"} \subseteq Mode
  /\ FreshTicks \in Nat \ {0}
  /\ TickMod \in Nat
  /\ FreshTicks < TickMod
  /\ Height \in Nat
  /\ Stick \subseteq Int

VARIABLES
  upc,                  \* where uplink stands
  cmd,                  \* the command it handles
  stored,               \* the channels of the message at hand stored so far
  told,                 \* what the last acknowledgements said is in force
  G_CMD_ARMED, G_CMD_MODE,
  G_RC_OVERRIDE,        \* for each channel the age of the message it is from
  G_RC_OVERRIDE_VALID, G_RC_OVERRIDE_TICK, G_APP_TICKS,
  alt_locked, hold_alt, \* control: the altitude to hold, and whether it is set
  last_est,             \* control: altitude of the last estimate
  target_alt,           \* control: altitude of the last set point
  sticks,               \* control: the sticks of the last cycle, as ages
  armed                 \* EST_STATE.armed

commandVars  == <<cmd, told, G_CMD_ARMED, G_CMD_MODE>>
overrideVars == <<stored, G_RC_OVERRIDE, G_RC_OVERRIDE_VALID, G_RC_OVERRIDE_TICK>>
controlVars  == <<alt_locked, hold_alt, last_est, target_alt, sticks, armed>>
groundVars == <<upc, commandVars, overrideVars, G_APP_TICKS, controlVars>>

-----------------------------------------------------------------------------
(* Data *)

\* COMMAND_LONG.  TAKEOFF, LAND and RETURN_TO_LAUNCH store a mode as
\* DO_SET_MODE does; OTHER is what is answered with UNSUPPORTED.
Command == [kind : {"ARM"}, arm : BOOLEAN] \cup [kind : {"MODE"}, mode : Mode]
             \cup [kind : {"OTHER"}]
NoCommand == [kind |-> "none"]

\* Altitudes point down: 0 is the ground, -1 is one step of LAND above it.
Alt == -Height .. 0

\* Ages count turns of the uplink loop; TickMod stands for so many or more.
Age      == 0 .. TickMod
Never    == -1     \* the channel is still as .rust_bss leaves it
Receiver == -2     \* the stick is the RC receiver's

Older(age) == IF age \in 0 .. TickMod - 1 THEN age + 1 ELSE age

\* u32::wrapping_add(1) and u32::wrapping_sub, with TickMod for 2^32.
WrappingNext(n)   == IF n = TickMod - 1 THEN 0 ELSE n + 1
WrappingSub(m, n) == IF n =< m THEN m - n ELSE m - n + TickMod

\* get_rc_override: the second component of what it returns.
OverrideValid ==
  /\ G_RC_OVERRIDE_VALID
  /\ WrappingSub(G_APP_TICKS, G_RC_OVERRIDE_TICK) < FreshTicks

-----------------------------------------------------------------------------
(* uplink: one turn of the loop handles the frames read, then counts *)

\* Fault: a mode is acknowledged and not stored.
UplinkCommandForgetsMode(c) ==
  /\ upc = "poll"
  /\ upc' = "ack"
  /\ cmd' = c
  /\ G_CMD_ARMED' = IF c.kind = "ARM" THEN c.arm ELSE G_CMD_ARMED
  /\ UNCHANGED <<told, G_CMD_MODE, overrideVars, G_APP_TICKS, controlVars>>

\* The command is stored whatever the health of the vehicle.
UplinkCommand(c) ==
  /\ upc = "poll"
  /\ upc' = "ack"
  /\ cmd' = c
  /\ G_CMD_ARMED' = IF c.kind = "ARM" THEN c.arm ELSE G_CMD_ARMED
  /\ G_CMD_MODE' = IF c.kind = "MODE" THEN c.mode ELSE G_CMD_MODE
  /\ UNCHANGED <<told, overrideVars, G_APP_TICKS, controlVars>>

UplinkAck ==
  /\ upc = "ack"
  /\ upc' = "poll"
  /\ cmd' = NoCommand
  /\ told' = [armed |-> IF cmd.kind = "ARM" THEN cmd.arm ELSE told.armed,
              mode  |-> IF cmd.kind = "MODE" THEN cmd.mode ELSE told.mode]
  /\ UNCHANGED <<G_CMD_ARMED, G_CMD_MODE, overrideVars, G_APP_TICKS, controlVars>>

\* Fault: the override gets its time stamp before its channels.
UplinkOverrideStampsFirst ==
  /\ upc = "poll"
  /\ upc' = "channels"
  /\ stored' = {}
  /\ G_RC_OVERRIDE_TICK' = G_APP_TICKS
  /\ UNCHANGED <<commandVars, G_RC_OVERRIDE, G_RC_OVERRIDE_VALID, G_APP_TICKS,
                 controlVars>>

UplinkOverride ==
  /\ upc = "poll"
  /\ upc' = "channels"
  /\ stored' = {}
  /\ UNCHANGED <<commandVars, G_RC_OVERRIDE, G_RC_OVERRIDE_VALID,
                 G_RC_OVERRIDE_TICK, G_APP_TICKS, controlVars>>

\* The array is copied channel by channel, in an order the compiler chooses.
UplinkChannel(ch) ==
  /\ upc = "channels"
  /\ ch \notin stored
  /\ stored' = stored \cup {ch}
  /\ G_RC_OVERRIDE' = [G_RC_OVERRIDE EXCEPT ![ch] = 0]
  /\ UNCHANGED <<upc, commandVars, G_RC_OVERRIDE_VALID, G_RC_OVERRIDE_TICK,
                 G_APP_TICKS, controlVars>>

UplinkValid ==
  /\ upc = "channels"
  /\ stored = Channel
  /\ upc' = "stamp"
  /\ stored' = {}
  /\ G_RC_OVERRIDE_VALID' = TRUE
  /\ UNCHANGED <<commandVars, G_RC_OVERRIDE, G_RC_OVERRIDE_TICK, G_APP_TICKS,
                 controlVars>>

UplinkStamp ==
  /\ upc = "stamp"
  /\ upc' = "poll"
  /\ G_RC_OVERRIDE_TICK' = G_APP_TICKS
  /\ UNCHANGED <<commandVars, stored, G_RC_OVERRIDE, G_RC_OVERRIDE_VALID,
                 G_APP_TICKS, controlVars>>

\* Faults: the counter runs past its width; it stands still.
UplinkTurnUnwrapped ==
  /\ upc = "poll"
  /\ G_APP_TICKS' = G_APP_TICKS + 1
  /\ G_RC_OVERRIDE' = [ch \in Channel |-> Older(G_RC_OVERRIDE[ch])]
  /\ UNCHANGED <<upc, commandVars, stored, G_RC_OVERRIDE_VALID,
                 G_RC_OVERRIDE_TICK, controlVars>>

UplinkTurnUncounted ==
  /\ upc = "poll"
  /\ G_RC_OVERRIDE' = [ch \in Channel |-> Older(G_RC_OVERRIDE[ch])]
  /\ UNCHANGED <<upc, commandVars, stored, G_RC_OVERRIDE_VALID,
                 G_RC_OVERRIDE_TICK, G_APP_TICKS, controlVars>>

\* The bytes read are used up: the turn is counted, then msleep(1).
UplinkTurn ==
  /\ upc = "poll"
  /\ G_APP_TICKS' = WrappingNext(G_APP_TICKS)
  /\ G_RC_OVERRIDE' = [ch \in Channel |-> Older(G_RC_OVERRIDE[ch])]
  /\ UNCHANGED <<upc, commandVars, stored, G_RC_OVERRIDE_VALID,
                 G_RC_OVERRIDE_TICK, controlVars>>

UplinkStep ==
  \/ UplinkAck \/ UplinkValid \/ UplinkStamp \/ UplinkTurn
  \/ \E ch \in Channel : UplinkChannel(ch)

CommandsReceive == UplinkOverride \/ \E c \in Command : UplinkCommand(c)

-----------------------------------------------------------------------------
(* control *)

\* The altitude it aims at, from what it knew before this cycle.
Target(throttle) ==
  IF G_CMD_MODE = "LAND"
  THEN IF last_est - 1 > 0 THEN last_est - 1 ELSE 0
  ELSE hold_alt - throttle

\* Fault: the hold altitude is not released by a disarm.
ControlStepKeepsHold(switch, z, throttle) ==
  LET armed_eff == switch \/ G_CMD_ARMED IN
  /\ sticks' = IF OverrideValid THEN G_RC_OVERRIDE
                                ELSE [ch \in Channel |-> Receiver]
  /\ target_alt' = Target(throttle)
  /\ last_est' = z
  /\ armed' = armed_eff
  /\ hold_alt' = IF armed_eff /\ ~alt_locked THEN z ELSE hold_alt
  /\ alt_locked' = (armed_eff \/ alt_locked)
  /\ UNCHANGED <<upc, commandVars, overrideVars, G_APP_TICKS>>

\* One cycle, with the arm switch of the frame, the estimate that step_hil
\* returns and the throttle of whichever source it takes the sticks from.
ControlStep(switch, z, throttle) ==
  LET armed_eff == switch \/ G_CMD_ARMED IN
  /\ sticks' = IF OverrideValid THEN G_RC_OVERRIDE
                                ELSE [ch \in Channel |-> Receiver]
  /\ target_alt' = Target(throttle)
  /\ last_est' = z
  /\ armed' = armed_eff
  /\ hold_alt' = IF armed_eff /\ ~alt_locked THEN z ELSE hold_alt
  /\ alt_locked' = armed_eff
  /\ UNCHANGED <<upc, commandVars, overrideVars, G_APP_TICKS>>

ControlCycle ==
  \E switch \in BOOLEAN, z \in Alt, throttle \in Stick :
    ControlStep(switch, z, throttle)

-----------------------------------------------------------------------------

GroundInit ==
  /\ upc = "poll"
  /\ cmd = NoCommand
  /\ stored = {}
  /\ told = [armed |-> FALSE, mode |-> "STABILIZE"]
  /\ G_CMD_ARMED = FALSE
  /\ G_CMD_MODE = "STABILIZE"
  /\ G_RC_OVERRIDE = [ch \in Channel |-> Never]
  /\ G_RC_OVERRIDE_VALID = FALSE
  /\ G_RC_OVERRIDE_TICK = 0
  /\ G_APP_TICKS = 0
  /\ alt_locked = FALSE
  /\ hold_alt = 0
  /\ last_est = 0
  /\ target_alt = 0
  /\ sticks = [ch \in Channel |-> Receiver]
  /\ armed = FALSE

GroundNext == CommandsReceive \/ UplinkStep \/ ControlCycle

GroundSpec == GroundInit /\ [][GroundNext]_groundVars

\* One read returns at most 64 bytes, so every turn comes to its end.
GroundFairSpec == GroundSpec /\ WF_groundVars(UplinkStep) /\ SF_groundVars(UplinkTurn)

-----------------------------------------------------------------------------
(* Properties *)

\* Every variable keeps its type; in particular the tick counter and the
\* time stamp stay within the width of the machine integer.
GroundTypeOK ==
  /\ upc \in {"poll", "ack", "channels", "stamp"}
  /\ cmd \in Command \cup {NoCommand}
  /\ stored \subseteq Channel
  /\ told \in [armed : BOOLEAN, mode : Mode]
  /\ G_CMD_ARMED \in BOOLEAN
  /\ G_CMD_MODE \in Mode
  /\ G_RC_OVERRIDE \in [Channel -> Age \cup {Never}]
  /\ G_RC_OVERRIDE_VALID \in BOOLEAN
  /\ G_RC_OVERRIDE_TICK \in 0 .. TickMod - 1
  /\ G_APP_TICKS \in 0 .. TickMod - 1
  /\ alt_locked \in BOOLEAN
  /\ hold_alt \in Alt
  /\ last_est \in Alt
  /\ target_alt \in Int
  /\ sticks \in [Channel -> Age \cup {Never, Receiver}]
  /\ armed \in BOOLEAN

\* Control never flies on override channels that nobody sent, and although
\* it may catch uplink between two channels, every channel it takes is of a
\* message that is still in force, or of one so old that G_APP_TICKS has
\* come round (the valid flag is never taken back).
RecentOverride ==
  \A ch \in Channel :
    sticks[ch] # Receiver =>
      sticks[ch] \in 0 .. FreshTicks - 1 \/ sticks[ch] = TickMod

\* Whenever control may look, the commands it sees are those that the ground
\* station was told are in force, except for the one uplink is about to
\* acknowledge: no acknowledgement runs ahead of its effect.
OnlyPendingUnacknowledged ==
  /\ told.armed # G_CMD_ARMED => cmd = [kind |-> "ARM", arm |-> G_CMD_ARMED]
  /\ told.mode # G_CMD_MODE => cmd = [kind |-> "MODE", mode |-> G_CMD_MODE]

\* The altitude that control holds is taken over in the cycle in which the
\* vehicle becomes armed, from that cycle's estimate, and then stays what it
\* is until a cycle has seen the vehicle disarmed.
HoldMovesOnlyAtArming ==
  [][/\ ~armed /\ armed' => hold_alt' = last_est'
     /\ armed /\ armed' => hold_alt' = hold_alt]_groundVars

\* When override messages cease, the override does not stay in force: uplink
\* keeps counting turns also when nothing arrives.
OverrideEnds == <>[][~UplinkOverride]_groundVars => []<>~OverrideValid

\* control.rs says of LAND that it lowers the target by one step (0.02 m) a
\* cycle from the present altitude, with z pointing down and 0 the ground.
LandDescendsGradually ==
  [][G_CMD_MODE = "LAND" /\ target_alt' # target_alt =>
       target_alt' =< last_est + 1]_groundVars
=============================================================================
