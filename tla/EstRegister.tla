---------------------------- MODULE EstRegister ----------------------------
(***************************************************************************)
(* What EST_STATE promises its two users: an atomic register.  The control *)
(* task replaces the whole estimate in one step, and a downlink burst of   *)
(* the telemetry task describes one whole value, the latest one at the     *)
(* instant the burst took its snapshot.                                    *)
(***************************************************************************)
CONSTANTS Outcome,   \* the estimates a control step can publish
          Initial,   \* EstState::empty()
          NoView     \* telemetry holds no snapshot

VARIABLES value,     \* the estimate last published
          view       \* the snapshot the current burst is sending, or NoView

rvars == <<value, view>>

RInit == value = Initial /\ view = NoView

\* control publishes: whatever the burst under way has read stays as it is.
Publish == \E v \in Outcome : value' = v /\ UNCHANGED view

\* telemetry takes its snapshot.
Snapshot == view = NoView /\ view' = value /\ UNCHANGED value

\* The burst has been sent.
Sent == view # NoView /\ view' = NoView /\ UNCHANGED value

RNext == Publish \/ Snapshot \/ Sent

RSpec == RInit /\ [][RNext]_rvars
=============================================================================
