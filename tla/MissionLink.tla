---------------------------- MODULE MissionLink ----------------------------
(***************************************************************************)
(* A ground station uploads missions to the board and downloads them, over *)
(* a link that keeps the order of frames but may lose any of them: a full  *)
(* transmit ring drops an answer, the frame parser drops a damaged frame.  *)
(* The ground station is tools/verify_mission.py: it waits a fixed time,   *)
(* much longer than the board's 1 ms poll, reads what has come and sends   *)
(* its next item whether or not that item was asked for.  Nothing in the   *)
(* board's handshake has a timeout.                                        *)
(***************************************************************************)
EXTENDS Mission

CONSTANTS MaxPlan,    \* the longest mission the ground station uploads
          MaxFaults   \* frames lost and uploads broken off, in all

ASSUME LinkAssumption ==
  /\ MaxPlan \in 1 .. MISSION_MAX
  /\ MaxPlan =< MaxSeq
  /\ MaxFaults \in Nat

VARIABLES
  phase,     \* the ground station: "off", "items" or "download"
  plan,      \* the waypoints of its upload
  at,        \* how many of them it has sent
  verdict,   \* the last MISSION_ACK of the upload, or "pending" or "failed"
  toBoard,   \* frames on the way to the board
  toHost,    \* frames the board has sent and the ground station not read
  mine,      \* history: has the board taken this upload's MISSION_COUNT?
  shown,     \* the last download: its items, or "none"
  confirmed, \* history: the last upload the ground station saw accepted
  faults

hostVars == <<phase, plan, at, verdict, shown, confirmed>>
linkVars == <<missionVars, hostVars, toBoard, toHost, mine, faults>>

Plans == UNION {[1 .. n -> Waypoint] : n \in 1 .. MaxPlan}

\* The wait is long enough for the board to have handled what was sent.
BoardDone == toBoard = <<>>

ItemOf(p, i) == [seq |-> i - 1, point |-> p[i]]
MissionOf(p) == [i \in DOMAIN p |-> ItemOf(p, i)]
Frames(s, type) == SelectSeq(s, LAMBDA f : f.type = type)

\* The last MISSION_ACK among the frames read says that all is well.
Accepts(s) ==
  \E i \in 1 .. Len(s) :
    /\ s[i] = Ack(ACCEPTED)
    /\ \A j \in i + 1 .. Len(s) : s[j].type # "MISSION_ACK"

-----------------------------------------------------------------------------
(* The board takes the next frame; its handler runs to the end. *)

BoardHandles ==
  /\ toBoard # <<>>
  /\ LET frame == Head(toBoard) IN
       \/ /\ frame.type = "MISSION_REQUEST_LIST"
          /\ HandleRequestList
          /\ UNCHANGED mine
       \/ /\ frame.type = "MISSION_COUNT"
          /\ HandleCount(frame.count)
          /\ mine' = TRUE
       \/ /\ frame.type = "MISSION_ITEM_INT"
          /\ HandleItem(frame.item)
          /\ UNCHANGED mine
  /\ toBoard' = Tail(toBoard)
  /\ toHost' = toHost \o sent'
  /\ UNCHANGED <<hostVars, faults>>

-----------------------------------------------------------------------------
(* The ground station *)

\* It opens the port, which empties the input buffer, and announces its plan.
StartUpload ==
  /\ phase = "off"
  /\ BoardDone
  /\ phase' = "items"
  /\ plan' \in Plans
  /\ at' = 0
  /\ verdict' = "pending"
  /\ toBoard' = <<Count(Len(plan'))>>
  /\ toHost' = <<>>
  /\ mine' = FALSE
  /\ UNCHANGED <<missionVars, shown, confirmed, faults>>

SendItem ==
  /\ phase = "items"
  /\ BoardDone
  /\ at < Len(plan)
  /\ at' = at + 1
  /\ toBoard' = <<ItemInt(ItemOf(plan, at'))>>
  /\ toHost' = <<>>
  /\ UNCHANGED <<missionVars, phase, plan, verdict, mine, shown, confirmed, faults>>

\* After the last item it judges the upload by the last MISSION_ACK it has got.
ReadAck ==
  /\ phase = "items"
  /\ BoardDone
  /\ at = Len(plan)
  /\ verdict' = IF Accepts(toHost) THEN "accepted" ELSE "failed"
  /\ confirmed' = IF Accepts(toHost) THEN MissionOf(plan) ELSE confirmed
  /\ phase' = "off"
  /\ toHost' = <<>>
  /\ UNCHANGED <<missionVars, plan, at, toBoard, mine, shown, faults>>

StartDownload ==
  /\ phase = "off"
  /\ BoardDone
  /\ phase' = "download"
  /\ toBoard' = <<[type |-> "MISSION_REQUEST_LIST"]>>
  /\ toHost' = <<>>
  /\ UNCHANGED <<missionVars, plan, at, verdict, mine, shown, confirmed, faults>>

\* A download is complete when all the items that were announced have come.
ReadDownload ==
  /\ phase = "download"
  /\ BoardDone
  /\ LET counts == Frames(toHost, "MISSION_COUNT")
         items  == Frames(toHost, "MISSION_ITEM_INT")
     IN shown' = IF counts # <<>> /\ Len(items) = counts[Len(counts)].count
                 THEN <<"items", [i \in 1 .. Len(items) |-> items[i].item]>>
                 ELSE <<"incomplete">>
  /\ phase' = "off"
  /\ toHost' = <<>>
  /\ UNCHANGED <<missionVars, plan, at, verdict, toBoard, mine, confirmed, faults>>

-----------------------------------------------------------------------------
(* Faults, MaxFaults of them *)

LoseFrame ==
  /\ faults < MaxFaults
  /\ faults' = faults + 1
  /\ \/ /\ toBoard # <<>>
        /\ toBoard' = Tail(toBoard)
        /\ UNCHANGED toHost
     \/ /\ \E i \in 1 .. Len(toHost) :
             toHost' = SubSeq(toHost, 1, i - 1) \o SubSeq(toHost, i + 1, Len(toHost))
        /\ UNCHANGED toBoard
  /\ UNCHANGED <<missionVars, hostVars, mine>>

\* The ground station is stopped within an upload; what it has sent still comes.
BreakOff ==
  /\ faults < MaxFaults
  /\ faults' = faults + 1
  /\ phase = "items"
  /\ phase' = "off"
  /\ verdict' = "failed"
  /\ UNCHANGED <<missionVars, plan, at, mine, shown, confirmed, toBoard, toHost>>

-----------------------------------------------------------------------------
LinkInit ==
  /\ MissionInit
  /\ phase = "off"
  /\ plan \in Plans /\ at = 0 /\ verdict = "pending"
  /\ toBoard = <<>> /\ toHost = <<>>
  /\ mine = FALSE
  /\ shown = <<"none">>
  /\ confirmed = <<>>
  /\ faults = 0

HostNext == StartUpload \/ SendItem \/ ReadAck \/ StartDownload \/ ReadDownload

LinkNext == BoardHandles \/ HostNext \/ LoseFrame \/ BreakOff

LinkSpec == LinkInit /\ [][LinkNext]_linkVars

\* uplink polls for ever; the ground station goes on with what it began, and
\* whoever runs it tries an upload again and again.
LinkFairSpec ==
  /\ LinkSpec
  /\ WF_linkVars(BoardHandles)
  /\ WF_linkVars(SendItem \/ ReadAck \/ ReadDownload)
  /\ SF_linkVars(StartUpload)

-----------------------------------------------------------------------------
(* Properties *)

\* An upload that the ground station sees accepted, and whose MISSION_COUNT the
\* board took, is what the board has stored, whatever was lost or broken off
\* before: a lost item never goes unnoticed.
AcceptedIsStored ==
  phase = "off" /\ verdict = "accepted" /\ mine => Stored = MissionOf(plan)

\* Once frames are no longer lost, no earlier upload broken off half-way keeps
\* the board from taking a new one.
UploadsRecover == <>[](verdict # "failed")

\* docs/LINKUP_PLAN.md line 89: after upload_mission, download_mission returns
\* the same waypoints.
DownloadIsUpload ==
  [][ ReadDownload /\ confirmed # <<>> /\ shown'[1] = "items"
      => shown'[2] = confirmed ]_linkVars
=============================================================================
