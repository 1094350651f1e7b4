-------------------------------- MODULE Uplink --------------------------------
(***************************************************************************)
(* The protocols that the uplink task speaks with the ground station: the  *)
(* mission handshake, with anybody who sends any message or with the       *)
(* repository's own tool over a link that loses frames; commands and RC    *)
(* overrides; parameters and fence.  Each message handler (route_frame)    *)
(* touches the state of its own protocol only, so nothing is gained by     *)
(* interleaving them: a behaviour follows one protocol.                    *)
(***************************************************************************)
EXTENDS MissionLink, GroundCommands, GroundTables

VARIABLE protocol  \* the protocol that is followed

uplinkVars == <<protocol, linkVars, groundVars, tablesVars>>

\* The tool and its link, which do nothing while anybody else speaks.
toolVars == <<hostVars, toBoard, toHost, mine, faults>>

UplinkInit ==
  /\ protocol \in {"any mission", "mission tool", "commands", "tables"}
  /\ LinkInit
  /\ GroundInit
  /\ TablesInit
  \* Where there is no tool one plan of its first upload is as good as another.
  /\ protocol # "mission tool" => plan = CHOOSE p \in Plans : TRUE

UplinkNext ==
  /\ UNCHANGED protocol
  /\ \/ /\ protocol = "any mission"
        /\ MissionNext
        /\ UNCHANGED <<toolVars, groundVars, tablesVars>>
     \/ /\ protocol = "mission tool"
        /\ LinkNext
        /\ UNCHANGED <<groundVars, tablesVars>>
     \/ /\ protocol = "commands"
        /\ GroundNext
        /\ UNCHANGED <<linkVars, tablesVars>>
     \/ /\ protocol = "tables"
        /\ TablesNext
        /\ UNCHANGED <<linkVars, groundVars>>

UplinkSpec == UplinkInit /\ [][UplinkNext]_uplinkVars

Following(p, A) == protocol = p /\ A

\* The fairness of each protocol (LinkFairSpec, GroundFairSpec, TablesFairSpec)
\* while it is the one that is followed.
UplinkFairSpec ==
  /\ UplinkSpec
  /\ WF_linkVars(Following("mission tool", BoardHandles))
  /\ WF_linkVars(Following("mission tool", SendItem \/ ReadAck \/ ReadDownload))
  /\ SF_linkVars(Following("mission tool", StartUpload))
  /\ WF_groundVars(Following("commands", UplinkStep))
  /\ SF_groundVars(Following("commands", UplinkTurn))
  /\ WF_tablesVars(Following("tables", UplinkStream))
  /\ WF_tablesVars(Following("tables", UplinkAnswer))
=============================================================================
