------------------------------ MODULE Mission ------------------------------
(***************************************************************************)
(* The waypoint store of the uplink task (src/src/flyctrl/uplink.rs) and   *)
(* the receiving side of the upload handshake: one action per message      *)
(* handler.  Only the uplink task touches this state, so a handler is one  *)
(* step.  Here the messages are arbitrary; MissionLink.tla adds the ground *)
(* station and the lossy link.                                             *)
(***************************************************************************)
EXTENDS Integers, Sequences

CONSTANTS MISSION_MAX,  \* waypoints the board can store (64 in the code)
          Waypoint,     \* what a waypoint says, but for its sequence number
          Unset,        \* the zeroed contents of an unused slot
          MaxSeq        \* bound on the sequence numbers and counts of messages

ASSUME MissionAssumption ==
  /\ MISSION_MAX \in Nat \ {0}
  /\ MaxSeq \in Nat
  /\ Unset \notin Waypoint

VARIABLES
  G_MISSION,            \* the slots
  G_MISSION_COUNT,      \* how many of them a download serves
  G_MISSION_RCV_STATE,
  G_MISSION_RCV_NEXT,   \* the sequence number the upload is waiting for
  G_MISSION_RCV_TOTAL,  \* the count the upload was announced with
  sent,                 \* the frames the last handler sent, in order
  received,             \* history: the items taken since the last MISSION_COUNT
  uploaded              \* history: the items of the last completed upload

store == <<G_MISSION, G_MISSION_COUNT>>
rcv   == <<G_MISSION_RCV_STATE, G_MISSION_RCV_NEXT, G_MISSION_RCV_TOTAL>>
missionVars == <<store, rcv, sent, received, uploaded>>

-----------------------------------------------------------------------------
(* Data *)

RCV_IDLE      == 0
RCV_WAIT_ITEM == 1

Slot == 0 .. MISSION_MAX - 1
Item == [seq : 0 .. MaxSeq, point : Waypoint \cup {Unset}]

\* Results of MISSION_ACK.
ACCEPTED         == 0
NO_SPACE         == 4
INVALID_SEQUENCE == 5

Count(n)   == [type |-> "MISSION_COUNT", count |-> n]
Request(n) == [type |-> "MISSION_REQUEST", seq |-> n]
ItemInt(i) == [type |-> "MISSION_ITEM_INT", item |-> i]
Ack(code)  == [type |-> "MISSION_ACK", result |-> code]

\* What a download serves.
Stored == [i \in 1 .. G_MISSION_COUNT |-> G_MISSION[i - 1]]

-----------------------------------------------------------------------------
(* The handlers *)

\* MISSION_REQUEST_LIST: the count, every stored item, an acknowledgement.
HandleRequestList ==
  /\ sent' = <<Count(G_MISSION_COUNT)>>
             \o [i \in 1 .. G_MISSION_COUNT |-> ItemInt(Stored[i])]
             \o <<Ack(ACCEPTED)>>
  /\ UNCHANGED <<store, rcv, received, uploaded>>

\* Faults: the count is not checked; the upload goes on where the last one stood;
\* the board does not begin an upload before it has completed the last.
HandleCountUnchecked(n) ==
  /\ G_MISSION_RCV_STATE' = RCV_WAIT_ITEM
  /\ G_MISSION_RCV_NEXT' = 0
  /\ G_MISSION_RCV_TOTAL' = n
  /\ sent' = <<Request(0)>>
  /\ received' = <<>>
  /\ UNCHANGED <<store, uploaded>>

HandleCountGoesOn(n) ==
  /\ n =< MISSION_MAX
  /\ G_MISSION_RCV_STATE' = RCV_WAIT_ITEM
  /\ G_MISSION_RCV_TOTAL' = n
  /\ sent' = <<Request(0)>>
  /\ received' = <<>>
  /\ UNCHANGED <<store, G_MISSION_RCV_NEXT, uploaded>>

HandleCountBusy(n) ==
  \/ /\ G_MISSION_RCV_STATE = RCV_WAIT_ITEM
     /\ sent' = <<Ack(NO_SPACE)>>
     /\ UNCHANGED <<store, rcv, received, uploaded>>
  \/ /\ G_MISSION_RCV_STATE = RCV_IDLE
     /\ n =< MISSION_MAX
     /\ HandleCountUnchecked(n)

\* MISSION_COUNT: an upload of n items begins, whatever was going on before.
HandleCount(n) ==
  \/ /\ n > MISSION_MAX
     /\ sent' = <<Ack(NO_SPACE)>>
     /\ UNCHANGED <<store, rcv, received, uploaded>>
  \/ /\ n =< MISSION_MAX
     /\ G_MISSION_RCV_STATE' = RCV_WAIT_ITEM
     /\ G_MISSION_RCV_NEXT' = 0
     /\ G_MISSION_RCV_TOTAL' = n
     /\ sent' = <<Request(0)>>
     /\ received' = <<>>
     /\ UNCHANGED <<store, uploaded>>

\* MISSION_ITEM_INT outside an upload is dropped without an answer.
IgnoreItem ==
  /\ G_MISSION_RCV_STATE # RCV_WAIT_ITEM
  /\ sent' = <<>>
  /\ UNCHANGED <<store, rcv, received, uploaded>>

\* An item out of turn.
RefuseItem(item) ==
  /\ G_MISSION_RCV_STATE = RCV_WAIT_ITEM
  /\ item.seq # G_MISSION_RCV_NEXT
  /\ sent' = <<Ack(INVALID_SEQUENCE)>>
  /\ UNCHANGED <<store, rcv, received, uploaded>>

\* Fault: an item out of turn is stored, too, and the upload goes on behind it.
StoreItemOutOfTurn(item) ==
  LET next2 == item.seq + 1 IN
  /\ G_MISSION_RCV_STATE = RCV_WAIT_ITEM
  /\ item.seq \in Slot
  /\ G_MISSION' = [G_MISSION EXCEPT ![item.seq] = item]
  /\ \/ /\ next2 >= G_MISSION_RCV_TOTAL
        /\ G_MISSION_COUNT' = G_MISSION_RCV_TOTAL
        /\ G_MISSION_RCV_STATE' = RCV_IDLE
        /\ G_MISSION_RCV_NEXT' = 0
        /\ sent' = <<Ack(ACCEPTED)>>
     \/ /\ next2 < G_MISSION_RCV_TOTAL
        /\ G_MISSION_RCV_NEXT' = next2
        /\ sent' = <<Request(next2)>>
        /\ UNCHANGED <<G_MISSION_COUNT, G_MISSION_RCV_STATE>>
  /\ UNCHANGED <<G_MISSION_RCV_TOTAL, received, uploaded>>

\* The item waited for is stored at once, over the mission in use, and either
\* ends the upload or asks for the next item.
StoreItem(item) ==
  LET next2 == G_MISSION_RCV_NEXT + 1
      taken == Append(received, item)
  IN
  /\ G_MISSION_RCV_STATE = RCV_WAIT_ITEM
  /\ item.seq = G_MISSION_RCV_NEXT
  /\ G_MISSION' = [G_MISSION EXCEPT ![item.seq] = item]
  /\ received' = taken
  /\ \/ /\ next2 >= G_MISSION_RCV_TOTAL
        /\ G_MISSION_COUNT' = G_MISSION_RCV_TOTAL
        /\ G_MISSION_RCV_STATE' = RCV_IDLE
        /\ G_MISSION_RCV_NEXT' = 0
        /\ sent' = <<Ack(ACCEPTED)>>
        /\ uploaded' = [i \in 1 .. G_MISSION_RCV_TOTAL |-> taken[i]]
     \/ /\ next2 < G_MISSION_RCV_TOTAL
        /\ G_MISSION_RCV_NEXT' = next2
        /\ sent' = <<Request(next2)>>
        /\ UNCHANGED <<G_MISSION_COUNT, G_MISSION_RCV_STATE, uploaded>>
  /\ UNCHANGED G_MISSION_RCV_TOTAL

HandleItem(item) == IgnoreItem \/ RefuseItem(item) \/ StoreItem(item)

-----------------------------------------------------------------------------
MissionInit ==
  /\ G_MISSION = [i \in Slot |-> [seq |-> 0, point |-> Unset]]
  /\ G_MISSION_COUNT = 0
  /\ G_MISSION_RCV_STATE = RCV_IDLE
  /\ G_MISSION_RCV_NEXT = 0
  /\ G_MISSION_RCV_TOTAL = 0
  /\ sent = <<>>
  /\ received = <<>>
  /\ uploaded = <<>>

MissionNext ==
  \/ HandleRequestList
  \/ \E n \in 0 .. MaxSeq : HandleCount(n)
  \/ \E n \in 0 .. MaxSeq, w \in Waypoint : HandleItem([seq |-> n, point |-> w])

MissionSpec == MissionInit /\ [][MissionNext]_missionVars

-----------------------------------------------------------------------------
(* Properties *)

MissionTypeOK ==
  /\ G_MISSION \in [Slot -> Item]
  /\ G_MISSION_COUNT \in 0 .. MISSION_MAX
  /\ G_MISSION_RCV_STATE \in {RCV_IDLE, RCV_WAIT_ITEM}
  /\ G_MISSION_RCV_NEXT \in Slot
  /\ G_MISSION_RCV_TOTAL \in 0 .. MISSION_MAX
  /\ received \in Seq(Item)
  /\ uploaded \in Seq(Item)

\* Whatever was announced, restarted or abandoned before: an upload that ends
\* leaves exactly its own items, in order, as what a download serves, and until
\* the next upload begins nothing changes them.
IdleStoresUpload == G_MISSION_RCV_STATE = RCV_IDLE => Stored = uploaded

\* The board asks for the items in order and stores an item only as the answer:
\* the items taken so far are the first slots, numbered as the slots are.
WaitsInOrder ==
  G_MISSION_RCV_STATE = RCV_WAIT_ITEM =>
    /\ Len(received) = G_MISSION_RCV_NEXT
    /\ G_MISSION_RCV_NEXT = 0 \/ G_MISSION_RCV_NEXT < G_MISSION_RCV_TOTAL
    /\ \A i \in 1 .. Len(received) :
         received[i].seq = i - 1 /\ G_MISSION[i - 1] = received[i]
=============================================================================
