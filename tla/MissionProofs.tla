--------------------------- MODULE MissionProofs ---------------------------
(***************************************************************************)
(* Proofs about Mission, for every size of the store, every set of         *)
(* waypoints and every sequence of messages, and about MissionLink, for    *)
(* every length of the plans and any number of faults; and that Uplink     *)
(* keeps what is promised of each of its protocols.                        *)
(***************************************************************************)
EXTENDS Uplink, SequenceTheorems, TLAPS

\* The three parts are inductive together: an upload can only end well because
\* the items taken so far lie in the first slots, and they do because no other
\* handler writes a slot.
MissionInv == MissionTypeOK /\ WaitsInOrder /\ IdleStoresUpload

LEMMA InitMissionInv == MissionInit => MissionInv
<1> SUFFICES ASSUME MissionInit PROVE MissionInv
  OBVIOUS
<1>1. [seq |-> 0, point |-> Unset] \in Item
  BY MissionAssumption DEF Item
<1>2. MissionTypeOK
  BY <1>1, MissionAssumption DEF MissionInit, MissionTypeOK, Slot, RCV_IDLE
<1>3. WaitsInOrder
  BY DEF MissionInit, WaitsInOrder, RCV_IDLE, RCV_WAIT_ITEM
<1>4. Stored = <<>>
  BY DEF MissionInit, Stored
<1>5. IdleStoresUpload
  BY <1>4 DEF MissionInit, IdleStoresUpload
<1>6. QED
  BY <1>2, <1>3, <1>5 DEF MissionInv

\* A handler that changes neither the store nor the upload keeps everything.
LEMMA KeepMissionInv ==
  ASSUME MissionInv, UNCHANGED <<store, rcv, received, uploaded>>
  PROVE  MissionInv'
BY DEF MissionInv, MissionTypeOK, WaitsInOrder, IdleStoresUpload, Stored, store, rcv

LEMMA CountMissionInv ==
  ASSUME MissionInv, NEW n \in 0 .. MaxSeq, HandleCount(n)
  PROVE  MissionInv'
<1>1. CASE n > MISSION_MAX
  <2>1. UNCHANGED <<store, rcv, received, uploaded>>
    BY <1>1, MissionAssumption DEF HandleCount
  <2>2. QED
    BY <2>1, KeepMissionInv
<1>2. CASE ~(n > MISSION_MAX)
  <2>1. /\ G_MISSION_RCV_STATE' = RCV_WAIT_ITEM
        /\ G_MISSION_RCV_NEXT' = 0
        /\ G_MISSION_RCV_TOTAL' = n
        /\ received' = <<>>
        /\ UNCHANGED <<G_MISSION, G_MISSION_COUNT, uploaded>>
    BY <1>2 DEF HandleCount, store
  <2>2. n \in 0 .. MISSION_MAX
    BY <1>2, MissionAssumption
  <2>3. MissionTypeOK'
    BY <2>1, <2>2, MissionAssumption DEF MissionInv, MissionTypeOK, Slot
  <2>4. WaitsInOrder'
    BY <2>1 DEF WaitsInOrder
  <2>5. IdleStoresUpload'
    BY <2>1 DEF IdleStoresUpload, RCV_IDLE, RCV_WAIT_ITEM
  <2>6. QED
    BY <2>3, <2>4, <2>5 DEF MissionInv
<1>3. QED
  BY <1>1, <1>2

LEMMA StoreMissionInv ==
  ASSUME MissionInv, NEW item \in Item, StoreItem(item)
  PROVE  MissionInv'
<1> DEFINE next == G_MISSION_RCV_NEXT
           total == G_MISSION_RCV_TOTAL
           taken == Append(received, item)
<1>1. /\ G_MISSION_RCV_STATE = RCV_WAIT_ITEM
      /\ item.seq = next
      /\ G_MISSION' = [G_MISSION EXCEPT ![next] = item]
      /\ received' = taken
      /\ G_MISSION_RCV_TOTAL' = total
  BY DEF StoreItem
<1>2. /\ received \in Seq(Item) /\ Len(received) = next
      /\ next \in Slot /\ total \in 0 .. MISSION_MAX
      /\ next = 0 \/ next < total
  BY <1>1 DEF MissionInv, MissionTypeOK, WaitsInOrder
<1>3. next \in Nat /\ next < MISSION_MAX /\ total \in Nat /\ total =< MISSION_MAX
  BY <1>2, MissionAssumption DEF Slot
<1>4. /\ taken \in Seq(Item) /\ Len(taken) = next + 1
      /\ taken[next + 1] = item
      /\ \A i \in 1 .. next : taken[i] = received[i]
  BY <1>2, <1>3
<1>5. G_MISSION' \in [Slot -> Item]
  BY <1>1 DEF MissionInv, MissionTypeOK
\* The items taken, this one included, lie in the first slots.
<1>6. \A i \in 1 .. next + 1 : taken[i].seq = i - 1 /\ G_MISSION'[i - 1] = taken[i]
  <2> SUFFICES ASSUME NEW i \in 1 .. next + 1
               PROVE  taken[i].seq = i - 1 /\ G_MISSION'[i - 1] = taken[i]
    OBVIOUS
  <2>0. G_MISSION \in [Slot -> Item]
    BY DEF MissionInv, MissionTypeOK
  <2>1. CASE i = next + 1
    <3>1. i - 1 = next
      BY <2>1, <1>3
    <3>2. G_MISSION'[next] = item
      BY <1>1, <1>2, <2>0
    <3>3. QED
      BY <2>1, <3>1, <3>2, <1>1, <1>4
  <2>2. CASE i # next + 1
    <3>1. i \in 1 .. next /\ i - 1 # next /\ i - 1 \in Slot
      BY <2>2, <1>3, MissionAssumption DEF Slot
    <3>2. received[i].seq = i - 1 /\ G_MISSION[i - 1] = received[i]
      BY <3>1, <1>1, <1>2 DEF MissionInv, WaitsInOrder
    <3>3. G_MISSION'[i - 1] = G_MISSION[i - 1]
      BY <3>1, <1>1, <2>0
    <3>4. QED
      BY <3>1, <3>2, <3>3, <1>4
  <2>3. QED
    BY <2>1, <2>2
\* The last item: the upload ends, and what a download serves is what it took.
<1>7. CASE next + 1 >= total
  <2>0. ~(next + 1 < total)
    BY <1>7, <1>3
  <2>1. /\ G_MISSION_COUNT' = total
        /\ G_MISSION_RCV_STATE' = RCV_IDLE
        /\ G_MISSION_RCV_NEXT' = 0
        /\ uploaded' = [i \in 1 .. total |-> taken[i]]
    BY <2>0 DEF StoreItem
  <2>2. \A i \in 1 .. total : i \in 1 .. next + 1
    BY <1>7, <1>3
  <2>3. uploaded' \in Seq(Item)
    <3>1. \A i \in 1 .. total : taken[i] \in Item
      BY <2>2, <1>4
    <3>2. uploaded' \in [1 .. total -> Item]
      BY <2>1, <3>1
    <3>3. QED
      BY <3>2, <1>3, SeqDef
  <2>8. 0 \in Slot
    BY MissionAssumption DEF Slot
  <2>4. MissionTypeOK'
    BY <1>1, <1>2, <1>4, <1>5, <2>1, <2>3, <2>8 DEF MissionTypeOK
  <2>5. WaitsInOrder'
    BY <2>1 DEF WaitsInOrder, RCV_IDLE, RCV_WAIT_ITEM
  <2>6. Stored' = uploaded'
    BY <1>6, <2>1, <2>2 DEF Stored
  <2>7. QED
    BY <2>4, <2>5, <2>6 DEF MissionInv, IdleStoresUpload
\* Any other item: the next one is asked for, and its slot is in the store.
<1>8. CASE next + 1 < total
  <2>1. /\ G_MISSION_RCV_NEXT' = next + 1
        /\ UNCHANGED <<G_MISSION_COUNT, G_MISSION_RCV_STATE, uploaded>>
    BY <1>8, <1>3 DEF StoreItem
  <2>2. next + 1 \in Slot
    BY <1>8, <1>3, MissionAssumption DEF Slot
  <2>3. MissionTypeOK'
    BY <1>1, <1>2, <1>4, <1>5, <2>1, <2>2 DEF MissionInv, MissionTypeOK
  <2>4. WaitsInOrder'
    BY <1>1, <1>4, <1>6, <1>8, <2>1 DEF WaitsInOrder
  <2>5. IdleStoresUpload'
    BY <1>1, <2>1 DEF IdleStoresUpload, RCV_IDLE, RCV_WAIT_ITEM
  <2>6. QED
    BY <2>3, <2>4, <2>5 DEF MissionInv
<1>9. QED
  BY <1>3, <1>7, <1>8

\* A handler never leaves the store half-described: see the parts of MissionInv.
LEMMA NextMissionInv == MissionInv /\ [MissionNext]_missionVars => MissionInv'
<1> SUFFICES ASSUME MissionInv, [MissionNext]_missionVars PROVE MissionInv'
  OBVIOUS
<1>1. CASE HandleRequestList
  BY <1>1, KeepMissionInv DEF HandleRequestList
<1>2. CASE \E n \in 0 .. MaxSeq : HandleCount(n)
  BY <1>2, CountMissionInv
<1>3. CASE \E n \in 0 .. MaxSeq, w \in Waypoint : HandleItem([seq |-> n, point |-> w])
  <2>1. PICK n \in 0 .. MaxSeq, w \in Waypoint : HandleItem([seq |-> n, point |-> w])
    BY <1>3
  <2>2. [seq |-> n, point |-> w] \in Item
    BY DEF Item
  <2>3. CASE IgnoreItem
    BY <2>3, KeepMissionInv DEF IgnoreItem
  <2>4. CASE RefuseItem([seq |-> n, point |-> w])
    BY <2>4, KeepMissionInv DEF RefuseItem
  <2>5. CASE StoreItem([seq |-> n, point |-> w])
    BY <2>2, <2>5, StoreMissionInv
  <2>6. QED
    BY <2>1, <2>3, <2>4, <2>5 DEF HandleItem
<1>4. CASE UNCHANGED missionVars
  BY <1>4, KeepMissionInv DEF missionVars
<1>5. QED
  BY <1>1, <1>2, <1>3, <1>4 DEF MissionNext

\* The invariant holds whatever messages come, in whatever order.
THEOREM MissionInductive == MissionSpec => []MissionInv
BY NextMissionInv, InitMissionInv, PTL DEF MissionSpec

\* Every index the handlers use is a slot of the store, so no message makes the
\* board panic here, and no count exceeds the store.
THEOREM MissionTypeCorrect == MissionSpec => []MissionTypeOK
<1>1. MissionInv => MissionTypeOK
  BY DEF MissionInv
<1>2. QED
  BY <1>1, MissionInductive, PTL

\* The items of an upload are taken in order, each into its own slot.
THEOREM UploadInOrder == MissionSpec => []WaitsInOrder
<1>1. MissionInv => WaitsInOrder
  BY DEF MissionInv
<1>2. QED
  BY <1>1, MissionInductive, PTL

\* Between uploads a download serves exactly the last upload that ended.
THEOREM StoreIsLastUpload == MissionSpec => []IdleStoresUpload
<1>1. MissionInv => IdleStoresUpload
  BY DEF MissionInv
<1>2. QED
  BY <1>1, MissionInductive, PTL

-----------------------------------------------------------------------------
(* MissionLink: what the ground station sees accepted is stored. *)

\* The frames by which the board answers while an upload is under way.
Reply == {Request(n) : n \in Nat} \cup {Ack(ACCEPTED), Ack(NO_SPACE), Ack(INVALID_SEQUENCE)}

\* At most one frame is on the way to the board, and what it is tells how far the
\* ground station has come.
ToBoardInv ==
  \/ toBoard = <<>>
  \/ /\ toBoard = <<Count(Len(plan))>>
     /\ at = 0 /\ ~mine /\ verdict # "accepted"
     /\ phase \in {"items", "off"}
  \/ /\ at \in 1 .. Len(plan)
     /\ toBoard = <<ItemInt(ItemOf(plan, at))>>
     /\ verdict # "accepted"
     /\ phase \in {"items", "off"}
  \/ toBoard = <<[type |-> "MISSION_REQUEST_LIST"]>> /\ phase = "download"

\* Within an upload the ground station has at most the answer to its last frame.
ToHostInv ==
  phase = "items" =>
    \/ toHost = <<>>
    \/ toBoard = <<>> /\ \E f \in Reply : toHost = <<f>>

\* The board has taken the first items of the plan and waits for another one, and
\* has accepted nothing; or it has taken all of them.
Underway ==
  /\ G_MISSION_RCV_STATE = RCV_WAIT_ITEM
  /\ G_MISSION_RCV_TOTAL = Len(plan)
  /\ G_MISSION_RCV_NEXT =< at
  /\ \A i \in 1 .. G_MISSION_RCV_NEXT : received[i] = ItemOf(plan, i)

Done == G_MISSION_RCV_STATE = RCV_IDLE /\ uploaded = MissionOf(plan)

LinkInv ==
  /\ MissionInv
  /\ plan \in Plans /\ at \in 0 .. Len(plan)
  /\ phase \in {"off", "items", "download"}
  /\ phase = "items" => verdict # "accepted"
  /\ ToBoardInv /\ ToHostInv
  /\ phase = "items" /\ mine => (Underway /\ toHost # <<Ack(ACCEPTED)>>) \/ Done
  /\ verdict = "accepted" /\ mine => Done

LEMMA PlanLength ==
  ASSUME NEW p \in Plans
  PROVE  /\ Len(p) \in 1 .. MaxPlan
         /\ p \in [1 .. Len(p) -> Waypoint]
<1>1. PICK n \in 1 .. MaxPlan : p \in [1 .. n -> Waypoint]
  BY DEF Plans
<1>2. n \in Nat
  BY <1>1, LinkAssumption, MissionAssumption
<1>3. Len(p) = n
  BY <1>1, <1>2, LenProperties, SeqDef
<1>4. QED
  BY <1>1, <1>3

\* An item of a plan is one that the handlers are proved for.
LEMMA PlanItem ==
  ASSUME NEW p \in Plans, NEW i \in 1 .. Len(p)
  PROVE  ItemOf(p, i) \in Item /\ ItemOf(p, i).seq = i - 1
<1>1. Len(p) \in 1 .. MaxPlan /\ p[i] \in Waypoint
  BY PlanLength
<1>2. i - 1 \in 0 .. MaxSeq
  BY <1>1, LinkAssumption, MissionAssumption
<1>3. QED
  BY <1>1, <1>2 DEF ItemOf, Item

LEMMA InitLinkInv == LinkInit => LinkInv
<1> SUFFICES ASSUME LinkInit PROVE LinkInv
  OBVIOUS
<1>1. MissionInv
  BY InitMissionInv DEF LinkInit
<1>2. at \in 0 .. Len(plan)
  BY PlanLength, LinkAssumption, MissionAssumption DEF LinkInit
<1>3. QED
  BY <1>1, <1>2 DEF LinkInit, LinkInv, ToBoardInv, ToHostInv

\* The three kinds of frames are told apart by their type.
LEMMA FrameTypes ==
  /\ \A n : Count(n).type = "MISSION_COUNT" /\ Count(n).count = n
  /\ \A n : Request(n) # Ack(ACCEPTED)
  /\ \A i : ItemInt(i).type = "MISSION_ITEM_INT" /\ ItemInt(i).item = i
  /\ Ack(NO_SPACE) # Ack(ACCEPTED) /\ Ack(INVALID_SEQUENCE) # Ack(ACCEPTED)
<1>1. \A n : Request(n).type = "MISSION_REQUEST" /\ Ack(ACCEPTED).type = "MISSION_ACK"
  BY DEF Request, Ack
<1>2. /\ Ack(NO_SPACE).result = 4 /\ Ack(INVALID_SEQUENCE).result = 5
      /\ Ack(ACCEPTED).result = 0
  BY DEF Ack, NO_SPACE, INVALID_SEQUENCE, ACCEPTED
<1>3. QED
  BY <1>1, <1>2 DEF Count, ItemInt

\* The board takes the announcement: the upload is under way.
LEMMA BoardTakesCount ==
  ASSUME LinkInv, BoardHandles, toBoard = <<Count(Len(plan))>>, at = 0,
         verdict # "accepted", phase \in {"items", "off"}
  PROVE  LinkInv'
<1> USE DEF LinkInv
<1>1. /\ HandleCount(Len(plan)) /\ mine'
      /\ toBoard' = <<>> /\ toHost' = toHost \o sent'
      /\ UNCHANGED hostVars
  BY FrameTypes DEF BoardHandles
<1>2. Len(plan) \in 1 .. MaxPlan /\ Len(plan) =< MISSION_MAX /\ Len(plan) \in 0 .. MaxSeq
  BY PlanLength, LinkAssumption, MissionAssumption
<1>3. MissionInv'
  BY <1>1, <1>2, CountMissionInv
<1>4. /\ G_MISSION_RCV_STATE' = RCV_WAIT_ITEM
      /\ G_MISSION_RCV_NEXT' = 0
      /\ G_MISSION_RCV_TOTAL' = Len(plan)
      /\ sent' = <<Request(0)>>
  BY <1>1, <1>2, MissionAssumption DEF HandleCount
<1>5. phase = "items" => toHost' = <<Request(0)>>
  BY <1>1, <1>4 DEF ToHostInv
<1>6. ToHostInv' /\ ToBoardInv'
  BY <1>1, <1>5 DEF ToHostInv, ToBoardInv, Reply, hostVars
<1>7. phase = "items" => Underway' /\ toHost' # <<Ack(ACCEPTED)>>
  BY <1>1, <1>4, <1>5, FrameTypes DEF Underway, hostVars
<1>8. QED
  BY <1>1, <1>3, <1>6, <1>7 DEF hostVars

\* The board takes an item: it is the next one of the plan, or it is refused.
LEMMA BoardTakesItem ==
  ASSUME LinkInv, BoardHandles, at \in 1 .. Len(plan),
         toBoard = <<ItemInt(ItemOf(plan, at))>>,
         verdict # "accepted", phase \in {"items", "off"}
  PROVE  LinkInv'
<1> USE DEF LinkInv
<1> DEFINE item == ItemOf(plan, at)
<1>1. /\ HandleItem(item) /\ mine' = mine
      /\ toBoard' = <<>> /\ toHost' = toHost \o sent'
      /\ UNCHANGED hostVars
  BY FrameTypes DEF BoardHandles
<1>2. item \in Item /\ item.seq = at - 1
  BY PlanItem
<1>3. phase = "items" => toHost' = <<>> \o sent'
  BY <1>1 DEF ToHostInv
<1>4. CASE IgnoreItem
  <2>1. MissionInv' /\ sent' = <<>>
    BY <1>4, KeepMissionInv DEF IgnoreItem
  <2>2. ToHostInv' /\ ToBoardInv'
    BY <1>1, <1>3, <2>1 DEF ToHostInv, ToBoardInv, hostVars
  <2>3. ~Underway /\ (Done => Done')
    BY <1>1, <1>4 DEF IgnoreItem, Underway, Done, rcv, hostVars
  <2>4. QED
    BY <1>1, <2>1, <2>2, <2>3 DEF hostVars
<1>5. CASE RefuseItem(item)
  <2>1. MissionInv' /\ sent' = <<Ack(INVALID_SEQUENCE)>>
    BY <1>5, KeepMissionInv DEF RefuseItem
  <2>2. phase = "items" => toHost' = <<Ack(INVALID_SEQUENCE)>>
    BY <1>3, <2>1
  <2>3. ToHostInv' /\ ToBoardInv'
    BY <1>1, <2>2 DEF ToHostInv, ToBoardInv, Reply, hostVars
  <2>4. (Underway => Underway') /\ (Done => Done')
    BY <1>1, <1>5 DEF RefuseItem, Underway, Done, rcv, hostVars
  <2>5. phase = "items" => toHost' # <<Ack(ACCEPTED)>>
    BY <2>2, FrameTypes
  <2>6. QED
    BY <1>1, <2>1, <2>3, <2>4, <2>5 DEF hostVars
<1>6. CASE StoreItem(item)
  <2>1. MissionInv'
    BY <1>2, <1>6, StoreMissionInv
  <2>2. /\ G_MISSION_RCV_STATE = RCV_WAIT_ITEM
        /\ G_MISSION_RCV_NEXT = at - 1
        /\ received' = Append(received, item)
        /\ G_MISSION_RCV_TOTAL' = G_MISSION_RCV_TOTAL
    BY <1>2, <1>6 DEF StoreItem
  <2>3. /\ received \in Seq(Item) /\ Len(received) = at - 1
        /\ G_MISSION_RCV_TOTAL \in Nat /\ at \in Nat /\ Len(plan) \in Nat
    BY <2>2, PlanLength, LinkAssumption, MissionAssumption
       DEF MissionInv, MissionTypeOK, WaitsInOrder
  <2>4. \/ /\ at >= G_MISSION_RCV_TOTAL
           /\ G_MISSION_RCV_STATE' = RCV_IDLE
           /\ sent' = <<Ack(ACCEPTED)>>
           /\ uploaded' = [i \in 1 .. G_MISSION_RCV_TOTAL |-> Append(received, item)[i]]
        \/ /\ at < G_MISSION_RCV_TOTAL
           /\ G_MISSION_RCV_STATE' = RCV_WAIT_ITEM
           /\ G_MISSION_RCV_NEXT' = at
           /\ sent' = <<Request(at)>>
    BY <1>6, <2>2, <2>3 DEF StoreItem
  <2>5. phase = "items" => toHost' = sent'
    BY <1>3, <2>4
  <2>6. ToHostInv' /\ ToBoardInv'
    <3>1. Ack(ACCEPTED) \in Reply /\ Request(at) \in Reply
      BY <2>3 DEF Reply
    <3>2. \E f \in Reply : sent' = <<f>>
      BY <2>4, <3>1
    <3>3. QED
      BY <1>1, <2>5, <3>2 DEF ToHostInv, ToBoardInv, hostVars
  <2>7. ~Done
    BY <2>2 DEF Done, RCV_IDLE, RCV_WAIT_ITEM
  <2>8. ASSUME Underway PROVE Done' \/ (Underway' /\ sent' # <<Ack(ACCEPTED)>>)
    <3>1. \A i \in 1 .. at : Append(received, item)[i] = ItemOf(plan, i)
      BY <2>2, <2>3, <2>8 DEF Underway
    <3>2. CASE at >= G_MISSION_RCV_TOTAL
      <4>1. at = Len(plan) /\ G_MISSION_RCV_TOTAL = Len(plan)
        BY <2>3, <2>8, <3>2 DEF Underway
      <4>2. DOMAIN plan = 1 .. Len(plan)
        BY PlanLength
      <4>3. uploaded' = MissionOf(plan)
        BY <2>3, <2>4, <3>1, <4>1, <4>2 DEF MissionOf
      <4>4. QED
        BY <1>1, <2>3, <2>4, <3>2, <4>3 DEF Done, hostVars
    <3>3. CASE at < G_MISSION_RCV_TOTAL
      BY <1>1, <2>2, <2>3, <2>4, <2>8, <3>1, <3>3, FrameTypes DEF Underway, hostVars
    <3>4. QED
      BY <2>3, <3>2, <3>3
  <2>9. QED
    BY <1>1, <2>1, <2>6, <2>7, <2>8, <2>5 DEF hostVars
<1>7. QED
  BY <1>1, <1>4, <1>5, <1>6 DEF HandleItem

\* What the board does changes neither the plan nor how it is judged.
LEMMA BoardLinkInv == LinkInv /\ BoardHandles => LinkInv'
<1> SUFFICES ASSUME LinkInv, BoardHandles PROVE LinkInv'
  OBVIOUS
<1>1. toBoard # <<>>
  BY DEF BoardHandles
<1>2. CASE toBoard = <<[type |-> "MISSION_REQUEST_LIST"]>> /\ phase = "download"
  <2>1. /\ HandleRequestList
        /\ toBoard' = <<>> /\ UNCHANGED <<hostVars, mine>>
    BY <1>2 DEF BoardHandles
  <2>2. MissionInv' /\ UNCHANGED <<rcv, uploaded>>
    BY <2>1, KeepMissionInv DEF HandleRequestList, LinkInv
  <2>3. QED
    BY <1>2, <2>1, <2>2 DEF LinkInv, ToBoardInv, ToHostInv, Done, rcv, hostVars
<1>3. QED
  BY <1>1, <1>2, BoardTakesCount, BoardTakesItem DEF LinkInv, ToBoardInv

\* The ground station's steps, ...
LEMMA HostLinkInv == LinkInv /\ HostNext => LinkInv'
<1> SUFFICES ASSUME LinkInv, HostNext PROVE LinkInv'
  OBVIOUS
<1> USE DEF LinkInv
<1>1. UNCHANGED missionVars
  BY DEF HostNext, StartUpload, SendItem, ReadAck, StartDownload, ReadDownload
<1>2. MissionInv' /\ UNCHANGED <<rcv, received, uploaded>>
  BY <1>1, KeepMissionInv DEF missionVars
<1>3. CASE StartUpload
  <2>1. plan' \in Plans /\ at' = 0
    BY <1>3 DEF StartUpload
  <2>2. at' \in 0 .. Len(plan')
    BY <2>1, PlanLength, LinkAssumption, MissionAssumption
  <2>3. QED
    BY <1>2, <1>3, <2>1, <2>2 DEF StartUpload, ToBoardInv, ToHostInv
<1>4. CASE SendItem
  <2>1. /\ phase = "items" /\ toBoard = <<>>
        /\ at < Len(plan) /\ at' = at + 1
        /\ toBoard' = <<ItemInt(ItemOf(plan, at'))>> /\ toHost' = <<>>
        /\ UNCHANGED <<phase, plan, verdict, mine>>
    BY <1>4 DEF SendItem, BoardDone
  <2>2. at \in Nat /\ Len(plan) \in Nat
    BY PlanLength, LinkAssumption, MissionAssumption
  <2>3. at' \in 1 .. Len(plan)
    BY <2>1, <2>2
  <2>4. (Underway => Underway') /\ (Done => Done')
    <3>1. G_MISSION_RCV_NEXT \in Nat
      BY MissionAssumption DEF MissionInv, MissionTypeOK, Slot
    <3>2. QED
      BY <1>2, <2>1, <2>2, <3>1 DEF Underway, Done, rcv
  <2>5. QED
    BY <1>2, <2>1, <2>3, <2>4 DEF ToBoardInv, ToHostInv
<1>5. CASE ReadAck
  <2>1. /\ phase = "items" /\ toBoard = <<>>
        /\ verdict' = IF Accepts(toHost) THEN "accepted" ELSE "failed"
        /\ phase' = "off" /\ toHost' = <<>>
        /\ UNCHANGED <<plan, at, toBoard, mine>>
    BY <1>5 DEF ReadAck, BoardDone
  <2>2. ASSUME Accepts(toHost), mine PROVE Done
    <3>1. toHost # <<>>
      BY <2>2 DEF Accepts
    <3>2. PICK f \in Reply : toHost = <<f>>
      BY <2>1, <3>1 DEF ToHostInv
    <3>3. f = Ack(ACCEPTED)
      BY <2>2, <3>2 DEF Accepts
    <3>4. QED
      BY <2>1, <2>2, <3>2, <3>3
  <2>3. Done => Done'
    BY <1>2, <2>1 DEF Done, rcv
  <2>4. QED
    BY <1>2, <2>1, <2>2, <2>3 DEF ToBoardInv, ToHostInv
<1>6. CASE StartDownload \/ ReadDownload
  <2>1. /\ phase # "items" /\ phase' \in {"off", "download"} /\ toBoard = <<>>
        /\ \/ toBoard' = <<>>
           \/ toBoard' = <<[type |-> "MISSION_REQUEST_LIST"]>> /\ phase' = "download"
        /\ UNCHANGED <<plan, at, verdict, mine>>
    BY <1>6 DEF StartDownload, ReadDownload, BoardDone
  <2>2. Done => Done'
    BY <1>2, <2>1 DEF Done, rcv
  <2>3. QED
    BY <1>2, <2>1, <2>2 DEF ToBoardInv, ToHostInv
<1>7. QED
  BY <1>3, <1>4, <1>5, <1>6 DEF HostNext

\* ... and what can go wrong.
LEMMA FaultLinkInv == LinkInv /\ (LoseFrame \/ BreakOff) => LinkInv'
<1> SUFFICES ASSUME LinkInv, LoseFrame \/ BreakOff PROVE LinkInv'
  OBVIOUS
<1> USE DEF LinkInv
<1>1. UNCHANGED <<missionVars, plan, at, mine>>
  BY DEF LoseFrame, BreakOff, hostVars
<1>2. MissionInv' /\ UNCHANGED <<rcv, received, uploaded, plan, at, mine>>
  BY <1>1, KeepMissionInv DEF missionVars
<1>3. (Underway => Underway') /\ (Done => Done')
  BY <1>2 DEF Underway, Done, rcv
<1>4. CASE LoseFrame
  <2>1. UNCHANGED <<phase, verdict>>
    BY <1>4 DEF LoseFrame, hostVars
  <2>2. CASE toBoard # <<>> /\ toBoard' = Tail(toBoard) /\ toHost' = toHost
    <3>1. \E f : toBoard = <<f>>
      BY <2>2 DEF ToBoardInv
    <3>2. toBoard' = <<>>
      BY <2>2, <3>1
    <3>3. QED
      BY <1>2, <1>3, <2>1, <2>2, <3>2 DEF ToBoardInv, ToHostInv
  <2>3. CASE /\ toBoard' = toBoard
             /\ \E i \in 1 .. Len(toHost) :
                  toHost' = SubSeq(toHost, 1, i - 1) \o SubSeq(toHost, i + 1, Len(toHost))
    <3>1. ASSUME phase = "items" PROVE toHost' = <<>>
      <4>1. PICK i \in 1 .. Len(toHost) :
              toHost' = SubSeq(toHost, 1, i - 1) \o SubSeq(toHost, i + 1, Len(toHost))
        BY <2>3
      <4>2. PICK f \in Reply : toHost = <<f>>
        BY <3>1, <4>1 DEF ToHostInv
      <4>3. i = 1 /\ Len(toHost) = 1
        BY <4>1, <4>2
      <4>4. toHost' = SubSeq(<<f>>, 1, 0) \o SubSeq(<<f>>, 2, 1)
        BY <4>1, <4>2, <4>3
      <4>5. SubSeq(<<f>>, 1, 0) = <<>> /\ SubSeq(<<f>>, 2, 1) = <<>>
        OBVIOUS
      <4>6. QED
        BY <4>4, <4>5
    <3>2. toHost' # <<Ack(ACCEPTED)>> \/ phase # "items"
      BY <3>1
    <3>3. ToBoardInv' /\ ToHostInv'
      BY <1>2, <2>1, <2>3, <3>1 DEF ToBoardInv, ToHostInv
    <3>4. QED
      BY <1>2, <1>3, <2>1, <3>2, <3>3
  <2>4. QED
    BY <1>4, <2>2, <2>3 DEF LoseFrame
<1>5. CASE BreakOff
  BY <1>2, <1>3, <1>5 DEF BreakOff, ToBoardInv, ToHostInv
<1>6. QED
  BY <1>4, <1>5

\* No step of the link, fault or not, disturbs the invariant.
LEMMA NextLinkInv == LinkInv /\ [LinkNext]_linkVars => LinkInv'
<1> SUFFICES ASSUME LinkInv, [LinkNext]_linkVars PROVE LinkInv'
  OBVIOUS
<1>1. CASE UNCHANGED linkVars
  <2>1. MissionInv' /\ UNCHANGED <<rcv, received, uploaded>>
    BY <1>1, KeepMissionInv DEF linkVars, missionVars, LinkInv
  <2>2. QED
    BY <1>1, <2>1 DEF linkVars, hostVars, LinkInv, ToBoardInv, ToHostInv, Underway,
                      Done, rcv
<1>2. QED
  BY <1>1, BoardLinkInv, HostLinkInv, FaultLinkInv DEF LinkNext

LEMMA LinkInvAccepted == LinkInv => AcceptedIsStored
BY DEF LinkInv, AcceptedIsStored, MissionInv, IdleStoresUpload, Done

\* An upload that the ground station sees accepted is what the board has stored,
\* however many frames were lost and uploads broken off before.
THEOREM UploadIsStored == LinkSpec => []AcceptedIsStored
BY NextLinkInv, LinkInvAccepted, InitLinkInv, PTL DEF LinkSpec

-----------------------------------------------------------------------------
(* Uplink: whichever protocol is followed. *)

\* Where anybody may speak to the mission store, the tool has nothing on the way.
UplinkInv ==
  /\ LinkInv
  /\ protocol = "any mission" => phase = "off" /\ ~mine /\ toBoard = <<>>

LEMMA NextUplinkInv == UplinkInv /\ [UplinkNext]_uplinkVars => UplinkInv'
<1> SUFFICES ASSUME UplinkInv, [UplinkNext]_uplinkVars PROVE UplinkInv'
  OBVIOUS
<1> USE DEF UplinkInv
<1>1. CASE UNCHANGED <<protocol, linkVars>>
  <2>1. LinkInv'
    BY <1>1, NextLinkInv
  <2>2. QED
    BY <1>1, <2>1 DEF linkVars, hostVars
<1>2. CASE /\ protocol = "any mission" /\ UNCHANGED protocol
           /\ MissionNext /\ UNCHANGED toolVars
  <2>1. MissionInv'
    BY <1>2, NextMissionInv DEF LinkInv
  <2>2. phase = "off" /\ ~mine /\ toBoard = <<>>
    BY <1>2
  <2>3. UNCHANGED <<phase, plan, at, verdict, toBoard, toHost, mine>>
    BY <1>2 DEF toolVars, hostVars
  <2>4. QED
    BY <2>1, <2>2, <2>3 DEF LinkInv, ToBoardInv, ToHostInv
<1>3. CASE protocol = "mission tool" /\ UNCHANGED protocol /\ LinkNext
  BY <1>3, NextLinkInv
<1>4. QED
  BY <1>1, <1>2, <1>3 DEF UplinkNext, uplinkVars

\* With anybody speaking to the mission store, or the tool over its link, or any
\* other protocol: the handshake takes its items in order, serves the last upload
\* that ended, and what the tool saw accepted is stored.
THEOREM UplinkStoresMissions ==
  UplinkSpec => [](WaitsInOrder /\ IdleStoresUpload /\ AcceptedIsStored)
<1>1. UplinkInit => UplinkInv
  BY InitLinkInv DEF UplinkInit, UplinkInv, LinkInit
<1>2. UplinkInv => WaitsInOrder /\ IdleStoresUpload /\ AcceptedIsStored
  BY LinkInvAccepted DEF UplinkInv, LinkInv, MissionInv
<1>3. QED
  BY <1>1, <1>2, NextUplinkInv, PTL DEF UplinkSpec

\* Uplink does to the commands and to the tables what their own modules let them
\* do and nothing else: what is proved of GroundSpec and TablesSpec holds of it.
THEOREM UplinkKeepsProtocols == UplinkSpec => GroundSpec /\ TablesSpec
<1>1. UplinkInit => GroundInit /\ TablesInit
  BY DEF UplinkInit
<1>2. [UplinkNext]_uplinkVars => [GroundNext]_groundVars /\ [TablesNext]_tablesVars
  BY DEF UplinkNext, uplinkVars
<1>3. QED
  BY <1>1, <1>2, PTL DEF UplinkSpec, GroundSpec, TablesSpec

=============================================================================
