---------------------------- MODULE TablesProofs ----------------------------
(***************************************************************************)
(* Proofs about GroundTables, for every number of parameters, values and   *)
(* fence slots, and every count a FENCE_POINT may bring.                   *)
(***************************************************************************)
EXTENDS GroundTables, TLAPS

\* While a stream is on, it has offered the parameters below its index; the
\* count covers every slot in use and is larger than the fence only if a
\* message said so.
StreamInv == G_PARAM_REQ => offered = 0 .. G_PARAM_TX_IDX - 1
CountInv  == G_FENCE_COUNT > FENCE_MAX => MaxCount > FENCE_MAX

TablesInv ==
  /\ TablesTypeOK
  /\ GroundKnowsTable
  /\ StreamInv
  /\ StoredIsFetchable /\ CountInv /\ PanicOnlyByCount

LEMMA LargerIsMax ==
  ASSUME NEW m \in Nat, NEW n \in Nat
  PROVE  /\ Larger(m, n) \in Nat
         /\ m =< Larger(m, n) /\ n =< Larger(m, n)
         /\ Larger(m, n) \in {m, n}
BY DEF Larger

\* A PARAM_VALUE that goes out, or is dropped, leaves the ground station with
\* what the table holds or with a parameter marked as missed.
LEMMA SendKeepsKnowledge ==
  ASSUME NEW i \in Param, NEW vals \in [Param -> Value],
         gcs \in [Param -> Value \cup {"unknown"}], missed \subseteq Param,
         \A j \in Param \ missed : j # i => gcs[j] \in {"unknown", vals[j]},
         SendParamValue(i, vals)
  PROVE  /\ gcs' \in [Param -> Value \cup {"unknown"}]
         /\ missed' \subseteq Param
         /\ \A j \in Param \ missed' : gcs'[j] \in {"unknown", vals[j]}
BY DEF SendParamValue

\* The parts of the invariant in which the stream, the parameters and the
\* fence have no share in each other's steps.
LEMMA KeepParams ==
  ASSUME TablesInv, UNCHANGED paramVars
  PROVE  GroundKnowsTable'
BY DEF TablesInv, GroundKnowsTable, paramVars

LEMMA KeepStream ==
  ASSUME TablesInv, UNCHANGED listVars
  PROVE  StreamInv'
BY DEF TablesInv, StreamInv, listVars

LEMMA KeepFence ==
  ASSUME TablesInv, UNCHANGED fenceVars
  PROVE  StoredIsFetchable' /\ CountInv' /\ PanicOnlyByCount'
BY DEF TablesInv, StoredIsFetchable, CountInv, PanicOnlyByCount, fenceVars

LEMMA InitTables == TablesInit => TablesInv
<1> SUFFICES ASSUME TablesInit PROVE TablesInv
  OBVIOUS
<1>1. Default \in Legal /\ Default \in Value
  BY TablesAssumption DEF Value
<1>2. TablesTypeOK
  <2>1. G_PARAM_VALS \in [Param -> Value] /\ gains \in [Param -> Value]
    BY <1>1 DEF TablesInit
  <2>2. gcs \in [Param -> Value \cup {"unknown"}]
    BY DEF TablesInit
  <2>3. G_FENCE \in [FenceSlot -> Vertex \cup {"unset"}]
    BY DEF TablesInit
  <2>4. G_PARAM_TX_IDX \in 0 .. PARAM_COUNT /\ G_FENCE_COUNT \in Nat
    BY TablesAssumption DEF TablesInit
  <2>5. QED
    BY <2>1, <2>2, <2>3, <2>4 DEF TablesInit, TablesTypeOK
<1>3. GroundKnowsTable
  BY <1>1 DEF TablesInit, GroundKnowsTable
<1>4. StreamInv
  BY DEF TablesInit, StreamInv
<1>5. StoredIsFetchable /\ CountInv /\ PanicOnlyByCount
  BY TablesAssumption
     DEF TablesInit, StoredIsFetchable, CountInv, PanicOnlyByCount
<1>6. QED
  BY <1>2, <1>3, <1>4, <1>5 DEF TablesInv

\* A parameter is sent, from a table that is the old one but for this one.
LEMMA SendStep ==
  ASSUME TablesInv, NEW i \in Param, SendParamValue(i, G_PARAM_VALS'),
         G_PARAM_VALS' \in [Param -> Value],
         \A j \in Param : j # i => G_PARAM_VALS'[j] = G_PARAM_VALS[j]
  PROVE  /\ gcs' \in [Param -> Value \cup {"unknown"}]
         /\ missed' \subseteq Param
         /\ GroundKnowsTable'
<1>1. \A j \in Param \ missed : j # i => gcs[j] \in {"unknown", G_PARAM_VALS'[j]}
  BY DEF TablesInv, GroundKnowsTable
<1>2. gcs \in [Param -> Value \cup {"unknown"}] /\ missed \subseteq Param
  BY DEF TablesInv, TablesTypeOK
<1>3. QED
  BY <1>1, <1>2, SendKeepsKnowledge DEF GroundKnowsTable

LEMMA StreamStep == TablesInv /\ UplinkStream => TablesInv'
<1> SUFFICES ASSUME TablesInv, UplinkStream PROVE TablesInv'
  OBVIOUS
<1>1. UNCHANGED <<G_PARAM_VALS, G_CAP_REQ, gains, fenceVars>> /\ tpc' = "answer"
  BY DEF UplinkStream
<1>2. StoredIsFetchable' /\ CountInv' /\ PanicOnlyByCount'
  BY <1>1, KeepFence
<1>4. CASE G_PARAM_REQ /\ G_PARAM_TX_IDX < PARAM_COUNT
  <2>1. /\ SendParamValue(G_PARAM_TX_IDX, G_PARAM_VALS)
        /\ G_PARAM_TX_IDX' = G_PARAM_TX_IDX + 1
        /\ offered' = offered \cup {G_PARAM_TX_IDX}
        /\ G_PARAM_REQ' = G_PARAM_REQ
    <3>1. ~(G_PARAM_TX_IDX >= PARAM_COUNT)
      BY <1>4, TablesAssumption DEF TablesInv, TablesTypeOK
    <3>2. QED
      BY <1>4, <3>1 DEF UplinkStream
  <2>2. G_PARAM_TX_IDX \in Param /\ G_PARAM_TX_IDX \in Nat
    BY <1>4, TablesAssumption DEF Param, TablesInv, TablesTypeOK
  <2>3. offered = 0 .. G_PARAM_TX_IDX - 1
    BY <1>4 DEF TablesInv, StreamInv
  <2>4. offered' = 0 .. G_PARAM_TX_IDX' - 1
    BY <2>1, <2>2, <2>3
  <2>5. /\ gcs' \in [Param -> Value \cup {"unknown"}]
        /\ missed' \subseteq Param
        /\ GroundKnowsTable'
    BY <1>1, <2>1, <2>2, SendStep DEF TablesInv, TablesTypeOK
  <2>6. G_PARAM_TX_IDX' \in 0 .. PARAM_COUNT /\ offered' \subseteq Param
    BY <1>4, <2>1, <2>2, TablesAssumption DEF TablesInv, TablesTypeOK
  <2>7. TablesTypeOK'
    BY <1>1, <2>1, <2>5, <2>6 DEF TablesInv, TablesTypeOK, fenceVars
  <2>8. StreamInv'
    BY <2>4 DEF StreamInv
  <2>9. QED
    BY <1>2, <2>5, <2>7, <2>8 DEF TablesInv
<1>5. CASE ~(G_PARAM_REQ /\ G_PARAM_TX_IDX < PARAM_COUNT)
  <2>1. /\ UNCHANGED <<gcs, missed, G_PARAM_TX_IDX, offered>>
        /\ G_PARAM_REQ' \in BOOLEAN
        /\ G_PARAM_REQ' => G_PARAM_REQ
    <3>1. G_PARAM_REQ \in BOOLEAN
      BY DEF TablesInv, TablesTypeOK
    <3>2. CASE G_PARAM_REQ
      BY <1>5, <3>2 DEF UplinkStream
    <3>3. CASE ~G_PARAM_REQ
      BY <3>1, <3>3 DEF UplinkStream, listVars
    <3>4. QED
      BY <3>2, <3>3
  <2>2. TablesTypeOK'
    BY <1>1, <2>1 DEF TablesInv, TablesTypeOK, fenceVars
  <2>3. StreamInv' /\ GroundKnowsTable'
    BY <1>1, <2>1 DEF TablesInv, StreamInv, GroundKnowsTable
  <2>4. QED
    BY <1>2, <2>2, <2>3 DEF TablesInv
<1>6. QED
  BY <1>4, <1>5

LEMMA ParamStep ==
  ASSUME TablesInv, NEW i \in Param, NEW v \in Value, ParamSet(i, v)
  PROVE  TablesInv'
<1>1. /\ G_PARAM_VALS' = [G_PARAM_VALS EXCEPT ![i] = v]
      /\ SendParamValue(i, G_PARAM_VALS')
      /\ UNCHANGED <<tpc, listVars, G_CAP_REQ, gains, fenceVars>>
  BY DEF ParamSet
<1>2. G_PARAM_VALS \in [Param -> Value]
  BY DEF TablesInv, TablesTypeOK
<1>3. /\ G_PARAM_VALS' \in [Param -> Value]
      /\ \A j \in Param : G_PARAM_VALS'[j] = IF j = i THEN v ELSE G_PARAM_VALS[j]
  BY <1>1, <1>2
<1>4. /\ gcs' \in [Param -> Value \cup {"unknown"}]
      /\ missed' \subseteq Param
      /\ GroundKnowsTable'
  BY <1>1, <1>3, SendStep
<1>5. TablesTypeOK'
  BY <1>1, <1>3, <1>4 DEF TablesInv, TablesTypeOK, listVars, fenceVars
<1>6. QED
  BY <1>1, <1>4, <1>5, KeepStream, KeepFence DEF TablesInv

LEMMA PointStep ==
  ASSUME TablesInv, NEW pt \in FencePoint, StorePoint(pt)
  PROVE  TablesInv'
<1>1. /\ pt.idx \in FenceSlot /\ pt.idx \in Nat /\ pt.idx < FENCE_MAX
      /\ pt.count \in 0 .. MaxCount /\ pt.count \in Nat
      /\ pt.at \in Vertex
  BY TablesAssumption DEF FencePoint, FenceSlot, StorePoint
<1> DEFINE n == Larger(G_FENCE_COUNT, pt.count)
<1>2. G_FENCE_COUNT \in Nat /\ G_FENCE \in [FenceSlot -> Vertex \cup {"unset"}]
  BY DEF TablesInv, TablesTypeOK
<1>3. n \in Nat /\ G_FENCE_COUNT =< n /\ n \in {G_FENCE_COUNT, pt.count}
  BY <1>1, <1>2, LargerIsMax
<1>4. /\ G_FENCE_COUNT' \in Nat
      /\ n =< G_FENCE_COUNT' /\ pt.idx + 1 =< G_FENCE_COUNT'
      /\ G_FENCE_COUNT' \in {n, pt.idx + 1}
  <2>1. G_FENCE_COUNT' = Larger(n, pt.idx + 1)
    BY DEF StorePoint
  <2>2. pt.idx + 1 \in Nat
    BY <1>1
  <2> HIDE DEF n
  <2>3. QED
    BY <1>3, <2>1, <2>2, LargerIsMax
<1>5. /\ UNCHANGED <<tpc, paramVars, listVars, G_CAP_REQ, gains, panicked>>
      /\ G_FENCE' = [G_FENCE EXCEPT ![pt.idx] = pt.at]
  BY DEF StorePoint
<1> HIDE DEF n
<1>6. StoredIsFetchable'
  <2> SUFFICES ASSUME NEW s \in FenceSlot, G_FENCE'[s] # "unset"
               PROVE  s < G_FENCE_COUNT'
    BY DEF StoredIsFetchable
  <2>1. s \in Int
    BY DEF FenceSlot
  <2>2. CASE s = pt.idx
    BY <1>1, <1>4, <2>2
  <2>3. CASE s # pt.idx
    <3>1. G_FENCE[s] # "unset"
      BY <1>2, <1>5, <2>3
    <3>2. s < G_FENCE_COUNT
      BY <3>1 DEF TablesInv, StoredIsFetchable
    <3>3. QED
      BY <1>2, <1>3, <1>4, <2>1, <3>2
  <2>4. QED
    BY <2>2, <2>3
<1>7. CountInv'
  BY <1>1, <1>2, <1>3, <1>4, TablesAssumption DEF TablesInv, CountInv
<1>8. PanicOnlyByCount'
  BY <1>2, <1>3, <1>4, <1>5, TablesAssumption DEF TablesInv, PanicOnlyByCount
<1>9. TablesTypeOK'
  BY <1>1, <1>2, <1>4, <1>5 DEF TablesInv, TablesTypeOK, paramVars, listVars
<1>10. QED
  BY <1>5, <1>6, <1>7, <1>8, <1>9, KeepParams, KeepStream DEF TablesInv

LEMMA NextTables == TablesInv /\ [TablesNext]_tablesVars => TablesInv'
<1> SUFFICES ASSUME TablesInv, [TablesNext]_tablesVars PROVE TablesInv'
  OBVIOUS
<1>1. CASE RequestList
  <2>1. TablesTypeOK'
    BY <1>1, TablesAssumption
       DEF RequestList, TablesInv, TablesTypeOK, paramVars, fenceVars
  <2>2. StreamInv'
    BY <1>1 DEF RequestList, StreamInv
  <2>3. QED
    BY <1>1, <2>1, <2>2, KeepParams, KeepFence DEF RequestList, TablesInv
<1>2. CASE RequestCapabilities
  <2>1. TablesTypeOK'
    BY <1>2 DEF RequestCapabilities, TablesInv, TablesTypeOK, paramVars,
                listVars, fenceVars
  <2>2. QED
    BY <1>2, <2>1, KeepParams, KeepStream, KeepFence
       DEF RequestCapabilities, TablesInv
<1>3. ASSUME NEW i \in Param, RequestRead(i) PROVE TablesInv'
  <2>1. /\ SendParamValue(i, G_PARAM_VALS)
        /\ UNCHANGED <<tpc, G_PARAM_VALS, listVars, G_CAP_REQ, gains, fenceVars>>
    BY <1>3 DEF RequestRead
  <2>2. /\ gcs' \in [Param -> Value \cup {"unknown"}]
        /\ missed' \subseteq Param
        /\ GroundKnowsTable'
    BY <2>1, SendStep DEF TablesInv, TablesTypeOK
  <2>3. TablesTypeOK'
    BY <2>1, <2>2 DEF TablesInv, TablesTypeOK, listVars, fenceVars
  <2>4. QED
    BY <2>1, <2>2, <2>3, KeepStream, KeepFence DEF TablesInv
<1>4. ASSUME NEW idx \in 0 .. MaxCount, FetchPoint(idx) PROVE TablesInv'
  <2>1. FENCE_MAX < G_FENCE_COUNT
    BY <1>4, TablesAssumption DEF FetchPoint, FenceSlot, TablesInv, TablesTypeOK
  <2>2. StoredIsFetchable' /\ CountInv'
    BY <1>4 DEF FetchPoint, TablesInv, StoredIsFetchable, CountInv
  <2>3. PanicOnlyByCount'
    BY <1>4, <2>1 DEF FetchPoint, TablesInv, CountInv, PanicOnlyByCount
  <2>4. TablesTypeOK'
    BY <1>4 DEF FetchPoint, TablesInv, TablesTypeOK, paramVars, listVars
  <2>5. QED
    BY <1>4, <2>2, <2>3, <2>4, KeepParams, KeepStream
       DEF FetchPoint, TablesInv
<1>5. CASE UplinkAnswer
  <2>1. TablesTypeOK'
    BY <1>5 DEF UplinkAnswer, TablesInv, TablesTypeOK, paramVars, listVars,
                fenceVars
  <2>2. QED
    BY <1>5, <2>1, KeepParams, KeepStream, KeepFence
       DEF UplinkAnswer, TablesInv
<1>6. CASE SyncGains
  <2>1. TablesTypeOK'
    BY <1>6 DEF SyncGains, TablesInv, TablesTypeOK, paramVars, listVars, fenceVars
  <2>2. QED
    BY <1>6, <2>1, KeepParams, KeepStream, KeepFence DEF SyncGains, TablesInv
<1>7. CASE UNCHANGED tablesVars
  <2>1. TablesTypeOK'
    BY <1>7 DEF tablesVars, TablesInv, TablesTypeOK, paramVars, listVars, fenceVars
  <2>2. QED
    BY <1>7, <2>1, KeepParams, KeepStream, KeepFence DEF tablesVars, TablesInv
<1>8. QED
  BY <1>1, <1>2, <1>3, <1>4, <1>5, <1>6, <1>7, StreamStep, ParamStep, PointStep
     DEF TablesNext, TablesReceive

LEMMA TablesInvariant == TablesSpec => []TablesInv
BY InitTables, NextTables, PTL DEF TablesSpec

\* The stream's index stays within the parameter table and everything else
\* keeps its type (uplink.rs 416-433, 838-848).
THEOREM TablesTypeCorrect == TablesSpec => []TablesTypeOK
<1>1. TablesInv => TablesTypeOK
  BY DEF TablesInv
<1>2. QED
  BY TablesInvariant, <1>1, PTL

\* The ground station's picture of the parameters never contradicts the
\* table, lost frames apart (uplink.rs 416-433, 778-802, 838-848).
THEOREM GroundPicture == TablesSpec => []GroundKnowsTable
<1>1. TablesInv => GroundKnowsTable
  BY DEF TablesInv
<1>2. QED
  BY TablesInvariant, <1>1, PTL

\* The fence: what is stored can be fetched (uplink.rs 724-756), ...
THEOREM StoredCanBeFetched == TablesSpec => []StoredIsFetchable
<1>1. TablesInv => StoredIsFetchable
  BY DEF TablesInv
<1>2. QED
  BY TablesInvariant, <1>1, PTL

\* ... and the array is left only after a count above FENCE_MAX.
THEOREM FenceInRange == TablesSpec => []PanicOnlyByCount
<1>1. TablesInv => PanicOnlyByCount
  BY DEF TablesInv
<1>2. QED
  BY TablesInvariant, <1>1, PTL

\* A stream ends only with all parameters offered since the last request
\* (uplink.rs 444-449, 838-848).
THEOREM StreamIsComplete == TablesSpec => StreamOffersAll
<1>1. TablesInv /\ [TablesNext]_tablesVars =>
        [G_PARAM_REQ /\ ~G_PARAM_REQ' => offered = Param]_tablesVars
  <2> SUFFICES ASSUME TablesInv, TablesNext, G_PARAM_REQ, ~G_PARAM_REQ'
               PROVE  offered = Param
    OBVIOUS
  <2>1. CASE UplinkStream
    <3>1. G_PARAM_TX_IDX >= PARAM_COUNT
      BY <2>1 DEF UplinkStream
    <3>2. G_PARAM_TX_IDX = PARAM_COUNT
      BY <3>1, TablesAssumption DEF TablesInv, TablesTypeOK
    <3>3. QED
      BY <3>2 DEF TablesInv, StreamInv, Param
  <2>2. CASE RequestList
    BY <2>2 DEF RequestList
  <2>3. CASE UNCHANGED listVars
    BY <2>3 DEF listVars
  <2>4. QED
    BY <2>1, <2>2, <2>3 DEF TablesNext, TablesReceive, RequestCapabilities,
       RequestRead, ParamSet, StorePoint, FetchPoint, UplinkAnswer, SyncGains
<1>2. QED
  BY TablesInvariant, <1>1, PTL DEF TablesSpec, StreamOffersAll
=============================================================================
