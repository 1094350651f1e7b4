---------------------------- MODULE GroundTables ----------------------------
(***************************************************************************)
(* The two tables that the ground station writes and reads back through    *)
(* the uplink task: the parameters, which control copies into its gains at *)
(* the start of each cycle, and the fence.  Answers go out by send_frame,  *)
(* which drops a frame when the transmit ring is full.  One turn of the    *)
(* uplink loop handles the frames it has read, offers at most one          *)
(* parameter of a stream that was asked for, and answers a capability      *)
(* request.  Control may run between any two steps.                        *)
(***************************************************************************)
EXTENDS Integers

CONSTANTS PARAM_COUNT,  \* parameters (five in the code)
          Legal,        \* values between PARAM_MIN and PARAM_MAX
          Default,      \* what init_param_defaults stores
          FENCE_MAX,    \* slots of the fence (64 in the code)
          MaxCount,     \* the largest count that a FENCE_POINT brings
          Vertex        \* positions of a fence vertex

ASSUME TablesAssumption ==
  /\ PARAM_COUNT \in Nat \ {0}
  /\ Default \in Legal
  /\ {"low", "high", "NaN", "unknown"} \cap Legal = {}
  /\ FENCE_MAX \in Nat \ {0}
  /\ MaxCount \in Nat
  /\ "unset" \notin Vertex

VARIABLES
  tpc,            \* where uplink stands in its turn
  G_PARAM_VALS,   \* the parameter table
  G_PARAM_REQ,    \* a stream of all parameters is asked for
  G_PARAM_TX_IDX, \* the parameter it offers next
  G_CAP_REQ,      \* the capabilities are asked for
  gains,          \* control: the gains of its last cycle
  G_FENCE, G_FENCE_COUNT,
  panicked,       \* an index was out of range
  gcs,            \* for each parameter the value last received on the ground
  missed,         \* the parameters whose last PARAM_VALUE was dropped
  offered         \* the parameters the stream offered since the last request

paramVars  == <<G_PARAM_VALS, gcs, missed>>
listVars == <<G_PARAM_REQ, G_PARAM_TX_IDX, offered>>
fenceVars  == <<G_FENCE, G_FENCE_COUNT, panicked>>
tablesVars == <<tpc, paramVars, listVars, G_CAP_REQ, gains, fenceVars>>

-----------------------------------------------------------------------------
(* Data *)

Param == 0 .. PARAM_COUNT - 1

\* A 32-bit float as PARAM_SET's range check sees it.
Value == Legal \cup {"low", "high", "NaN"}

\* `v < PARAM_MIN[i] || v > PARAM_MAX[i]`: of NaN both comparisons are false.
OutOfRange(v) == v \in {"low", "high"}

FenceSlot == 0 .. FENCE_MAX - 1

\* FENCE_POINT: the index of the vertex, the total it belongs to, where it is.
FencePoint == [idx : 0 .. FENCE_MAX, count : 0 .. MaxCount, at : Vertex]

Larger(m, n) == IF m < n THEN n ELSE m

-----------------------------------------------------------------------------
(* Parameters *)

\* param_value: what it sends is the value in the table; the ring may be full.
SendParamValue(i, vals) ==
  \/ /\ gcs' = [gcs EXCEPT ![i] = vals[i]]
     /\ missed' = missed \ {i}
  \/ /\ missed' = missed \cup {i}
     /\ UNCHANGED gcs

\* Fault: a request in the middle of a stream goes on where the stream is.
RequestListKeepsIndex ==
  /\ tpc = "poll"
  /\ G_PARAM_REQ' = TRUE
  /\ offered' = {}
  /\ UNCHANGED <<tpc, paramVars, G_PARAM_TX_IDX, G_CAP_REQ, gains, fenceVars>>

\* PARAM_REQUEST_LIST
RequestList ==
  /\ tpc = "poll"
  /\ G_PARAM_REQ' = TRUE
  /\ G_PARAM_TX_IDX' = 0
  /\ offered' = {}
  /\ UNCHANGED <<tpc, paramVars, G_CAP_REQ, gains, fenceVars>>

\* PARAM_REQUEST_READ of a name that find_param knows.
RequestRead(i) ==
  /\ tpc = "poll"
  /\ SendParamValue(i, G_PARAM_VALS)
  /\ UNCHANGED <<tpc, G_PARAM_VALS, listVars, G_CAP_REQ, gains, fenceVars>>

\* Fault: the new value is not sent back.
ParamSetSilent(i, v) ==
  /\ tpc = "poll"
  /\ ~OutOfRange(v)
  /\ G_PARAM_VALS' = [G_PARAM_VALS EXCEPT ![i] = v]
  /\ UNCHANGED <<tpc, gcs, missed, listVars, G_CAP_REQ, gains, fenceVars>>

\* PARAM_SET within the range; outside it is answered with FAILED only.
ParamSet(i, v) ==
  /\ tpc = "poll"
  /\ ~OutOfRange(v)
  /\ G_PARAM_VALS' = [G_PARAM_VALS EXCEPT ![i] = v]
  /\ SendParamValue(i, G_PARAM_VALS')
  /\ UNCHANGED <<tpc, listVars, G_CAP_REQ, gains, fenceVars>>

\* Fault: the request is not taken back at the end of the table.
UplinkStreamEndless ==
  /\ tpc = "poll"
  /\ tpc' = "answer"
  /\ IF G_PARAM_REQ /\ G_PARAM_TX_IDX < PARAM_COUNT
     THEN /\ SendParamValue(G_PARAM_TX_IDX, G_PARAM_VALS)
          /\ G_PARAM_TX_IDX' = G_PARAM_TX_IDX + 1
          /\ offered' = offered \cup {G_PARAM_TX_IDX}
          /\ UNCHANGED G_PARAM_REQ
     ELSE UNCHANGED <<gcs, missed, listVars>>
  /\ UNCHANGED <<G_PARAM_VALS, G_CAP_REQ, gains, fenceVars>>

\* Fault: the end of the table is seen one parameter too late.
UplinkStreamOneMore ==
  /\ tpc = "poll"
  /\ tpc' = "answer"
  /\ G_PARAM_REQ
  /\ G_PARAM_TX_IDX =< PARAM_COUNT
  /\ G_PARAM_TX_IDX' = G_PARAM_TX_IDX + 1
  /\ UNCHANGED <<G_PARAM_REQ, offered, paramVars, G_CAP_REQ, gains, fenceVars>>

\* The stream goes on to the next parameter whether or not the frame went out.
UplinkStream ==
  /\ tpc = "poll"
  /\ tpc' = "answer"
  /\ \/ /\ G_PARAM_REQ
        /\ G_PARAM_TX_IDX < PARAM_COUNT
        /\ SendParamValue(G_PARAM_TX_IDX, G_PARAM_VALS)
        /\ G_PARAM_TX_IDX' = G_PARAM_TX_IDX + 1
        /\ offered' = offered \cup {G_PARAM_TX_IDX}
        /\ UNCHANGED G_PARAM_REQ
     \/ /\ G_PARAM_REQ
        /\ G_PARAM_TX_IDX >= PARAM_COUNT
        /\ G_PARAM_REQ' = FALSE
        /\ UNCHANGED <<gcs, missed, G_PARAM_TX_IDX, offered>>
     \/ /\ ~G_PARAM_REQ
        /\ UNCHANGED <<gcs, missed, listVars>>
  /\ UNCHANGED <<G_PARAM_VALS, G_CAP_REQ, gains, fenceVars>>

\* sync_gains_to_pid, at the start of a cycle of control.
SyncGains ==
  /\ gains' = G_PARAM_VALS
  /\ UNCHANGED <<tpc, paramVars, listVars, G_CAP_REQ, fenceVars>>

-----------------------------------------------------------------------------
(* Capabilities *)

\* COMMAND_LONG(REQUEST_AUTOPILOT_CAPABILITIES)
RequestCapabilities ==
  /\ tpc = "poll"
  /\ G_CAP_REQ' = TRUE
  /\ UNCHANGED <<tpc, paramVars, listVars, gains, fenceVars>>

\* AUTOPILOT_VERSION if it is asked for, and the end of the turn.
UplinkAnswer ==
  /\ tpc = "answer"
  /\ tpc' = "poll"
  /\ G_CAP_REQ' = FALSE
  /\ UNCHANGED <<paramVars, listVars, gains, fenceVars>>

-----------------------------------------------------------------------------
(* The fence *)

\* Fault: the count is what the messages say, whatever is stored.
StorePointCountOnly(pt) ==
  /\ tpc = "poll"
  /\ pt.idx < FENCE_MAX
  /\ G_FENCE' = [G_FENCE EXCEPT ![pt.idx] = pt.at]
  /\ G_FENCE_COUNT' = Larger(G_FENCE_COUNT, pt.count)
  /\ UNCHANGED <<tpc, paramVars, listVars, G_CAP_REQ, gains, panicked>>

\* Fault: the index of a vertex is not checked before it is used.
StorePointUnchecked(pt) ==
  /\ tpc = "poll"
  /\ \/ /\ pt.idx \in FenceSlot
        /\ G_FENCE' = [G_FENCE EXCEPT ![pt.idx] = pt.at]
        /\ G_FENCE_COUNT' = Larger(Larger(G_FENCE_COUNT, pt.count), pt.idx + 1)
        /\ UNCHANGED <<tpc, panicked>>
     \/ /\ pt.idx \notin FenceSlot
        /\ panicked' = TRUE
        /\ tpc' = "panic"
        /\ UNCHANGED <<G_FENCE, G_FENCE_COUNT>>
  /\ UNCHANGED <<paramVars, listVars, G_CAP_REQ, gains>>

\* FENCE_POINT: stored at its index; the count only ever grows.
StorePoint(pt) ==
  /\ tpc = "poll"
  /\ pt.idx < FENCE_MAX
  /\ G_FENCE' = [G_FENCE EXCEPT ![pt.idx] = pt.at]
  /\ G_FENCE_COUNT' = Larger(Larger(G_FENCE_COUNT, pt.count), pt.idx + 1)
  /\ UNCHANGED <<tpc, paramVars, listVars, G_CAP_REQ, gains, panicked>>

\* FENCE_FETCH_POINT: an answer, which changes nothing, or an index that
\* passes the check against the count and is out of the array's bounds.
FetchPoint(idx) ==
  /\ tpc = "poll"
  /\ idx < G_FENCE_COUNT
  /\ idx \notin FenceSlot
  /\ panicked' = TRUE
  /\ tpc' = "panic"
  /\ UNCHANGED <<paramVars, listVars, G_CAP_REQ, gains, G_FENCE, G_FENCE_COUNT>>

-----------------------------------------------------------------------------

TablesInit ==
  /\ tpc = "poll"
  /\ G_PARAM_VALS = [i \in Param |-> Default]
  /\ G_PARAM_REQ = FALSE
  /\ G_PARAM_TX_IDX = 0
  /\ G_CAP_REQ = FALSE
  /\ gains = [i \in Param |-> Default]
  /\ G_FENCE = [s \in FenceSlot |-> "unset"]
  /\ G_FENCE_COUNT = 0
  /\ panicked = FALSE
  /\ gcs = [i \in Param |-> "unknown"]
  /\ missed = {}
  /\ offered = {}

TablesReceive ==
  \/ RequestList
  \/ RequestCapabilities
  \/ \E i \in Param : RequestRead(i)
  \/ \E i \in Param, v \in Value : ParamSet(i, v)
  \/ \E pt \in FencePoint : StorePoint(pt)
  \/ \E idx \in 0 .. MaxCount : FetchPoint(idx)

\* A panic ends the program.
TablesNext ==
  /\ ~panicked
  /\ TablesReceive \/ UplinkStream \/ UplinkAnswer \/ SyncGains

TablesSpec == TablesInit /\ [][TablesNext]_tablesVars

\* The loop of uplink sleeps between its turns and wakes again.
TablesFairSpec ==
  TablesSpec /\ WF_tablesVars(UplinkStream) /\ WF_tablesVars(UplinkAnswer)

-----------------------------------------------------------------------------
(* Properties *)

\* Every variable keeps its type: the stream's index stays within the table.
TablesTypeOK ==
  /\ tpc \in {"poll", "answer", "panic"}
  /\ G_PARAM_VALS \in [Param -> Value]
  /\ G_PARAM_REQ \in BOOLEAN
  /\ G_PARAM_TX_IDX \in 0 .. PARAM_COUNT
  /\ G_CAP_REQ \in BOOLEAN
  /\ gains \in [Param -> Value]
  /\ G_FENCE \in [FenceSlot -> Vertex \cup {"unset"}]
  /\ G_FENCE_COUNT \in Nat
  /\ panicked \in BOOLEAN
  /\ gcs \in [Param -> Value \cup {"unknown"}]
  /\ missed \subseteq Param
  /\ offered \subseteq Param

\* What uplink.rs 311-312 says of the range check: a value out of its range is
\* refused, and control never flies with an illegal gain, whatever PARAM_SETs
\* arrive and whenever it copies the table.
GainsLegal == \A i \in Param : gains[i] \in Legal

\* What the ground station knows of a parameter is what the table holds,
\* whether it came by a stream, a read or the answer to a PARAM_SET, unless
\* it knows nothing or the last PARAM_VALUE was dropped by a full ring.
GroundKnowsTable ==
  \A i \in Param \ missed : gcs[i] \in {"unknown", G_PARAM_VALS[i]}

\* A stream ends only when it has offered every parameter since the last
\* PARAM_REQUEST_LIST, also when that came in the middle of a stream.
StreamOffersAll ==
  [][G_PARAM_REQ /\ ~G_PARAM_REQ' => offered = Param]_tablesVars

\* When no more PARAM_REQUEST_LISTs arrive, the stream comes to its end, even
\* if every frame is dropped.
StreamEnds ==
  <>[][~RequestList]_tablesVars => <>(panicked \/ []~G_PARAM_REQ)

\* Every vertex that was stored can be fetched, in whatever order and with
\* whatever counts the FENCE_POINTs arrived, and repeated or lost ones too.
StoredIsFetchable == \A s \in FenceSlot : G_FENCE[s] # "unset" => s < G_FENCE_COUNT

\* An index of the fence is out of range only after a FENCE_POINT has brought
\* a count that no fence of FENCE_MAX vertices has.
PanicOnlyByCount == panicked => G_FENCE_COUNT > FENCE_MAX /\ MaxCount > FENCE_MAX
=============================================================================
