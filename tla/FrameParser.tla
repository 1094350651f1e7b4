----------------------------- MODULE FrameParser -----------------------------
(***************************************************************************)
(* FxParser of the uplink task: MAVLink v2 frames put together from the    *)
(* bytes that usb0 delivers, in reads of any length.  A frame is the magic *)
(* byte, a header whose first byte is the length of the payload, the       *)
(* payload, and a checksum, which mavlink::decode looks at afterwards.     *)
(***************************************************************************)
EXTENDS Integers, Sequences

CONSTANTS Byte,
          MAVLINK_MAGIC,
          HEADER_LEN,     \* bytes of the header after the magic one (nine)
          CRC_LEN,        \* bytes of the checksum (two)
          MAX_FRAME_LEN,  \* bytes of the buffer
          MaxStream       \* bytes that arrive

ASSUME FrameAssumption ==
  /\ Byte \subseteq Nat
  /\ MAVLINK_MAGIC \in Byte
  /\ HEADER_LEN \in Nat \ {0}
  /\ CRC_LEN \in Nat \ {0}
  /\ MAX_FRAME_LEN \in Nat
  /\ 1 + HEADER_LEN + CRC_LEN =< MAX_FRAME_LEN
  /\ MaxStream \in Nat

VARIABLES
  fxState,   \* FxState
  data,      \* frame.data[..frame.len]
  need,      \* bytes still to come in this state
  received,  \* all bytes that arrived
  routed     \* all frames handed to route_frame

frameVars == <<fxState, data, need, received, routed>>

\* What a frame with this length byte amounts to.
Total(plen) == 1 + HEADER_LEN + plen + CRC_LEN

-----------------------------------------------------------------------------

FrameInit ==
  /\ fxState = "Idle"
  /\ data = <<>>
  /\ need = 0
  /\ received = <<>>
  /\ routed = <<>>

Reset ==
  /\ fxState' = "Idle"
  /\ data' = <<>>
  /\ need' = 0

\* Bytes that do not begin a frame are dropped.
FeedIdle(b) ==
  /\ fxState = "Idle"
  /\ \/ /\ b = MAVLINK_MAGIC
        /\ fxState' = "Header"
        /\ data' = <<b>>
        /\ need' = HEADER_LEN
     \/ /\ b # MAVLINK_MAGIC
        /\ UNCHANGED <<fxState, data, need>>
  /\ UNCHANGED routed

\* Fault: the length is believed, whatever it is.
FeedHeaderUnchecked(b) ==
  /\ fxState = "Header"
  /\ data' = Append(data, b)
  /\ need' = IF need > 1 THEN need - 1 ELSE Total(data'[2]) - Len(data')
  /\ fxState' = IF need > 1 THEN "Header" ELSE "Payload"
  /\ UNCHANGED routed

\* Fault: a magic byte in the header is taken for the beginning of a frame.
FeedHeaderRestarts(b) ==
  /\ fxState = "Header"
  /\ IF b = MAVLINK_MAGIC
     THEN data' = <<b>> /\ need' = HEADER_LEN /\ UNCHANGED fxState
     ELSE /\ data' = Append(data, b)
          /\ need' = IF need > 1 THEN need - 1 ELSE Total(data'[2]) - Len(data')
          /\ fxState' = IF need > 1 THEN "Header" ELSE "Payload"
  /\ UNCHANGED routed

\* The length byte is looked at when the header is complete.
FeedHeader(b) ==
  /\ fxState = "Header"
  /\ LET d == Append(data, b) IN
     \/ /\ need > 1
        /\ data' = d
        /\ need' = need - 1
        /\ UNCHANGED fxState
     \/ /\ need = 1
        /\ Total(d[2]) =< MAX_FRAME_LEN
        /\ data' = d
        /\ need' = Total(d[2]) - Len(d)
        /\ fxState' = "Payload"
     \/ /\ need = 1
        /\ Total(d[2]) > MAX_FRAME_LEN
        /\ Reset
  /\ UNCHANGED routed

FeedPayload(b) ==
  /\ fxState = "Payload"
  /\ LET d == Append(data, b) IN
     \/ /\ need > 1
        /\ data' = d
        /\ need' = need - 1
        /\ UNCHANGED <<fxState, routed>>
     \/ /\ need = 1
        /\ routed' = Append(routed, d)
        /\ Reset

\* One byte of a read; how the bytes are spread over reads makes no difference.
FeedByte(b) ==
  /\ Len(received) < MaxStream
  /\ received' = Append(received, b)
  /\ FeedIdle(b) \/ FeedHeader(b) \/ FeedPayload(b)

\* poll_read when usb0 has nothing, or an error.
PollEmpty == UNCHANGED frameVars

FrameNext == PollEmpty \/ \E b \in Byte : FeedByte(b)

FrameSpec == FrameInit /\ [][FrameNext]_frameVars

-----------------------------------------------------------------------------
(* Properties *)

\* The frames in a stream, cut from the left: a frame goes from a magic byte
\* for as long as its length says; a header with an impossible length is
\* skipped; a frame that is not complete yet does not count.
CutFrom(stream) ==
  LET from[i \in 1 .. Len(stream) + 1] ==
        LET rest == Len(stream) - i + 1 IN
        IF rest =< HEADER_LEN THEN <<>>
        ELSE IF stream[i] # MAVLINK_MAGIC THEN from[i + 1]
        ELSE LET n == Total(stream[i + 1]) IN
             IF n > MAX_FRAME_LEN THEN from[i + 1 + HEADER_LEN]
             ELSE IF n > rest THEN <<>>
             ELSE <<SubSeq(stream, i, i + n - 1)>> \o from[i + n]
  IN from

Cut(stream) == CutFrom(stream)[1]

FrameTypeOK ==
  /\ fxState \in {"Idle", "Header", "Payload"}
  /\ data \in Seq(Byte)
  /\ need \in Nat
  /\ received \in Seq(Byte)
  /\ routed \in Seq(Seq(Byte))

\* Byte by byte the parser finds exactly the frames that a look at the whole
\* stream finds, whatever noise and whatever damaged lengths are in between.
FramesAreCuts == routed = Cut(received)

\* The last n bytes held no magic byte.
Quiet(n) ==
  /\ n =< Len(received)
  /\ \A i \in Len(received) - n + 1 .. Len(received) : received[i] # MAVLINK_MAGIC

\* A damaged length makes the parser swallow what follows, but not for long:
\* after one buffer's worth of bytes without a magic byte it is ready for the
\* next frame.
QuietResyncs == Quiet(MAX_FRAME_LEN - 1) => fxState = "Idle"
=============================================================================
