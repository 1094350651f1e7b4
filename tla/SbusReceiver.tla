---------------------------- MODULE SbusReceiver ----------------------------
(***************************************************************************)
(* RcSbus: the driver of the RC receiver.  It looks for the header byte,   *)
(* takes a frame's worth of bytes from there, and believes them when the   *)
(* last one is the footer; there is no checksum, and a stick may well be   *)
(* where its byte looks like a header or a footer.  Its environment is a   *)
(* receiver that sends frame after frame over a line that may lose bytes.  *)
(***************************************************************************)
EXTENDS Integers, Sequences

CONSTANTS SbusByte,       \* the bytes that occur
          SBUS_HEADER, SBUS_FOOTER,
          Failsafe,       \* bytes that have bit 3 or 4 set
          Sticks,         \* bytes of the channels in a frame (22)
          MaxSbusFrames,  \* frames that the receiver sends
          MaxLost         \* bytes that the line loses

ASSUME SbusAssumption ==
  /\ {SBUS_HEADER, SBUS_FOOTER} \cup Failsafe \subseteq SbusByte
  /\ Sticks \in Nat \ {0}
  /\ {MaxSbusFrames, MaxLost} \subseteq Nat

VARIABLES
  buf,      \* buf[..fill]
  ch,       \* the channels last decoded
  fresh,
  rest,     \* what is still to come of the frame on the line
  lastSent, \* the frame on the line, or the last one
  sent,     \* frames sent
  lost,     \* bytes lost
  whole,    \* no byte of the frame on the line has been lost
  clear     \* frames without a loss and without ambiguity, up to two

lineVars == <<rest, lastSent, sent, lost, whole, clear>>
sbusVars == <<buf, ch, fresh, lineVars>>

SBUS_FRAME_LEN == Sticks + 3

\* A flag byte is a footer or one with bits of a failsafe or of a lost frame.
Frame(c, flags) == <<SBUS_HEADER>> \o c \o <<flags, SBUS_FOOTER>>

\* Nothing in the frame but its header looks like one.
Plain(frame) == \A k \in 2 .. Len(frame) : frame[k] # SBUS_HEADER

Neutral == [k \in 1 .. Sticks |-> SBUS_FOOTER]

-----------------------------------------------------------------------------
(* The driver *)

\* Bits 3 and 4 of the flags: failsafe, and frame lost.
Decode(frame) ==
  /\ ch' = SubSeq(frame, 2, Sticks + 1)
  /\ fresh' = (frame[Sticks + 2] \notin Failsafe)

\* Fault: a header byte within a frame begins a new one.
DrainRealigns(b) ==
  IF b = SBUS_HEADER
  THEN /\ buf' = <<b>>
       /\ UNCHANGED <<ch, fresh>>
  ELSE LET f == IF buf = <<>> THEN <<>> ELSE Append(buf, b) IN
       /\ buf' = IF Len(f) = SBUS_FRAME_LEN THEN <<>> ELSE f
       /\ IF Len(f) = SBUS_FRAME_LEN /\ b = SBUS_FOOTER
          THEN Decode(f) ELSE UNCHANGED <<ch, fresh>>

\* One byte of what drain reads.  The buffer is never full when a byte comes,
\* so the branch for an overflow is not taken.
Drain(b) ==
  \/ /\ buf = <<>>
     /\ b # SBUS_HEADER
     /\ UNCHANGED <<buf, ch, fresh>>
  \/ /\ buf # <<>> \/ b = SBUS_HEADER
     /\ Len(buf) + 1 < SBUS_FRAME_LEN
     /\ buf' = Append(buf, b)
     /\ UNCHANGED <<ch, fresh>>
  \/ /\ Len(buf) + 1 = SBUS_FRAME_LEN
     /\ buf' = <<>>
     /\ IF b = SBUS_FOOTER THEN Decode(Append(buf, b)) ELSE UNCHANGED <<ch, fresh>>

\* read: what the sensors task gets after any number of bytes.
RcInput == IF fresh THEN ch ELSE Neutral

-----------------------------------------------------------------------------
(* The receiver and the line *)

SendFrame(c, flags) ==
  /\ rest = <<>>
  /\ sent < MaxSbusFrames
  /\ sent' = sent + 1
  /\ lastSent' = Frame(c, flags)
  /\ rest' = lastSent'
  /\ whole' = TRUE
  /\ UNCHANGED <<buf, ch, fresh, lost, clear>>

ByteArrives ==
  /\ rest # <<>>
  /\ Drain(Head(rest))
  /\ rest' = Tail(rest)
  /\ clear' = IF rest' = <<>> /\ whole /\ clear < 2
              THEN IF Plain(lastSent) THEN clear + 1 ELSE 0
              ELSE clear
  /\ UNCHANGED <<lastSent, sent, lost, whole>>

ByteLost ==
  /\ rest # <<>>
  /\ lost < MaxLost
  /\ lost' = lost + 1
  /\ rest' = Tail(rest)
  /\ whole' = FALSE
  /\ clear' = 0
  /\ UNCHANGED <<buf, ch, fresh, lastSent, sent>>

\* A read that finds nothing.
SbusEmpty == UNCHANGED sbusVars

SbusInit ==
  /\ buf = <<>>
  /\ ch = Neutral
  /\ fresh = FALSE
  /\ rest = <<>>
  /\ lastSent = <<>>
  /\ sent = 0
  /\ lost = 0
  /\ whole = TRUE
  /\ clear = 2

SbusNext ==
  \/ \E c \in [1 .. Sticks -> SbusByte], flags \in Failsafe \cup {SBUS_FOOTER} :
       SendFrame(c, flags)
  \/ ByteArrives \/ ByteLost \/ SbusEmpty

SbusSpec == SbusInit /\ [][SbusNext]_sbusVars

-----------------------------------------------------------------------------
(* Properties *)

\* Between two frames the sensors task gets what the last one said, and
\* neutral sticks if it reported a failsafe, although any stick may look like
\* a header or a footer: from the start as long as no byte is lost, and
\* after a loss again from the second frame that no stick makes ambiguous.
FollowsReceiver ==
  clear = 2 /\ rest = <<>> /\ lastSent # <<>> =>
    RcInput = IF lastSent[Sticks + 2] \in Failsafe
              THEN Neutral ELSE SubSeq(lastSent, 2, Sticks + 1)
=============================================================================
