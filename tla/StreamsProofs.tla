----------------------------- MODULE StreamsProofs ----------------------------
(***************************************************************************)
(* Proofs about the inputs of the application: the uplink's frame parser,  *)
(* the RC receiver, the GPS driver and the sensor stack, each for every    *)
(* value of its constants, and that Streams composes them.                 *)
(***************************************************************************)
EXTENDS Streams, SequenceTheorems, WellFoundedInduction, TLAPS

(* Induction *)

\* Natural numbers are well founded; the library says it with a relation.
LEMMA LeastNat ==
  ASSUME NEW T, T \subseteq Nat, T # {}
  PROVE  \E x \in T : \A y \in T : x =< y
<1> DEFINE R == OpToRel(<, Nat)
<1>1. IsWellFoundedOn(R, Nat)
  BY NatLessThanWellFounded
<1>2. \E x \in T : \A y \in T : ~(<<y, x>> \in R)
  <2> HIDE DEF R
  <2> QED
    BY <1>1, WFMin, Zenon
<1>3. PICK x \in T : \A y \in T : ~(<<y, x>> \in R)
  BY <1>2
<1>4. \A y \in Nat : y < x => <<y, x>> \in R
  BY DEF OpToRel
<1>5. ASSUME NEW y \in T PROVE x =< y
  <2> HIDE DEF R
  <2>1. ~(y < x)
    BY <1>3, <1>4
  <2>2. x \in Nat /\ y \in Nat
    OBVIOUS
  <2>3. QED
    BY <2>1, <2>2
<1>6. QED
  BY <1>5

\* What follows from its being so at all later places is so everywhere.
LEMMA FromTheEnd ==
  ASSUME NEW a \in Nat, NEW b \in Nat, NEW S,
         \A i \in a .. b : (\A j \in i + 1 .. b : j \in S) => i \in S
  PROVE  \A i \in a .. b : i \in S
<1> DEFINE T == {k \in Nat : b - k \in a .. b /\ b - k \notin S}
<1>1. SUFFICES ASSUME T # {} PROVE FALSE
  <2>1. \A i \in a .. b : b - i \in Nat /\ b - (b - i) = i
    OBVIOUS
  <2>2. QED
    BY <1>1, <2>1
<1>2. PICK x \in T : \A y \in T : x =< y
  <2> HIDE DEF T
  <2>1. T \subseteq Nat
    BY DEF T
  <2> QED
    BY <1>1, <2>1, LeastNat
<1>3. ASSUME NEW j \in b - x + 1 .. b PROVE j \in S
  <2>1. b - j \in Nat /\ b - (b - j) = j /\ j \in a .. b /\ ~(x =< b - j)
    OBVIOUS
  <2>2. QED
    BY <1>2, <2>1
<1>4. QED
  BY <1>3

-----------------------------------------------------------------------------
(* FrameParser: what it holds *)

\* A frame that has been begun fits into the buffer, and its magic byte is as
\* far back in the stream as the parser has bytes of it.
BegunInv ==
  fxState # "Idle" =>
    /\ need >= 1
    /\ Len(data) >= 1
    /\ Len(data) =< Len(received)
    /\ Len(data) + need =< MAX_FRAME_LEN
    /\ received[Len(received) - Len(data) + 1] = MAVLINK_MAGIC

HeaderInv == fxState = "Header" => Len(data) + need = 1 + HEADER_LEN

IdleInv == fxState = "Idle" => data = <<>>

FrameInv == FrameTypeOK /\ BegunInv /\ HeaderInv /\ IdleInv

LEMMA FrameStarts == FrameInit => FrameInv
BY DEF FrameInit, FrameInv, FrameTypeOK, BegunInv, HeaderInv, IdleInv

\* The magic byte of a frame that has been begun stays where it is while both
\* the stream and the frame become longer by one.
LEMMA MagicStays ==
  ASSUME FrameInv, fxState # "Idle", NEW b \in Byte,
         received' = Append(received, b), Len(data') = Len(data) + 1
  PROVE  /\ Len(data') =< Len(received')
         /\ received'[Len(received') - Len(data') + 1] = MAVLINK_MAGIC
<1>1. /\ received \in Seq(Byte) /\ Len(received) \in Nat
      /\ data \in Seq(Byte) /\ Len(data) \in Nat
  BY DEF FrameInv, FrameTypeOK
<1>2. Len(received') = Len(received) + 1
  BY <1>1
<1>3. Len(received) - Len(data) + 1 \in 1 .. Len(received)
  BY <1>1 DEF FrameInv, BegunInv
<1>4. Len(received') - Len(data') + 1 = Len(received) - Len(data) + 1
  BY <1>1, <1>2
<1>5. received'[Len(received) - Len(data) + 1] = received[Len(received) - Len(data) + 1]
  BY <1>1, <1>3
<1>6. QED
  BY <1>1, <1>2, <1>4, <1>5 DEF FrameInv, BegunInv

LEMMA IdleStep ==
  ASSUME FrameInv, NEW b \in Byte, FeedIdle(b), received' = Append(received, b)
  PROVE  FrameInv'
<1>1. received' \in Seq(Byte) /\ Len(received') = Len(received) + 1
      /\ received'[Len(received')] = b /\ Len(received) \in Nat
  BY DEF FrameInv, FrameTypeOK
<1>2. FrameTypeOK'
  <2>1. <<b>> \in Seq(Byte)
    OBVIOUS
  <2>2. HEADER_LEN \in Nat
    BY FrameAssumption
  <2>3. data' \in Seq(Byte) /\ need' \in Nat /\ fxState' \in {"Idle", "Header", "Payload"}
    BY <2>1, <2>2 DEF FrameInv, FrameTypeOK, FeedIdle
  <2>4. routed' \in Seq(Seq(Byte))
    BY DEF FrameInv, FrameTypeOK, FeedIdle
  <2>5. QED
    BY <1>1, <2>3, <2>4 DEF FrameTypeOK
<1>3. CASE b = MAVLINK_MAGIC
  <2>1. data' = <<b>> /\ need' = HEADER_LEN /\ fxState' = "Header"
    BY <1>3 DEF FeedIdle
  <2>2. Len(data') = 1
    BY <2>1
  <2>3. Len(received') - Len(data') + 1 = Len(received')
    BY <1>1, <2>2
  <2>4. BegunInv'
    BY <1>1, <1>3, <2>1, <2>2, <2>3, FrameAssumption DEF BegunInv
  <2>5. QED
    BY <1>2, <2>1, <2>2, <2>4 DEF FrameInv, HeaderInv, IdleInv
<1>4. CASE b # MAVLINK_MAGIC
  BY <1>2, <1>4 DEF FeedIdle, FrameInv, BegunInv, HeaderInv, IdleInv
<1>5. QED
  BY <1>3, <1>4

LEMMA HeaderStep ==
  ASSUME FrameInv, NEW b \in Byte, FeedHeader(b), received' = Append(received, b)
  PROVE  FrameInv'
<1> DEFINE d == Append(data, b)
<1>1. /\ data \in Seq(Byte) /\ Len(data) \in Nat /\ need \in Nat
      /\ received' \in Seq(Byte) /\ d \in Seq(Byte) /\ Len(d) = Len(data) + 1
  BY DEF FrameInv, FrameTypeOK
<1>2. /\ fxState = "Header" /\ need >= 1 /\ Len(data) >= 1
      /\ Len(data) + need = 1 + HEADER_LEN
  BY DEF FeedHeader, FrameInv, BegunInv, HeaderInv, IdleInv
<1>3. CASE need > 1
  <2>1. data' = d /\ need' = need - 1 /\ fxState' = "Header" /\ routed' = routed
    BY <1>2, <1>3 DEF FeedHeader
  <2>2. FrameTypeOK'
    BY <1>1, <1>3, <2>1 DEF FrameInv, FrameTypeOK
  <2>3. BegunInv'
    BY <1>1, <1>2, <1>3, <2>1, MagicStays, FrameAssumption DEF FrameInv, BegunInv
  <2>4. QED
    BY <1>1, <1>2, <2>1, <2>2, <2>3 DEF FrameInv, HeaderInv, IdleInv
<1>4. ASSUME need = 1 PROVE Len(d) = 1 + HEADER_LEN /\ Total(d[2]) \in Nat
                              /\ Total(d[2]) > Len(d)
  <2>1. Len(d) = 1 + HEADER_LEN /\ 2 \in 1 .. Len(d)
    BY <1>1, <1>2, <1>4, FrameAssumption
  <2> HIDE DEF d
  <2>2. d[2] \in Byte
    BY <1>1, <2>1
  <2>3. d[2] \in Nat
    BY <2>2, FrameAssumption
  <2>4. QED
    BY <2>1, <2>3, FrameAssumption DEF Total
<1>5. CASE need = 1 /\ data' = d
  <2>1. /\ Total(d[2]) =< MAX_FRAME_LEN /\ need' = Total(d[2]) - Len(d)
        /\ fxState' = "Payload" /\ routed' = routed
    <3>1. data' # <<>>
      BY <1>1, <1>5
    <3>2. ~(need > 1)
      BY <1>5
    <3> HIDE DEF d
    <3>3. QED
      BY <1>5, <3>1, <3>2, Zenon DEF FeedHeader, Reset
  <2>2. need' \in Nat /\ need' >= 1 /\ Len(d) + need' =< MAX_FRAME_LEN
    <3> DEFINE t == Total(d[2])
    <3>1. t \in Nat /\ Len(d) \in Nat /\ t > Len(d)
      BY <1>1, <1>4, <1>5, FrameAssumption
    <3>2. t =< MAX_FRAME_LEN /\ need' = t - Len(d)
      BY <2>1
    <3> HIDE DEF t, d
    <3>3. QED
      BY <3>1, <3>2, FrameAssumption
  <2>3. FrameTypeOK'
    BY <1>1, <1>5, <2>1, <2>2 DEF FrameInv, FrameTypeOK
  <2>4. BegunInv'
    BY <1>1, <1>2, <1>5, <2>1, <2>2, MagicStays DEF BegunInv
  <2>5. QED
    BY <2>1, <2>3, <2>4 DEF FrameInv, HeaderInv, IdleInv
<1>6. CASE need = 1 /\ data' # d
  <2>1. data' = <<>> /\ need' = 0 /\ fxState' = "Idle" /\ routed' = routed
    BY <1>6 DEF FeedHeader, Reset
  <2>2. QED
    BY <1>1, <2>1 DEF FrameInv, FrameTypeOK, BegunInv, HeaderInv, IdleInv
<1>7. QED
  BY <1>3, <1>5, <1>6 DEF FeedHeader

LEMMA PayloadStep ==
  ASSUME FrameInv, NEW b \in Byte, FeedPayload(b), received' = Append(received, b)
  PROVE  FrameInv'
<1> DEFINE d == Append(data, b)
<1>1. /\ data \in Seq(Byte) /\ Len(data) \in Nat /\ need \in Nat
      /\ received' \in Seq(Byte) /\ d \in Seq(Byte) /\ Len(d) = Len(data) + 1
  BY DEF FrameInv, FrameTypeOK
<1>2. fxState = "Payload" /\ need >= 1 /\ Len(data) >= 1
  BY DEF FeedPayload, FrameInv, BegunInv
<1>3. CASE need > 1
  <2>1. data' = d /\ need' = need - 1 /\ fxState' = "Payload" /\ routed' = routed
    BY <1>2, <1>3 DEF FeedPayload
  <2>2. FrameTypeOK'
    BY <1>1, <1>3, <2>1 DEF FrameInv, FrameTypeOK
  <2>3. BegunInv'
    BY <1>1, <1>2, <1>3, <2>1, MagicStays, FrameAssumption DEF FrameInv, BegunInv
  <2>4. QED
    BY <2>1, <2>2, <2>3 DEF FrameInv, HeaderInv, IdleInv
<1>4. CASE need = 1
  <2>1. data' = <<>> /\ need' = 0 /\ fxState' = "Idle" /\ routed' = Append(routed, d)
    BY <1>4 DEF FeedPayload, Reset
  <2>2. routed' \in Seq(Seq(Byte))
    BY <1>1, <2>1 DEF FrameInv, FrameTypeOK
  <2>3. QED
    BY <1>1, <2>1, <2>2 DEF FrameInv, FrameTypeOK, BegunInv, HeaderInv, IdleInv
<1>5. QED
  BY <1>1, <1>2, <1>3, <1>4

LEMMA FrameInvariant == FrameSpec => []FrameInv
<1>1. FrameInv /\ [FrameNext]_frameVars => FrameInv'
  <2> SUFFICES ASSUME FrameInv, [FrameNext]_frameVars PROVE FrameInv'
    OBVIOUS
  <2>1. CASE UNCHANGED frameVars
    BY <2>1 DEF frameVars, FrameInv, FrameTypeOK, BegunInv, HeaderInv, IdleInv
  <2>2. ASSUME NEW b \in Byte, FeedByte(b) PROVE FrameInv'
    BY <2>2, IdleStep, HeaderStep, PayloadStep DEF FeedByte
  <2>3. QED
    BY <2>1, <2>2 DEF FrameNext, PollEmpty
<1>2. QED
  BY FrameStarts, <1>1, PTL DEF FrameSpec

\* After one buffer's worth of bytes without a magic byte the parser looks
\* for the next frame, whatever came before (uplink.rs 239-298).
THEOREM ParserResyncs == FrameSpec => []QuietResyncs
<1>1. FrameInv => QuietResyncs
  <2> SUFFICES ASSUME FrameInv, Quiet(MAX_FRAME_LEN - 1), fxState # "Idle"
               PROVE  FALSE
    BY DEF QuietResyncs
  <2> DEFINE at == Len(received) - Len(data) + 1
  <2>1. Len(received) \in Nat /\ Len(data) \in Nat /\ need \in Nat
    BY DEF FrameInv, FrameTypeOK
  <2>2. at \in Len(received) - (MAX_FRAME_LEN - 1) + 1 .. Len(received)
    BY <2>1, FrameAssumption DEF FrameInv, BegunInv
  <2>3. received[at] # MAVLINK_MAGIC
    BY <2>2 DEF Quiet
  <2>4. QED
    BY <2>3 DEF FrameInv, BegunInv
<1>2. QED
  BY FrameInvariant, <1>1, PTL

\* No frame outgrows the buffer that holds it (uplink.rs 258-267).
THEOREM FrameFits == FrameSpec => [](Len(data) =< MAX_FRAME_LEN)
<1>1. FrameInv => Len(data) =< MAX_FRAME_LEN
  BY FrameAssumption DEF FrameInv, FrameTypeOK, BegunInv, IdleInv
<1>2. QED
  BY FrameInvariant, <1>1, PTL

-----------------------------------------------------------------------------
(* FrameParser: what a look at the whole stream finds *)

\* What the definition of from says of one place of the stream.
CutAt(s, f, i) ==
  LET left == Len(s) - i + 1 IN
  IF left =< HEADER_LEN THEN <<>>
  ELSE IF s[i] # MAVLINK_MAGIC THEN f[i + 1]
  ELSE LET n == Total(s[i + 1]) IN
       IF n > MAX_FRAME_LEN THEN f[i + 1 + HEADER_LEN]
       ELSE IF n > left THEN <<>>
       ELSE <<SubSeq(s, i, i + n - 1)>> \o f[i + n]

\* Where the cut goes on is behind where it was, and within the stream.
LEMMA CutGoesOn ==
  ASSUME NEW s \in Seq(Byte), NEW i \in 1 .. Len(s) + 1, ~(Len(s) - i + 1 =< HEADER_LEN)
  PROVE  /\ i + 1 \in i + 1 .. Len(s) + 1
         /\ i + 1 + HEADER_LEN \in i + 1 .. Len(s) + 1
         /\ s[i + 1] \in Byte /\ Total(s[i + 1]) \in Nat /\ Total(s[i + 1]) > 1 + HEADER_LEN
         /\ Total(s[i + 1]) =< Len(s) - i + 1 => i + Total(s[i + 1]) \in i + 1 .. Len(s) + 1
<1>1. Len(s) \in Nat /\ HEADER_LEN \in Nat \ {0} /\ CRC_LEN \in Nat \ {0} /\ Byte \subseteq Nat
  BY FrameAssumption
<1>2. i + 1 \in 1 .. Len(s)
  BY <1>1
<1>3. s[i + 1] \in Byte
  BY <1>2
<1>4. s[i + 1] \in Nat
  BY <1>1, <1>3
<1>5. Total(s[i + 1]) \in Nat /\ Total(s[i + 1]) > 1 + HEADER_LEN
  BY <1>1, <1>4 DEF Total
<1>6. QED
  BY <1>1, <1>3, <1>5

LEMMA CutAtSame ==
  ASSUME NEW s \in Seq(Byte), NEW i \in 1 .. Len(s) + 1, NEW f, NEW g,
         \A j \in i + 1 .. Len(s) + 1 : f[j] = g[j]
  PROVE  CutAt(s, f, i) = CutAt(s, g, i)
<1>1. CASE Len(s) - i + 1 =< HEADER_LEN
  BY <1>1 DEF CutAt
<1>2. CASE ~(Len(s) - i + 1 =< HEADER_LEN)
  <2> DEFINE n == Total(s[i + 1])
  <2>1. /\ f[i + 1] = g[i + 1] /\ f[i + 1 + HEADER_LEN] = g[i + 1 + HEADER_LEN]
        /\ n =< Len(s) - i + 1 => f[i + n] = g[i + n]
    BY <1>2, CutGoesOn
  <2>2. n \in Nat /\ Len(s) \in Nat
    BY <1>2, CutGoesOn
  <2>3. n > Len(s) - i + 1 \/ n =< Len(s) - i + 1
    BY <2>2
  <2> HIDE DEF n
  <2>4. QED
    BY <1>2, <2>1, <2>3, Zenon DEF CutAt, n
<1>3. QED
  BY <1>1, <1>2

\* The cut from place m on.
CutOver(s, m, f) == \A i \in m .. Len(s) + 1 : f[i] = CutAt(s, f, i)

LEMMA CutExists ==
  ASSUME NEW s \in Seq(Byte)
  PROVE  \E f : f = [i \in 1 .. Len(s) + 1 |-> CutAt(s, f, i)]
<1> DEFINE N == Len(s) + 1
           S == {m \in 1 .. N : \E f : CutOver(s, m, f)}
<1>1. N \in Nat /\ 1 \in 1 .. N /\ N = Len(s) + 1
  OBVIOUS
<1>2. ASSUME NEW m \in 1 .. N, \A j \in m + 1 .. N : j \in S
      PROVE  \E f : CutOver(s, m, f)
  <2>1. PICK f : CutOver(s, m + 1, f)
    <3>1. CASE m + 1 \in m + 1 .. N
      BY <1>2, <3>1
    <3>2. CASE ~(m + 1 \in m + 1 .. N)
      <4>1. \A i : i \notin m + 1 .. Len(s) + 1
        BY <1>1, <3>2
      <4>2. CutOver(s, m + 1, <<>>)
        BY <4>1 DEF CutOver
      <4>3. QED
        BY <4>2
    <3>3. QED
      BY <3>1, <3>2
  <2> DEFINE g == [i \in 1 .. N |-> IF i = m THEN CutAt(s, f, m) ELSE f[i]]
  <2>2. \A j \in m + 1 .. N : g[j] = f[j]
    BY <1>1
  <2>3. g[m] = CutAt(s, f, m)
    OBVIOUS
  <2> HIDE DEF g
  <2>4. ASSUME NEW i \in m .. N PROVE g[i] = CutAt(s, g, i)
    <3>1. i \in 1 .. Len(s) + 1 /\ \A j \in i + 1 .. Len(s) + 1 : f[j] = g[j]
      BY <1>1, <2>2
    <3>2. CutAt(s, f, i) = CutAt(s, g, i)
      BY <3>1, CutAtSame
    <3>3. CASE i = m
      BY <2>3, <3>2, <3>3
    <3>4. CASE i # m
      <4>1. i \in m + 1 .. N
        BY <1>1, <3>4
      <4>2. f[i] = CutAt(s, f, i)
        BY <1>1, <2>1, <4>1 DEF CutOver
      <4>3. QED
        BY <2>2, <3>2, <4>1, <4>2
    <3>5. QED
      BY <3>3, <3>4
  <2>5. CutOver(s, m, g)
    BY <2>4 DEF CutOver
  <2>6. QED
    BY <2>5
<1> HIDE DEF N
<1>3. \A i \in 1 .. N : (\A j \in i + 1 .. N : j \in S) => i \in S
  BY <1>2
<1> HIDE DEF S
<1>4. 1 \in S
  <2>1. 1 \in Nat
    OBVIOUS
  <2>2. QED
    BY <1>1, <1>3, <2>1, FromTheEnd
<1>5. PICK f : CutOver(s, 1, f)
  BY <1>4 DEF S
<1> DEFINE g == [i \in 1 .. Len(s) + 1 |-> f[i]]
<1>6. \A i \in 1 .. Len(s) + 1 : g[i] = CutAt(s, g, i)
  <2> SUFFICES ASSUME NEW i \in 1 .. Len(s) + 1 PROVE g[i] = CutAt(s, g, i)
    OBVIOUS
  <2>1. \A j \in i + 1 .. Len(s) + 1 : f[j] = g[j]
    OBVIOUS
  <2>2. g[i] = f[i]
    OBVIOUS
  <2> HIDE DEF g
  <2>3. CutAt(s, f, i) = CutAt(s, g, i)
    BY <2>1, CutAtSame
  <2>4. QED
    BY <1>5, <2>2, <2>3 DEF CutOver
<1>7. g = [i \in 1 .. Len(s) + 1 |-> CutAt(s, g, i)]
  <2>1. g = [i \in 1 .. Len(s) + 1 |-> g[i]]
    OBVIOUS
  <2> HIDE DEF g
  <2>2. QED
    BY <1>6, <2>1
<1>8. QED
  BY <1>7

\* The recursion of CutFrom is sound: its equation has a solution.
LEMMA CutEquation ==
  ASSUME NEW s \in Seq(Byte)
  PROVE  \A i \in 1 .. Len(s) + 1 : CutFrom(s)[i] = CutAt(s, CutFrom(s), i)
<1>1. CutFrom(s) = CHOOSE f : f = [i \in 1 .. Len(s) + 1 |-> CutAt(s, f, i)]
  BY DEF CutFrom, CutAt
<1>2. CutFrom(s) = [i \in 1 .. Len(s) + 1 |-> CutAt(s, CutFrom(s), i)]
  BY <1>1, CutExists
<1>3. QED
  BY <1>2

LEMMA CutTyped ==
  ASSUME NEW s \in Seq(Byte)
  PROVE  \A i \in 1 .. Len(s) + 1 : CutFrom(s)[i] \in Seq(Seq(Byte))
<1> DEFINE N == Len(s) + 1
           f == CutFrom(s)
           S == {i \in 1 .. N : f[i] \in Seq(Seq(Byte))}
<1>1. N \in Nat /\ 1 \in Nat
  OBVIOUS
<1>2. ASSUME NEW i \in 1 .. N, \A j \in i + 1 .. N : j \in S
      PROVE  i \in S
  <2>1. f[i] = CutAt(s, f, i)
    BY CutEquation
  <2>2. CASE Len(s) - i + 1 =< HEADER_LEN
    <3>1. f[i] = <<>>
      BY <2>1, <2>2, Zenon DEF CutAt
    <3>2. <<>> \in Seq(Seq(Byte))
      OBVIOUS
    <3>3. f[i] \in Seq(Seq(Byte))
      BY <3>1, <3>2, Zenon
    <3> HIDE DEF f
    <3>4. QED
      BY <3>3
  <2>3. CASE ~(Len(s) - i + 1 =< HEADER_LEN)
    <3> DEFINE n == Total(s[i + 1])
               cut == SubSeq(s, i, i + n - 1)
    <3>1. /\ f[i + 1] \in Seq(Seq(Byte)) /\ f[i + 1 + HEADER_LEN] \in Seq(Seq(Byte))
          /\ n =< Len(s) - i + 1 => f[i + n] \in Seq(Seq(Byte))
      BY <1>2, <2>3, CutGoesOn
    <3>2. n \in Nat /\ n >= 1
      BY <2>3, CutGoesOn, FrameAssumption
    <3>3. n =< Len(s) - i + 1 => cut \in Seq(Byte)
      <4>1. SUFFICES ASSUME n =< Len(s) - i + 1 PROVE cut \in Seq(Byte)
        OBVIOUS
      <4>2. \A j \in i .. i + n - 1 : s[j] \in Byte
        BY <3>2, <4>1
      <4>3. i \in Int /\ i + n - 1 \in Int
        BY <3>2
      <4> HIDE DEF n
      <4>4. QED
        BY <4>2, <4>3, SubSeqProperties
    <3>4. n =< Len(s) - i + 1 => <<cut>> \o f[i + n] \in Seq(Seq(Byte))
      <4> HIDE DEF n, cut, f
      <4>1. ASSUME NEW c \in Seq(Byte), NEW r \in Seq(Seq(Byte))
            PROVE  <<c>> \o r \in Seq(Seq(Byte))
        OBVIOUS
      <4>2. QED
        BY <3>1, <3>3, <4>1
    <3>5. n > Len(s) - i + 1 \/ n =< Len(s) - i + 1
      BY <3>2
    <3>6. f[i] = IF s[i] # MAVLINK_MAGIC THEN f[i + 1]
                 ELSE IF n > MAX_FRAME_LEN THEN f[i + 1 + HEADER_LEN]
                 ELSE IF n > Len(s) - i + 1 THEN <<>>
                 ELSE <<cut>> \o f[i + n]
      BY <2>1, <2>3, Zenon DEF CutAt
    <3> HIDE DEF n, cut, f
    <3>7. <<>> \in Seq(Seq(Byte))
      OBVIOUS
    <3>8. f[i] \in Seq(Seq(Byte))
      BY <3>1, <3>4, <3>5, <3>6, <3>7
    <3>9. QED
      BY <3>8
  <2>4. QED
    BY <2>2, <2>3
<1> HIDE DEF f
<1>3. \A i \in 1 .. N : (\A j \in i + 1 .. N : j \in S) => i \in S
  BY <1>2
<1> HIDE DEF N, S
<1>4. \A i \in 1 .. N : i \in S
  BY <1>1, <1>3, FromTheEnd
<1>5. QED
  BY <1>4 DEF N, S, f

\* What the cut does at a byte that begins no frame, at a header that cannot
\* be, at a whole frame, and at one that is not complete.
LEMMA CutSkipsByte ==
  ASSUME NEW s \in Seq(Byte), NEW i \in 1 .. Len(s), s[i] # MAVLINK_MAGIC
  PROVE  CutFrom(s)[i] = CutFrom(s)[i + 1]
<1>1. i \in 1 .. Len(s) + 1 /\ i + 1 \in 1 .. Len(s) + 1
  OBVIOUS
<1>2. CutFrom(s)[i] = CutAt(s, CutFrom(s), i) /\ CutFrom(s)[i + 1] = CutAt(s, CutFrom(s), i + 1)
  BY <1>1, CutEquation
<1>3. CASE Len(s) - i + 1 =< HEADER_LEN
  <2>1. Len(s) - (i + 1) + 1 =< HEADER_LEN
    BY <1>3, FrameAssumption
  <2>2. CutAt(s, CutFrom(s), i) = <<>>
    BY <1>3, Zenon DEF CutAt
  <2>3. CutAt(s, CutFrom(s), i + 1) = <<>>
    BY <2>1, Zenon DEF CutAt
  <2>4. QED
    BY <1>2, <2>2, <2>3
<1>4. CASE ~(Len(s) - i + 1 =< HEADER_LEN)
  BY <1>2, <1>4, Zenon DEF CutAt
<1>5. QED
  BY <1>3, <1>4

LEMMA CutSkipsHeader ==
  ASSUME NEW s \in Seq(Byte), NEW i \in 1 .. Len(s), s[i] = MAVLINK_MAGIC,
         Len(s) - i + 1 > HEADER_LEN, Total(s[i + 1]) > MAX_FRAME_LEN
  PROVE  CutFrom(s)[i] = CutFrom(s)[i + 1 + HEADER_LEN]
<1>1. i \in 1 .. Len(s) + 1 /\ ~(Len(s) - i + 1 =< HEADER_LEN)
  BY FrameAssumption
<1>2. CutFrom(s)[i] = CutAt(s, CutFrom(s), i)
  BY <1>1, CutEquation
<1>3. QED
  BY <1>1, <1>2, Zenon DEF CutAt

LEMMA CutTakesFrame ==
  ASSUME NEW s \in Seq(Byte), NEW i \in 1 .. Len(s), NEW n, s[i] = MAVLINK_MAGIC,
         Len(s) - i + 1 > HEADER_LEN, n = Total(s[i + 1]), n =< MAX_FRAME_LEN
  PROVE  CutFrom(s)[i] = IF n > Len(s) - i + 1 THEN <<>>
                         ELSE <<SubSeq(s, i, i + n - 1)>> \o CutFrom(s)[i + n]
<1>1. i \in 1 .. Len(s) + 1 /\ ~(Len(s) - i + 1 =< HEADER_LEN)
  BY FrameAssumption
<1>2. n \in Nat
  BY <1>1, CutGoesOn
<1>3. ~(n > MAX_FRAME_LEN)
  BY <1>2, FrameAssumption
<1>4. CutFrom(s)[i] = CutAt(s, CutFrom(s), i)
  BY <1>1, CutEquation
<1>5. CutFrom(s)[i] = IF n > MAX_FRAME_LEN THEN CutFrom(s)[i + 1 + HEADER_LEN]
                      ELSE IF n > Len(s) - i + 1 THEN <<>>
                      ELSE <<SubSeq(s, i, i + n - 1)>> \o CutFrom(s)[i + n]
  BY <1>1, <1>4, Zenon DEF CutAt
<1>6. QED
  BY <1>3, <1>5, Zenon

LEMMA TotalOfByte ==
  ASSUME NEW x \in Byte PROVE Total(x) \in Nat /\ Total(x) > 1 + HEADER_LEN
<1>1. x \in Nat /\ HEADER_LEN \in Nat /\ CRC_LEN \in Nat \ {0}
  BY FrameAssumption
<1>2. QED
  BY <1>1 DEF Total

-----------------------------------------------------------------------------
(* What the parser has done is what the cut of any continuation begins with. *)

Extends(s, r) == Len(r) =< Len(s) /\ \A i \in 1 .. Len(r) : s[i] = r[i]

\* The bytes of the frame at hand are the last of the stream.
DataInv ==
  /\ Len(data) =< Len(received)
  /\ \A i \in 1 .. Len(data) : data[i] = received[Len(received) - Len(data) + i]

PayloadInv ==
  fxState = "Payload" =>
    /\ Len(data) + need = Total(data[2])
    /\ Len(data) >= 1 + HEADER_LEN

CutInv ==
  \A s \in Seq(Byte) : Extends(s, received) =>
    Cut(s) = routed \o CutFrom(s)[Len(received) - Len(data) + 1]

CutsInv == FrameInv /\ DataInv /\ PayloadInv /\ CutInv

LEMMA CutsStart == FrameInit => CutsInv
<1> SUFFICES ASSUME FrameInit PROVE CutsInv
  OBVIOUS
<1>1. received = <<>> /\ data = <<>> /\ routed = <<>> /\ fxState = "Idle"
  BY DEF FrameInit
<1>2. DataInv /\ PayloadInv
  BY <1>1 DEF DataInv, PayloadInv
<1>3. ASSUME NEW s \in Seq(Byte) PROVE Cut(s) = routed \o CutFrom(s)[Len(received) - Len(data) + 1]
  <2>1. 1 \in 1 .. Len(s) + 1 /\ Len(received) - Len(data) + 1 = 1
    BY <1>1
  <2>2. CutFrom(s)[1] \in Seq(Seq(Byte))
    BY <2>1, CutTyped
  <2>3. <<>> \o CutFrom(s)[1] = CutFrom(s)[1]
    BY <2>2, ConcatEmptySeq
  <2>4. QED
    BY <1>1, <2>1, <2>3 DEF Cut
<1>4. QED
  BY <1>2, <1>3, FrameStarts DEF CutsInv, CutInv

\* Where a stream that goes on from received has the bytes of the frame.
LEMMA FrameInStream ==
  ASSUME CutsInv, NEW b \in Byte, NEW s \in Seq(Byte), Extends(s, Append(received, b))
  PROVE  /\ Extends(s, received)
         /\ Len(received) + 1 =< Len(s) /\ s[Len(received) + 1] = b
         /\ \A i \in 1 .. Len(data) + 1 :
              Append(data, b)[i] = s[Len(received) - Len(data) + i]
<1>1. /\ received \in Seq(Byte) /\ data \in Seq(Byte) /\ Len(received) \in Nat /\ Len(data) \in Nat
      /\ Len(s) \in Nat /\ Len(data) =< Len(received)
  BY DEF CutsInv, FrameInv, FrameTypeOK, DataInv
<1>2. /\ Len(Append(received, b)) = Len(received) + 1
      /\ Append(received, b)[Len(received) + 1] = b
      /\ \A i \in 1 .. Len(received) : Append(received, b)[i] = received[i]
  BY <1>1, AppendProperties
<1>3. Extends(s, received) /\ Len(received) + 1 =< Len(s) /\ s[Len(received) + 1] = b
  BY <1>1, <1>2 DEF Extends
<1>4. /\ Append(data, b)[Len(data) + 1] = b
      /\ \A i \in 1 .. Len(data) : Append(data, b)[i] = data[i]
  BY <1>1, AppendProperties
<1>5. ASSUME NEW i \in 1 .. Len(data) + 1
      PROVE  Append(data, b)[i] = s[Len(received) - Len(data) + i]
  <2>1. CASE i = Len(data) + 1
    BY <1>1, <1>3, <1>4, <2>1
  <2>2. CASE i # Len(data) + 1
    <3>1. i \in 1 .. Len(data)
      BY <1>1, <2>2
    <3>2. data[i] = received[Len(received) - Len(data) + i]
      BY <3>1 DEF CutsInv, DataInv
    <3>3. Len(received) - Len(data) + i \in 1 .. Len(received)
      BY <1>1, <3>1
    <3>4. QED
      BY <1>3, <1>4, <3>1, <3>2, <3>3 DEF Extends
  <2>3. QED
    BY <2>1, <2>2
<1>6. QED
  BY <1>3, <1>5

\* As long as the frame at hand only becomes longer, no cut is made.
LEMMA FrameGrows ==
  ASSUME CutsInv, NEW b \in Byte, received' = Append(received, b),
         data' = Append(data, b), routed' = routed
  PROVE  DataInv' /\ CutInv'
<1>1. /\ received \in Seq(Byte) /\ data \in Seq(Byte) /\ Len(received) \in Nat /\ Len(data) \in Nat
      /\ Len(data) =< Len(received)
  BY DEF CutsInv, FrameInv, FrameTypeOK, DataInv
<1>2. Len(received') = Len(received) + 1 /\ Len(data') = Len(data) + 1 /\ received' \in Seq(Byte)
  BY <1>1
<1>3. Extends(received', Append(received, b))
  BY <1>1, <1>2 DEF Extends
<1>4. DataInv'
  <2>1. \A i \in 1 .. Len(data) + 1 : Append(data, b)[i] = received'[Len(received) - Len(data) + i]
    BY <1>2, <1>3, FrameInStream
  <2>2. Len(received') - Len(data') = Len(received) - Len(data)
    BY <1>1, <1>2
  <2>3. \A i \in 1 .. Len(data') : data'[i] = received'[Len(received') - Len(data') + i]
    BY <1>2, <2>1, <2>2
  <2>4. Len(data') =< Len(received')
    BY <1>1, <1>2
  <2>5. QED
    BY <2>3, <2>4, Zenon DEF DataInv
<1>5. CutInv'
  <2> SUFFICES ASSUME NEW s \in Seq(Byte), Extends(s, received')
               PROVE  Cut(s) = routed' \o CutFrom(s)[Len(received') - Len(data') + 1]
    BY DEF CutInv
  <2>1. Extends(s, received)
    BY FrameInStream
  <2>2. Len(received') - Len(data') + 1 = Len(received) - Len(data) + 1
    BY <1>1, <1>2
  <2>3. QED
    BY <2>1, <2>2 DEF CutsInv, CutInv
<1>6. QED
  BY <1>4, <1>5

\* When the parser starts afresh the cut has to be at the next byte.
LEMMA ParserRestarts ==
  ASSUME CutsInv, NEW b \in Byte, received' = Append(received, b), data' = <<>>,
         \A s \in Seq(Byte) : Extends(s, received') =>
           routed \o CutFrom(s)[Len(received) - Len(data) + 1]
             = routed' \o CutFrom(s)[Len(received) + 2]
  PROVE  DataInv' /\ CutInv'
<1>1. received \in Seq(Byte) /\ Len(received) \in Nat
  BY DEF CutsInv, FrameInv, FrameTypeOK
<1>2. Len(received') - Len(data') + 1 = Len(received) + 2
  BY <1>1
<1>3. DataInv'
  BY <1>1 DEF DataInv
<1>4. ASSUME NEW s \in Seq(Byte), Extends(s, received')
      PROVE  Cut(s) = routed' \o CutFrom(s)[Len(received') - Len(data') + 1]
  <2>1. Extends(s, received)
    BY <1>4, FrameInStream
  <2>2. QED
    BY <1>2, <1>4, <2>1 DEF CutsInv, CutInv
<1>5. QED
  BY <1>3, <1>4 DEF CutInv

LEMMA IdleCuts ==
  ASSUME CutsInv, NEW b \in Byte, FeedIdle(b), received' = Append(received, b)
  PROVE  CutsInv'
<1>1. /\ received \in Seq(Byte) /\ Len(received) \in Nat /\ data = <<>> /\ fxState = "Idle"
      /\ routed' = routed /\ routed \in Seq(Seq(Byte))
  BY DEF CutsInv, FrameInv, FrameTypeOK, IdleInv, FeedIdle
<1>2. FrameInv'
  BY IdleStep DEF CutsInv
<1>3. PayloadInv'
  BY <1>1 DEF FeedIdle, PayloadInv
<1>4. CASE b = MAVLINK_MAGIC
  <2>1. data' = Append(data, b)
    BY <1>1, <1>4 DEF FeedIdle
  <2>2. QED
    BY <1>1, <1>2, <1>3, <2>1, FrameGrows DEF CutsInv
<1>5. CASE b # MAVLINK_MAGIC
  <2>1. data' = <<>>
    BY <1>1, <1>5 DEF FeedIdle
  <2>2. ASSUME NEW s \in Seq(Byte), Extends(s, received')
        PROVE  CutFrom(s)[Len(received) + 1] = CutFrom(s)[Len(received) + 2]
    <3>1. Len(s) \in Nat /\ Len(received) + 1 =< Len(s) /\ s[Len(received) + 1] = b
      BY <2>2, FrameInStream
    <3>2. Len(received) + 1 \in 1 .. Len(s) /\ (Len(received) + 1) + 1 = Len(received) + 2
      BY <1>1, <3>1
    <3>3. CutFrom(s)[Len(received) + 1] = CutFrom(s)[(Len(received) + 1) + 1]
      BY <1>5, <3>1, <3>2, CutSkipsByte
    <3>4. QED
      BY <3>2, <3>3
  <2>3. Len(received) - Len(data) + 1 = Len(received) + 1
    BY <1>1
  <2>4. DataInv' /\ CutInv'
    BY <1>1, <2>1, <2>2, <2>3, ParserRestarts
  <2>5. QED
    BY <1>2, <1>3, <2>4 DEF CutsInv
<1>6. QED
  BY <1>4, <1>5

LEMMA HeaderCuts ==
  ASSUME CutsInv, NEW b \in Byte, FeedHeader(b), received' = Append(received, b)
  PROVE  CutsInv'
<1> DEFINE d == Append(data, b)
           i == Len(received) - Len(data) + 1
<1>1. /\ data \in Seq(Byte) /\ Len(data) \in Nat /\ need \in Nat
      /\ received \in Seq(Byte) /\ Len(received) \in Nat
      /\ d \in Seq(Byte) /\ Len(d) = Len(data) + 1 /\ Len(data) =< Len(received)
      /\ routed' = routed
  BY DEF CutsInv, DataInv, FrameInv, FrameTypeOK, FeedHeader
<1>2. /\ fxState = "Header" /\ need >= 1 /\ Len(data) >= 1
      /\ Len(data) + need = 1 + HEADER_LEN /\ received[i] = MAVLINK_MAGIC
  BY DEF FeedHeader, CutsInv, FrameInv, BegunInv, HeaderInv, IdleInv
<1>3. FrameInv'
  BY HeaderStep DEF CutsInv
<1>4. CASE need > 1
  <2>1. data' = d /\ fxState' = "Header"
    BY <1>2, <1>4 DEF FeedHeader
  <2>2. QED
    BY <1>1, <1>3, <2>1, FrameGrows DEF CutsInv, PayloadInv
<1>5. ASSUME need = 1
      PROVE  /\ Len(data) = HEADER_LEN /\ Len(d) = 1 + HEADER_LEN /\ 2 \in 1 .. Len(d)
             /\ Total(d[2]) \in Nat /\ MAX_FRAME_LEN \in Nat /\ ~(need > 1)
  <2>1. Len(data) = HEADER_LEN /\ Len(d) = 1 + HEADER_LEN /\ 2 \in 1 .. Len(d) /\ ~(need > 1)
        /\ MAX_FRAME_LEN \in Nat
    BY <1>1, <1>2, <1>5, FrameAssumption
  <2> HIDE DEF d
  <2>2. d[2] \in Byte
    BY <1>1, <2>1
  <2>3. QED
    BY <2>1, <2>2, TotalOfByte
<1>6. CASE need = 1 /\ Total(d[2]) =< MAX_FRAME_LEN
  <2>1. ~(Total(d[2]) > MAX_FRAME_LEN)
    BY <1>5, <1>6
  <2>2. data' = d /\ need' = Total(d[2]) - Len(d)
    BY <1>5, <1>6, <2>1, Zenon DEF FeedHeader
  <2>3. DataInv' /\ CutInv'
    BY <1>1, <2>2, FrameGrows
  <2>4. PayloadInv'
    <3>1. Len(d) \in Nat /\ HEADER_LEN \in Nat
      BY <1>1, FrameAssumption
    <3> HIDE DEF d
    <3>2. Len(d) + (Total(d[2]) - Len(d)) = Total(d[2]) /\ Len(d) >= 1 + HEADER_LEN
      BY <1>5, <1>6, <3>1
    <3>3. QED
      BY <2>2, <3>2, Zenon DEF PayloadInv
  <2>5. QED
    BY <1>3, <2>3, <2>4 DEF CutsInv
<1>7. CASE need = 1 /\ Total(d[2]) > MAX_FRAME_LEN
  <2>1. ~(Total(d[2]) =< MAX_FRAME_LEN)
    BY <1>5, <1>7
  <2>2. data' = <<>> /\ fxState' = "Idle"
    BY <1>5, <1>7, <2>1, Zenon DEF FeedHeader, Reset
  <2>3. PayloadInv'
    BY <2>2 DEF PayloadInv
  <2>4. ASSUME NEW s \in Seq(Byte), Extends(s, received')
        PROVE  CutFrom(s)[Len(received) - Len(data) + 1] = CutFrom(s)[Len(received) + 2]
    <3>1. /\ Extends(s, received) /\ Len(received) + 1 =< Len(s) /\ Len(s) \in Nat
          /\ \A j \in 1 .. Len(data) + 1 : d[j] = s[Len(received) - Len(data) + j]
      BY <2>4, FrameInStream
    <3>2. s[i] = MAVLINK_MAGIC
      <4>1. i \in 1 .. Len(received)
        BY <1>1, <1>2
      <4>2. QED
        BY <1>2, <3>1, <4>1 DEF Extends
    <3>3. d[2] = s[i + 1]
      <4>1. 2 \in 1 .. Len(data) + 1 /\ Len(received) - Len(data) + 2 = i + 1
        BY <1>1, <1>2
      <4> HIDE DEF i, d
      <4>2. QED
        BY <3>1, <4>1
    <3>4. i \in 1 .. Len(s) /\ Len(s) - i + 1 > HEADER_LEN /\ i + 1 + HEADER_LEN = Len(received) + 2
      <4>1. Len(data) = HEADER_LEN /\ HEADER_LEN \in Nat
        BY <1>5, <1>7, FrameAssumption
      <4>2. QED
        BY <1>1, <3>1, <4>1
    <3> HIDE DEF d, i
    <3>5. CutFrom(s)[i] = CutFrom(s)[i + 1 + HEADER_LEN]
      BY <1>7, <3>2, <3>3, <3>4, CutSkipsHeader
    <3>6. CutFrom(s)[i] = CutFrom(s)[Len(received) + 2]
      BY <3>4, <3>5
    <3>7. QED
      BY <3>6 DEF i
  <2>5. DataInv' /\ CutInv'
    BY <1>1, <2>2, <2>4, ParserRestarts
  <2>6. QED
    BY <1>3, <2>3, <2>5 DEF CutsInv
<1>8. QED
  <2>1. (need = 1 /\ (Total(d[2]) =< MAX_FRAME_LEN \/ Total(d[2]) > MAX_FRAME_LEN)) \/ need > 1
    BY DEF FeedHeader
  <2>2. QED
    BY <1>4, <1>6, <1>7, <2>1

LEMMA PayloadCuts ==
  ASSUME CutsInv, NEW b \in Byte, FeedPayload(b), received' = Append(received, b)
  PROVE  CutsInv'
<1> DEFINE d == Append(data, b)
           i == Len(received) - Len(data) + 1
<1>1. /\ data \in Seq(Byte) /\ Len(data) \in Nat /\ need \in Nat
      /\ received \in Seq(Byte) /\ Len(received) \in Nat
      /\ d \in Seq(Byte) /\ Len(d) = Len(data) + 1 /\ Len(data) =< Len(received)
      /\ routed \in Seq(Seq(Byte))
  BY DEF CutsInv, DataInv, FrameInv, FrameTypeOK
<1>2. /\ fxState = "Payload" /\ need >= 1 /\ Len(data) >= 1 + HEADER_LEN
      /\ Len(data) + need = Total(data[2]) /\ Len(data) + need =< MAX_FRAME_LEN
      /\ received[i] = MAVLINK_MAGIC
  BY DEF FeedPayload, CutsInv, FrameInv, BegunInv, PayloadInv
<1>3. FrameInv'
  BY PayloadStep DEF CutsInv
<1>4. d[2] = data[2]
  <2>1. 2 \in 1 .. Len(data)
    BY <1>1, <1>2, FrameAssumption
  <2>2. QED
    BY <1>1, <2>1, AppendProperties
<1>5. CASE need > 1
  <2>1. data' = d /\ fxState' = "Payload" /\ routed' = routed /\ need' = need - 1
    BY <1>2, <1>5 DEF FeedPayload
  <2>2. DataInv' /\ CutInv'
    BY <1>1, <2>1, FrameGrows
  <2>3. Len(d) + (need - 1) = Total(d[2]) /\ Len(d) >= 1 + HEADER_LEN
    BY <1>1, <1>2, <1>4, FrameAssumption
  <2> HIDE DEF d
  <2>4. PayloadInv'
    BY <2>1, <2>3, Zenon DEF PayloadInv
  <2>5. QED
    BY <1>3, <2>2, <2>4 DEF CutsInv
<1>6. CASE need = 1
  <2> DEFINE n == Total(data[2])
  <2>1. data' = <<>> /\ fxState' = "Idle" /\ routed' = Append(routed, d)
    BY <1>6 DEF FeedPayload, Reset
  <2>2. PayloadInv'
    BY <2>1 DEF PayloadInv
  <2>3. n = Len(d) /\ n =< MAX_FRAME_LEN /\ n \in Nat /\ MAX_FRAME_LEN \in Nat
    BY <1>1, <1>2, <1>6, FrameAssumption
  <2>4. ASSUME NEW s \in Seq(Byte), Extends(s, received')
        PROVE  routed \o CutFrom(s)[i] = routed' \o CutFrom(s)[Len(received) + 2]
    <3>1. /\ Extends(s, received) /\ Len(received) + 1 =< Len(s) /\ Len(s) \in Nat
          /\ \A j \in 1 .. Len(data) + 1 : d[j] = s[Len(received) - Len(data) + j]
      BY <2>4, FrameInStream
    <3>2. s[i] = MAVLINK_MAGIC
      <4>1. i \in 1 .. Len(received)
        BY <1>1, <1>2, FrameAssumption
      <4>2. QED
        BY <1>2, <3>1, <4>1 DEF Extends
    <3>3. data[2] = s[i + 1]
      <4>1. 2 \in 1 .. Len(data) + 1 /\ Len(received) - Len(data) + 2 = i + 1
        BY <1>1, <1>2, FrameAssumption
      <4> HIDE DEF i, d
      <4>2. QED
        BY <1>4, <3>1, <4>1
    <3>4. /\ i \in 1 .. Len(s) /\ Len(s) - i + 1 > HEADER_LEN
          /\ n =< Len(s) - i + 1 /\ ~(n > Len(s) - i + 1)
      BY <1>1, <1>2, <1>6, <2>3, <3>1, FrameAssumption
    <3>5. i + n = Len(received) + 2 /\ i + n \in 1 .. Len(s) + 1
      BY <1>1, <1>2, <2>3, <3>1
    <3>7. SubSeq(s, i, i + n - 1) = d
      <4> DEFINE q == SubSeq(s, i, i + n - 1)
      <4>1. \A j \in i .. i + n - 1 : s[j] \in Byte
        BY <1>1, <2>3, <3>4
      <4>2. i \in Int /\ i + n - 1 \in Int /\ i =< i + n - 1 + 1
        BY <1>1, <2>3
      <4>3. n = (i + n - 1) - i + 1
        BY <1>1, <2>3
      <4> HIDE DEF n
      <4>4. /\ q \in Seq(Byte)
            /\ Len(q) = n
            /\ \A j \in 1 .. n : q[j] = s[i + j - 1]
        BY <4>1, <4>2, <4>3, SubSeqProperties
      <4>5. \A j \in 1 .. Len(d) : q[j] = d[j]
        <5>1. ASSUME NEW j \in 1 .. Len(d) PROVE q[j] = d[j]
          <6>1. j \in 1 .. n /\ j \in 1 .. Len(data) + 1
            BY <1>1, <2>3
          <6>2. i + j - 1 = Len(received) - Len(data) + j
            BY <1>1, <6>1
          <6>3. QED
            BY <3>1, <4>4, <6>1, <6>2
        <5>2. QED
          BY <5>1
      <4> HIDE DEF q, d
      <4>6. Len(q) = Len(d)
        BY <2>3, <4>4
      <4>7. q = d
        BY <1>1, <4>4, <4>5, <4>6, SeqEqual
      <4>8. QED
        BY <4>7 DEF q
    <3> HIDE DEF i, d
    <3>8. CutFrom(s)[i] = <<SubSeq(s, i, i + n - 1)>> \o CutFrom(s)[i + n]
      <4>1. n = Total(s[i + 1])
        BY <3>3
      <4> HIDE DEF n
      <4>2. CutFrom(s)[i] = IF n > Len(s) - i + 1 THEN <<>>
                            ELSE <<SubSeq(s, i, i + n - 1)>> \o CutFrom(s)[i + n]
        BY <2>3, <3>2, <3>4, <4>1, CutTakesFrame
      <4>3. QED
        BY <3>4, <4>2, Zenon
    <3>9. CutFrom(s)[i + n] \in Seq(Seq(Byte))
      BY <3>5, CutTyped
    <3>10. ASSUME NEW r \in Seq(Seq(Byte)), NEW t \in Seq(Seq(Byte)), NEW c \in Seq(Byte)
           PROVE  r \o (<<c>> \o t) = Append(r, c) \o t
      <4>1. <<c>> \in Seq(Seq(Byte)) /\ Append(r, c) = r \o <<c>>
        BY AppendIsConcat
      <4>2. (r \o <<c>>) \o t = r \o (<<c>> \o t)
        BY <4>1, ConcatAssociative
      <4>3. QED
        BY <4>1, <4>2
    <3>11. routed \o (<<d>> \o CutFrom(s)[i + n]) = Append(routed, d) \o CutFrom(s)[i + n]
      <4> HIDE DEF n
      <4>1. QED
        BY <1>1, <3>9, <3>10
    <3>12. routed \o CutFrom(s)[i] = routed' \o CutFrom(s)[i + n]
      BY <2>1, <3>7, <3>8, <3>11, Zenon
    <3>13. QED
      BY <3>5, <3>12, Zenon
  <2>5. DataInv' /\ CutInv'
    BY <1>1, <2>1, <2>4, ParserRestarts
  <2>6. QED
    BY <1>3, <2>2, <2>5 DEF CutsInv
<1>7. QED
  BY <1>5, <1>6 DEF FeedPayload

LEMMA CutsInvariant == FrameSpec => []CutsInv
<1>1. CutsInv /\ [FrameNext]_frameVars => CutsInv'
  <2> SUFFICES ASSUME CutsInv, [FrameNext]_frameVars PROVE CutsInv'
    OBVIOUS
  <2>1. CASE UNCHANGED frameVars
    BY <2>1 DEF frameVars, CutsInv, FrameInv, FrameTypeOK, BegunInv, HeaderInv, IdleInv,
       DataInv, PayloadInv, CutInv
  <2>2. ASSUME NEW b \in Byte, FeedByte(b) PROVE CutsInv'
    BY <2>2, IdleCuts, HeaderCuts, PayloadCuts DEF FeedByte
  <2>3. QED
    BY <2>1, <2>2 DEF FrameNext, PollEmpty
<1>2. QED
  BY CutsStart, <1>1, PTL DEF FrameSpec

\* Byte by byte the parser routes exactly the frames that a look at the whole
\* stream finds, however noisy it is and however long (uplink.rs 231-300).
THEOREM ParserCuts == FrameSpec => []FramesAreCuts
<1>1. CutsInv => FramesAreCuts
  <2> SUFFICES ASSUME CutsInv PROVE FramesAreCuts
    OBVIOUS
  <2> DEFINE i == Len(received) - Len(data) + 1
  <2>1. /\ data \in Seq(Byte) /\ Len(data) \in Nat /\ need \in Nat /\ routed \in Seq(Seq(Byte))
        /\ received \in Seq(Byte) /\ Len(received) \in Nat /\ Len(data) =< Len(received)
        /\ fxState \in {"Idle", "Header", "Payload"} /\ HEADER_LEN \in Nat
    BY FrameAssumption DEF CutsInv, DataInv, FrameInv, FrameTypeOK
  <2>2. Cut(received) = routed \o CutFrom(received)[i]
    BY <2>1 DEF CutsInv, CutInv, Extends
  <2>3. i \in 1 .. Len(received) + 1 /\ Len(received) - i + 1 = Len(data)
    BY <2>1
  <2>4. CutFrom(received)[i] = CutAt(received, CutFrom(received), i)
    BY <2>1, <2>3, CutEquation
  <2>5. CutFrom(received)[i] = <<>>
    <3>1. CASE Len(data) =< HEADER_LEN
      BY <2>3, <2>4, <3>1 DEF CutAt
    <3>2. CASE ~(Len(data) =< HEADER_LEN)
      <4>1. fxState = "Payload"
        <5>1. fxState # "Idle"
          BY <2>1, <3>2 DEF CutsInv, FrameInv, IdleInv
        <5>2. fxState # "Header"
          BY <2>1, <3>2 DEF CutsInv, FrameInv, HeaderInv, BegunInv
        <5>3. QED
          BY <2>1, <5>1, <5>2
      <4> DEFINE n == Total(data[2])
      <4>2. n = Len(data) + need /\ need >= 1 /\ n =< MAX_FRAME_LEN /\ received[i] = MAVLINK_MAGIC
        BY <4>1 DEF CutsInv, FrameInv, BegunInv, PayloadInv
      <4>3. data[2] = received[i + 1]
        <5>1. 2 \in 1 .. Len(data) /\ Len(received) - Len(data) + 2 = i + 1
          BY <2>1, <3>2, FrameAssumption
        <5> HIDE DEF i
        <5>2. QED
          BY <5>1 DEF CutsInv, DataInv
      <4> HIDE DEF i
      <4>4. i \in 1 .. Len(received) /\ Len(received) - i + 1 > HEADER_LEN
            /\ n > Len(received) - i + 1
        BY <2>1, <2>3, <3>2, <4>2, FrameAssumption
      <4>5. n = Total(received[i + 1])
        BY <4>3
      <4> HIDE DEF n
      <4>6. CutFrom(received)[i] =
              IF n > Len(received) - i + 1 THEN <<>>
              ELSE <<SubSeq(received, i, i + n - 1)>> \o CutFrom(received)[i + n]
        BY <2>1, <4>2, <4>4, <4>5, CutTakesFrame
      <4>7. QED
        BY <4>4, <4>6, Zenon
    <3>3. QED
      BY <3>1, <3>2
  <2>6. routed \o <<>> = routed
    BY <2>1, ConcatEmptySeq
  <2>7. QED
    BY <2>2, <2>5, <2>6 DEF FramesAreCuts
<1>2. QED
  BY CutsInvariant, <1>1, PTL

-----------------------------------------------------------------------------
(* SbusReceiver *)

\* The frame on the line, and what has come of it.
Arrived == Len(lastSent) - Len(rest)

SbusTypeOK ==
  /\ buf \in Seq(SbusByte) /\ Len(buf) < SBUS_FRAME_LEN
  /\ rest \in Seq(SbusByte) /\ Len(rest) =< Len(lastSent)
  /\ clear \in 0 .. 2 /\ whole \in BOOLEAN

LineInv ==
  /\ \A k \in 1 .. Len(rest) : rest[k] = lastSent[Arrived + k]
  /\ \/ lastSent = <<>>
     \/ /\ lastSent \in Seq(SbusByte) /\ Len(lastSent) = SBUS_FRAME_LEN
        /\ lastSent[1] = SBUS_HEADER /\ lastSent[SBUS_FRAME_LEN] = SBUS_FOOTER

\* The driver's buffer holds just what has come of the frame on the line ...
Aligned ==
  /\ whole
  /\ Len(buf) = IF rest = <<>> THEN 0 ELSE Arrived
  /\ \A k \in 1 .. Len(buf) : buf[k] = lastSent[k]

\* ... or, after a loss and in a frame in which nothing looks like a header, the
\* buffer holds at least as much, so that it will be full before the frame ends.
Realigns == buf = <<>> \/ Len(buf) >= Arrived

SbusInv ==
  /\ SbusTypeOK /\ LineInv
  /\ clear >= 1 => Aligned
  /\ clear = 0 /\ whole /\ Plain(lastSent) => Realigns
  /\ FollowsReceiver

LEMMA FrameLen == SBUS_FRAME_LEN \in Nat /\ SBUS_FRAME_LEN >= 4 /\ Sticks \in Nat
BY SbusAssumption DEF SBUS_FRAME_LEN

LEMMA FrameShape ==
  ASSUME NEW c \in [1 .. Sticks -> SbusByte], NEW flags \in Failsafe \cup {SBUS_FOOTER}
  PROVE  /\ Frame(c, flags) \in Seq(SbusByte)
         /\ Len(Frame(c, flags)) = SBUS_FRAME_LEN
         /\ Frame(c, flags)[1] = SBUS_HEADER
         /\ Frame(c, flags)[SBUS_FRAME_LEN] = SBUS_FOOTER
<1>1. SBUS_HEADER \in SbusByte /\ SBUS_FOOTER \in SbusByte /\ flags \in SbusByte
  BY SbusAssumption
<1>2. c \in Seq(SbusByte) /\ Len(c) = Sticks
  BY FrameLen, SeqDef, LenProperties
<1>3. <<SBUS_HEADER>> \o c \in Seq(SbusByte) /\ Len(<<SBUS_HEADER>> \o c) = Sticks + 1
      /\ (<<SBUS_HEADER>> \o c)[1] = SBUS_HEADER
  BY <1>1, <1>2, FrameLen
<1>4. QED
  BY <1>1, <1>3, FrameLen DEF Frame, SBUS_FRAME_LEN

LEMMA SbusInitInv == SbusInit => SbusInv
BY FrameLen DEF SbusInit, SbusInv, SbusTypeOK, LineInv, Aligned, Arrived, FollowsReceiver

LEMMA SendFrameInv ==
  ASSUME SbusInv, NEW c \in [1 .. Sticks -> SbusByte],
         NEW flags \in Failsafe \cup {SBUS_FOOTER}, SendFrame(c, flags)
  PROVE  SbusInv'
<1>1. /\ lastSent' = Frame(c, flags) /\ rest' = lastSent' /\ whole' = TRUE
      /\ UNCHANGED <<buf, ch, fresh, clear>> /\ rest = <<>>
  BY DEF SendFrame
<1>2. lastSent' \in Seq(SbusByte) /\ Len(lastSent') = SBUS_FRAME_LEN
      /\ lastSent'[1] = SBUS_HEADER /\ lastSent'[SBUS_FRAME_LEN] = SBUS_FOOTER
  BY <1>1, FrameShape
<1>3. Arrived' = 0 /\ rest' # <<>>
  BY <1>1, <1>2, FrameLen DEF Arrived
<1>4. SbusTypeOK' /\ LineInv'
  BY <1>1, <1>2, <1>3, FrameLen DEF SbusInv, SbusTypeOK, LineInv
<1>5. clear' >= 1 => Aligned'
  BY <1>1, <1>3 DEF SbusInv, SbusTypeOK, Aligned
<1>6. Realigns'
  BY <1>1, <1>3 DEF SbusInv, SbusTypeOK, Realigns
<1>7. QED
  BY <1>3, <1>4, <1>5, <1>6 DEF SbusInv, FollowsReceiver

LEMMA ByteLostInv == SbusInv /\ ByteLost => SbusInv'
<1> SUFFICES ASSUME SbusInv, ByteLost PROVE SbusInv'
  OBVIOUS
<1>1. rest \in Seq(SbusByte) /\ rest # <<>> /\ rest' = Tail(rest)
      /\ UNCHANGED <<buf, lastSent>> /\ clear' = 0 /\ whole' = FALSE
  BY DEF ByteLost, SbusInv, SbusTypeOK
<1>2. rest' \in Seq(SbusByte) /\ Len(rest') = Len(rest) - 1
      /\ \A k \in 1 .. Len(rest') : rest'[k] = rest[k + 1]
  BY <1>1
<1>3. Len(lastSent) \in Nat /\ Len(rest) \in Nat
  BY <1>1, FrameLen DEF SbusInv, LineInv
<1>4. SbusTypeOK'
  <2>1. buf \in Seq(SbusByte) /\ Len(buf) < SBUS_FRAME_LEN /\ Len(rest) =< Len(lastSent)
    BY DEF SbusInv, SbusTypeOK
  <2>2. Len(rest') =< Len(lastSent')
    BY <1>1, <1>2, <1>3, <2>1
  <2>3. buf' \in Seq(SbusByte) /\ Len(buf') < SBUS_FRAME_LEN'
    BY <1>1, <2>1 DEF SBUS_FRAME_LEN
  <2>5. clear' \in 0 .. 2
    BY <1>1
  <2>6. whole' \in BOOLEAN
    BY <1>1, Zenon
  <2>7. QED
    BY <1>2, <2>2, <2>3, <2>5, <2>6 DEF SbusTypeOK, SBUS_FRAME_LEN
<1>5. Arrived' = Arrived + 1 /\ Arrived \in Int
  BY <1>1, <1>2, <1>3 DEF Arrived
<1>6. \A k \in 1 .. Len(rest') : rest'[k] = lastSent'[Arrived' + k]
  <2> SUFFICES ASSUME NEW k \in 1 .. Len(rest') PROVE rest'[k] = lastSent'[Arrived' + k]
    OBVIOUS
  <2>1. rest'[k] = rest[k + 1] /\ k + 1 \in 1 .. Len(rest)
    BY <1>2, <1>3
  <2>2. rest[k + 1] = lastSent[Arrived + (k + 1)]
    BY <2>1 DEF SbusInv, LineInv
  <2>3. Arrived + (k + 1) = Arrived' + k
    BY <1>5
  <2>4. QED
    BY <1>1, <2>1, <2>2, <2>3
<1>7. LineInv'
  BY <1>1, <1>6 DEF SbusInv, LineInv
<1>8. QED
  BY <1>1, <1>4, <1>7 DEF SbusInv, FollowsReceiver

LEMMA ByteArrivesInv == SbusInv /\ ByteArrives => SbusInv'
<1> SUFFICES ASSUME SbusInv, ByteArrives PROVE SbusInv'
  OBVIOUS
<1> DEFINE L == SBUS_FRAME_LEN
           p == Arrived
           b == Head(rest)
<1>1. /\ rest \in Seq(SbusByte) /\ rest # <<>> /\ rest' = Tail(rest)
      /\ UNCHANGED <<lastSent, whole>> /\ Drain(b)
      /\ buf \in Seq(SbusByte) /\ Len(buf) < L
  BY DEF ByteArrives, SbusInv, SbusTypeOK
<1>2. /\ rest' \in Seq(SbusByte) /\ Len(rest') = Len(rest) - 1
      /\ \A k \in 1 .. Len(rest') : rest'[k] = rest[k + 1]
      /\ b = rest[1] /\ b \in SbusByte /\ Len(rest) \in Nat \ {0}
  BY <1>1
<1>3. /\ Len(rest) =< Len(lastSent)
      /\ \A k \in 1 .. Len(rest) : rest[k] = lastSent[p + k]
      /\ lastSent \in Seq(SbusByte) /\ Len(lastSent) = L
      /\ lastSent[1] = SBUS_HEADER /\ lastSent[L] = SBUS_FOOTER
  BY <1>2 DEF SbusInv, SbusTypeOK, LineInv
<1>4. p = L - Len(rest) /\ p \in Nat /\ p \in 0 .. L - 1 /\ Arrived' = p + 1 /\ b = lastSent[p + 1]
  BY <1>1, <1>2, <1>3, FrameLen DEF Arrived
<1>5. rest' = <<>> <=> p + 1 = L
  BY <1>2, <1>4, FrameLen
<1>6. clear' \in 0 .. 2 /\ whole' \in BOOLEAN
  BY <1>1 DEF ByteArrives, SbusInv, SbusTypeOK
<1>7. LineInv'
  BY <1>1, <1>2, <1>3, <1>4, FrameLen DEF LineInv
<1>8. \/ /\ buf = <<>> /\ b # SBUS_HEADER
         /\ UNCHANGED <<buf, ch, fresh>>
      \/ /\ buf # <<>> \/ b = SBUS_HEADER
         /\ Len(buf) + 1 < L
         /\ buf' = Append(buf, b) /\ UNCHANGED <<ch, fresh>>
      \/ /\ Len(buf) + 1 = L /\ buf' = <<>>
         /\ IF b = SBUS_FOOTER THEN Decode(Append(buf, b)) ELSE UNCHANGED <<ch, fresh>>
  BY <1>1 DEF Drain
<1> HIDE DEF L, p, b
<1>9. SbusTypeOK'
  <2>0. L \in Nat /\ L >= 4
    BY FrameLen DEF L
  <2>1. Len(buf) \in Nat /\ Append(buf, b) \in Seq(SbusByte)
        /\ Len(Append(buf, b)) = Len(buf) + 1
    BY <1>1, <1>2
  <2>2. buf' = buf \/ (buf' = Append(buf, b) /\ Len(buf) + 1 < L) \/ buf' = <<>>
    BY <1>8
  <2>3. buf' \in Seq(SbusByte) /\ Len(buf') < L
    <3>1. CASE buf' = buf
      BY <1>1, <3>1
    <3>2. CASE buf' = Append(buf, b) /\ Len(buf) + 1 < L
      BY <2>1, <3>2
    <3>3. CASE buf' = <<>>
      BY <2>0, <3>3
    <3>4. QED
      BY <2>2, <3>1, <3>2, <3>3
  <2>4. Len(rest') =< Len(lastSent')
    BY <1>1, <1>2, <1>3, <2>0
  <2>5. QED
    BY <1>2, <1>6, <2>3, <2>4 DEF SbusTypeOK, SBUS_FRAME_LEN, L
<1>10. ASSUME Aligned
       PROVE  Aligned' /\ (p + 1 = L => Decode(lastSent))
  <2>1. Len(buf) = p /\ \A k \in 1 .. p : buf[k] = lastSent[k]
    BY <1>1, <1>10 DEF Aligned, p
  <2>2. CASE p + 1 < L
    <3>1. ~(buf = <<>> /\ b # SBUS_HEADER)
      <4>1. buf = <<>> => p = 0
        BY <1>1, <2>1
      <4>2. p = 0 => p + 1 = 1
        OBVIOUS
      <4>3. QED
        BY <1>3, <1>4, <4>1, <4>2
    <3>2. buf' = Append(buf, b)
      BY <1>8, <2>1, <2>2, <3>1
    <3>3. Len(buf') = p + 1 /\ \A k \in 1 .. p + 1 : buf'[k] = lastSent[k]
      BY <1>1, <1>2, <1>4, <2>1, <3>2
    <3>4. QED
      BY <1>1, <1>4, <1>5, <1>10, <2>2, <3>3, FrameLen DEF Aligned, L
  <2>3. CASE p + 1 = L
    <3>1. buf # <<>>
      BY <1>1, <2>1, <2>3, FrameLen DEF L
    <3>2. b = SBUS_FOOTER
      BY <1>3, <1>4, <2>3
    <3>3. buf' = <<>> /\ Decode(Append(buf, b))
      BY <1>8, <2>1, <2>3, <3>1, <3>2
    <3>4. Append(buf, b) \in Seq(SbusByte) /\ Len(Append(buf, b)) = L
          /\ \A k \in 1 .. L : Append(buf, b)[k] = lastSent[k]
      BY <1>1, <1>2, <1>4, <2>1, <2>3
    <3>5. Append(buf, b) = lastSent
      BY <1>3, <3>4, SeqEqual
    <3>6. QED
      BY <1>1, <1>5, <1>10, <2>3, <3>3, <3>5 DEF Aligned
  <2>4. QED
    BY <1>4, <2>2, <2>3, FrameLen DEF L
<1>11. ASSUME Realigns, Plain(lastSent)
       PROVE  Realigns' /\ (p + 1 = L => buf' = <<>>)
  <2>1. p >= 1 => b # SBUS_HEADER
    BY <1>3, <1>4, <1>11 DEF Plain
  <2>2. buf = <<>> \/ Len(buf) >= p
    BY <1>11 DEF Realigns, p
  <2>3. QED
    BY <1>1, <1>2, <1>4, <1>8, <2>1, <2>2, FrameLen DEF Realigns, L
<1>12. clear' >= 1 => Aligned'
  <2>1. CASE clear >= 1
    BY <1>10, <2>1 DEF SbusInv
  <2>2. CASE clear = 0 /\ clear' >= 1
    <3>1. whole /\ rest' = <<>> /\ Plain(lastSent)
      BY <2>2 DEF ByteArrives
    <3>2. buf' = <<>>
      BY <1>5, <1>11, <2>2, <3>1 DEF SbusInv
    <3>3. QED
      BY <1>1, <3>1, <3>2 DEF Aligned
  <2>3. QED
    BY <2>1, <2>2 DEF SbusInv, SbusTypeOK
<1>13. clear' = 0 /\ whole' /\ Plain(lastSent)' => Realigns'
  <2> SUFFICES ASSUME clear' = 0, whole, Plain(lastSent) PROVE Realigns'
    BY <1>1 DEF Plain
  <2>1. clear = 0
    BY <1>1 DEF ByteArrives, SbusInv, SbusTypeOK
  <2>2. QED
    BY <1>11, <2>1 DEF SbusInv
<1>14. FollowsReceiver'
  <2> SUFFICES ASSUME clear' = 2, rest' = <<>>
               PROVE  RcInput' = IF lastSent[Sticks + 2] \in Failsafe
                                 THEN Neutral ELSE SubSeq(lastSent, 2, Sticks + 1)
    BY <1>1 DEF FollowsReceiver, Neutral
  <2>1. clear >= 1
    BY DEF ByteArrives, SbusInv, SbusTypeOK
  <2>2. Decode(lastSent)
    BY <1>5, <1>10, <2>1 DEF SbusInv
  <2>3. QED
    BY <2>2 DEF Decode, RcInput, Neutral
<1>15. QED
  BY <1>7, <1>9, <1>12, <1>13, <1>14 DEF SbusInv

\* Between two frames the sensors task gets what the last one said, however many
\* sticks look like a header, and after a loss from the second frame on in which
\* none does (rc/sbus.rs 80-128).
THEOREM ReceiverIsFollowed == SbusSpec => []FollowsReceiver
<1>1. SbusInv /\ [SbusNext]_sbusVars => SbusInv'
  <2> SUFFICES ASSUME SbusInv, [SbusNext]_sbusVars PROVE SbusInv'
    OBVIOUS
  <2>1. CASE UNCHANGED sbusVars
    BY <2>1 DEF SbusInv, SbusTypeOK, LineInv, Aligned, Realigns, Arrived, Plain,
                FollowsReceiver, RcInput, Neutral, sbusVars, lineVars
  <2>2. QED
    BY <2>1, SendFrameInv, ByteArrivesInv, ByteLostInv DEF SbusNext, SbusEmpty
<1>2. SbusInv => FollowsReceiver
  BY DEF SbusInv
<1>3. QED
  BY SbusInitInv, <1>1, <1>2, PTL DEF SbusSpec

-----------------------------------------------------------------------------
(* GpsDriver *)

Cell == [n : Nat, part : {"head", "tail", "newline", "noise"}]

\* Cells arrive in the order of their sentences, and a newline ends its sentence.
Before(c, d) == c.n =< d.n /\ (c.part = "newline" => c.n < d.n)
Later(x, y)  == \A i \in 1 .. Len(x), j \in 1 .. Len(y) : Before(x[i], y[j])
Sorted(x)    == \A i, j \in 1 .. Len(x) : i < j => Before(x[i], x[j])
Spoken(x)    == \A i \in 1 .. Len(x) : x[i].n \in 1 .. Len(spoken)

\* Every position returned is older than what is still to be read.
Fixed(x) == \A k \in 1 .. Len(fixes), i \in 1 .. Len(x) : fixes[k] < x[i].n

GpsTypeOK ==
  /\ line \in Seq(Cell) /\ chunk \in Seq(Cell) /\ uart \in Seq(Cell)
  /\ spoken \in Seq(Sentence)
  /\ fixes \in Seq(Nat)

OrderInv ==
  /\ Sorted(chunk) /\ Sorted(uart)
  /\ Later(line, chunk) /\ Later(line, uart) /\ Later(chunk, uart)
  /\ Spoken(line) /\ Spoken(chunk) /\ Spoken(uart)
  /\ Fixed(line) /\ Fixed(chunk) /\ Fixed(uart)

FixInv ==
  /\ \A k \in 1 .. Len(fixes) :
       fixes[k] \in 1 .. Len(spoken) /\ SaysFix(spoken[fixes[k]])
  /\ \A j, k \in 1 .. Len(fixes) : j < k => fixes[j] < fixes[k]
  /\ ref = IF fixes = <<>> THEN 0 ELSE fixes[1]

GpsInv == GpsTypeOK /\ OrderInv /\ FixInv /\ (phase = "probe" => chunk = <<>>)

-----------------------------------------------------------------------------
(* What becomes of the cells: some are taken from the front, some dropped. *)

\* y is a stretch of x.
Stretch(y, x) ==
  /\ y \in Seq(Cell)
  /\ \E d \in Nat : Len(y) + d =< Len(x) /\ \A i \in 1 .. Len(y) : y[i] = x[i + d]

\* Every cell of y is one of x.
Within(y, x) ==
  y \in Seq(Cell) /\ \A i \in 1 .. Len(y) : \E j \in 1 .. Len(x) : y[i] = x[j]

LEMMA StretchWithin ==
  ASSUME NEW x \in Seq(Cell), NEW y, Stretch(y, x)
  PROVE  Within(y, x) /\ (Sorted(x) => Sorted(y))
<1>1. PICK d \in Nat : Len(y) + d =< Len(x) /\ \A i \in 1 .. Len(y) : y[i] = x[i + d]
  BY DEF Stretch
<1>2. y \in Seq(Cell) /\ Len(y) \in Nat /\ Len(x) \in Nat
  BY DEF Stretch
<1>3. \A i \in 1 .. Len(y) : i + d \in 1 .. Len(x)
  BY <1>1, <1>2
<1>4. Within(y, x)
  BY <1>1, <1>2, <1>3 DEF Within
<1>5. ASSUME Sorted(x), NEW i \in 1 .. Len(y), NEW j \in 1 .. Len(y), i < j
      PROVE  Before(y[i], y[j])
  <2>1. i + d < j + d
    BY <1>5
  <2>2. Before(x[i + d], x[j + d])
    BY <1>3, <1>5, <2>1 DEF Sorted
  <2>3. QED
    BY <1>1, <2>2
<1>6. QED
  BY <1>4, <1>5 DEF Sorted

LEMMA EmptyStretch ==
  ASSUME NEW x \in Seq(Cell) PROVE Stretch(<<>>, x) /\ Stretch(x, x)
<1>1. <<>> \in Seq(Cell) /\ Len(<<>>) = 0 /\ Len(x) \in Nat
  OBVIOUS
<1>2. Stretch(<<>>, x)
  BY <1>1 DEF Stretch
<1>3. \A i \in 1 .. Len(x) : x[i] = x[i + 0]
  BY <1>1
<1>4. Len(x) + 0 =< Len(x)
  BY <1>1
<1>5. QED
  BY <1>2, <1>3, <1>4 DEF Stretch

LEMMA TailStretch ==
  ASSUME NEW x \in Seq(Cell), x # <<>> PROVE Stretch(Tail(x), x)
<1>1. Tail(x) \in Seq(Cell) /\ Len(Tail(x)) = Len(x) - 1 /\ Len(x) \in Nat
      /\ \A i \in 1 .. Len(Tail(x)) : Tail(x)[i] = x[i + 1]
  OBVIOUS
<1>2. QED
  BY <1>1 DEF Stretch

LEMMA SubSeqStretch ==
  ASSUME NEW x \in Seq(Cell), NEW k \in Nat, k =< Len(x)
  PROVE  Stretch(SubSeq(x, 1, k), x) /\ Stretch(SubSeq(x, k + 1, Len(x)), x)
<1>1. Len(x) \in Nat
  OBVIOUS
<1>2. /\ SubSeq(x, 1, k) \in Seq(Cell) /\ Len(SubSeq(x, 1, k)) = k
      /\ \A i \in 1 .. k : SubSeq(x, 1, k)[i] = x[i]
  <2>1. \A i \in 1 .. k : x[i] \in Cell
    BY <1>1
  <2>2. QED
    BY <2>1, SubSeqProperties
<1>3. /\ SubSeq(x, k + 1, Len(x)) \in Seq(Cell)
      /\ Len(SubSeq(x, k + 1, Len(x))) = Len(x) - k
      /\ \A i \in 1 .. Len(x) - k : SubSeq(x, k + 1, Len(x))[i] = x[i + k]
  <2>1. \A i \in k + 1 .. Len(x) : x[i] \in Cell
    BY <1>1
  <2>2. QED
    BY <1>1, <2>1, SubSeqProperties
<1>4. Stretch(SubSeq(x, 1, k), x)
  <2>1. \A i \in 1 .. k : x[i] = x[i + 0]
    OBVIOUS
  <2>2. QED
    BY <1>1, <1>2, <2>1 DEF Stretch
<1>5. Stretch(SubSeq(x, k + 1, Len(x)), x)
  BY <1>1, <1>3 DEF Stretch
<1>6. QED
  BY <1>4, <1>5
LEMMA LaterWithin ==
  ASSUME NEW x, NEW y, NEW u, NEW v, Later(x, y), Within(u, x), Within(v, y)
  PROVE  Later(u, v)
BY DEF Later, Within

\* The first of the cells that are taken is before all the others.
LEMMA HeadLater ==
  ASSUME NEW x \in Seq(Cell), x # <<>>, Sorted(x)
  PROVE  /\ Head(x) = x[1] /\ 1 \in 1 .. Len(x) /\ Head(x) \in Cell
         /\ \A j \in 1 .. Len(Tail(x)) : Before(Head(x), Tail(x)[j])
<1>1. Tail(x) \in Seq(Cell) /\ Len(Tail(x)) = Len(x) - 1 /\ Len(x) \in Nat \ {0}
      /\ \A i \in 1 .. Len(Tail(x)) : Tail(x)[i] = x[i + 1]
  OBVIOUS
<1>2. Head(x) = x[1] /\ 1 \in 1 .. Len(x) /\ Head(x) \in Cell
  BY <1>1
<1>3. ASSUME NEW j \in 1 .. Len(Tail(x)) PROVE Before(x[1], x[j + 1])
  <2>1. j + 1 \in 1 .. Len(x) /\ 1 < j + 1
    BY <1>1
  <2>2. QED
    BY <1>2, <2>1 DEF Sorted
<1>4. QED
  BY <1>1, <1>2, <1>3

\* A cell joins the line or empties it.
LEMMA PushCells ==
  ASSUME NEW c \in Cell, line \in Seq(Cell)
  PROVE  /\ Push(line, c) \in Seq(Cell)
         /\ \A i \in 1 .. Len(Push(line, c)) :
              Push(line, c)[i] = c \/ \E j \in 1 .. Len(line) : Push(line, c)[i] = line[j]
<1>1. CASE Len(line) < LINE_MAX
  <2>1. Push(line, c) = Append(line, c)
    BY <1>1 DEF Push
  <2>2. Len(Append(line, c)) = Len(line) + 1 /\ Len(line) \in Nat
        /\ Append(line, c) \in Seq(Cell)
        /\ Append(line, c)[Len(line) + 1] = c
        /\ \A i \in 1 .. Len(line) : Append(line, c)[i] = line[i]
    BY AppendProperties
  <2>3. QED
    BY <2>1, <2>2
<1>2. CASE ~(Len(line) < LINE_MAX)
  BY <1>2 DEF Push
<1>3. QED
  BY <1>1, <1>2

\* A cell that is yet to be taken.
Pending(c) ==
  \/ \E i \in 1 .. Len(line) : c = line[i]
  \/ \E i \in 1 .. Len(chunk) : c = chunk[i]
  \/ \E i \in 1 .. Len(uart) : c = uart[i]

\* Whoever only takes and drops cells need only look to their order.
LEMMA CellsKept ==
  ASSUME GpsInv, UNCHANGED <<spoken, fixes>>,
         line' \in Seq(Cell), chunk' \in Seq(Cell), uart' \in Seq(Cell),
         \A i \in 1 .. Len(line') : Pending(line'[i]),
         \A i \in 1 .. Len(chunk') : Pending(chunk'[i]),
         \A i \in 1 .. Len(uart') : Pending(uart'[i]),
         Sorted(chunk'), Sorted(uart'),
         Later(line', chunk'), Later(line', uart'), Later(chunk', uart')
  PROVE  GpsTypeOK' /\ OrderInv'
<1>1. ASSUME NEW c, Pending(c)
      PROVE  c.n \in 1 .. Len(spoken) /\ \A k \in 1 .. Len(fixes) : fixes[k] < c.n
  BY <1>1 DEF GpsInv, OrderInv, Pending, Spoken, Fixed
<1>2. Spoken(line)' /\ Spoken(chunk)' /\ Spoken(uart)'
  BY <1>1 DEF Spoken
<1>3. Fixed(line)' /\ Fixed(chunk)' /\ Fixed(uart)'
  BY <1>1 DEF Fixed
<1>4. Sorted(chunk)' /\ Sorted(uart)' /\ Later(line, chunk)' /\ Later(line, uart)'
      /\ Later(chunk, uart)'
  BY DEF Sorted, Later
<1>5. QED
  BY <1>2, <1>3, <1>4 DEF GpsInv, GpsTypeOK, OrderInv

\* A read, or a part of one, that leaves a stretch of each.
LEMMA StretchesKept ==
  ASSUME GpsInv, UNCHANGED <<spoken, fixes>>,
         line' = <<>> \/ line' = line, Stretch(chunk', chunk), Stretch(uart', uart)
  PROVE  GpsTypeOK' /\ OrderInv'
<1>1. line \in Seq(Cell) /\ chunk \in Seq(Cell) /\ uart \in Seq(Cell) /\ OrderInv
  BY DEF GpsInv, GpsTypeOK
<1>2. Stretch(line', line)
  BY <1>1, EmptyStretch
<1>3. Within(line', line) /\ Within(chunk', chunk) /\ Within(uart', uart)
  BY <1>1, <1>2, StretchWithin
<1>4. Sorted(chunk') /\ Sorted(uart')
  BY <1>1, StretchWithin DEF OrderInv
<1>5. Later(line', chunk') /\ Later(line', uart') /\ Later(chunk', uart')
  BY <1>1, <1>3, LaterWithin DEF OrderInv
<1>6. /\ line' \in Seq(Cell) /\ chunk' \in Seq(Cell) /\ uart' \in Seq(Cell)
      /\ \A i \in 1 .. Len(line') : Pending(line'[i])
      /\ \A i \in 1 .. Len(chunk') : Pending(chunk'[i])
      /\ \A i \in 1 .. Len(uart') : Pending(uart'[i])
  BY <1>3 DEF Within, Pending
<1>7. QED
  BY <1>4, <1>5, <1>6, CellsKept

LEMMA FixesKept ==
  ASSUME GpsInv, UNCHANGED <<spoken, fixes, ref>> PROVE FixInv'
BY DEF GpsInv, FixInv

LEMMA GpsInitInv == GpsInit => GpsInv
BY DEF GpsInit, GpsInv, GpsTypeOK, OrderInv, FixInv, Sorted, Later, Spoken, Fixed

\* Of a sentence a newline comes last, if it comes.
LEMMA HeardShape ==
  ASSUME NEW parts \in Heard
  PROVE  /\ parts \in Seq({"head", "tail", "newline"}) /\ Len(parts) \in Nat
         /\ DOMAIN parts = 1 .. Len(parts)
         /\ \A i, j \in 1 .. Len(parts) : i < j => parts[i] # "newline"
<1> DEFINE P == {"head", "tail", "newline"}
           Shape(p) == /\ p \in Seq(P)
                       /\ \A i, j \in 1 .. Len(p) : i < j => p[i] # "newline"
<1>1. Shape(<<>>)
  OBVIOUS
<1>2. \A a \in P : Shape(<<a>>)
  OBVIOUS
<1>3. \A a \in P, b \in P : a # "newline" => Shape(<<a, b>>)
  <2> SUFFICES ASSUME NEW a \in P, NEW b \in P, a # "newline" PROVE Shape(<<a, b>>)
    OBVIOUS
  <2>1. <<a, b>> \in Seq(P) /\ Len(<<a, b>>) = 2 /\ <<a, b>>[1] = a
    OBVIOUS
  <2>2. \A i, j \in 1 .. 2 : i < j => i = 1
    OBVIOUS
  <2>3. QED
    BY <2>1, <2>2
<1>4. Shape(<<"head", "tail", "newline">>)
  <2> DEFINE p == <<"head", "tail", "newline">>
  <2>1. p \in Seq(P) /\ Len(p) = 3 /\ p[1] = "head" /\ p[2] = "tail"
    OBVIOUS
  <2>2. \A i, j \in 1 .. 3 : i < j => i = 1 \/ i = 2
    OBVIOUS
  <2> HIDE DEF p
  <2>3. Shape(p)
    BY <2>1, <2>2
  <2>4. QED
    BY <2>3 DEF p
<1>5. "head" \in P /\ "tail" \in P /\ "newline" \in P /\ "head" # "newline" /\ "tail" # "newline"
  OBVIOUS
<1> HIDE DEF P, Shape
<1>6. Shape(parts)
  BY <1>1, <1>2, <1>3, <1>4, <1>5 DEF Heard
<1>7. QED
  BY <1>6, LenProperties DEF Shape, P

LEMMA SpeakInv ==
  ASSUME GpsInv, NEW s \in Sentence, NEW parts \in Heard, Speak(s, parts)
  PROVE  GpsInv'
<1> DEFINE n == Len(spoken) + 1
           new == [k \in DOMAIN parts |->
                     IF baud = gpsBaud THEN [n |-> n, part |-> parts[k]]
                                       ELSE [n |-> n, part |-> "noise"]]
<1>1. /\ line \in Seq(Cell) /\ chunk \in Seq(Cell) /\ uart \in Seq(Cell)
      /\ Len(uart) \in Nat /\ spoken \in Seq(Sentence) /\ n \in Nat \ {0}
      /\ OrderInv /\ FixInv /\ fixes \in Seq(Nat)
  BY DEF GpsInv, GpsTypeOK
<1>2. /\ parts \in Seq({"head", "tail", "newline"}) /\ Len(parts) \in Nat
      /\ DOMAIN parts = 1 .. Len(parts)
      /\ \A i, j \in 1 .. Len(parts) : i < j => parts[i] # "newline"
  BY HeardShape
<1>3. /\ uart' = uart \o new /\ spoken' = Append(spoken, s)
      /\ UNCHANGED <<phase, baud, line, chunk, ref, fixes>>
  BY DEF Speak, driverVars
<1>4. /\ new \in Seq(Cell) /\ Len(new) = Len(parts)
      /\ \A i \in 1 .. Len(new) : new[i].n = n
      /\ \A i, j \in 1 .. Len(new) : i < j => new[i].part # "newline"
  <2>1. \A i \in 1 .. Len(parts) : new[i] \in Cell /\ new[i].n = n
    BY <1>1, <1>2 DEF Cell
  <2>2. \A i, j \in 1 .. Len(parts) : i < j => new[i].part # "newline"
    BY <1>1, <1>2
  <2>3. new \in [1 .. Len(parts) -> Cell]
    BY <1>2, <2>1
  <2> HIDE DEF new
  <2>4. new \in Seq(Cell) /\ Len(new) = Len(parts)
    BY <1>2, <2>3, SeqDef, LenProperties
  <2>5. QED
    BY <2>1, <2>2, <2>4
<1> HIDE DEF new
<1>5. /\ spoken' \in Seq(Sentence) /\ Len(spoken') = n
      /\ \A i \in 1 .. Len(spoken) : spoken'[i] = spoken[i] /\ i \in 1 .. Len(spoken')
  BY <1>1, <1>3
<1>6. /\ uart' \in Seq(Cell) /\ Len(uart') = Len(uart) + Len(new)
      /\ \A i \in 1 .. Len(uart) + Len(new) :
           uart'[i] = IF i <= Len(uart) THEN uart[i] ELSE new[i - Len(uart)]
  BY <1>1, <1>3, <1>4, ConcatProperties
<1>7. ASSUME NEW i \in 1 .. Len(uart')
      PROVE  \/ i \in 1 .. Len(uart) /\ uart'[i] = uart[i]
             \/ /\ i - Len(uart) \in 1 .. Len(new) /\ uart'[i] = new[i - Len(uart)]
                /\ uart'[i].n = n
  <2>1. /\ Len(uart) \in Nat /\ Len(new) \in Nat /\ i \in Nat
        /\ i \in 1 .. Len(uart) + Len(new)
    BY <1>1, <1>4, <1>6
  <2>2. CASE i =< Len(uart)
    BY <1>6, <2>1, <2>2
  <2>3. CASE ~(i =< Len(uart))
    <3>1. i - Len(uart) \in 1 .. Len(new)
      BY <2>1, <2>3
    <3>2. uart'[i] = new[i - Len(uart)]
      BY <1>6, <2>1, <2>3
    <3>3. QED
      BY <1>4, <3>1, <3>2
  <2>4. QED
    BY <2>2, <2>3
<1> HIDE DEF n
<1>8. \A c \in Cell : c.n \in Nat /\ (c.n \in 1 .. Len(spoken) => c.n < n)
  BY <1>1 DEF n, Cell
<1>9. ASSUME NEW x \in Seq(Cell), Spoken(x), Later(x, uart) PROVE Later(x, uart')
  <2> SUFFICES ASSUME NEW i \in 1 .. Len(x), NEW j \in 1 .. Len(uart')
               PROVE  Before(x[i], uart'[j])
    BY DEF Later
  <2>1. CASE j \in 1 .. Len(uart) /\ uart'[j] = uart[j]
    BY <1>9, <2>1 DEF Later
  <2>2. CASE uart'[j].n = n
    <3>1. x[i].n < n /\ x[i].n \in Nat
      BY <1>8, <1>9 DEF Spoken
    <3>2. QED
      BY <1>1, <2>2, <3>1 DEF Before
  <2>3. QED
    BY <1>7, <2>1, <2>2
<1>10. Sorted(uart')
  <2> SUFFICES ASSUME NEW i \in 1 .. Len(uart'), NEW j \in 1 .. Len(uart'), i < j
               PROVE  Before(uart'[i], uart'[j])
    BY DEF Sorted
  <2>1. CASE i \in 1 .. Len(uart) /\ uart'[i] = uart[i]
    <3>1. CASE j \in 1 .. Len(uart) /\ uart'[j] = uart[j]
      BY <1>1, <2>1, <3>1 DEF OrderInv, Sorted
    <3>2. CASE uart'[j].n = n
      <4>1. uart[i] \in Cell
        BY <1>1, <2>1
      <4>2. uart'[i].n < n /\ uart'[i].n \in Nat
        BY <1>1, <1>8, <2>1, <4>1 DEF OrderInv, Spoken
      <4>3. QED
        BY <1>1, <3>2, <4>2 DEF Before
    <3>3. QED
      BY <1>7, <3>1, <3>2
  <2>2. CASE /\ i - Len(uart) \in 1 .. Len(new) /\ uart'[i] = new[i - Len(uart)]
             /\ uart'[i].n = n
    <3>1. /\ j - Len(uart) \in 1 .. Len(new) /\ uart'[j].n = n
          /\ i - Len(uart) < j - Len(uart)
      <4>1. i \in Int /\ j \in Int /\ Len(uart) \in Int /\ i > Len(uart)
        BY <1>1, <1>6, <2>2, <1>4
      <4>2. ~(j \in 1 .. Len(uart))
        BY <4>1
      <4>3. i - Len(uart) < j - Len(uart)
        BY <4>1
      <4>4. QED
        BY <1>7, <4>2, <4>3
    <3>2. uart'[i].part # "newline"
      BY <1>4, <2>2, <3>1
    <3>3. QED
      BY <1>1, <2>2, <3>1, <3>2 DEF Before
  <2>3. QED
    BY <1>7, <2>1, <2>2
<1>11. Spoken(line)' /\ Spoken(chunk)' /\ Spoken(uart)'
  <2>1. \A m \in 1 .. Len(spoken) : m \in 1 .. Len(spoken')
    BY <1>5
  <2>2. n \in 1 .. Len(spoken')
    BY <1>1, <1>5 DEF n
  <2>3. \A i \in 1 .. Len(uart') : uart'[i].n \in 1 .. Len(spoken')
    BY <1>1, <1>7, <2>1, <2>2 DEF OrderInv, Spoken
  <2>4. QED
    BY <1>1, <1>3, <2>1, <2>3 DEF OrderInv, Spoken
<1>12. Fixed(uart')
  <2> SUFFICES ASSUME NEW k \in 1 .. Len(fixes), NEW i \in 1 .. Len(uart')
               PROVE  fixes[k] < uart'[i].n
    BY DEF Fixed
  <2>1. CASE i \in 1 .. Len(uart) /\ uart'[i] = uart[i]
    BY <1>1, <2>1 DEF OrderInv, Fixed
  <2>2. CASE uart'[i].n = n
    BY <1>1, <2>2 DEF FixInv, n
  <2>3. QED
    BY <1>7, <2>1, <2>2
<1>13. OrderInv'
  <2>1. Later(line, uart') /\ Later(chunk, uart')
    BY <1>1, <1>9 DEF OrderInv
  <2>2. QED
    BY <1>1, <1>3, <1>10, <1>11, <1>12, <2>1 DEF OrderInv, Sorted, Later, Fixed
<1>14. FixInv'
  BY <1>1, <1>3, <1>5 DEF FixInv
<1>15. QED
  BY <1>1, <1>3, <1>5, <1>6, <1>13, <1>14 DEF GpsInv, GpsTypeOK

LEMMA PushLater ==
  ASSUME NEW c \in Cell, NEW y, line \in Seq(Cell), Later(line, y),
         \A j \in 1 .. Len(y) : Before(c, y[j])
  PROVE  Later(Push(line, c), y)
BY PushCells DEF Later

LEMMA ProbeCellInv ==
  ASSUME GpsInv, ProbeCell PROVE GpsInv'
<1>1. /\ line \in Seq(Cell) /\ chunk \in Seq(Cell) /\ uart \in Seq(Cell)
      /\ Len(uart) \in Nat /\ OrderInv
  BY DEF GpsInv, GpsTypeOK
<1>2. phase = "probe" /\ uart # <<>> /\ UNCHANGED <<baud, chunk, ref, fixes, spoken>>
  BY DEF ProbeCell, receiverVars
<1>3. chunk = <<>> /\ chunk' = <<>>
  BY <1>2 DEF GpsInv
<1>4. FixInv'
  BY <1>2, FixesKept
<1>5. CASE Head(uart).part # "newline"
  <2> DEFINE c == Head(uart)
  <2>1. line' = Push(line, c) /\ uart' = Tail(uart)
    BY <1>5 DEF ProbeCell
  <2>2. /\ c = uart[1] /\ 1 \in 1 .. Len(uart) /\ c \in Cell
        /\ \A j \in 1 .. Len(Tail(uart)) : Before(c, Tail(uart)[j])
    BY <1>1, <1>2, HeadLater DEF OrderInv
  <2> HIDE DEF c
  <2>3. Stretch(uart', uart)
    BY <1>1, <1>2, <2>1, TailStretch
  <2>4. Within(uart', uart) /\ Sorted(uart')
    BY <1>1, <2>3, StretchWithin DEF OrderInv
  <2>5. Within(line, line)
    BY <1>1 DEF Within
  <2>6. Later(line, uart')
    BY <1>1, <2>4, <2>5, LaterWithin DEF OrderInv
  <2>7. Later(line', uart')
    BY <1>1, <2>1, <2>2, <2>6, PushLater
  <2>8. line' \in Seq(Cell) /\ \A i \in 1 .. Len(line') : Pending(line'[i])
    BY <1>1, <2>1, <2>2, PushCells DEF Pending
  <2>9. uart' \in Seq(Cell) /\ \A i \in 1 .. Len(uart') : Pending(uart'[i])
    BY <2>4 DEF Within, Pending
  <2>10. /\ chunk' \in Seq(Cell) /\ \A i \in 1 .. Len(chunk') : Pending(chunk'[i])
         /\ Sorted(chunk') /\ Later(line', chunk') /\ Later(chunk', uart')
    BY <1>3 DEF Sorted, Later
  <2>11. GpsTypeOK' /\ OrderInv'
    BY <1>2, <2>4, <2>7, <2>8, <2>9, <2>10, CellsKept
  <2>12. QED
    BY <1>3, <1>4, <2>11 DEF GpsInv
<1>6. CASE Head(uart).part = "newline"
  <2>1. line' = <<>>
    BY <1>6 DEF ProbeCell
  <2>2. Stretch(uart', uart)
    <3>1. CASE uart' = Tail(uart)
      BY <1>1, <1>2, <3>1, TailStretch
    <3>2. CASE \E k \in 1 .. Len(uart) : k =< READ_MAX /\ uart' = SubSeq(uart, k + 1, Len(uart))
      <4>1. PICK k \in 1 .. Len(uart) : uart' = SubSeq(uart, k + 1, Len(uart))
        BY <3>2
      <4>2. k \in Nat /\ k =< Len(uart)
        BY <1>1
      <4>3. QED
        BY <1>1, <4>1, <4>2, SubSeqStretch
    <3>3. QED
      BY <1>6, <3>1, <3>2 DEF ProbeCell
  <2>3. Stretch(chunk', chunk)
    BY <1>1, <1>3, EmptyStretch
  <2>4. GpsTypeOK' /\ OrderInv'
    BY <1>2, <2>1, <2>2, <2>3, StretchesKept
  <2>5. QED
    BY <1>3, <1>4, <2>4 DEF GpsInv
<1>7. QED
  BY <1>5, <1>6

LEMMA ProbeTimeoutInv ==
  ASSUME GpsInv, ProbeTimeout PROVE GpsInv'
<1>1. line' = <<>> /\ UNCHANGED <<chunk, ref, fixes, uart, spoken>> /\ phase = "probe"
  BY DEF ProbeTimeout, receiverVars
<1>2. Stretch(chunk', chunk) /\ Stretch(uart', uart)
  BY <1>1, EmptyStretch DEF GpsInv, GpsTypeOK
<1>3. GpsTypeOK' /\ OrderInv'
  BY <1>1, <1>2, StretchesKept
<1>4. QED
  BY <1>1, <1>3, FixesKept DEF GpsInv

LEMMA ReadUartInv ==
  ASSUME GpsInv, NEW k \in 1 .. READ_MAX, ReadUart(k) PROVE GpsInv'
<1>1. /\ line \in Seq(Cell) /\ chunk \in Seq(Cell) /\ uart \in Seq(Cell)
      /\ Len(uart) \in Nat /\ OrderInv
  BY DEF GpsInv, GpsTypeOK
<1>2. /\ phase = "run" /\ k =< Len(uart) /\ k \in Nat
      /\ chunk' = SubSeq(uart, 1, k) /\ uart' = SubSeq(uart, k + 1, Len(uart))
      /\ UNCHANGED <<phase, line, ref, fixes, spoken>>
  BY DEF ReadUart, receiverVars
<1>3. Stretch(chunk', uart) /\ Stretch(uart', uart)
  BY <1>1, <1>2, SubSeqStretch
<1>4. Within(chunk', uart) /\ Within(uart', uart) /\ Sorted(chunk') /\ Sorted(uart')
  BY <1>1, <1>3, StretchWithin DEF OrderInv
<1>5. Within(line, line)
  BY <1>1 DEF Within
<1>6. Later(line', chunk') /\ Later(line', uart')
  BY <1>1, <1>2, <1>4, <1>5, LaterWithin DEF OrderInv
<1>7. Later(chunk', uart')
  <2>1. /\ Len(chunk') = k
        /\ \A i \in 1 .. k : chunk'[i] = uart[i]
    <3>1. \A i \in 1 .. k : uart[i] \in Cell
      BY <1>1, <1>2
    <3>2. QED
      BY <1>2, <3>1, SubSeqProperties
  <2>2. /\ Len(uart') = Len(uart) - k
        /\ \A i \in 1 .. Len(uart) - k : uart'[i] = uart[i + k]
    <3>1. \A i \in k + 1 .. Len(uart) : uart[i] \in Cell
      BY <1>1, <1>2
    <3>2. QED
      BY <1>1, <1>2, <3>1, SubSeqProperties
  <2>3. ASSUME NEW i \in 1 .. k, NEW j \in 1 .. Len(uart) - k
        PROVE  Before(uart[i], uart[j + k])
    <3>1. i \in 1 .. Len(uart) /\ j + k \in 1 .. Len(uart) /\ i < j + k
      BY <1>1, <1>2
    <3>2. QED
      BY <1>1, <3>1 DEF OrderInv, Sorted
  <2>4. QED
    BY <2>1, <2>2, <2>3 DEF Later
<1>8. /\ line' \in Seq(Cell) /\ chunk' \in Seq(Cell) /\ uart' \in Seq(Cell)
      /\ \A i \in 1 .. Len(line') : Pending(line'[i])
      /\ \A i \in 1 .. Len(chunk') : Pending(chunk'[i])
      /\ \A i \in 1 .. Len(uart') : Pending(uart'[i])
  BY <1>1, <1>2, <1>4 DEF Within, Pending
<1>9. GpsTypeOK' /\ OrderInv'
  BY <1>2, <1>4, <1>6, <1>7, <1>8, CellsKept
<1>10. QED
  BY <1>2, <1>9, FixesKept DEF GpsInv

LEMMA CellOfLineInv ==
  ASSUME GpsInv, CellOfLine PROVE GpsInv'
<1> DEFINE c == Head(chunk)
<1>1. /\ line \in Seq(Cell) /\ chunk \in Seq(Cell) /\ uart \in Seq(Cell) /\ OrderInv
      /\ chunk # <<>> /\ phase # "probe"
  BY DEF GpsInv, GpsTypeOK, CellOfLine
<1>2. /\ line' = Push(line, c) /\ chunk' = Tail(chunk)
      /\ UNCHANGED <<phase, ref, fixes, uart, spoken>>
  BY DEF CellOfLine, receiverVars
<1>3. /\ c = chunk[1] /\ 1 \in 1 .. Len(chunk) /\ c \in Cell
      /\ \A j \in 1 .. Len(Tail(chunk)) : Before(c, Tail(chunk)[j])
  BY <1>1, HeadLater DEF OrderInv
<1> HIDE DEF c
<1>4. Stretch(chunk', chunk)
  BY <1>1, <1>2, TailStretch
<1>5. Within(chunk', chunk) /\ Sorted(chunk') /\ Within(line, line) /\ Within(uart', uart)
  BY <1>1, <1>2, <1>4, StretchWithin DEF OrderInv, Within
<1>6. Later(line, chunk') /\ Later(line, uart') /\ Later(chunk', uart')
  BY <1>1, <1>5, LaterWithin DEF OrderInv
<1>7. Later(line', chunk')
  BY <1>1, <1>2, <1>3, <1>6, PushLater
<1>8. Later(line', uart')
  <2>1. \A j \in 1 .. Len(uart') : Before(c, uart'[j])
    BY <1>1, <1>2, <1>3 DEF OrderInv, Later
  <2>2. QED
    BY <1>1, <1>2, <1>3, <1>6, <2>1, PushLater
<1>9. line' \in Seq(Cell) /\ \A i \in 1 .. Len(line') : Pending(line'[i])
  BY <1>1, <1>2, <1>3, PushCells DEF Pending
<1>10. /\ chunk' \in Seq(Cell) /\ uart' \in Seq(Cell)
       /\ \A i \in 1 .. Len(chunk') : Pending(chunk'[i])
       /\ \A i \in 1 .. Len(uart') : Pending(uart'[i])
  BY <1>5 DEF Within, Pending
<1>11. Sorted(uart')
  BY <1>1, <1>2 DEF OrderInv
<1>12. GpsTypeOK' /\ OrderInv'
  BY <1>2, <1>5, <1>6, <1>7, <1>8, <1>9, <1>10, <1>11, CellsKept
<1>13. QED
  BY <1>1, <1>2, <1>12, FixesKept DEF GpsInv

\* A line that is of no interest, or of a sentence without a fix.
LEMMA NoFixInv ==
  ASSUME GpsInv, LineOfNoInterest \/ NoFix PROVE GpsInv'
<1>1. /\ line \in Seq(Cell) /\ chunk \in Seq(Cell) /\ uart \in Seq(Cell)
      /\ chunk # <<>> /\ phase # "probe"
  BY DEF GpsInv, GpsTypeOK, LineOfNoInterest, NoFix
<1>2. /\ line' = <<>> /\ (chunk' = Tail(chunk) \/ chunk' = <<>>)
      /\ UNCHANGED <<phase, ref, fixes, uart, spoken>>
  BY DEF LineOfNoInterest, NoFix, receiverVars
<1>3. Stretch(chunk', chunk) /\ Stretch(uart', uart)
  BY <1>1, <1>2, TailStretch, EmptyStretch
<1>4. GpsTypeOK' /\ OrderInv'
  BY <1>2, <1>3, StretchesKept
<1>5. QED
  BY <1>1, <1>2, <1>4, FixesKept DEF GpsInv

\* What the driver takes for a fix says that it is one: a GGA does, and of an
\* RMC it looks at the latitude, which is never "A".
LEMMA FixIsSaid ==
  ASSUME NEW s, HasFix(s)
  PROVE  SaysFix(s)
<1>1. FieldChar(s, 3) = "latitude"
  BY DEF FieldChar
<1>2. QED
  BY <1>1 DEF HasFix, SaysFix

LEMMA FixInvStep ==
  ASSUME GpsInv, Fix PROVE GpsInv'
<1> DEFINE m == line[1].n
<1>1. /\ line \in Seq(Cell) /\ chunk \in Seq(Cell) /\ uart \in Seq(Cell)
      /\ spoken \in Seq(Sentence) /\ fixes \in Seq(Nat)
      /\ chunk # <<>> /\ phase # "probe" /\ OrderInv /\ FixInv
  BY DEF GpsInv, GpsTypeOK, Fix
<1>2. /\ Head(chunk).part = "newline" /\ IsSentence(line) /\ HasFix(spoken[m])
      /\ fixes' = Append(fixes, m) /\ ref' = (IF ref = 0 THEN m ELSE ref)
      /\ line' = <<>> /\ chunk' = <<>>
      /\ UNCHANGED <<phase, uart, spoken>>
  BY DEF Fix, receiverVars
<1>3. 1 \in 1 .. Len(line) /\ line[1] \in Cell
  BY <1>1, <1>2 DEF IsSentence
<1>4. Head(chunk) = chunk[1] /\ 1 \in 1 .. Len(chunk) /\ chunk[1] \in Cell
  BY <1>1, HeadLater DEF OrderInv
<1>5. m \in 1 .. Len(spoken) /\ m \in Nat \ {0} /\ \A k \in 1 .. Len(fixes) : fixes[k] < m
  BY <1>1, <1>3 DEF OrderInv, Spoken, Fixed
<1>6. SaysFix(spoken[m])
  <2>1. spoken[m] \in Sentence
    BY <1>1, <1>5
  <2>2. QED
    BY <1>2, <2>1, FixIsSaid
<1>7. \A i \in 1 .. Len(uart) : m < uart[i].n
  <2>1. Before(line[1], chunk[1])
    BY <1>1, <1>3, <1>4 DEF OrderInv, Later
  <2>2. ASSUME NEW i \in 1 .. Len(uart) PROVE m < uart[i].n
    <3>1. Before(chunk[1], uart[i]) /\ uart[i] \in Cell
      BY <1>1, <1>4 DEF OrderInv, Later
    <3>2. m =< chunk[1].n /\ chunk[1].n < uart[i].n
      BY <1>2, <1>4, <2>1, <3>1 DEF Before
    <3>3. m \in Nat /\ chunk[1].n \in Nat /\ uart[i].n \in Nat
      BY <1>3, <1>4, <3>1 DEF Cell
    <3>4. QED
      BY <3>2, <3>3
  <2>3. QED
    BY <2>2
<1> HIDE DEF m
<1>8. /\ fixes' \in Seq(Nat) /\ Len(fixes') = Len(fixes) + 1 /\ Len(fixes) \in Nat
      /\ fixes'[Len(fixes) + 1] = m
      /\ \A k \in 1 .. Len(fixes) : fixes'[k] = fixes[k]
  BY <1>1, <1>2, <1>5, AppendProperties
<1>9. ASSUME NEW k \in 1 .. Len(fixes')
      PROVE  (k \in 1 .. Len(fixes) /\ fixes'[k] = fixes[k]) \/ (k = Len(fixes) + 1 /\ fixes'[k] = m)
  BY <1>8
<1>10. Spoken(line)' /\ Spoken(chunk)' /\ Spoken(uart)'
  BY <1>1, <1>2 DEF OrderInv, Spoken
<1>11. Fixed(line)' /\ Fixed(chunk)'
  BY <1>2 DEF Fixed
<1>12. Fixed(uart)'
  BY <1>1, <1>2, <1>7, <1>9 DEF OrderInv, Fixed
<1>13. OrderInv'
  BY <1>1, <1>2, <1>10, <1>11, <1>12 DEF OrderInv, Sorted, Later
<1>14. FixInv'
  <2>1. \A k \in 1 .. Len(fixes') :
          /\ fixes'[k] \in 1 .. Len(spoken')
          /\ SaysFix(spoken'[fixes'[k]])
    BY <1>1, <1>2, <1>5, <1>6, <1>9 DEF FixInv
  <2>2. ASSUME NEW j \in 1 .. Len(fixes'), NEW k \in 1 .. Len(fixes'), j < k
        PROVE  fixes'[j] < fixes'[k]
    <3>1. j \in 1 .. Len(fixes) /\ fixes'[j] = fixes[j]
      BY <1>8, <1>9, <2>2
    <3>2. QED
      BY <1>1, <1>5, <1>9, <2>2, <3>1 DEF FixInv
  <2>3. fixes' # <<>>
    BY <1>8
  <2>4. ref' = fixes'[1]
    <3>1. CASE fixes = <<>>
      <4>1. Len(fixes) = 0
        BY <3>1
      <4>2. QED
        BY <1>1, <1>2, <1>8, <3>1, <4>1 DEF FixInv
    <3>2. CASE fixes # <<>>
      <4>1. 1 \in 1 .. Len(fixes)
        BY <1>1, <3>2
      <4>2. fixes[1] # 0
        BY <1>1, <4>1 DEF FixInv
      <4>3. QED
        BY <1>1, <1>2, <1>8, <3>2, <4>1, <4>2 DEF FixInv
    <3>3. QED
      BY <3>1, <3>2
  <2>5. QED
    BY <2>1, <2>2, <2>3, <2>4 DEF FixInv
<1>15. GpsTypeOK'
  BY <1>1, <1>2, <1>8 DEF GpsTypeOK
<1>16. QED
  BY <1>1, <1>2, <1>13, <1>14, <1>15 DEF GpsInv

LEMMA GpsNextInv == GpsInv /\ [GpsNext]_gpsVars => GpsInv'
<1> SUFFICES ASSUME GpsInv, [GpsNext]_gpsVars PROVE GpsInv'
  OBVIOUS
<1>1. CASE UNCHANGED gpsVars
  BY <1>1 DEF GpsInv, GpsTypeOK, OrderInv, FixInv, Sorted, Later, Spoken, Fixed,
     gpsVars, driverVars, receiverVars
<1>2. ASSUME NEW s \in Sentence, NEW parts \in Heard, Speak(s, parts) PROVE GpsInv'
  BY <1>2, SpeakInv
<1>3. CASE ProbeCell
  BY <1>3, ProbeCellInv
<1>4. CASE ProbeTimeout
  BY <1>4, ProbeTimeoutInv
<1>5. ASSUME NEW k \in 1 .. READ_MAX, ReadUart(k) PROVE GpsInv'
  BY <1>5, ReadUartInv
<1>6. CASE CellOfLine
  BY <1>6, CellOfLineInv
<1>7. CASE LineOfNoInterest \/ NoFix
  BY <1>7, NoFixInv
<1>8. CASE Fix
  BY <1>8, FixInvStep
<1>9. QED
  BY <1>1, <1>2, <1>3, <1>4, <1>5, <1>6, <1>7, <1>8 DEF GpsNext, GpsEmpty

\* Each position that is returned is of a sentence that says it has a fix and was
\* received whole, and none is returned twice, however reads, losses and baud rates cut the
\* sentences (gps/ublox.rs 181-222).
THEOREM PositionsAreSent == GpsSpec => []FixesAreSent
<1>1. GpsInv => FixesAreSent
  <2> SUFFICES ASSUME GpsInv PROVE FixesAreSent
    OBVIOUS
  <2>1. FixInv /\ fixes \in Seq(Nat) /\ DOMAIN fixes = 1 .. Len(fixes) /\ Len(fixes) \in Nat
    BY DEF GpsInv, GpsTypeOK
  <2>2. fixes # <<>> => 1 \in 1 .. Len(fixes)
    BY <2>1
  <2>3. fixes # <<>> => fixes[1] # 0
    BY <2>1, <2>2 DEF FixInv
  <2>4. QED
    BY <2>1, <2>2, <2>3 DEF FixInv, FixesAreSent, healthy
<1>2. QED
  BY <1>1, GpsInitInv, GpsNextInv, PTL DEF GpsSpec

-----------------------------------------------------------------------------
(* SensorStack *)

\* What has been read of the cycle at hand: each chip answered in this cycle, or
\* its driver has owned up to a failure; of the recording it is one frame.
GoodReading(s, value, c) ==
  IF real
  THEN s \in Chip => value = c \/ (value = Zero /\ s \notin chipHealthy)
  ELSE value = idx

StackTypeOK ==
  /\ real \in BOOLEAN
  /\ turn \in {"build", "advance", "read", "halted"}
  /\ next \in 1 .. 5
  /\ cycle \in 0 .. NCycles - 1
  /\ idx \in 0 .. DatasetLen - 1
  /\ got \in [Read -> Int] /\ frame \in [Read -> Int]

ReadInv ==
  /\ turn = "advance" => next = 1
  /\ turn = "read" => \A k \in 1 .. next - 1 : GoodReading(Source[k], got[Source[k]], cycle)

BuildInv == turn \in {"build", "halted"} => frame = NoFrame

StackInv == StackTypeOK /\ ReadInv /\ BuildInv /\ FailsSoftly

LEMMA StackInitInv == StackInit => StackInv
BY StackAssumption DEF StackInit, StackInv, StackTypeOK, ReadInv, BuildInv, FailsSoftly,
     Unread, NoFrame, None, Source

\* The cycle before the next one is the one at hand.
LEMMA CycleBefore ==
  ASSUME cycle \in 0 .. NCycles - 1, cycle' = (cycle + 1) % NCycles
  PROVE  cycle' \in 0 .. NCycles - 1 /\ LastCycle' = cycle
<1>1. NCycles \in Nat \ {0}
  BY StackAssumption
<1>2. CASE cycle + 1 < NCycles
  <2>1. cycle' = cycle + 1
    BY <1>1, <1>2
  <2>2. LastCycle' = (cycle + NCycles) % NCycles
    BY <1>1, <2>1 DEF LastCycle
  <2>3. QED
    BY <1>1, <1>2, <2>1, <2>2
<1>3. CASE cycle + 1 = NCycles
  BY <1>1, <1>3 DEF LastCycle
<1>4. QED
  BY <1>1, <1>2, <1>3

LEMMA ConstructInv == StackInv /\ Construct => StackInv'
<1> SUFFICES ASSUME StackInv, Construct PROVE StackInv'
  OBVIOUS
<1>1. Len(Source) = 5
  BY DEF Source
<1>2. QED
  BY <1>1 DEF Construct, StackInv, StackTypeOK, ReadInv, BuildInv, FailsSoftly, busVars, LastCycle

LEMMA AdvanceInv == StackInv /\ Advance => StackInv'
<1> SUFFICES ASSUME StackInv, Advance PROVE StackInv'
  OBVIOUS
<1>1. idx' \in 0 .. DatasetLen - 1
  BY StackAssumption DEF Advance, StackInv, StackTypeOK
<1>2. QED
  BY <1>1 DEF Advance, StackInv, StackTypeOK, ReadInv, BuildInv, FailsSoftly, busVars, LastCycle

LEMMA ReadSourceInv == StackInv /\ ReadSource => StackInv'
<1> SUFFICES ASSUME StackInv, ReadSource PROVE StackInv'
  OBVIOUS
<1>1. /\ turn = "read" /\ next' = next + 1
      /\ UNCHANGED <<busVars, turn, idx, acc, cycle, frame>>
  BY DEF ReadSource
<1>2. next \in 1 .. 4 /\ Source[next] \in Read
  BY <1>1 DEF ReadSource, StackInv, StackTypeOK, Source, Read
<1> PICK s \in Read : s = Source[next]
  BY <1>2
<1>3. \A k \in 1 .. 4 : Source[k] = s => k = next
  BY <1>2 DEF Source
<1>4. PICK value \in Int :
        /\ got' = [got EXCEPT ![s] = value]
        /\ chipHealthy' \subseteq chipHealthy
        /\ IF real THEN s \in Chip => value = cycle \/ (value = Zero /\ s \notin chipHealthy')
                   ELSE value = idx
  <2>1. idx \in Int /\ cycle \in Int /\ Zero \in Int /\ Elsewhere \in Int /\ real \in BOOLEAN
    BY StackAssumption DEF StackInv, StackTypeOK, Zero, Elsewhere
  <2>2. CASE ~real
    BY <2>1, <2>2 DEF ReadSource
  <2>3. CASE real /\ s \in Chip
    <3>1. ReadChip(s)
      BY <2>3 DEF ReadSource
    <3>2. CASE s \in silent
      BY <2>1, <2>3, <3>1, <3>2 DEF ReadChip
    <3>3. CASE s \notin silent
      BY <2>1, <2>3, <3>1, <3>3 DEF ReadChip
    <3>4. QED
      BY <3>2, <3>3
  <2>4. CASE real /\ s \notin Chip
    BY <2>1, <2>4 DEF ReadSource
  <2>5. QED
    BY <2>1, <2>2, <2>3, <2>4
<1>5. StackTypeOK'
  BY <1>1, <1>2, <1>4 DEF StackInv, StackTypeOK, busVars
<1>6. ReadInv'
  <2> SUFFICES ASSUME NEW k \in 1 .. next PROVE GoodReading(Source[k], got[Source[k]], cycle)'
    BY <1>1, <1>2 DEF ReadInv
  <2>1. CASE k = next
    BY <1>1, <1>4, <2>1 DEF StackInv, StackTypeOK, GoodReading, busVars
  <2>2. CASE k # next
    <3>1. Source[k] # s /\ k \in 1 .. next - 1 /\ Source[k] \in Read
      BY <1>2, <1>3, <2>2 DEF Source, Read
    <3>2. GoodReading(Source[k], got[Source[k]], cycle)
      BY <1>1, <3>1 DEF StackInv, ReadInv
    <3>3. got'[Source[k]] = got[Source[k]]
      BY <1>4, <3>1 DEF StackInv, StackTypeOK
    <3>4. QED
      BY <1>1, <1>4, <3>2, <3>3 DEF GoodReading, busVars
  <2>3. QED
    BY <2>1, <2>2
<1>7. FailsSoftly'
  BY <1>1, <1>4 DEF StackInv, FailsSoftly, LastCycle, busVars
<1>8. QED
  BY <1>1, <1>5, <1>6, <1>7 DEF StackInv, BuildInv

LEMMA StoreFrameInv == StackInv /\ StoreFrame => StackInv'
<1> SUFFICES ASSUME StackInv, StoreFrame PROVE StackInv'
  OBVIOUS
<1>1. next = 5
  BY DEF StackInv, StackTypeOK, StoreFrame, Source, Read
<1>2. \A s \in Read : GoodReading(s, got[s], cycle)
  <2>1. \A k \in 1 .. 4 : GoodReading(Source[k], got[Source[k]], cycle)
    BY <1>1 DEF StackInv, ReadInv, StoreFrame
  <2>2. \A s \in Read : \E k \in 1 .. 4 : s = Source[k]
    BY DEF Read, Source
  <2>3. QED
    BY <2>1, <2>2
<1>3. cycle' \in 0 .. NCycles - 1 /\ LastCycle' = cycle
  BY CycleBefore DEF StackInv, StackTypeOK, StoreFrame
<1>4. StackTypeOK'
  BY <1>3 DEF StackInv, StackTypeOK, StoreFrame, busVars, Unread, None
<1>5. FailsSoftly'
  BY <1>2, <1>3 DEF FailsSoftly, StoreFrame, busVars, GoodReading, StackInv, StackTypeOK, Read
<1>6. QED
  BY <1>4, <1>5 DEF StackInv, ReadInv, BuildInv, StoreFrame

\* A sensor that fails after the start costs its own readings and no more
\* (sensors.rs, imu/icm20948.rs, baro/bmp280.rs): the frame is of one cycle.
THEOREM SensorsFailSoftly == StackSpec => []FailsSoftly
<1>1. StackInv /\ [StackNext]_stackVars => StackInv'
  <2> SUFFICES ASSUME StackInv, [StackNext]_stackVars PROVE StackInv'
    OBVIOUS
  <2>1. CASE UNCHANGED stackVars
    BY <2>1 DEF StackInv, StackTypeOK, ReadInv, BuildInv, FailsSoftly, LastCycle,
                GoodReading, stackVars, busVars
  <2>2. CASE ChipChanges
    BY <2>2 DEF ChipChanges, StackInv, StackTypeOK, ReadInv, BuildInv, FailsSoftly,
                LastCycle, GoodReading
  <2>3. QED
    BY <2>1, <2>2, ConstructInv, AdvanceInv, ReadSourceInv, StoreFrameInv
       DEF StackNext, Halted
<1>2. StackInv => FailsSoftly
  BY DEF StackInv
<1>3. QED
  BY StackInitInv, <1>1, <1>2, PTL DEF StackSpec

-----------------------------------------------------------------------------
(* Streams *)

\* Each of the four inputs behaves within Streams as it does by itself.
LEMMA StreamsCompose == StreamsSpec => FrameSpec /\ SbusSpec /\ GpsSpec /\ StackSpec
<1>1. StreamsInit => FrameInit /\ SbusInit /\ GpsInit /\ StackInit
  BY DEF StreamsInit
<1>2. [StreamsNext]_streamVars => [FrameNext]_frameVars /\ [SbusNext]_sbusVars
                                  /\ [GpsNext]_gpsVars /\ [StackNext]_stackVars
  BY DEF StreamsNext, streamVars
<1>3. QED
  BY <1>1, <1>2, PTL DEF StreamsSpec, FrameSpec, SbusSpec, GpsSpec, StackSpec

\* So the promises of all four hold side by side.
THEOREM InputsKeepPromises ==
  StreamsSpec => [](FramesAreCuts /\ QuietResyncs /\ FollowsReceiver /\ FixesAreSent /\ FailsSoftly)
BY StreamsCompose, ParserCuts, ParserResyncs, ReceiverIsFollowed, PositionsAreSent,
   SensorsFailSoftly, PTL
=============================================================================
