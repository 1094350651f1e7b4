---------------------------- MODULE LogRingProofs ----------------------------
(***************************************************************************)
(* The log of the application, for every size of the ring, of the packet   *)
(* and of the buffers, and for every set of texts:                         *)
(*   - the flag LOG_MTX is only ever tried, and yet it excludes: log_task, *)
(*     which gives up its round when it finds it taken, never does;        *)
(*   - from the head to the tail the ring is a sequence of whole entries;  *)
(*   - Warn and Error entries leave it unprinted in one case only;         *)
(*   - the reader of the console sees whole lines, in order, each once:    *)
(*     the log implements LossyLog.                                        *)
(* The ring is read through Laid: entries es that lie back to back from    *)
(* the head, the k-th at the offset off[k].                                *)
(***************************************************************************)
EXTENDS LogRing, SequenceTheorems, WellFoundedInduction, FiniteSetTheorems, TLAPS

-----------------------------------------------------------------------------
(* The flag *)

Label == {"away", "emit", "place", "write", "publish", "unlock", "panic",
          "trylock", "pop", "advance", "pack", "sending", "sending_part", "rest",
          "round_end", "asleep"}

\* Between try_lock and unlock.  A task that panics there never comes to unlock.
Inside(label) ==
  label \in {"emit", "place", "write", "publish", "unlock", "panic", "pop", "advance"}

LabelInv == pc \in [Task -> Label]
EmitInv  == \A t \in Emitter : pc[t] = "away" \/ Inside(pc[t])
FlagInv  == /\ LOG_MTX \in BOOLEAN
            /\ LOG_MTX <=> \E t \in Task : Inside(pc[t])
            /\ \A t, u \in Task : Inside(pc[t]) /\ Inside(pc[u]) => t = u

FlagIInv == LabelInv /\ EmitInv /\ FlagInv

-----------------------------------------------------------------------------
(* What a step does to the flag and to the places, the rest forgotten. *)

\* A task that is inside stays inside, one that is outside stays outside.
Stays ==
  /\ LOG_MTX' = LOG_MTX
  /\ \E t \in Task, label \in Label :
       /\ pc' = [pc EXCEPT ![t] = label]
       /\ Inside(pc[t]) <=> Inside(label)
       /\ t \in Emitter => Inside(label)

Enters ==
  /\ ~LOG_MTX /\ LOG_MTX' = TRUE
  /\ \E t \in Task, label \in Label :
       /\ pc' = [pc EXCEPT ![t] = label]
       /\ Inside(label)

Leaves ==
  /\ LOG_MTX' = FALSE
  /\ \E t \in Task, label \in Label :
       /\ pc' = [pc EXCEPT ![t] = label]
       /\ Inside(pc[t]) /\ ~Inside(label)
       /\ t \in Emitter => label = "away"

Idles == UNCHANGED <<LOG_MTX, pc>>

LEMMA EmitterMoves ==
  ASSUME NEW t \in Emitter,
         \/ \E level \in Level, text \in Text : EmitTryLock(t, level, text)
         \/ EmitGoesOn(t)
  PROVE  Stays \/ Enters \/ Leaves \/ Idles
<1>0. t \in Task
  BY DEF Task
<1>1. CASE \E level \in Level, text \in Text : EmitTryLock(t, level, text)
  BY <1>0, <1>1 DEF EmitTryLock, Step, Enters, Idles, Inside, Label, logVars
<1>2. CASE EmitFormat(t)
  <2>1. PICK label \in {"place", "panic"} : pc' = [pc EXCEPT ![t] = label]
    BY <1>2 DEF EmitFormat, Step
  <2>2. pc[t] = "emit" /\ LOG_MTX' = LOG_MTX
    BY <1>2 DEF EmitFormat, Step
  <2>3. Inside(pc[t]) /\ Inside(label) /\ label \in Label
    BY <2>1, <2>2 DEF Inside, Label
  <2>4. Stays
    BY <1>0, <2>1, <2>2, <2>3 DEF Stays
  <2>5. QED
    BY <2>4
<1>3. CASE PushRoom(t) \/ PushEvict(t) \/ PushGiveUp(t) \/ PushWrite(t) \/ PushPublish(t)
  <2>1. PICK label \in {"write", "unlock", "publish"} : pc' = [pc EXCEPT ![t] = label]
    BY <1>3 DEF PushRoom, PushEvict, PushGiveUp, PushWrite, PushPublish, Step
  <2>2. pc[t] \in {"place", "write", "publish"} /\ LOG_MTX' = LOG_MTX
    BY <1>3 DEF PushRoom, PushEvict, PushGiveUp, PushWrite, PushPublish, Step
  <2>3. Inside(pc[t]) /\ Inside(label) /\ label \in Label
    BY <2>1, <2>2 DEF Inside, Label
  <2>4. QED
    BY <1>0, <2>1, <2>2, <2>3 DEF Stays
<1>4. CASE EmitUnlock(t)
  BY <1>0, <1>4 DEF EmitUnlock, Step, Leaves, Inside, Label
<1>5. QED
  BY <1>1, <1>2, <1>3, <1>4 DEF EmitGoesOn

LEMMA PopperMoves ==
  ASSUME FlagInv, PopGoesOn \/ Resume \/ Halted
  PROVE  Stays \/ Enters \/ Leaves \/ Idles
<1>0. Popper \in Task /\ Popper \notin Emitter
  BY DEF Popper, Task, Emitter
<1>1. CASE PopTryLock /\ ~LOG_MTX
  BY <1>0, <1>1 DEF PopTryLock, Step, Enters, Inside, Label
<1>2. CASE PopTryLock /\ LOG_MTX
  BY <1>0, <1>2 DEF PopTryLock, Step, Stays, Inside, Label, FlagInv
<1>3. CASE PopRead
  BY <1>0, <1>3 DEF PopRead, Step, Stays, Inside, Label
<1>4. CASE PopAdvance
  BY <1>0, <1>4 DEF PopAdvance, Step, Stays, Inside, Label
<1>5. CASE PopUnlock
  <2>1. PICK label \in {"pack", "round_end"} : pc' = [pc EXCEPT ![Popper] = label]
    BY <1>5 DEF PopUnlock, Step
  <2>2. pc[Popper] = "unlock" /\ LOG_MTX' = FALSE
    BY <1>5 DEF PopUnlock, Step
  <2>3. Inside(pc[Popper]) /\ ~Inside(label) /\ label \in Label
    BY <2>1, <2>2 DEF Inside, Label
  <2>4. QED
    BY <1>0, <2>1, <2>2, <2>3 DEF Leaves
<1>6. CASE PackWhole \/ PackPart \/ PackRest \/ RoundEnd \/ Resume
  <2>1. PICK label \in {"sending", "trylock", "sending_part", "rest", "asleep"} :
          pc' = [pc EXCEPT ![Popper] = label]
    BY <1>6 DEF PackWhole, PackPart, PackRest, RoundEnd, Resume, Step
  <2>2. /\ pc[Popper] \in {"pack", "rest", "round_end", "sending", "asleep", "sending_part"}
        /\ LOG_MTX' = LOG_MTX
    BY <1>6 DEF PackWhole, PackPart, PackRest, RoundEnd, Resume, Step
  <2>3. ~Inside(pc[Popper]) /\ ~Inside(label) /\ label \in Label
    BY <2>1, <2>2 DEF Inside, Label
  <2>4. QED
    BY <1>0, <2>1, <2>2, <2>3 DEF Stays
<1>7. CASE Halted
  BY <1>7 DEF Halted, Idles, logVars
<1>8. QED
  BY <1>1, <1>2, <1>3, <1>4, <1>5, <1>6, <1>7 DEF PopGoesOn

LEMMA MovesKeepFlag ==
  ASSUME FlagIInv, Stays \/ Enters \/ Leaves \/ Idles
  PROVE  FlagIInv'
<1>1. CASE Stays
  <2>1. PICK t \in Task, label \in Label :
          /\ pc' = [pc EXCEPT ![t] = label]
          /\ Inside(pc[t]) <=> Inside(label)
          /\ t \in Emitter => Inside(label)
    BY <1>1 DEF Stays
  <2>2. \A u \in Task : Inside(pc'[u]) <=> Inside(pc[u])
    BY <2>1 DEF FlagIInv, LabelInv
  <2>3. LabelInv' /\ EmitInv'
    BY <2>1 DEF FlagIInv, LabelInv, EmitInv, Task
  <2>4. FlagInv'
    BY <1>1, <2>2 DEF FlagIInv, FlagInv, Stays
  <2>5. QED
    BY <2>3, <2>4 DEF FlagIInv
<1>2. CASE Enters
  <2>1. PICK t \in Task, label \in Label :
          pc' = [pc EXCEPT ![t] = label] /\ Inside(label)
    BY <1>2 DEF Enters
  <2>2. \A u \in Task : ~Inside(pc[u])
    BY <1>2 DEF FlagIInv, FlagInv, Enters
  <2>3. \A u \in Task : Inside(pc'[u]) <=> u = t
    BY <2>1, <2>2 DEF FlagIInv, LabelInv
  <2>4. LabelInv' /\ EmitInv'
    BY <2>1 DEF FlagIInv, LabelInv, EmitInv, Task
  <2>5. FlagInv'
    BY <1>2, <2>1, <2>3 DEF FlagInv, Enters
  <2>6. QED
    BY <2>4, <2>5 DEF FlagIInv
<1>3. CASE Leaves
  <2>1. PICK t \in Task, label \in Label :
          /\ pc' = [pc EXCEPT ![t] = label]
          /\ Inside(pc[t]) /\ ~Inside(label)
          /\ t \in Emitter => label = "away"
    BY <1>3 DEF Leaves
  <2>2. \A u \in Task : ~Inside(pc'[u])
    BY <2>1 DEF FlagIInv, FlagInv, LabelInv
  <2>3. LabelInv' /\ EmitInv'
    BY <2>1 DEF FlagIInv, LabelInv, EmitInv, Task
  <2>4. FlagInv'
    BY <1>3, <2>2 DEF FlagInv, Leaves
  <2>5. QED
    BY <2>3, <2>4 DEF FlagIInv
<1>4. CASE Idles
  BY <1>4 DEF Idles, FlagIInv, LabelInv, EmitInv, FlagInv
<1>5. QED
  BY <1>1, <1>2, <1>3, <1>4

LEMMA FlagBegins == LogInit => FlagIInv
<1> SUFFICES ASSUME LogInit PROVE FlagIInv
  OBVIOUS
<1>1. LabelInv /\ EmitInv
  BY DEF LogInit, LabelInv, EmitInv, Label, Task, Emitter, Popper
<1>2. \A t \in Task : ~Inside(pc[t])
  BY DEF LogInit, Inside
<1>3. QED
  BY <1>1, <1>2 DEF LogInit, FlagIInv, FlagInv

\* The flag is taken exactly while one task is between try_lock and unlock.
THEOREM FlagExcludes == LogSpec => []FlagIInv
<1>1. LogInit => FlagIInv
  BY FlagBegins
<1>2. FlagIInv /\ [LogNext]_logVars => FlagIInv'
  <2>1. SUFFICES ASSUME FlagIInv, [LogNext]_logVars PROVE FlagIInv'
    OBVIOUS
  <2>2. CASE LogNext
    <3>1. CASE \E t \in Emitter :
                 \/ \E level \in Level, text \in Text : EmitTryLock(t, level, text)
                 \/ EmitGoesOn(t)
      <4>1. PICK t \in Emitter :
              \/ \E level \in Level, text \in Text : EmitTryLock(t, level, text)
              \/ EmitGoesOn(t)
        BY <3>1
      <4>2. Stays \/ Enters \/ Leaves \/ Idles
        BY <4>1, EmitterMoves
      <4>3. QED
        BY <2>1, <4>2, MovesKeepFlag
    <3>2. CASE PopGoesOn \/ Resume \/ Halted
      <4>1. Stays \/ Enters \/ Leaves \/ Idles
        BY <2>1, <3>2, PopperMoves DEF FlagIInv
      <4>2. QED
        BY <2>1, <4>1, MovesKeepFlag
    <3>3. QED
      BY <2>2, <3>1, <3>2 DEF LogNext
  <2>3. CASE UNCHANGED logVars
    BY <2>1, <2>3, MovesKeepFlag DEF Idles, logVars
  <2>4. QED
    BY <2>1, <2>2, <2>3
<1>3. QED
  BY <1>1, <1>2, PTL DEF LogSpec

\* When log_task looks at the flag, nobody above it is inside: try_lock succeeds.
THEOREM PopperNeverRefused == LogSpec => []PopperFindsFlagFree
<1>1. FlagIInv => PopperFindsFlagFree
  <2>1. SUFFICES ASSUME FlagIInv, pc[Popper] = "trylock", OnTop(Popper), LOG_MTX
                 PROVE  FALSE
    BY DEF PopperFindsFlagFree
  <2>2. PICK t \in Task : Inside(pc[t])
    BY <2>1 DEF FlagIInv, FlagInv
  <2>3. t \in Emitter
    BY <2>1, <2>2 DEF Task, Popper, Inside
  <2>4. pc[t] \notin Waiting
    BY <2>2 DEF Inside, Waiting
  <2>5. Prio[Popper] =< Prio[t]
    BY <2>1, <2>2, <2>4 DEF OnTop
  <2>6. QED
    BY <2>3, <2>5 DEF Prio, Emitter, Popper
<1>2. QED
  BY <1>1, FlagExcludes, PTL

-----------------------------------------------------------------------------
(* The entries in a ring *)

N == LOG_RING_SIZE

LEMMA Sizes ==
  /\ N \in Nat /\ BUF \in Nat /\ HEADER \in Nat /\ HEADER < BUF /\ BUF + 2 < N
  /\ PKT \in Nat /\ TMP \in Nat /\ BUF + 2 =< PKT /\ BUF + 2 =< TMP
BY LogAssumption DEF N

LEMMA Wrapped == \A x \in Nat : x % N \in 0 .. N - 1
<1>1. N \in Nat \ {0}
  BY Sizes
<1>2. QED
  BY <1>1

\* An index is wrapped at most once.
LEMMA Wraps ==
  ASSUME NEW x \in 0 .. 2 * N - 1
  PROVE  x % N = IF x < N THEN x ELSE x - N
<1>1. N \in Nat \ {0}
  BY Sizes
<1>2. CASE x < N
  BY <1>1, <1>2
<1>3. CASE ~(x < N)
  <2>1. x - N \in 0 .. N - 1
    BY <1>1, <1>3
  <2>2. (x - N) % N = x - N
    BY <1>1, <2>1
  <2>3. x % N = (x - N) % N
    BY <1>1, <1>3
  <2>4. QED
    BY <1>3, <2>2, <2>3
<1>4. QED
  BY <1>2, <1>3

LEMMA LeastNat ==
  ASSUME NEW T, T \subseteq Nat, T # {}
  PROVE  \E x \in T : \A y \in T : x =< y
<1> DEFINE R == OpToRel(<, Nat)
<1>1. IsWellFoundedOn(R, Nat)
  BY NatLessThanWellFounded
<1>2. \E x \in T : \A y \in T : ~(<<y, x>> \in R)
  <2> HIDE DEF R
  <2> QED
    BY <1>1, WFMin, Zenon
<1>3. PICK x \in T : \A y \in T : ~(<<y, x>> \in R)
  BY <1>2
<1>4. \A y \in Nat : y < x => <<y, x>> \in R
  BY DEF OpToRel
<1>5. ASSUME NEW y \in T PROVE x =< y
  <2> HIDE DEF R
  <2>1. ~(y < x)
    BY <1>3, <1>4
  <2>2. x \in Nat /\ y \in Nat
    OBVIOUS
  <2>3. QED
    BY <2>1, <2>2
<1>6. QED
  BY <1>5


LEMMA Upwards ==
  ASSUME NEW b \in Nat, NEW S, 0 \in S, \A i \in 1 .. b : i - 1 \in S => i \in S
  PROVE  \A i \in 0 .. b : i \in S
<1> DEFINE T == {i \in 0 .. b : i \notin S}
<1>1. SUFFICES ASSUME T # {} PROVE FALSE
  OBVIOUS
<1>2. T \subseteq Nat
  OBVIOUS
<1>3. PICK x \in T : \A y \in T : x =< y
  <2> HIDE DEF T
  <2> QED
    BY <1>1, <1>2, LeastNat
<1>4. x \in 1 .. b /\ x - 1 \in 0 .. b /\ ~(x =< x - 1)
  OBVIOUS
<1>5. x - 1 \in S
  BY <1>3, <1>4
<1>6. QED
  BY <1>4, <1>5

LEMMA Rises ==
  ASSUME NEW b \in Nat, NEW f, \A i \in 0 .. b : f[i] \in Nat,
         \A i \in 1 .. b : f[i - 1] < f[i]
  PROVE  /\ \A i, j \in 0 .. b : i < j => f[i] < f[j]
         /\ \A i \in 0 .. b : f[0] + i =< f[i]
<1> DEFINE S == {j \in 0 .. b : (\A i \in 0 .. b : i < j => f[i] < f[j]) /\ f[0] + j =< f[j]}
<1>1. 0 \in S
  OBVIOUS
<1>2. ASSUME NEW j \in 1 .. b, j - 1 \in S PROVE j \in S
  <2>1. j - 1 \in 0 .. b /\ j \in 0 .. b /\ f[j - 1] < f[j]
    OBVIOUS
  <2>2. ASSUME NEW i \in 0 .. b, i < j PROVE f[i] < f[j]
    <3>1. i = j - 1 \/ i < j - 1
      BY <2>2
    <3>2. f[i] \in Nat /\ f[j - 1] \in Nat /\ f[j] \in Nat
      BY <2>1
    <3>3. i < j - 1 => f[i] < f[j - 1]
      BY <1>2
    <3>4. QED
      BY <2>1, <3>1, <3>2, <3>3
  <2>3. f[0] + j =< f[j]
    <3>1. f[0] \in Nat /\ f[j - 1] \in Nat /\ f[j] \in Nat
      BY <2>1
    <3>2. f[0] + (j - 1) =< f[j - 1]
      BY <1>2
    <3>3. QED
      BY <2>1, <3>1, <3>2
  <2>4. QED
    BY <2>1, <2>2, <2>3
<1> HIDE DEF S
<1>3. \A j \in 0 .. b : j \in S
  BY <1>1, <1>2, Upwards
<1>4. QED
  BY <1>3 DEF S

-----------------------------------------------------------------------------
(* The entries of a ring, as Hop finds them *)

HopEq(R, h, f) ==
  f = [k \in 0 .. N |-> IF k = 0 THEN h ELSE f[k - 1] + R[f[k - 1] % N] + 1]

LEMMA HopExists ==
  ASSUME NEW R \in [0 .. N - 1 -> Nat], NEW h \in Nat
  PROVE  \E f : HopEq(R, h, f)
<1> DEFINE Upto(m, f) == f[0] = h /\ \A k \in 1 .. m : f[k] = f[k - 1] + R[f[k - 1] % N] + 1
           S == {m \in 0 .. N : \E f : Upto(m, f)}
<1>0. N \in Nat
  BY Sizes
<1>1. 0 \in S
  <2> DEFINE g == [k \in {0} |-> h]
  <2>1. g[0] = h
    OBVIOUS
  <2> HIDE DEF g
  <2>2. Upto(0, g)
    BY <2>1
  <2>3. 0 \in 0 .. N
    BY <1>0
  <2> HIDE DEF Upto
  <2>4. QED
    BY <2>2, <2>3
<1>2. ASSUME NEW m \in 1 .. N, m - 1 \in S PROVE m \in S
  <2>1. PICK f : Upto(m - 1, f)
    BY <1>2
  <2> DEFINE g == [k \in 0 .. m |-> IF k = m THEN f[m - 1] + R[f[m - 1] % N] + 1 ELSE f[k]]
  <2>2. m \in Nat \ {0} /\ m \in 0 .. N
    BY <1>0
  <2>3. g[0] = h
    BY <2>1, <2>2
  <2>4. ASSUME NEW k \in 1 .. m PROVE g[k] = g[k - 1] + R[g[k - 1] % N] + 1
    <3>1. g[k - 1] = f[k - 1]
      BY <2>2
    <3>2. CASE k = m
      BY <2>2, <3>1, <3>2
    <3>3. CASE k # m
      <4>1. g[k] = f[k] /\ k \in 1 .. m - 1
        BY <2>2, <3>3
      <4> HIDE DEF g
      <4>2. QED
        BY <2>1, <3>1, <4>1
    <3>4. QED
      BY <3>2, <3>3
  <2> HIDE DEF g
  <2>5. Upto(m, g)
    BY <2>3, <2>4
  <2>6. QED
    BY <2>2, <2>5
<1> HIDE DEF S
<1>3. N \in S
  <2>1. \A i \in 0 .. N : i \in S
    BY <1>0, <1>1, <1>2, Upwards
  <2>2. QED
    BY <1>0, <2>1
<1>4. PICK f : Upto(N, f)
  BY <1>3 DEF S
<1> DEFINE g == [k \in 0 .. N |-> f[k]]
<1>5. \A k \in 0 .. N : g[k] = IF k = 0 THEN h ELSE g[k - 1] + R[g[k - 1] % N] + 1
  <2> SUFFICES ASSUME NEW k \in 0 .. N
               PROVE  g[k] = IF k = 0 THEN h ELSE g[k - 1] + R[g[k - 1] % N] + 1
    OBVIOUS
  <2>1. CASE k = 0
    BY <1>0, <1>4, <2>1
  <2>2. CASE k # 0
    <3>1. k \in 1 .. N /\ k - 1 \in 0 .. N
      BY <1>0, <2>2
    <3>2. g[k] = f[k] /\ g[k - 1] = f[k - 1]
      BY <3>1
    <3> HIDE DEF g
    <3>3. QED
      BY <1>4, <2>2, <3>1, <3>2
  <2>3. QED
    BY <2>1, <2>2
<1>6. g = [k \in 0 .. N |-> g[k]]
  OBVIOUS
<1> HIDE DEF g
<1>7. HopEq(R, h, g)
  BY <1>5, <1>6 DEF HopEq
<1>8. QED
  BY <1>7

\* What emit makes of a call: a level, a line, and the newline last.
Entries ==
  {e \in Seq(Nat) : /\ Len(e) \in 2 .. BUF + 1
                    /\ e[1] \in Level
                    /\ \A i \in 1 .. Len(e) : e[i] = NL <=> i = Len(e)}

\* From h on the ring R holds the entries es in u cells; the i-th ends at off[i].
Laid(R, h, u, es, off) ==
  /\ es \in Seq(Entries)
  /\ off \in [0 .. Len(es) -> Nat]
  /\ off[0] = h /\ off[Len(es)] = h + u
  /\ \A i \in 1 .. Len(es) :
       /\ off[i] = off[i - 1] + Len(es[i]) + 1
       /\ R[off[i - 1] % N] = Len(es[i])
       /\ \A c \in 1 .. Len(es[i]) : R[(off[i - 1] + c) % N] = es[i][c]

LEMMA LaidRises ==
  ASSUME NEW R, NEW h \in 0 .. N - 1, NEW u \in 0 .. N - 1, NEW es, NEW off,
         Laid(R, h, u, es, off)
  PROVE  /\ Len(es) \in Nat /\ Len(es) =< u
         /\ \A i, j \in 0 .. Len(es) : i < j => off[i] < off[j]
         /\ \A i \in 0 .. Len(es) : off[i] \in h + i .. h + u
<1>1. Len(es) \in Nat /\ N \in Nat
  BY Sizes DEF Laid
<1>2. \A i \in 0 .. Len(es) : off[i] \in Nat
  BY DEF Laid
<1>3. \A i \in 1 .. Len(es) : off[i - 1] < off[i]
  <2> SUFFICES ASSUME NEW i \in 1 .. Len(es) PROVE off[i - 1] < off[i]
    OBVIOUS
  <2>1. i - 1 \in 0 .. Len(es) /\ es[i] \in Entries
    BY <1>1 DEF Laid
  <2>2. es[i] \in Seq(Nat) /\ off[i - 1] \in Nat
    BY <1>2, <2>1 DEF Entries
  <2>3. off[i] = off[i - 1] + Len(es[i]) + 1
    BY DEF Laid
  <2>4. Len(es[i]) \in Nat
    BY <2>2
  <2>5. QED
    BY <2>2, <2>3, <2>4
<1>4. /\ \A i, j \in 0 .. Len(es) : i < j => off[i] < off[j]
      /\ \A i \in 0 .. Len(es) : off[0] + i =< off[i]
  BY <1>1, <1>2, <1>3, Rises
<1>5. off[0] = h /\ off[Len(es)] = h + u
  BY DEF Laid
<1>6. ASSUME NEW i \in 0 .. Len(es) PROVE off[i] \in h + i .. h + u
  <2>1. Len(es) \in 0 .. Len(es) /\ off[i] \in Nat /\ (i = Len(es) \/ i < Len(es))
    BY <1>1, <1>2
  <2>2. i < Len(es) => off[i] < off[Len(es)]
    BY <1>4, <2>1
  <2>3. h + i =< off[i]
    BY <1>4, <1>5
  <2>4. QED
    BY <1>1, <1>5, <2>1, <2>2, <2>3
<1>7. Len(es) =< u
  <2>1. off[Len(es)] \in h + Len(es) .. h + u
    BY <1>1, <1>6
  <2>2. QED
    BY <1>1, <2>1
<1>8. QED
  BY <1>1, <1>4, <1>6, <1>7

\* Hop walks along the entries.
LEMMA HopWalks ==
  ASSUME NEW R \in [0 .. N - 1 -> Nat], NEW h \in 0 .. N - 1, NEW u \in 0 .. N - 1,
         NEW es, NEW off, NEW f, Laid(R, h, u, es, off), HopEq(R, h, f)
  PROVE  /\ \A i \in 0 .. Len(es) : f[i] = off[i]
         /\ \A k \in 0 .. N : f[k] \in Nat
         /\ \A i, j \in 0 .. N : i < j => f[i] < f[j]
         /\ Len(es) \in 0 .. N
<1>1. N \in Nat \ {0} /\ Len(es) \in Nat /\ Len(es) =< u
  <2>1. Len(es) \in Nat /\ Len(es) =< u
    BY LaidRises
  <2>2. QED
    BY <2>1, Sizes
<1>2. f[0] = h /\ \A k \in 1 .. N : f[k] = f[k - 1] + R[f[k - 1] % N] + 1
  <2>1. \A k \in 0 .. N : f[k] = IF k = 0 THEN h ELSE f[k - 1] + R[f[k - 1] % N] + 1
    BY DEF HopEq
  <2>2. 0 \in 0 .. N /\ \A k \in 1 .. N : k \in 0 .. N /\ k # 0
    BY <1>1
  <2>3. QED
    BY <2>1, <2>2
<1> DEFINE S == {k \in 0 .. N : f[k] \in Nat}
<1>3. 0 \in S
  BY <1>1, <1>2
<1>4. ASSUME NEW k \in 1 .. N, k - 1 \in S PROVE k \in S /\ f[k - 1] < f[k]
  <2>1. f[k - 1] \in Nat /\ f[k] = f[k - 1] + R[f[k - 1] % N] + 1
    BY <1>2, <1>4
  <2>2. f[k - 1] % N \in 0 .. N - 1
    BY <2>1, Wrapped
  <2>3. R[f[k - 1] % N] \in Nat
    BY <2>2
  <2>4. PICK r \in Nat : f[k] = f[k - 1] + r + 1
    BY <2>1, <2>3
  <2>5. f[k] \in Nat /\ f[k - 1] < f[k]
    BY <2>1, <2>4
  <2>6. k \in 0 .. N
    BY <1>1
  <2>7. QED
    BY <2>5, <2>6
<1> HIDE DEF S
<1>5. \A k \in 0 .. N : k \in S
  BY <1>1, <1>3, <1>4, Upwards
<1>6. \A k \in 0 .. N : f[k] \in Nat
  BY <1>5 DEF S
<1>7. \A k \in 1 .. N : f[k - 1] < f[k]
  <2>1. \A k \in 1 .. N : k - 1 \in 0 .. N
    BY <1>1
  <2>2. QED
    BY <1>4, <1>5, <2>1
<1>8. \A i, j \in 0 .. N : i < j => f[i] < f[j]
  BY <1>1, <1>6, <1>7, Rises
<1> DEFINE Q == {i \in 0 .. Len(es) : f[i] = off[i]}
<1>9. 0 \in Q
  BY <1>1, <1>2 DEF Laid
<1>10. ASSUME NEW i \in 1 .. Len(es), i - 1 \in Q PROVE i \in Q
  <2>1. i \in 1 .. N /\ i \in 0 .. Len(es) /\ f[i - 1] = off[i - 1]
    BY <1>1, <1>10
  <2>2. f[i] = f[i - 1] + R[f[i - 1] % N] + 1
    BY <1>2, <2>1
  <2>3. off[i] = off[i - 1] + Len(es[i]) + 1 /\ R[off[i - 1] % N] = Len(es[i])
    BY DEF Laid
  <2>4. QED
    BY <2>1, <2>2, <2>3
<1> HIDE DEF Q
<1>11. \A i \in 0 .. Len(es) : i \in Q
  BY <1>1, <1>9, <1>10, Upwards
<1>12. QED
  BY <1>1, <1>6, <1>8, <1>11 DEF Q

LEMMA HopIs ==
  ASSUME LogTypeOK, NEW es, NEW off, Laid(LOG_RING, LOG_HEAD, Used, es, off)
  PROVE  /\ \A i \in 0 .. Len(es) : Hop[i] = off[i]
         /\ \A i, j \in 0 .. N : i < j => Hop[i] < Hop[j]
         /\ \A k \in 0 .. N : Hop[k] \in Nat
         /\ Len(es) \in 0 .. N
<1>1. /\ N \in Nat \ {0} /\ LOG_RING \in [0 .. N - 1 -> Nat]
      /\ LOG_HEAD \in 0 .. N - 1 /\ LOG_TAIL \in 0 .. N - 1
  BY Sizes DEF LogTypeOK, N
<1>2. Used \in 0 .. N - 1
  BY <1>1 DEF Used, N
<1>3. HopEq(LOG_RING, LOG_HEAD, Hop)
  <2>1. Hop = CHOOSE f : HopEq(LOG_RING, LOG_HEAD, f)
    BY DEF Hop, HopEq, Cell, N
  <2>2. LOG_HEAD \in Nat
    BY <1>1
  <2>3. QED
    BY <1>1, <2>1, <2>2, HopExists
<1>4. ASSUME NEW u, u = Used, NEW f, f = Hop
      PROVE  /\ \A i \in 0 .. Len(es) : f[i] = off[i]
             /\ \A i, j \in 0 .. N : i < j => f[i] < f[j]
             /\ \A k \in 0 .. N : f[k] \in Nat
             /\ Len(es) \in 0 .. N
  <2>1. u \in 0 .. N - 1 /\ Laid(LOG_RING, LOG_HEAD, u, es, off) /\ HopEq(LOG_RING, LOG_HEAD, f)
    BY <1>2, <1>3, <1>4
  <2>2. QED
    BY <1>1, <2>1, HopWalks
<1>5. QED
  BY <1>4

\* So the entries are just those that a reader of the ring finds.
RingReads ==
  \A es, off : LogTypeOK /\ Laid(LOG_RING, LOG_HEAD, Used, es, off) => WholeEntries /\ Stored = es

LEMMA ReadRing == RingReads
<1> SUFFICES ASSUME NEW es, NEW off, LogTypeOK, Laid(LOG_RING, LOG_HEAD, Used, es, off)
             PROVE  WholeEntries /\ Stored = es
  BY DEF RingReads
<1>1. /\ N \in Nat \ {0} /\ LOG_RING \in [0 .. N - 1 -> Nat]
      /\ LOG_HEAD \in 0 .. N - 1 /\ LOG_TAIL \in 0 .. N - 1
  BY Sizes DEF LogTypeOK, N
<1>2. Used \in 0 .. N - 1
  BY <1>1 DEF Used, N
<1>4. /\ \A i \in 0 .. Len(es) : Hop[i] = off[i]
      /\ \A i, j \in 0 .. N : i < j => Hop[i] < Hop[j]
      /\ \A k \in 0 .. N : Hop[k] \in Nat
      /\ Len(es) \in 0 .. N
  BY HopIs
<1> DEFINE n == Len(es)
<1>5. Hop[n] = LOG_HEAD + Used
  BY <1>4 DEF Laid
<1>6. \A k \in 0 .. N : Hop[k] = LOG_HEAD + Used => k = n
  <2> SUFFICES ASSUME NEW k \in 0 .. N, Hop[k] = Hop[n], k # n PROVE FALSE
    BY <1>5
  <2>1. k < n \/ n < k
    BY <1>4
  <2>2. Hop[k] < Hop[n] \/ Hop[n] < Hop[k]
    BY <1>4, <2>1
  <2>3. Hop[k] \in Nat
    BY <1>4
  <2>4. QED
    BY <2>2, <2>3
<1>7. ASSUME NEW i \in 1 .. n
      PROVE  /\ es[i] \in Entries
             /\ Cell(Hop[i - 1]) = Len(es[i])
             /\ \A c \in 1 .. Len(es[i]) : Cell(Hop[i - 1] + c) = es[i][c]
  <2>1. i - 1 \in 0 .. Len(es) /\ es[i] \in Entries
    BY <1>4 DEF Laid
  <2>2. Hop[i - 1] = off[i - 1]
    BY <1>4, <2>1
  <2>3. QED
    BY <2>1, <2>2 DEF Laid, Cell, N
<1>8. WholeEntries
  <2>1. ASSUME NEW j \in 0 .. n - 1 PROVE Cell(Hop[j]) > 1 /\ Cell(Hop[j] + 1) \in Level
    <3>1. j + 1 \in 1 .. n /\ (j + 1) - 1 = j
      BY <1>4
    <3>2. es[j + 1] \in Entries /\ Cell(Hop[j]) = Len(es[j + 1])
          /\ \A c \in 1 .. Len(es[j + 1]) : Cell(Hop[j] + c) = es[j + 1][c]
      BY <1>7, <3>1
    <3>3. Len(es[j + 1]) \in 2 .. BUF + 1 /\ es[j + 1][1] \in Level
      BY <3>2 DEF Entries
    <3>4. 1 \in 1 .. Len(es[j + 1]) /\ Len(es[j + 1]) > 1
      BY <3>3, Sizes
    <3>5. QED
      BY <3>2, <3>3, <3>4
  <2>2. QED
    BY <1>4, <1>5, <2>1 DEF WholeEntries, N
<1>9. Stored = es
  <2>1. (CHOOSE k \in 0 .. N : Hop[k] = LOG_HEAD + Used) = n
    BY <1>4, <1>5, <1>6
  <2>2. Stored = [i \in 1 .. n |-> [c \in 1 .. Cell(Hop[i - 1]) |-> Cell(Hop[i - 1] + c)]]
    BY <2>1 DEF Stored, N
  <2>3. ASSUME NEW i \in 1 .. n
        PROVE  [c \in 1 .. Cell(Hop[i - 1]) |-> Cell(Hop[i - 1] + c)] = es[i]
    <3>1. es[i] = [c \in 1 .. Len(es[i]) |-> es[i][c]]
      <4>1. es[i] \in Seq(Nat)
        BY <1>7 DEF Entries
      <4>2. QED
        BY <4>1
    <3>2. QED
      BY <1>7, <3>1
  <2>4. es = [i \in 1 .. n |-> es[i]]
    BY DEF Laid
  <2>5. [i \in 1 .. n |-> [c \in 1 .. Cell(Hop[i - 1]) |-> Cell(Hop[i - 1] + c)]]
          = [i \in 1 .. n |-> es[i]]
    <3> HIDE DEF n
    <3>1. QED
      BY <2>3
  <2>6. QED
    BY <2>2, <2>4, <2>5
<1>10. QED
  BY <1>8, <1>9

LEMMA ReadRingNext == RingReads'
BY ReadRing, PTL

LEMMA Shift ==
  ASSUME NEW x \in 0 .. 2 * N - 1, NEW d \in {0, N}, d =< x
  PROVE  (x - d) % N = x % N
<1>1. N \in Nat \ {0}
  BY Sizes
<1>2. CASE d = 0
  BY <1>1, <1>2
<1>3. CASE d = N
  <2>1. x - N \in 0 .. 2 * N - 1 /\ x - N < N /\ ~(x < N)
    BY <1>1, <1>3
  <2>2. (x - N) % N = x - N
    BY <2>1, Wraps
  <2>3. x % N = x - N
    BY <2>1, Wraps
  <2>4. QED
    BY <1>3, <2>2, <2>3
<1>4. QED
  BY <1>2, <1>3

LEMMA UsedBack ==
  ASSUME NEW h \in 0 .. N - 1, NEW tl \in 0 .. N - 1, NEW u \in 0 .. N - 1, u = (tl + N - h) % N
  PROVE  tl = (h + u) % N /\ Free(h, tl) = N - u
         /\ (u = 0 <=> h = tl)
<1>1. N \in Nat \ {0}
  BY Sizes
<1>2. tl + N - h \in 0 .. 2 * N - 1
  BY <1>1
<1> DEFINE x == tl + N - h
<1>3. u = IF x < N THEN x ELSE x - N
  <2>1. x % N = IF x < N THEN x ELSE x - N
    <3> HIDE DEF x
    <3> QED
      BY <1>2, Wraps DEF x
  <2>2. QED
    BY <2>1
<1>4. u \in 0 .. N - 1 /\ h + u \in 0 .. 2 * N - 1
  BY <1>1, <1>3
<1> DEFINE y == h + u
<1>5. (h + u) % N = IF h + u < N THEN h + u ELSE h + u - N
  <2>1. y % N = IF y < N THEN y ELSE y - N
    <3>1. y \in 0 .. 2 * N - 1
      BY <1>4
    <3> HIDE DEF y
    <3> QED
      BY <3>1, Wraps
  <2>2. QED
    BY <1>1, <1>4, <2>1
<1>6. tl = (h + u) % N
  BY <1>1, <1>3, <1>5
<1>7. Free(h, tl) = N - u
  <2>1. Free(h, tl) = IF tl >= h THEN N - (tl - h) ELSE h - tl
    BY DEF Free, N
  <2>2. QED
    BY <1>1, <1>3, <2>1
<1>8. u = 0 <=> h = tl
  BY <1>1, <1>3
<1>9. QED
  BY <1>6, <1>7, <1>8

LEMMA UsedOf ==
  ASSUME NEW h \in 0 .. N - 1, NEW x \in 0 .. N - 1, NEW tl, tl = (h + x) % N
  PROVE  tl \in 0 .. N - 1 /\ (tl + N - h) % N = x
<1>1. N \in Nat \ {0}
  BY Sizes
<1>2. h + x \in 0 .. 2 * N - 1
  BY <1>1
<1> DEFINE y == h + x
<1>3. tl = IF h + x < N THEN h + x ELSE h + x - N
  <2>1. y % N = IF y < N THEN y ELSE y - N
    <3>1. y \in 0 .. 2 * N - 1
      BY <1>2
    <3> HIDE DEF y
    <3> QED
      BY <3>1, Wraps
  <2>2. QED
    BY <1>1, <1>2, <2>1
<1>4. tl \in 0 .. N - 1 /\ tl + N - h \in 0 .. 2 * N - 1
  BY <1>1, <1>3
<1> DEFINE z == tl + N - h
<1>5. (tl + N - h) % N = IF tl + N - h < N THEN tl + N - h ELSE tl + N - h - N
  <2>1. z % N = IF z < N THEN z ELSE z - N
    <3>1. z \in 0 .. 2 * N - 1
      BY <1>4
    <3> HIDE DEF z
    <3> QED
      BY <3>1, Wraps
  <2>2. QED
    BY <1>1, <1>4, <2>1
<1>6. QED
  BY <1>1, <1>3, <1>4, <1>5

LEMMA LaidNothing ==
  ASSUME NEW R, NEW h \in 0 .. N - 1
  PROVE  \E off : Laid(R, h, 0, <<>>, off)
<1> DEFINE off == [i \in 0 .. 0 |-> h]
<1>1. off \in [0 .. 0 -> Nat] /\ off[0] = h /\ h + 0 = h /\ <<>> \in Seq(Entries) /\ Len(<<>>) = 0
  BY Sizes
<1> HIDE DEF off
<1>2. Laid(R, h, 0, <<>>, off)
  BY <1>1 DEF Laid
<1>3. QED
  BY <1>2

\* Every cell that an entry is in lies between head and tail.
LEMMA LaidCells ==
  ASSUME NEW R, NEW h \in 0 .. N - 1, NEW u \in 0 .. N - 1, NEW es, NEW off,
         Laid(R, h, u, es, off), NEW i \in 1 .. Len(es)
  PROVE  /\ es[i] \in Entries /\ es[i] \in Seq(Nat) /\ Len(es[i]) \in Nat
         /\ i \in 0 .. Len(es) /\ i - 1 \in 0 .. Len(es)
         /\ off[i - 1] \in Nat /\ off[i] = off[i - 1] + Len(es[i]) + 1
         /\ off[i - 1] \in h .. h + u - 1
         /\ \A c \in 1 .. Len(es[i]) : off[i - 1] + c \in h .. h + u - 1
<1>1. /\ Len(es) \in Nat
      /\ \A j \in 0 .. Len(es) : off[j] \in h + j .. h + u
  BY LaidRises
<1>2. i \in 0 .. Len(es) /\ i - 1 \in 0 .. Len(es)
  BY <1>1
<1>3. es[i] \in Entries /\ off[i - 1] \in Nat
  <2>1. es \in Seq(Entries) /\ off \in [0 .. Len(es) -> Nat]
    BY DEF Laid
  <2>2. es[i] \in Entries
    BY <2>1
  <2>3. off[i - 1] \in Nat
    BY <1>2, <2>1
  <2>4. QED
    BY <2>2, <2>3
<1>4. es[i] \in Seq(Nat)
  BY <1>3 DEF Entries
<1>5. Len(es[i]) \in Nat
  BY <1>4
<1>6. off[i] = off[i - 1] + Len(es[i]) + 1
  BY DEF Laid
<1>7. off[i] \in h + i .. h + u /\ off[i - 1] \in h + (i - 1) .. h + u
  BY <1>1, <1>2
<1>8. off[i] =< h + u /\ h =< off[i - 1]
  BY <1>2, <1>7
<1>9. off[i - 1] \in h .. h + u - 1
  BY <1>3, <1>5, <1>6, <1>8, Sizes
<1>10. \A c \in 1 .. Len(es[i]) : off[i - 1] + c \in h .. h + u - 1
  BY <1>3, <1>5, <1>6, <1>8, Sizes
<1>11. QED
  BY <1>2, <1>3, <1>4, <1>5, <1>6, <1>9, <1>10

\* What is written elsewhere does not matter.
LEMMA LaidKept ==
  ASSUME NEW R, NEW h \in 0 .. N - 1, NEW u \in 0 .. N - 1, NEW es, NEW off,
         Laid(R, h, u, es, off), NEW Q, \A x \in h .. h + u - 1 : Q[x % N] = R[x % N]
  PROVE  Laid(Q, h, u, es, off)
<1>1. ASSUME NEW i \in 1 .. Len(es)
      PROVE  /\ off[i] = off[i - 1] + Len(es[i]) + 1
             /\ Q[off[i - 1] % N] = Len(es[i])
             /\ \A c \in 1 .. Len(es[i]) : Q[(off[i - 1] + c) % N] = es[i][c]
  <2>1. /\ off[i - 1] \in h .. h + u - 1
        /\ \A c \in 1 .. Len(es[i]) : off[i - 1] + c \in h .. h + u - 1
    BY LaidCells
  <2>2. /\ off[i] = off[i - 1] + Len(es[i]) + 1
        /\ R[off[i - 1] % N] = Len(es[i])
        /\ \A c \in 1 .. Len(es[i]) : R[(off[i - 1] + c) % N] = es[i][c]
    BY DEF Laid
  <2>3. QED
    BY <2>1, <2>2
<1>2. QED
  BY <1>1 DEF Laid

\* The k oldest entries are given up.
LEMMA LaidDrop ==
  ASSUME NEW R, NEW h \in 0 .. N - 1, NEW u \in 0 .. N - 1, NEW es, NEW off,
         Laid(R, h, u, es, off), NEW k \in 0 .. Len(es)
  PROVE  /\ off[k] \in h .. h + u /\ off[k] % N \in 0 .. N - 1
         /\ \E new : Laid(R, off[k] % N, u - (off[k] - h), SubSeq(es, k + 1, Len(es)), new)
<1>1. /\ Len(es) \in Nat /\ N \in Nat \ {0} /\ es \in Seq(Entries)
      /\ \A i \in 0 .. Len(es) : off[i] \in h + i .. h + u
      /\ \A i, j \in 0 .. Len(es) : i < j => off[i] < off[j]
  <2>1. N \in Nat \ {0}
    BY Sizes
  <2>2. es \in Seq(Entries)
    BY DEF Laid
  <2>3. /\ Len(es) \in Nat
        /\ \A i \in 0 .. Len(es) : off[i] \in h + i .. h + u
        /\ \A i, j \in 0 .. Len(es) : i < j => off[i] < off[j]
    BY LaidRises
  <2>4. QED
    BY <2>1, <2>2, <2>3
<1> DEFINE d == IF off[k] < N THEN 0 ELSE N
           m == Len(es) - k
           new == [i \in 0 .. m |-> off[i + k] - d]
           rest == SubSeq(es, k + 1, Len(es))
<1>2. off[k] \in h .. h + u /\ off[k] \in 0 .. 2 * N - 1 /\ d \in {0, N} /\ d =< off[k]
  <2>1. off[k] \in h + k .. h + u
    BY <1>1
  <2>2. QED
    BY <1>1, <2>1
<1>3. off[k] % N = off[k] - d /\ off[k] % N \in 0 .. N - 1
  <2> DEFINE y == off[k]
  <2>1. y \in 0 .. 2 * N - 1
    BY <1>2
  <2>2. y % N = IF y < N THEN y ELSE y - N
    <3> HIDE DEF y, d
    <3> QED
      BY <2>1, Wraps
  <2>3. off[k] % N = off[k] - d
    BY <1>1, <1>2, <2>2
  <2>4. off[k] - d \in 0 .. N - 1
    BY <1>1, <1>2
  <2>5. QED
    BY <2>3, <2>4
<1>4. m \in Nat /\ \A i \in 0 .. m : i + k \in 0 .. Len(es)
  BY <1>1
<1>5. /\ rest \in Seq(Entries) /\ Len(rest) = m
      /\ \A i \in 1 .. m : rest[i] = es[i + k]
  <2>1. \A i \in k + 1 .. Len(es) : es[i] \in Entries
    BY <1>1
  <2>2. QED
    BY <1>1, <2>1, SubSeqProperties
<1>6. \A i \in 0 .. m : off[i + k] \in Nat /\ d =< off[i + k] /\ off[i + k] =< h + u
  <2> SUFFICES ASSUME NEW i \in 0 .. m
               PROVE  off[i + k] \in Nat /\ d =< off[i + k] /\ off[i + k] =< h + u
    OBVIOUS
  <2>1. off[i + k] \in h + (i + k) .. h + u
    BY <1>1, <1>4
  <2>2. off[k] =< off[i + k]
    <3>1. i + k = k \/ k < i + k
      BY <1>1
    <3>2. k < i + k => off[k] < off[i + k]
      BY <1>1, <1>4
    <3>3. QED
      BY <1>1, <1>2, <2>1, <3>1, <3>2
  <2>3. QED
    BY <1>1, <1>2, <2>1, <2>2
<1>7. \A i \in 0 .. m : new[i] = off[i + k] - d /\ new[i] \in Nat
  BY <1>1, <1>2, <1>6
<1>8. new \in [0 .. m -> Nat]
  BY <1>7
<1> HIDE DEF new, rest
<1>9. new[0] = off[k] % N
  BY <1>1, <1>3, <1>4, <1>7
<1>10. new[m] = (off[k] % N) + (u - (off[k] - h))
  <2>1. m + k = Len(es) /\ m \in 0 .. m /\ off[Len(es)] = h + u
    BY <1>1, <1>4 DEF Laid
  <2>2. new[m] = off[Len(es)] - d
    BY <1>7, <2>1
  <2>3. ASSUME NEW p, p = off[k], NEW v, v = off[k] % N, NEW l, l = off[Len(es)]
        PROVE  l - d = v + (u - (p - h))
    <3>1. v = p - d /\ l = h + u /\ p \in Nat /\ d \in Nat
      BY <1>1, <1>2, <1>3, <2>1, <2>3
    <3> HIDE DEF d, m
    <3>2. QED
      BY <1>1, <3>1
  <2>4. QED
    BY <2>2, <2>3
<1>11. ASSUME NEW i \in 1 .. m
       PROVE  /\ new[i] = new[i - 1] + Len(rest[i]) + 1
              /\ R[new[i - 1] % N] = Len(rest[i])
              /\ \A c \in 1 .. Len(rest[i]) : R[(new[i - 1] + c) % N] = rest[i][c]
  <2> DEFINE j == i + k
  <2>1. j \in 1 .. Len(es) /\ i - 1 \in 0 .. m /\ i \in 0 .. m /\ (i - 1) + k = j - 1
    BY <1>1, <1>4
  <2>2. new[i - 1] = off[j - 1] - d /\ new[i] = off[j] - d /\ rest[i] = es[j]
        /\ off[j - 1] \in Nat /\ d =< off[j - 1]
    BY <1>5, <1>6, <1>7, <2>1
  <2> HIDE DEF j, d, m
  <2>3. /\ off[j] = off[j - 1] + Len(es[j]) + 1
        /\ R[off[j - 1] % N] = Len(es[j])
        /\ \A c \in 1 .. Len(es[j]) : R[(off[j - 1] + c) % N] = es[j][c]
    BY <2>1 DEF Laid
  <2>4. /\ Len(es[j]) \in Nat /\ off[j - 1] \in h .. h + u - 1
        /\ \A c \in 1 .. Len(es[j]) : off[j - 1] + c \in h .. h + u - 1
    BY <2>1, LaidCells
  <2>5. (off[j - 1] - d) % N = off[j - 1] % N
    <3> DEFINE y == off[j - 1]
    <3>1. y \in 0 .. 2 * N - 1 /\ d =< y
      BY <1>1, <2>2, <2>4
    <3> HIDE DEF y
    <3>2. (y - d) % N = y % N
      BY <1>2, <3>1, Shift
    <3>3. QED
      BY <3>2 DEF y
  <2>6. ASSUME NEW c \in 1 .. Len(es[j])
        PROVE  ((off[j - 1] - d) + c) % N = (off[j - 1] + c) % N
    <3> DEFINE y == off[j - 1] + c
    <3>1. y \in 0 .. 2 * N - 1 /\ d =< y
      <4>1. y \in h .. h + u - 1
        BY <2>4
      <4>2. c \in Nat /\ y >= off[j - 1]
        BY <2>2, <2>4
      <4>3. QED
        <5>1. h \in Nat /\ u \in Nat /\ h < N /\ u < N /\ N \in Nat /\ y \in Int
          BY <1>1, <4>1
        <5>2. d \in Nat /\ d =< off[j - 1] /\ off[j - 1] \in Nat
          BY <1>1, <1>2, <2>2
        <5> HIDE DEF y
        <5>3. QED
          BY <4>1, <4>2, <5>1, <5>2
    <3>2. (y - d) % N = y % N
      <4> HIDE DEF y
      <4> QED
        BY <1>2, <3>1, Shift
    <3>3. (off[j - 1] + c) - d = (off[j - 1] - d) + c
      BY <1>1, <1>2, <2>2
    <3>4. QED
      BY <3>2, <3>3
  <2>7. new[i] = new[i - 1] + Len(rest[i]) + 1
    <3>1. ASSUME NEW p, p = off[j - 1], NEW l, l = Len(es[j])
          PROVE  (p + l + 1) - d = (p - d) + l + 1
      <4>1. p \in Nat /\ l \in Nat /\ d \in Nat
        BY <1>1, <1>2, <2>2, <2>4, <3>1
      <4>2. QED
        BY <4>1
    <3>2. QED
      BY <2>2, <2>3, <3>1
  <2>8. QED
    BY <2>2, <2>3, <2>5, <2>6, <2>7
<1>12. Laid(R, off[k] % N, u - (off[k] - h), rest, new)
  BY <1>5, <1>8, <1>9, <1>10, <1>11 DEF Laid
<1>13. QED
  BY <1>2, <1>3, <1>12 DEF rest

\* An entry that has been written behind the others becomes one of them.
LEMMA LaidAppend ==
  ASSUME NEW R, NEW h \in 0 .. N - 1, NEW u \in 0 .. N - 1, NEW es, NEW off,
         Laid(R, h, u, es, off), NEW e \in Entries,
         R[(h + u) % N] = Len(e), \A c \in 1 .. Len(e) : R[(h + u + c) % N] = e[c]
  PROVE  \E new : Laid(R, h, u + Len(e) + 1, Append(es, e), new)
<1> DEFINE m == Len(es)
           new == [i \in 0 .. m + 1 |-> IF i = m + 1 THEN h + u + Len(e) + 1 ELSE off[i]]
           more == Append(es, e)
<1>1. m \in Nat /\ N \in Nat \ {0} /\ es \in Seq(Entries) /\ Len(e) \in Nat
  <2>1. e \in Seq(Nat)
    BY DEF Entries
  <2>2. QED
    BY <2>1, LaidRises, Sizes DEF Laid
<1>2. /\ more \in Seq(Entries) /\ Len(more) = m + 1 /\ more[m + 1] = e
      /\ \A i \in 1 .. m : more[i] = es[i]
  BY <1>1, AppendProperties
<1>3. off[0] = h /\ off[m] = h + u /\ \A i \in 0 .. m : off[i] \in Nat
  BY DEF Laid
<1>4. /\ new[m + 1] = h + u + Len(e) + 1
      /\ \A i \in 0 .. m : new[i] = off[i]
  BY <1>1
<1>5. new \in [0 .. m + 1 -> Nat]
  <2>1. \A i \in 0 .. m + 1 : i # m + 1 => i \in 0 .. m
    BY <1>1
  <2>2. h + u + Len(e) + 1 \in Nat
    BY <1>1
  <2>3. QED
    BY <1>3, <2>1, <2>2
<1> HIDE DEF new, more, m
<1>6. ASSUME NEW i \in 1 .. m + 1
      PROVE  /\ new[i] = new[i - 1] + Len(more[i]) + 1
             /\ R[new[i - 1] % N] = Len(more[i])
             /\ \A c \in 1 .. Len(more[i]) : R[(new[i - 1] + c) % N] = more[i][c]
  <2>1. i - 1 \in 0 .. m
    BY <1>1
  <2>2. CASE i = m + 1
    <3>1. new[i - 1] = h + u /\ i - 1 = m
      BY <1>1, <1>3, <1>4, <2>2
    <3>2. QED
      BY <1>2, <1>4, <2>2, <3>1
  <2>3. CASE i # m + 1
    <3>1. i \in 1 .. m /\ i \in 0 .. m
      BY <1>1, <2>3
    <3>2. new[i] = off[i] /\ new[i - 1] = off[i - 1] /\ more[i] = es[i]
      BY <1>2, <1>4, <2>1, <3>1
    <3>3. QED
      BY <3>1, <3>2 DEF Laid, m
  <2>4. QED
    BY <2>2, <2>3
<1>7. new[0] = h /\ new[m + 1] = h + (u + Len(e) + 1)
  BY <1>1, <1>3, <1>4
<1>8. Laid(R, h, u + Len(e) + 1, more, new)
  BY <1>2, <1>5, <1>6, <1>7 DEF Laid
<1>9. QED
  BY <1>8 DEF more

-----------------------------------------------------------------------------
(* What a line puts into a packet *)

Unit(x) == IF x = NL THEN <<CR, NL>> ELSE <<x>>

FlatEq(s, f) ==
  f = [i \in 1 .. Len(s) |-> IF i = 1 THEN Unit(s[i]) ELSE f[i - 1] \o Unit(s[i])]

\* The f[i] are the packed prefixes of s.
Flattens(s, f) ==
  \A i \in 1 .. Len(s) : f[i] = IF i = 1 THEN Unit(s[i]) ELSE f[i - 1] \o Unit(s[i])

LEMMA UnitBytes == \A x \in Nat : Unit(x) \in Seq(Nat) /\ Len(Unit(x)) = IF x = NL THEN 2 ELSE 1
BY DEF Unit, NL, CR

LEMMA FlatAgree ==
  ASSUME NEW s \in Seq(Nat), NEW f, NEW g, Flattens(s, f), Flattens(s, g)
  PROVE  \A i \in 1 .. Len(s) : f[i] = g[i]
<1> DEFINE S == {i \in 0 .. Len(s) : i = 0 \/ f[i] = g[i]}
<1>0. Len(s) \in Nat
  OBVIOUS
<1>1. 0 \in S
  BY <1>0
<1>2. ASSUME NEW i \in 1 .. Len(s), i - 1 \in S PROVE i \in S
  <2>1. CASE i = 1
    BY <1>0, <2>1 DEF Flattens
  <2>2. CASE i # 1
    <3>1. i - 1 # 0 /\ i \in 0 .. Len(s)
      BY <1>0, <2>2
    <3>2. f[i - 1] = g[i - 1]
      BY <1>2, <3>1
    <3>3. f[i] = f[i - 1] \o Unit(s[i]) /\ g[i] = g[i - 1] \o Unit(s[i])
      BY <2>2 DEF Flattens
    <3>4. QED
      BY <3>1, <3>2, <3>3
  <2>3. QED
    BY <2>1, <2>2
<1> HIDE DEF S
<1>3. \A i \in 0 .. Len(s) : i \in S
  BY <1>0, <1>1, <1>2, Upwards
<1>4. ASSUME NEW i \in 1 .. Len(s) PROVE f[i] = g[i]
  <2>1. i \in 0 .. Len(s) /\ i # 0
    BY <1>0
  <2>2. QED
    BY <1>3, <2>1 DEF S
<1>5. QED
  BY <1>4

LEMMA FlatExists ==
  ASSUME NEW s \in Seq(Nat)
  PROVE  \E f : FlatEq(s, f) /\ Flattens(s, f)
<1> DEFINE b == Len(s)
           Upto(m, f) == \A i \in 1 .. m : f[i] = IF i = 1 THEN Unit(s[i]) ELSE f[i - 1] \o Unit(s[i])
           S == {m \in 0 .. b : \E f : Upto(m, f)}
<1>0. b \in Nat
  OBVIOUS
<1> HIDE DEF b
<1>1. 0 \in S
  <2>1. 0 \in 0 .. b
    BY <1>0
  <2>2. Upto(0, s)
    OBVIOUS
  <2> HIDE DEF Upto
  <2>3. QED
    BY <2>1, <2>2
<1>2. ASSUME NEW m \in 1 .. b, m - 1 \in S PROVE m \in S
  <2>1. PICK f : Upto(m - 1, f)
    BY <1>2
  <2> DEFINE g == [i \in 1 .. m |-> IF i = m
                     THEN (IF i = 1 THEN Unit(s[i]) ELSE f[i - 1] \o Unit(s[i])) ELSE f[i]]
  <2>2. m \in 0 .. b /\ m \in Nat
    BY <1>0
  <2>3. ASSUME NEW i \in 1 .. m PROVE g[i] = IF i = 1 THEN Unit(s[i]) ELSE g[i - 1] \o Unit(s[i])
    <3>1. i # 1 => g[i - 1] = f[i - 1]
      BY <2>2
    <3>2. CASE i = m
      <4>1. g[i] = IF i = 1 THEN Unit(s[i]) ELSE f[i - 1] \o Unit(s[i])
        BY <3>2
      <4> HIDE DEF g
      <4>2. QED
        BY <3>1, <4>1
    <3>3. CASE i # m
      <4>1. g[i] = f[i] /\ i \in 1 .. m - 1
        BY <2>2, <3>3
      <4> HIDE DEF g
      <4>2. QED
        BY <2>1, <3>1, <4>1
    <3>4. QED
      BY <3>2, <3>3
  <2> HIDE DEF g
  <2>4. Upto(m, g)
    BY <2>3
  <2> HIDE DEF Upto
  <2>5. QED
    BY <2>2, <2>4
<1> HIDE DEF S
<1>3. b \in S
  <2>1. \A i \in 0 .. b : i \in S
    BY <1>0, <1>1, <1>2, Upwards
  <2>2. QED
    BY <1>0, <2>1
<1>4. PICK f : Upto(b, f)
  BY <1>3 DEF S
<1> DEFINE g == [i \in 1 .. b |-> f[i]]
<1>5. \A i \in 1 .. b : g[i] = IF i = 1 THEN Unit(s[i]) ELSE g[i - 1] \o Unit(s[i])
  <2> SUFFICES ASSUME NEW i \in 1 .. b
               PROVE  g[i] = IF i = 1 THEN Unit(s[i]) ELSE g[i - 1] \o Unit(s[i])
    OBVIOUS
  <2>1. g[i] = f[i] /\ (i # 1 => g[i - 1] = f[i - 1])
    BY <1>0
  <2> HIDE DEF g
  <2>2. QED
    BY <1>4, <2>1
<1>6. g = [i \in 1 .. b |-> g[i]]
  OBVIOUS
<1> HIDE DEF g
<1>7. FlatEq(s, g)
  BY <1>5, <1>6 DEF FlatEq, b
<1>8. Flattens(s, g)
  BY <1>5 DEF Flattens, b
<1>9. QED
  BY <1>7, <1>8

LEMMA FlatEqFlattens ==
  ASSUME NEW s, NEW f, FlatEq(s, f)
  PROVE  Flattens(s, f)
BY DEF FlatEq, Flattens

LEMMA CrlfIs ==
  ASSUME NEW s \in Seq(Nat), s # <<>>, NEW f, Flattens(s, f)
  PROVE  Crlf(s) = f[Len(s)]
<1> DEFINE units == [i \in 1 .. Len(s) |-> Unit(s[i])]
           flatten == CHOOSE g : g = [i \in 1 .. Len(units) |->
                                        IF i = 1 THEN units[i] ELSE g[i - 1] \o units[i]]
           g == CHOOSE g : FlatEq(s, g)
<1>1. Len(s) \in Nat \ {0} /\ Len(units) = Len(s)
  OBVIOUS
<1>2. Crlf(s) = FlattenSeq(units)
  BY DEF Crlf, Unit
<1>3. FlattenSeq(units) = flatten[Len(units)]
  BY <1>1 DEF FlattenSeq
<1>4. \A h : [i \in 1 .. Len(units) |-> IF i = 1 THEN units[i] ELSE h[i - 1] \o units[i]]
             = [i \in 1 .. Len(s) |-> IF i = 1 THEN Unit(s[i]) ELSE h[i - 1] \o Unit(s[i])]
  BY <1>1
<1>5. flatten = g
  <2> HIDE DEF units
  <2> QED
    BY <1>4 DEF FlatEq
<1>6. FlatEq(s, g)
  BY FlatExists
<1>7. Crlf(s) = g[Len(s)]
  BY <1>1, <1>2, <1>3, <1>5
<1> HIDE DEF g
<1>8. g[Len(s)] = f[Len(s)]
  <2>1. Flattens(s, g)
    BY <1>6, FlatEqFlattens
  <2>2. Len(s) \in 1 .. Len(s)
    BY <1>1
  <2>3. QED
    BY <2>1, <2>2, FlatAgree
<1>9. QED
  BY <1>7, <1>8

LEMMA CrlfEmpty == Crlf(<<>>) = <<>>
<1>1. [i \in 1 .. 0 |-> Unit(<<>>[i])] = <<>>
  OBVIOUS
<1>2. Crlf(<<>>) = FlattenSeq(<<>>)
  BY <1>1 DEF Crlf, Unit
<1>3. QED
  BY <1>2 DEF FlattenSeq

LEMMA CrlfAppend ==
  ASSUME NEW s \in Seq(Nat), NEW x \in Nat
  PROVE  Crlf(Append(s, x)) = Crlf(s) \o Unit(x)
<1> DEFINE t == Append(s, x)
           n == Len(s)
<1>1. /\ t \in Seq(Nat) /\ t # <<>> /\ n \in Nat /\ Len(t) = n + 1 /\ t[n + 1] = x
      /\ \A i \in 1 .. n : t[i] = s[i]
  BY AppendProperties
<1> HIDE DEF t
<1>2. PICK f : Flattens(t, f)
  BY <1>1, FlatExists
<1>3. Crlf(t) = f[n + 1]
  BY <1>1, <1>2, CrlfIs
<1>4. f[n + 1] = IF n = 0 THEN Unit(x) ELSE f[n] \o Unit(x)
  <2>1. n + 1 \in 1 .. Len(t) /\ (n + 1 = 1 <=> n = 0) /\ (n + 1) - 1 = n
    BY <1>1
  <2>2. QED
    BY <1>1, <1>2, <2>1 DEF Flattens
<1>5. CASE n = 0
  <2>1. s = <<>>
    BY <1>5
  <2>2. Unit(x) \in Seq(Nat)
    BY UnitBytes
  <2>3. <<>> \o Unit(x) = Unit(x)
    BY <2>2, ConcatEmptySeq
  <2>4. QED
    BY <1>3, <1>4, <1>5, <2>1, <2>3, CrlfEmpty DEF t
<1>6. CASE n # 0
  <2>1. Flattens(s, f)
    <3>1. ASSUME NEW i \in 1 .. n PROVE i \in 1 .. Len(t) /\ t[i] = s[i]
      BY <1>1
    <3>2. QED
      BY <1>2, <3>1 DEF Flattens
  <2>2. Crlf(s) = f[n]
    BY <1>6, <2>1, CrlfIs
  <2>3. QED
    BY <1>3, <1>4, <1>6, <2>2 DEF t
<1>7. QED
  BY <1>5, <1>6

\* A sequence grows by its elements.
LEMMA Grows ==
  ASSUME NEW s \in Seq(Nat), NEW n \in 1 .. Len(s)
  PROVE  /\ s[n] \in Nat /\ n - 1 \in 0 .. Len(s)
         /\ SubSeq(s, 1, n) = Append(SubSeq(s, 1, n - 1), s[n])
         /\ SubSeq(s, 1, n - 1) \in Seq(Nat) /\ SubSeq(s, 1, n) \in Seq(Nat)
         /\ Len(SubSeq(s, 1, n)) = n
<1>1. Len(s) \in Nat /\ s[n] \in Nat /\ n - 1 \in 0 .. Len(s)
  OBVIOUS
<1>2. \A i \in 1 .. n : s[i] \in Nat
  BY <1>1
<1>3. /\ SubSeq(s, 1, n) \in Seq(Nat) /\ Len(SubSeq(s, 1, n)) = n
      /\ SubSeq(s, 1, n - 1) \in Seq(Nat)
  OBVIOUS
<1>4. SubSeq(s, 1, n) = Append(SubSeq(s, 1, n - 1), s[n])
  OBVIOUS
<1>5. QED
  BY <1>1, <1>3, <1>4

LEMMA Associative == \A a, b, c \in Seq(Nat) : (a \o b) \o c = a \o (b \o c)
<1>1. ASSUME NEW a \in Seq(Nat), NEW b \in Seq(Nat), NEW c \in Seq(Nat)
      PROVE  (a \o b) \o c = a \o (b \o c)
  OBVIOUS
<1>2. QED
  BY <1>1

LEMMA Whole == \A s \in Seq(Nat) : SubSeq(s, 1, Len(s)) = s /\ SubSeq(s, 1, 0) = <<>>
OBVIOUS

LEMMA CrlfSeq ==
  ASSUME NEW s \in Seq(Nat)
  PROVE  Crlf(s) \in Seq(Nat)
<1> DEFINE S == {n \in 0 .. Len(s) : Crlf(SubSeq(s, 1, n)) \in Seq(Nat)}
<1>0. Len(s) \in Nat
  OBVIOUS
<1>1. 0 \in S
  <2>1. Crlf(SubSeq(s, 1, 0)) = <<>>
    BY Whole, CrlfEmpty
  <2>2. 0 \in 0 .. Len(s) /\ <<>> \in Seq(Nat)
    BY <1>0
  <2>3. QED
    BY <2>1, <2>2
<1>2. ASSUME NEW n \in 1 .. Len(s), n - 1 \in S PROVE n \in S
  <2>1. /\ s[n] \in Nat /\ SubSeq(s, 1, n) = Append(SubSeq(s, 1, n - 1), s[n])
        /\ SubSeq(s, 1, n - 1) \in Seq(Nat)
    BY Grows
  <2>2. Crlf(SubSeq(s, 1, n)) = Crlf(SubSeq(s, 1, n - 1)) \o Unit(s[n])
    BY <2>1, CrlfAppend
  <2>3. Crlf(SubSeq(s, 1, n - 1)) \in Seq(Nat) /\ Unit(s[n]) \in Seq(Nat)
    BY <1>2, <2>1, UnitBytes
  <2>4. Crlf(SubSeq(s, 1, n)) \in Seq(Nat)
    BY <2>2, <2>3, ConcatProperties
  <2>5. QED
    BY <1>0, <2>4
<1> HIDE DEF S
<1>3. Len(s) \in S
  <2>1. \A i \in 0 .. Len(s) : i \in S
    BY <1>0, <1>1, <1>2, Upwards
  <2>2. QED
    BY <1>0, <2>1
<1>4. Crlf(SubSeq(s, 1, Len(s))) \in Seq(Nat)
  BY <1>3 DEF S
<1>5. QED
  BY <1>4, Whole

LEMMA CrlfConcat ==
  ASSUME NEW s \in Seq(Nat), NEW t \in Seq(Nat)
  PROVE  Crlf(s \o t) = Crlf(s) \o Crlf(t)
<1> DEFINE S == {n \in 0 .. Len(t) : Crlf(s \o SubSeq(t, 1, n)) = Crlf(s) \o Crlf(SubSeq(t, 1, n))}
<1>0. Len(t) \in Nat /\ Crlf(s) \in Seq(Nat)
  BY CrlfSeq
<1>1. 0 \in S
  <2>1. s \o SubSeq(t, 1, 0) = s
    BY Whole, ConcatEmptySeq
  <2>2. Crlf(SubSeq(t, 1, 0)) = <<>>
    BY Whole, CrlfEmpty
  <2>3. Crlf(s) \o <<>> = Crlf(s)
    BY <1>0, ConcatEmptySeq
  <2>4. Crlf(s \o SubSeq(t, 1, 0)) = Crlf(s) \o Crlf(SubSeq(t, 1, 0))
    <3> DEFINE q == SubSeq(t, 1, 0)
    <3> HIDE DEF q
    <3> QED
      BY <2>1, <2>2, <2>3 DEF q
  <2>5. 0 \in 0 .. Len(t)
    BY <1>0
  <2>6. QED
    BY <2>4, <2>5
<1>2. ASSUME NEW n \in 1 .. Len(t), n - 1 \in S PROVE n \in S
  <2> DEFINE p == SubSeq(t, 1, n - 1)
             q == SubSeq(t, 1, n)
  <2>1. t[n] \in Nat /\ q = Append(p, t[n]) /\ p \in Seq(Nat) /\ q \in Seq(Nat)
    BY Grows
  <2>2. Crlf(s \o p) = Crlf(s) \o Crlf(p)
    BY <1>2
  <2>3. n \in 0 .. Len(t)
    BY <1>0
  <2> HIDE DEF p, q
  <2>4. Crlf(q) = Crlf(p) \o Unit(t[n])
    BY <2>1, CrlfAppend
  <2>5. s \o q = Append(s \o p, t[n]) /\ s \o p \in Seq(Nat)
    <3>1. s \o p \in Seq(Nat) /\ <<t[n]>> \in Seq(Nat)
      BY <2>1, ConcatProperties
    <3>2. q = p \o <<t[n]>> /\ Append(s \o p, t[n]) = (s \o p) \o <<t[n]>>
      BY <2>1, <3>1, AppendIsConcat
    <3>3. (s \o p) \o <<t[n]>> = s \o (p \o <<t[n]>>)
      <4>1. s \in Seq(Nat) /\ p \in Seq(Nat) /\ <<t[n]>> \in Seq(Nat)
        BY <2>1, <3>1
      <4> HIDE DEF S
      <4>2. QED
        BY <4>1, Associative, Zenon
    <3>4. QED
      BY <3>1, <3>2, <3>3
  <2>6. Crlf(s \o q) = Crlf(s \o p) \o Unit(t[n])
    BY <2>1, <2>5, CrlfAppend
  <2>7. Crlf(p) \in Seq(Nat) /\ Unit(t[n]) \in Seq(Nat)
    BY <2>1, CrlfSeq, UnitBytes
  <2>8. (Crlf(s) \o Crlf(p)) \o Unit(t[n]) = Crlf(s) \o (Crlf(p) \o Unit(t[n]))
    BY <1>0, <2>7, Associative
  <2>9. Crlf(s \o q) = Crlf(s) \o Crlf(q)
    BY <2>2, <2>4, <2>6, <2>8
  <2>10. QED
    BY <2>3, <2>9 DEF q
<1> HIDE DEF S
<1>3. Len(t) \in S
  <2>1. \A i \in 0 .. Len(t) : i \in S
    BY <1>0, <1>1, <1>2, Upwards
  <2>2. QED
    BY <1>0, <2>1
<1>4. Crlf(s \o SubSeq(t, 1, Len(t))) = Crlf(s) \o Crlf(SubSeq(t, 1, Len(t)))
  BY <1>3 DEF S
<1>5. QED
  BY <1>4, Whole

\* An entry takes a byte more in the packet than in the ring.
LEMMA CrlfEntry ==
  ASSUME NEW e \in Entries
  PROVE  e \in Seq(Nat) /\ Len(e) \in Nat /\ Len(Crlf(e)) = Len(e) + 1 /\ Len(e) + 1 =< PKT
<1>1. /\ e \in Seq(Nat) /\ Len(e) \in 2 .. BUF + 1
      /\ \A i \in 1 .. Len(e) : e[i] = NL <=> i = Len(e)
  BY DEF Entries
<1> DEFINE b == Len(e) - 1
           S == {n \in 0 .. b : Len(Crlf(SubSeq(e, 1, n))) = n}
<1>2. b \in Nat /\ Len(e) = b + 1 /\ b + 2 =< PKT
  BY <1>1, Sizes
<1>3. 0 \in S
  <2>1. Crlf(SubSeq(e, 1, 0)) = <<>> /\ Len(<<>>) = 0
    BY <1>1, Whole, CrlfEmpty
  <2>2. 0 \in 0 .. b
    <3> HIDE DEF b
    <3> QED
      BY <1>2
  <2>3. QED
    BY <2>1, <2>2
<1>4. ASSUME NEW n \in 0 .. b
      PROVE  Len(Crlf(SubSeq(e, 1, n + 1)))
               = Len(Crlf(SubSeq(e, 1, n))) + (IF n = b THEN 2 ELSE 1)
  <2> DEFINE p == SubSeq(e, 1, n)
             x == e[n + 1]
  <2>1. n + 1 \in 1 .. Len(e) /\ (n + 1) - 1 = n
    <3> HIDE DEF b
    <3> QED
      BY <1>2
  <2>2. SubSeq(e, 1, n + 1) = Append(p, x) /\ p \in Seq(Nat) /\ x \in Nat
    BY <1>1, <2>1, Grows
  <2>3. x = NL <=> n = b
    BY <1>1, <1>2, <2>1
  <2> HIDE DEF p, x, b
  <2>4. Crlf(Append(p, x)) = Crlf(p) \o Unit(x)
    BY <2>2, CrlfAppend
  <2>5. Crlf(p) \in Seq(Nat) /\ Unit(x) \in Seq(Nat) /\ Len(Unit(x)) = IF n = b THEN 2 ELSE 1
    BY <2>2, <2>3, CrlfSeq, UnitBytes
  <2>6. Len(Crlf(p) \o Unit(x)) = Len(Crlf(p)) + Len(Unit(x))
    BY <2>5, ConcatProperties
  <2>7. QED
    BY <2>2, <2>4, <2>5, <2>6 DEF p
<1>5. ASSUME NEW n \in 1 .. b, n - 1 \in S PROVE n \in S
  <2>1. n - 1 \in 0 .. b /\ n - 1 # b /\ (n - 1) + 1 = n /\ n \in 0 .. b
    <3> HIDE DEF b
    <3> QED
      BY <1>2
  <2>2. Len(Crlf(SubSeq(e, 1, n))) = Len(Crlf(SubSeq(e, 1, n - 1))) + 1
    <3> HIDE DEF b
    <3> QED
      BY <1>4, <2>1
  <2>3. Len(Crlf(SubSeq(e, 1, n - 1))) = n - 1
    BY <1>5
  <2>4. QED
    BY <2>1, <2>2, <2>3
<1> HIDE DEF S
<1>6. b \in S
  <2>1. \A i \in 0 .. b : i \in S
    BY <1>2, <1>3, <1>5, Upwards
  <2>2. QED
    BY <1>2, <2>1
<1>7. Len(Crlf(SubSeq(e, 1, b))) = b
  BY <1>6 DEF S
<1>8. Len(Crlf(SubSeq(e, 1, b + 1))) = b + 2
  <2>1. b \in 0 .. b
    BY <1>2
  <2> HIDE DEF b
  <2>2. QED
    BY <1>2, <1>4, <1>7, <2>1
<1>9. SubSeq(e, 1, b + 1) = e
  BY <1>1, <1>2, Whole
<1>10. Len(Crlf(e)) = b + 2
  BY <1>8, <1>9
<1> HIDE DEF b
<1>11. QED
  BY <1>1, <1>2, <1>10

-----------------------------------------------------------------------------
(* What a step does to the entries in the ring *)

RingIs(es) == \E off : Laid(LOG_RING, LOG_HEAD, Used, es, off)

LEMMA RingSizes ==
  ASSUME LogTypeOK
  PROVE  /\ LOG_RING \in [0 .. N - 1 -> Nat]
         /\ LOG_HEAD \in 0 .. N - 1 /\ LOG_TAIL \in 0 .. N - 1 /\ Used \in 0 .. N - 1
         /\ LOG_TAIL = (LOG_HEAD + Used) % N
         /\ Free(LOG_HEAD, LOG_TAIL) = N - Used
         /\ Used = 0 <=> LOG_HEAD = LOG_TAIL
<1>1. /\ LOG_RING \in [0 .. N - 1 -> Nat]
      /\ LOG_HEAD \in 0 .. N - 1 /\ LOG_TAIL \in 0 .. N - 1
  BY DEF LogTypeOK, N
<1>2. ASSUME NEW u, u = Used, NEW h, h = LOG_HEAD, NEW tl, tl = LOG_TAIL
      PROVE  /\ u \in 0 .. N - 1 /\ tl = (h + u) % N
             /\ Free(h, tl) = N - u /\ (u = 0 <=> h = tl)
  <2>1. u = (tl + N - h) % N
    BY <1>2 DEF Used, N
  <2>2. h \in 0 .. N - 1 /\ tl \in 0 .. N - 1 /\ N \in Nat \ {0}
    BY <1>1, <1>2, Sizes
  <2>4. u \in 0 .. N - 1
    BY <2>1, <2>2
  <2>3. QED
    BY <2>1, <2>2, <2>4, UsedBack
<1>3. QED
  BY <1>1, <1>2

LEMMA RingKept ==
  ASSUME NEW es, RingIs(es), UNCHANGED ring
  PROVE  RingIs(es)'
BY DEF RingIs, ring, Used

\* The k oldest entries leave: evicted, or taken by log_task.
LEMMA RingDrops ==
  ASSUME LogTypeOK, NEW es, NEW off, Laid(LOG_RING, LOG_HEAD, Used, es, off),
         NEW k \in 0 .. Len(es), LOG_HEAD' = off[k] % N, UNCHANGED <<LOG_RING, LOG_TAIL>>
  PROVE  /\ LOG_HEAD' \in 0 .. N - 1
         /\ off[k] \in LOG_HEAD .. LOG_HEAD + Used
         /\ Used' = Used - (off[k] - LOG_HEAD)
         /\ RingIs(SubSeq(es, k + 1, Len(es)))'
<1>1. N \in Nat \ {0}
  BY Sizes
<1>2. ASSUME NEW h, h = LOG_HEAD, NEW u, u = Used, NEW p, p = off[k], NEW v, v = Used'
      PROVE  /\ p % N \in 0 .. N - 1 /\ p \in h .. h + u /\ v = u - (p - h)
             /\ \E new : Laid(LOG_RING, p % N, v, SubSeq(es, k + 1, Len(es)), new)
  <2>1. h \in 0 .. N - 1 /\ u \in 0 .. N - 1 /\ LOG_TAIL = (h + u) % N
    BY <1>2, RingSizes
  <2>2. Laid(LOG_RING, h, u, es, off)
    BY <1>2
  <2>3. /\ p \in h .. h + u /\ p % N \in 0 .. N - 1
        /\ \E new : Laid(LOG_RING, p % N, u - (p - h), SubSeq(es, k + 1, Len(es)), new)
    <3>1. /\ off[k] \in h .. h + u /\ off[k] % N \in 0 .. N - 1
          /\ \E new : Laid(LOG_RING, off[k] % N, u - (off[k] - h), SubSeq(es, k + 1, Len(es)), new)
      BY <2>1, <2>2, LaidDrop
    <3>2. QED
      BY <1>2, <3>1
  <2>4. PICK q : q = p % N
    OBVIOUS
  <2>5. PICK x : x = u - (p - h)
    OBVIOUS
  <2>6. x \in 0 .. N - 1 /\ q \in 0 .. N - 1 /\ p \in 0 .. 2 * N - 1
    BY <1>1, <2>1, <2>3, <2>4, <2>5
  <2>7. q = IF p < N THEN p ELSE p - N
    BY <2>4, <2>6, Wraps
  <2>8. LOG_TAIL = (q + x) % N
    <3>1. q + x = h + u - (IF p < N THEN 0 ELSE N)
      BY <1>1, <2>1, <2>3, <2>5, <2>7
    <3>2. PICK d \in {0, N} : q + x = h + u - d /\ d =< p
      BY <1>1, <2>6, <3>1
    <3>3. PICK y : y = h + u
      OBVIOUS
    <3>4. y \in 0 .. 2 * N - 1 /\ d =< y
      BY <1>1, <2>1, <2>3, <3>2, <3>3
    <3>5. (y - d) % N = y % N
      BY <3>4, Shift
    <3>6. QED
      BY <2>1, <3>2, <3>3, <3>5
  <2>9. (LOG_TAIL + N - q) % N = x
    BY <2>6, <2>8, UsedOf
  <2>10. v = x
    BY <1>2, <2>4, <2>9 DEF Used, N
  <2>11. QED
    BY <2>3, <2>5, <2>6, <2>10
<1>3. QED
  BY <1>2 DEF RingIs

\* Written at tl, an entry is a length, a level and a line.
Written(R, tl, e) ==
  R[tl] = Len(e) /\ \A c \in 1 .. Len(e) : R[(tl + c) % N] = e[c]

LEMMA EntryLen ==
  ASSUME NEW e \in Entries
  PROVE  e \in Seq(Nat) /\ Len(e) \in 2 .. BUF + 1 /\ Len(e) \in Nat /\ Len(e) + 1 \in 1 .. N - 1
<1>1. e \in Seq(Nat) /\ Len(e) \in 2 .. BUF + 1
  BY DEF Entries
<1>2. QED
  BY <1>1, Sizes

\* The cells behind the tail take the entry, those of the others stay.
LEMMA RingWrites ==
  ASSUME LogTypeOK, NEW es, RingIs(es), NEW e \in Entries, Len(e) + 1 =< N - Used,
         UNCHANGED <<LOG_HEAD, LOG_TAIL>>,
         LOG_RING' = [c \in DOMAIN LOG_RING |->
                    LET cells == <<Len(e)>> \o e
                        i == 1 + ((c + LOG_RING_SIZE - LOG_TAIL) % LOG_RING_SIZE) IN
                    IF i \in DOMAIN cells THEN cells[i] ELSE LOG_RING[c]]
  PROVE  LOG_RING' \in [0 .. N - 1 -> Nat] /\ RingIs(es)' /\ Written(LOG_RING', LOG_TAIL, e)
<1> DEFINE cells == <<Len(e)>> \o e
<1>1. /\ N \in Nat \ {0} /\ LOG_RING \in [0 .. N - 1 -> Nat]
      /\ LOG_HEAD \in 0 .. N - 1 /\ LOG_TAIL \in 0 .. N - 1 /\ Used \in 0 .. N - 1
      /\ LOG_TAIL = (LOG_HEAD + Used) % N
  BY Sizes, RingSizes
<1>2. e \in Seq(Nat) /\ Len(e) \in Nat /\ Len(e) + 1 =< N
  BY Sizes, EntryLen
<1>3. /\ cells \in Seq(Nat) /\ Len(cells) = Len(e) + 1 /\ DOMAIN cells = 1 .. Len(e) + 1
      /\ cells[1] = Len(e)
      /\ \A c \in 1 .. Len(e) : cells[c + 1] = e[c]
  <2>1. <<Len(e)>> \in Seq(Nat) /\ Len(<<Len(e)>>) = 1
    BY <1>2
  <2>2. cells \in Seq(Nat) /\ Len(cells) = Len(e) + 1
    BY <1>2, <2>1, ConcatProperties
  <2>3. cells[1] = Len(e) /\ \A c \in 1 .. Len(e) : cells[c + 1] = e[c]
    BY <1>2
  <2> HIDE DEF cells
  <2>4. QED
    BY <2>2, <2>3
<1>4. \A x \in 0 .. N - 1 :
        LOG_RING'[x] = IF 1 + ((x + N - LOG_TAIL) % N) \in 1 .. Len(e) + 1
                       THEN cells[1 + ((x + N - LOG_TAIL) % N)] ELSE LOG_RING[x]
  <2> HIDE DEF cells
  <2>1. LOG_RING' = [c \in 0 .. N - 1 |->
                      IF 1 + ((c + N - LOG_TAIL) % N) \in DOMAIN cells
                      THEN cells[1 + ((c + N - LOG_TAIL) % N)] ELSE LOG_RING[c]]
    BY <1>1 DEF cells, N
  <2>2. QED
    BY <1>3, <2>1
<1>5. LOG_RING' \in [0 .. N - 1 -> Nat]
  <2> HIDE DEF cells
  <2>1. DOMAIN LOG_RING = 0 .. N - 1
    BY <1>1
  <2>2. LOG_RING' = [x \in 0 .. N - 1 |-> LOG_RING'[x]]
    BY <2>1
  <2>3. \A i \in 1 .. Len(e) + 1 : cells[i] \in Nat
    BY <1>3
  <2>4. \A x \in 0 .. N - 1 : LOG_RING'[x] \in Nat
    BY <1>1, <1>4, <2>3
  <2>5. QED
    BY <2>2, <2>4
<1> HIDE DEF cells
\* The cell d behind the tail.
<1>6. ASSUME NEW d \in 0 .. N - 1
      PROVE  /\ (LOG_TAIL + d) % N \in 0 .. N - 1
             /\ d =< Len(e) => LOG_RING'[(LOG_TAIL + d) % N] = cells[1 + d]
             /\ d > Len(e) => LOG_RING'[(LOG_TAIL + d) % N] = LOG_RING[(LOG_TAIL + d) % N]
  <2>1. PICK x : x = (LOG_TAIL + d) % N
    OBVIOUS
  <2>2. x \in 0 .. N - 1 /\ (x + N - LOG_TAIL) % N = d
    BY <1>1, <2>1, UsedOf
  <2>3. LOG_RING'[x] = IF 1 + d \in 1 .. Len(e) + 1 THEN cells[1 + d] ELSE LOG_RING[x]
    BY <1>4, <2>2
  <2>4. 1 + d \in 1 .. Len(e) + 1 <=> d =< Len(e)
    BY <1>2
  <2>5. d > Len(e) => ~(d =< Len(e))
    BY <1>2
  <2>6. QED
    BY <2>1, <2>2, <2>3, <2>4, <2>5
<1>7. Written(LOG_RING', LOG_TAIL, e)
  <2>1. (LOG_TAIL + 0) % N = LOG_TAIL /\ 0 \in 0 .. N - 1
    <3>1. ASSUME NEW x \in 0 .. N - 1 PROVE (x + 0) % N = x /\ 0 \in 0 .. N - 1
      BY Sizes
    <3>2. QED
      BY <1>1, <3>1
  <2>5. 0 =< Len(e)
    BY <1>2
  <2>2. LOG_RING'[(LOG_TAIL + 0) % N] = cells[1 + 0] /\ 1 + 0 = 1
    <3>1. PICK d : d = 0
      OBVIOUS
    <3>2. d \in 0 .. N - 1 /\ d =< Len(e)
      BY <2>1, <2>5, <3>1
    <3>3. LOG_RING'[(LOG_TAIL + d) % N] = cells[1 + d]
      BY <1>6, <3>2
    <3>4. QED
      BY <3>1, <3>3
  <2>3. ASSUME NEW c \in 1 .. Len(e) PROVE LOG_RING'[(LOG_TAIL + c) % N] = e[c]
    <3>1. c \in 0 .. N - 1 /\ c =< Len(e) /\ 1 + c = c + 1
      BY <1>1, <1>2
    <3>2. QED
      BY <1>3, <1>6, <3>1
  <2>4. LOG_RING'[LOG_TAIL] = Len(e)
    BY <1>3, <2>1, <2>2
  <2>6. QED
    BY <2>3, <2>4 DEF Written
<1>8. RingIs(es)'
  <2>1. PICK h : h = LOG_HEAD
    OBVIOUS
  <2>2. PICK u : u = Used
    OBVIOUS
  <2>3. Used' = u
    BY <2>2 DEF Used
  <2>4. PICK off : Laid(LOG_RING, h, u, es, off)
    BY <2>1, <2>2 DEF RingIs
  <2>5. /\ h \in 0 .. N - 1 /\ u \in 0 .. N - 1 /\ LOG_TAIL = (h + u) % N
        /\ Len(e) + 1 =< N - u
    BY <1>1, <2>1, <2>2
  <2>6. ASSUME NEW y \in h .. h + u - 1 PROVE LOG_RING'[y % N] = LOG_RING[y % N]
    <3>1. PICK d : d = y + N - (h + u)
      OBVIOUS
    <3>2. d \in 0 .. N - 1 /\ d > Len(e) /\ y \in 0 .. 2 * N - 1 /\ h + u \in 0 .. 2 * N - 1
      BY <1>1, <1>2, <2>5, <3>1
    <3>3. LOG_TAIL = IF h + u < N THEN h + u ELSE h + u - N
      <4>1. PICK z : z = h + u
        OBVIOUS
      <4>2. z % N = IF z < N THEN z ELSE z - N
        BY <3>2, <4>1, Wraps
      <4>3. QED
        BY <1>1, <2>5, <3>2, <4>1, <4>2
    <3>4. PICK z : z = LOG_TAIL + d
      OBVIOUS
    <3>5. z \in 0 .. 2 * N - 1 /\ (z = y \/ z = y + N)
      BY <1>1, <2>5, <3>1, <3>2, <3>3, <3>4
    <3>6. z % N = y % N
      <4>1. z = y => z % N = y % N
        OBVIOUS
      <4>2. CASE z = y + N
        <5>1. (z - N) % N = z % N
          <6>1. z \in 0 .. 2 * N - 1 /\ N \in {0, N} /\ N =< z
            BY <1>1, <3>2, <3>5, <4>2
          <6>2. PICK d2 \in {0, N} : d2 = N /\ d2 =< z
            BY <6>1
          <6>3. (z - d2) % N = z % N
            BY <6>1, <6>2, Shift
          <6>4. QED
            BY <6>2, <6>3
        <5>2. z - N = y
          BY <1>1, <3>2, <4>2
        <5>3. QED
          BY <5>1, <5>2
      <4>3. QED
        BY <3>5, <4>1, <4>2
    <3>7. QED
      BY <1>6, <3>2, <3>4, <3>6
  <2>7. PICK Q : Q = LOG_RING'
    OBVIOUS
  <2>8. Laid(Q, h, u, es, off)
    BY <2>4, <2>5, <2>6, <2>7, LaidKept
  <2>9. QED
    BY <2>1, <2>3, <2>7, <2>8 DEF RingIs
<1>9. QED
  BY <1>5, <1>7, <1>8

\* The tail moves behind what has been written: one entry more, or, when it
\* comes to the head, none at all.
LEMMA RingGrows ==
  ASSUME LogTypeOK, NEW es, RingIs(es), NEW e \in Entries, Len(e) + 1 =< N - Used,
         Written(LOG_RING, LOG_TAIL, e), UNCHANGED <<LOG_RING, LOG_HEAD>>,
         LOG_TAIL' = (LOG_TAIL + (Len(e) + 1)) % N
  PROVE  /\ LOG_TAIL' \in 0 .. N - 1 /\ LOG_TAIL' # LOG_TAIL
         /\ \/ RingIs(Append(es, e))'
            \/ RingIs(<<>>)' /\ LOG_TAIL' = LOG_HEAD
<1>1. PICK h : h = LOG_HEAD
  OBVIOUS
<1>2. PICK u : u = Used
  OBVIOUS
<1>3. PICK tl : tl = LOG_TAIL
  OBVIOUS
<1>4. PICK l : l = Len(e)
  OBVIOUS
<1>5. /\ N \in Nat \ {0} /\ h \in 0 .. N - 1 /\ tl \in 0 .. N - 1 /\ u \in 0 .. N - 1
      /\ tl = (h + u) % N /\ l \in Nat /\ l + 1 \in 1 .. N - 1 /\ l + 1 =< N - u
  <2>1. N \in Nat \ {0}
    BY Sizes
  <2>2. h \in 0 .. N - 1 /\ tl \in 0 .. N - 1 /\ u \in 0 .. N - 1 /\ tl = (h + u) % N
    BY <1>1, <1>2, <1>3, RingSizes
  <2>3. l \in Nat /\ l + 1 \in 1 .. N - 1
    BY <1>4, EntryLen
  <2>4. l + 1 =< N - u
    BY <1>2, <1>4
  <2>5. QED
    BY <2>1, <2>2, <2>3, <2>4
<1>6. tl = IF h + u < N THEN h + u ELSE h + u - N
  <2>1. PICK z : z = h + u
    OBVIOUS
  <2>2. z \in 0 .. 2 * N - 1
    BY <1>5, <2>1
  <2>3. z % N = IF z < N THEN z ELSE z - N
    BY <2>2, Wraps
  <2>4. QED
    BY <1>5, <2>1, <2>3
\* An index behind the tail is the index behind the entries.
<1>7. ASSUME NEW d \in 0 .. N - 1 PROVE (tl + d) % N = (h + u + d) % N
  <2>1. PICK z : z = tl + d
    OBVIOUS
  <2>2. PICK y : y = h + u + d
    OBVIOUS
  <2>3. z \in 0 .. 2 * N - 1 /\ (y = z \/ y = z + N) /\ y \in Nat
    BY <1>5, <1>6, <2>1, <2>2
  <2>4. y = z + N => y % N = z % N
    BY <1>5, <2>3
  <2>5. QED
    BY <2>1, <2>2, <2>3, <2>4
<1>8. PICK nt : nt = LOG_TAIL'
  OBVIOUS
<1>9. PICK s : s = tl + (l + 1)
  OBVIOUS
<1>10. nt = IF s < N THEN s ELSE s - N
  <2>1. s \in 0 .. 2 * N - 1
    BY <1>5, <1>9
  <2>2. s % N = IF s < N THEN s ELSE s - N
    BY <2>1, Wraps
  <2>3. nt = s % N
    BY <1>3, <1>4, <1>8, <1>9
  <2>4. QED
    BY <2>2, <2>3
<1>11. nt \in 0 .. N - 1 /\ nt # tl
  BY <1>5, <1>9, <1>10
<1>12. PICK off : Laid(LOG_RING, h, u, es, off)
  BY <1>1, <1>2 DEF RingIs
<1>13. PICK nu : nu = Used'
  OBVIOUS
<1>14. nu = (nt + N - h) % N
  BY <1>1, <1>8, <1>13 DEF Used, N
<1>15. CASE u + (l + 1) < N
  <2>1. nu = u + (l + 1)
    <3>1. PICK x : x = u + (l + 1)
      OBVIOUS
    <3>2. x \in 0 .. N - 1 /\ nt = IF h + x < N THEN h + x ELSE h + x - N
      BY <1>5, <1>6, <1>9, <1>10, <1>15, <3>1
    <3>3. PICK z : z = h + x
      OBVIOUS
    <3>4. z \in 0 .. 2 * N - 1
      BY <1>5, <3>2, <3>3
    <3>5. z % N = IF z < N THEN z ELSE z - N
      BY <3>4, Wraps
    <3>6. nt = (h + x) % N
      BY <1>5, <3>2, <3>3, <3>4, <3>5
    <3>7. (nt + N - h) % N = x
      BY <1>5, <3>2, <3>6, UsedOf
    <3>8. QED
      BY <1>14, <3>1, <3>7
  <2>2. LOG_RING[(h + u) % N] = Len(e)
    BY <1>3, <1>5 DEF Written
  <2>3. ASSUME NEW c \in 1 .. Len(e) PROVE LOG_RING[(h + u + c) % N] = e[c]
    <3>1. c \in 0 .. N - 1
      BY <1>4, <1>5
    <3>2. (tl + c) % N = (h + u + c) % N
      BY <1>7, <3>1
    <3>3. LOG_RING[(tl + c) % N] = e[c]
      BY <1>3 DEF Written
    <3>4. QED
      BY <3>2, <3>3
  <2>4. \E new : Laid(LOG_RING, h, u + Len(e) + 1, Append(es, e), new)
    BY <1>5, <1>12, <2>2, <2>3, LaidAppend
  <2>5. u + Len(e) + 1 = nu
    BY <1>4, <1>5, <2>1
  <2>6. RingIs(Append(es, e))'
    BY <1>1, <1>13, <2>4, <2>5 DEF RingIs
  <2>7. QED
    BY <1>3, <1>8, <1>11, <2>6
<1>16. CASE ~(u + (l + 1) < N)
  <2>1. nt = h
    BY <1>5, <1>6, <1>9, <1>10, <1>16
  <2>2. nu = 0
    <3>1. (h + 0) % N = h
      BY <1>5
    <3>2. 0 \in 0 .. N - 1
      BY <1>5
    <3>3. QED
      BY <1>5, <1>14, <2>1, <3>1, <3>2, UsedOf
  <2>3. \E new : Laid(LOG_RING, h, 0, <<>>, new)
    BY <1>5, LaidNothing
  <2>4. RingIs(<<>>)'
    BY <1>1, <1>13, <2>2, <2>3 DEF RingIs
  <2>5. QED
    BY <1>1, <1>3, <1>8, <1>11, <2>1, <2>4
<1>17. QED
  BY <1>15, <1>16

-----------------------------------------------------------------------------
(* The invariant behind the entries *)

\* What an emitter has in hand, and where it puts it.
EmitterInv(t) ==
  /\ pc[t] = "emit" => entry[t][1] \in Level /\ entry[t][2] \in Text
  /\ pc[t] \in {"place", "write", "publish"} => entry[t] \in EntryOf(calls) /\ entry[t] \in Entries
  /\ pc[t] \in {"write", "publish"} => at[t] = LOG_TAIL /\ Len(entry[t]) + 1 =< N - Used
  /\ pc[t] = "publish" => Written(LOG_RING, LOG_TAIL, entry[t])

\* What log_task has in hand.
PopperInv ==
  /\ pc[Popper] = "advance" =>
       at[Popper] = LOG_HEAD /\ \E es : RingIs(es) /\ es # <<>> /\ tmp = <<Len(es[1])>> \o es[1]
  /\ pc[Popper] = "unlock" => tmp = <<>> \/ \E e \in Entries : tmp = <<Len(e)>> \o e
  /\ pc[Popper] = "pack" => tmp \in Entries
  /\ pc[Popper] \in {"sending_part", "rest"} => pkt = <<>> /\ Len(Crlf(tmp)) =< PKT

EntriesInv ==
  /\ LogTypeOK
  /\ DOMAIN entry = Emitter
  /\ \E es : RingIs(es)
  /\ \A t \in Emitter : EmitterInv(t)
  /\ PopperInv

LogIInv == FlagIInv /\ EntriesInv

EmitLabel == {"away", "emit", "place", "write", "publish", "unlock", "panic"}
PopLabel == {"trylock", "pop", "advance", "unlock", "pack", "sending",
             "sending_part", "rest", "round_end", "asleep"}

LEMMA Tasks ==
  /\ Popper \in Task /\ Popper \notin Emitter
  /\ \A t \in Emitter : t \in Task /\ t # Popper
BY DEF Popper, Task, Emitter

LEMMA OthersOut ==
  ASSUME FlagIInv, NEW t \in Task, Inside(pc[t]) \/ ~LOG_MTX
  PROVE  \A u \in Task : u # t => ~Inside(pc[u])
BY DEF FlagIInv, FlagInv

\* A step of an emitter that is inside disturbs nobody else.
LEMMA EmitterSteps ==
  ASSUME LogIInv, NEW t \in Emitter, NEW label \in EmitLabel,
         pc' = [pc EXCEPT ![t] = label], Inside(pc[t]) \/ ~LOG_MTX,
         LOG_MTX' \in BOOLEAN, UNCHANGED packing,
         LOG_RING' \in [0 .. N - 1 -> Nat],
         LOG_HEAD' \in 0 .. N - 1, LOG_TAIL' \in 0 .. N - 1,
         at' \in [Task -> 0 .. N - 1], calls' \in 0 .. MaxCalls,
         DOMAIN entry' = Emitter, EmitterInv(t)', \E es : RingIs(es)'
  PROVE  EntriesInv'
<1>1. /\ t \in Task /\ t # Popper
      /\ \A u \in Task : u # t => ~Inside(pc[u])
  BY Tasks, OthersOut DEF LogIInv
<1>2. pc'[t] = label /\ \A u \in Task : u # t => pc'[u] = pc[u]
  BY <1>1 DEF LogIInv, FlagIInv, LabelInv
<1>3. LogTypeOK'
  <2>1. \A u \in Emitter : pc'[u] \in EmitLabel
    <3>1. \A u \in Emitter : pc[u] \in EmitLabel /\ u \in Task
      BY Tasks DEF LogIInv, EntriesInv, LogTypeOK, EmitLabel
    <3>2. QED
      BY <1>2, <3>1
  <2>2. pc'[Popper] \in PopLabel
    BY <1>1, <1>2, Tasks DEF LogIInv, EntriesInv, LogTypeOK, PopLabel
  <2>3. UNCHANGED <<tmp, pkt, flushed, uart>>
    BY DEF packing
  <2>4. /\ tmp \in Seq(Nat) /\ pkt \in Seq(Nat) /\ uart \in Seq(Nat) /\ Len(pkt) =< PKT
        /\ flushed \in BOOLEAN
    BY DEF LogIInv, EntriesInv, LogTypeOK
  <2>5. QED
    BY <2>1, <2>2, <2>3, <2>4 DEF LogTypeOK, EmitLabel, PopLabel, N
<1>4. ASSUME NEW u \in Emitter PROVE EmitterInv(u)'
  <2>1. CASE u = t
    BY <2>1
  <2>2. CASE u # t
    <3>1. u \in Task /\ pc'[u] = pc[u] /\ ~Inside(pc[u])
      BY <1>1, <1>2, <2>2, Tasks
    <3>2. QED
      BY <3>1 DEF EmitterInv, Inside
  <2>3. QED
    BY <2>1, <2>2
<1>5. PopperInv'
  <2>1. pc'[Popper] = pc[Popper] /\ ~Inside(pc[Popper])
    BY <1>1, <1>2, Tasks
  <2>2. UNCHANGED <<tmp, pkt>>
    BY DEF packing
  <2>3. PopperInv
    BY DEF LogIInv, EntriesInv
  <2>4. pc[Popper] # "advance" /\ pc[Popper] # "unlock"
    BY <2>1 DEF Inside
  <2>5. QED
    BY <2>1, <2>2, <2>3, <2>4 DEF PopperInv
<1>6. QED
  BY <1>3, <1>4, <1>5 DEF EntriesInv

\* A step of log_task moves at most the head, and that only while it is inside.
LEMMA PopperSteps ==
  ASSUME LogIInv, NEW label \in PopLabel,
         pc' = [pc EXCEPT ![Popper] = label], LOG_MTX' \in BOOLEAN,
         UNCHANGED <<LOG_RING, LOG_TAIL, entry, calls>>,
         LOG_HEAD' \in 0 .. N - 1, LOG_HEAD' = LOG_HEAD \/ Inside(pc[Popper]),
         at' \in [Task -> 0 .. N - 1], \A u \in Emitter : at'[u] = at[u],
         tmp' \in Seq(Nat), pkt' \in Seq(Nat), uart' \in Seq(Nat), Len(pkt') =< PKT,
         flushed' \in BOOLEAN,
         PopperInv', \E es : RingIs(es)'
  PROVE  EntriesInv'
<1>1. pc'[Popper] = label /\ \A u \in Emitter : pc'[u] = pc[u]
  BY Tasks DEF LogIInv, FlagIInv, LabelInv
<1>2. LogTypeOK'
  <2>1. \A u \in Emitter : pc'[u] \in EmitLabel
    BY <1>1 DEF LogIInv, EntriesInv, LogTypeOK, EmitLabel
  <2>2. /\ LOG_RING \in [0 .. N - 1 -> Nat] /\ LOG_TAIL \in 0 .. N - 1
        /\ calls \in 0 .. MaxCalls
    BY DEF LogIInv, EntriesInv, LogTypeOK, N
  <2>3. QED
    BY <1>1, <2>1, <2>2 DEF LogTypeOK, EmitLabel, PopLabel, N
<1>3. ASSUME NEW u \in Emitter PROVE EmitterInv(u)'
  <2>1. EmitterInv(u) /\ pc'[u] = pc[u] /\ at'[u] = at[u]
    BY <1>1 DEF LogIInv, EntriesInv
  <2>2. CASE LOG_HEAD' = LOG_HEAD
    <3>1. Used' = Used
      BY <2>2 DEF Used
    <3>2. QED
      BY <2>1, <3>1 DEF EmitterInv
  <2>3. CASE Inside(pc[Popper])
    <3>1. ~Inside(pc[u])
      BY <2>3, Tasks, OthersOut DEF LogIInv
    <3>2. QED
      BY <2>1, <3>1 DEF EmitterInv, Inside
  <2>4. QED
    BY <2>2, <2>3
<1>4. DOMAIN entry' = Emitter
  BY DEF LogIInv, EntriesInv
<1>5. QED
  BY <1>2, <1>3, <1>4 DEF EntriesInv

\* The line that fits, and its level, are an entry.
LEMMA FormatsEntry ==
  ASSUME NEW level \in Level, NEW text \in Text, NEW n \in Nat, HEADER + Fitted(text) < BUF
  PROVE  <<level>> \o Bytes(n, text) \in Entries
<1> DEFINE m == HEADER + Fitted(text)
           body == [i \in 1 .. m |-> 100 + n]
           e == <<level>> \o Bytes(n, text)
<1>1. m \in Nat /\ m < BUF /\ BUF \in Nat
  <2>1. text \in Nat /\ BUF - HEADER \in Nat /\ HEADER \in Nat /\ BUF \in Nat
    BY LogAssumption
  <2>2. Fitted(text) \in Nat
    BY <2>1 DEF Fitted, AtMost
  <2>3. QED
    BY <2>1, <2>2
<1>2. level \in Nat /\ level # NL /\ NL \in Nat
  BY DEF Level, NL
<1>3. body \in Seq(Nat) /\ Len(body) = m /\ \A i \in 1 .. m : body[i] = 100 + n
  <2> HIDE DEF m
  <2>1. \A i \in 1 .. m : 100 + n \in Nat
    OBVIOUS
  <2>2. body \in [1 .. m -> Nat]
    BY <2>1
  <2>3. QED
    BY <1>1, <2>2
<1>4. e = <<level>> \o (body \o <<NL>>)
  BY DEF Bytes
<1> HIDE DEF body, e, m
<1>5. /\ body \o <<NL>> \in Seq(Nat) /\ Len(body \o <<NL>>) = m + 1
      /\ \A i \in 1 .. m : (body \o <<NL>>)[i] = 100 + n
      /\ (body \o <<NL>>)[m + 1] = NL
  BY <1>1, <1>2, <1>3
<1> DEFINE b == body \o <<NL>>
<1>6. /\ e \in Seq(Nat) /\ Len(e) = m + 2 /\ e[1] = level
      /\ \A i \in 1 .. m + 1 : e[i + 1] = b[i]
  <2> HIDE DEF b
  <2>1. b \in Seq(Nat) /\ Len(b) = m + 1 /\ e = <<level>> \o b
    BY <1>4, <1>5 DEF b
  <2>2. QED
    BY <1>1, <1>2, <2>1
<1>7. ASSUME NEW i \in 1 .. Len(e) PROVE e[i] = NL <=> i = Len(e)
  <2>1. CASE i = 1
    BY <1>1, <1>2, <1>6, <2>1
  <2>2. CASE i # 1
    <3>1. i - 1 \in 1 .. m + 1 /\ e[i] = b[i - 1]
      <4>1. i - 1 \in 1 .. m + 1 /\ (i - 1) + 1 = i
        BY <1>1, <1>6, <2>2
      <4> HIDE DEF b
      <4>2. QED
        BY <1>6, <4>1
    <3>2. CASE i - 1 = m + 1
      <4>1. b[m + 1] = NL
        BY <1>5
      <4> HIDE DEF b
      <4>2. e[i] = NL
        BY <3>1, <3>2, <4>1
      <4>3. i = Len(e)
        BY <1>1, <1>6, <3>2
      <4>4. QED
        BY <4>2, <4>3
    <3>3. CASE i - 1 # m + 1
      <4>1. i - 1 \in 1 .. m /\ i # Len(e)
        BY <1>1, <1>6, <3>1, <3>3
      <4>2. e[i] = 100 + n
        BY <1>5, <3>1, <4>1
      <4>3. QED
        BY <4>1, <4>2 DEF NL
    <3>4. QED
      BY <3>2, <3>3
  <2>3. QED
    BY <2>1, <2>2
<1>8. Len(e) \in 2 .. BUF + 1
  BY <1>1, <1>6
<1>9. e \in Entries
  BY <1>6, <1>7, <1>8 DEF Entries
<1>10. QED
  BY <1>9 DEF e

-----------------------------------------------------------------------------
(* The steps of an emitter *)

Keeps == \A es : RingIs(es) => RingIs(es)'

LEMMA KeepsRing == UNCHANGED ring => Keeps
BY RingKept DEF Keeps

LEMMA EntrySet ==
  ASSUME NEW t \in Emitter, DOMAIN entry = Emitter, NEW x, entry' = [entry EXCEPT ![t] = x]
  PROVE  entry'[t] = x /\ DOMAIN entry' = Emitter
OBVIOUS

\* The facts that every step of an emitter starts from.
LEMMA EmitterFacts ==
  ASSUME LogIInv
  PROVE  /\ LogTypeOK /\ EntriesInv /\ FlagIInv /\ DOMAIN entry = Emitter
         /\ LOG_RING \in [0 .. N - 1 -> Nat]
         /\ LOG_HEAD \in 0 .. N - 1 /\ LOG_TAIL \in 0 .. N - 1 /\ LOG_MTX \in BOOLEAN
         /\ at \in [Task -> 0 .. N - 1] /\ calls \in 0 .. MaxCalls
         /\ \A t \in Emitter : EmitterInv(t)
         /\ pc \in [Task -> Label]
BY DEF LogIInv, EntriesInv, LogTypeOK, FlagIInv, LabelInv, N

LEMMA TryLockInv ==
  ASSUME LogIInv, NEW t \in Emitter, NEW level \in Level, NEW text \in Text,
         EmitTryLock(t, level, text), pc' # pc
  PROVE  EntriesInv' /\ Keeps
<1>1. /\ ~LOG_MTX /\ calls < MaxCalls /\ LOG_MTX' = TRUE /\ calls' = calls + 1
      /\ pc' = [pc EXCEPT ![t] = "emit"]
      /\ entry' = [entry EXCEPT ![t] = <<level, text>>]
      /\ UNCHANGED <<ring, at, packing>>
  BY DEF EmitTryLock, Step, logVars
<1>2. UNCHANGED ring /\ UNCHANGED packing /\ at' = at
      /\ LOG_RING' = LOG_RING /\ LOG_HEAD' = LOG_HEAD /\ LOG_TAIL' = LOG_TAIL
  BY <1>1 DEF ring
<1>3. Keeps
  BY <1>2, KeepsRing
<1>4. calls' \in 0 .. MaxCalls
  BY <1>1, EmitterFacts, LogAssumption
<1>5. entry'[t] = <<level, text>> /\ DOMAIN entry' = Emitter
  BY <1>1, EmitterFacts, EntrySet
<1>6. pc'[t] = "emit"
  BY <1>1, EmitterFacts, Tasks
<1>7. EmitterInv(t)'
  BY <1>5, <1>6 DEF EmitterInv
<1>8. \E es : RingIs(es)'
  BY <1>3 DEF Keeps, LogIInv, EntriesInv
<1>9. EntriesInv'
  <2>1. "emit" \in EmitLabel
    BY DEF EmitLabel
  <2>2. QED
    BY <1>1, <1>2, <1>4, <1>5, <1>7, <1>8, <2>1, EmitterFacts, EmitterSteps
<1>10. QED
  BY <1>3, <1>9

LEMMA FormatInv ==
  ASSUME LogIInv, NEW t \in Emitter, EmitFormat(t)
  PROVE  EntriesInv' /\ Keeps
<1> DEFINE e == entry[t]
           fits == HEADER + Fitted(e[2]) < BUF
           label == IF fits THEN "place" ELSE "panic"
           line == IF fits THEN <<e[1]>> \o Bytes(calls, e[2]) ELSE <<>>
<1>1. /\ pc[t] = "emit" /\ pc' = [pc EXCEPT ![t] = label]
      /\ entry' = [entry EXCEPT ![t] = line]
      /\ UNCHANGED <<ring, LOG_MTX, at, packing, calls>>
  BY DEF EmitFormat, Step
<1>2. UNCHANGED ring /\ UNCHANGED packing /\ at' = at /\ LOG_MTX' = LOG_MTX /\ calls' = calls
      /\ LOG_RING' = LOG_RING /\ LOG_HEAD' = LOG_HEAD /\ LOG_TAIL' = LOG_TAIL
  BY <1>1 DEF ring
<1>3. Keeps
  BY <1>2, KeepsRing
<1>4. e[1] \in Level /\ e[2] \in Text
  BY <1>1, EmitterFacts DEF EmitterInv
<1>5. fits => line \in EntryOf(calls) /\ line \in Entries
  <2>1. ASSUME NEW level \in Level, level = e[1], NEW text \in Text, text = e[2], fits
        PROVE  line \in EntryOf(calls) /\ line \in Entries
    <3>1. line = <<level>> \o Bytes(calls, text)
      BY <2>1
    <3>2. calls \in Nat
      BY EmitterFacts, LogAssumption
    <3>3. line \in Entries
      <4>1. HEADER + Fitted(text) < BUF
        BY <2>1
      <4> HIDE DEF line
      <4>2. QED
        BY <3>1, <3>2, <4>1, FormatsEntry
    <3>4. line \in EntryOf(calls)
      <4> HIDE DEF line
      <4>1. QED
        BY <3>1 DEF EntryOf
    <3>5. QED
      BY <3>3, <3>4
  <2> HIDE DEF line, fits
  <2>2. QED
    BY <1>4, <2>1
<1>6. label \in EmitLabel /\ (label = "place" => fits) /\ label \in {"place", "panic"}
  BY DEF EmitLabel
<1> HIDE DEF line, label, fits
<1>7. entry'[t] = line /\ DOMAIN entry' = Emitter
  BY <1>1, EmitterFacts, EntrySet
<1>8. pc'[t] = label
  BY <1>1, EmitterFacts, Tasks
<1>9. EmitterInv(t)'
  BY <1>2, <1>5, <1>6, <1>7, <1>8 DEF EmitterInv
<1>10. \E es : RingIs(es)'
  BY <1>3 DEF Keeps, LogIInv, EntriesInv
<1>11. Inside(pc[t])
  BY <1>1 DEF Inside
<1>12. EntriesInv'
  BY <1>1, <1>2, <1>6, <1>7, <1>9, <1>10, <1>11, EmitterFacts, EmitterSteps
<1>13. QED
  BY <1>3, <1>12

\* There is room, or the entry is given up: the ring stays as it is.
LEMMA PlaceInv ==
  ASSUME LogIInv, NEW t \in Emitter, PushRoom(t) \/ PushGiveUp(t)
  PROVE  EntriesInv' /\ Keeps
<1>1. PICK label \in {"write", "unlock"} :
        /\ pc[t] = "place" /\ pc' = [pc EXCEPT ![t] = label]
        /\ label = "write" => /\ Free(LOG_HEAD, LOG_TAIL) >= Need(entry[t])
                              /\ at' = [at EXCEPT ![t] = LOG_TAIL]
        /\ label = "unlock" => at' = at
        /\ UNCHANGED <<ring, LOG_MTX, entry, packing, calls>>
  BY DEF PushRoom, PushGiveUp, Step
<1>2. UNCHANGED ring /\ UNCHANGED packing /\ LOG_MTX' = LOG_MTX /\ calls' = calls /\ entry' = entry
      /\ LOG_RING' = LOG_RING /\ LOG_HEAD' = LOG_HEAD /\ LOG_TAIL' = LOG_TAIL /\ Used' = Used
  BY <1>1 DEF ring, Used
<1>3. Keeps
  BY <1>2, KeepsRing
<1>4. entry[t] \in EntryOf(calls) /\ entry[t] \in Entries
  BY <1>1, EmitterFacts DEF EmitterInv
<1>5. t \in Task /\ pc'[t] = label
  BY <1>1, EmitterFacts, Tasks
<1>6. at' \in [Task -> 0 .. N - 1] /\ (label = "write" => at'[t] = LOG_TAIL)
  BY <1>1, <1>5, EmitterFacts
<1>7. label = "write" => Len(entry[t]) + 1 =< N - Used
  <2>1. Free(LOG_HEAD, LOG_TAIL) = N - Used /\ Used \in 0 .. N - 1 /\ N \in Nat
    BY EmitterFacts, RingSizes, Sizes
  <2>2. Len(entry[t]) \in Nat
    BY <1>4, EntryLen
  <2>3. label = "write" => N - Used >= Len(entry[t]) + 1
    BY <1>1, <2>1 DEF Need
  <2>4. QED
    BY <2>1, <2>2, <2>3
<1>8. EmitterInv(t)'
  BY <1>1, <1>2, <1>4, <1>5, <1>6, <1>7 DEF EmitterInv
<1>9. \E es : RingIs(es)'
  BY <1>3 DEF Keeps, LogIInv, EntriesInv
<1>10. Inside(pc[t]) /\ label \in EmitLabel
  BY <1>1 DEF Inside, EmitLabel
<1>11. EntriesInv'
  BY <1>1, <1>2, <1>6, <1>8, <1>9, <1>10, EmitterFacts, EmitterSteps
<1>12. QED
  BY <1>3, <1>11

\* Only entries at the head are given up, and none of them is critical.
Evicts ==
  \A es : RingIs(es) =>
    \E k \in 0 .. Len(es) : /\ RingIs(SubSeq(es, k + 1, Len(es)))'
                            /\ \A i \in 1 .. k : Head(es[i]) \notin Critical

LEMMA EvictDrops ==
  ASSUME LogTypeOK, NEW e \in Entries, NEW k \in 1 .. N, Evictable(k, e),
         LOG_HEAD' = Hop[k] % N, UNCHANGED <<LOG_RING, LOG_TAIL>>,
         NEW es, RingIs(es)
  PROVE  /\ LOG_HEAD' \in 0 .. N - 1 /\ Len(e) + 1 =< N - Used'
         /\ k \in 0 .. Len(es) /\ RingIs(SubSeq(es, k + 1, Len(es)))'
         /\ \A i \in 1 .. k : Head(es[i]) \notin Critical
<1>1. PICK off : Laid(LOG_RING, LOG_HEAD, Used, es, off)
  BY DEF RingIs
<1>2. /\ \A i \in 0 .. Len(es) : Hop[i] = off[i]
      /\ \A i \in 0 .. N : Hop[i] \in Nat
      /\ Len(es) \in 0 .. N
  BY <1>1, HopIs
<1>3. PICK h : h = LOG_HEAD
  OBVIOUS
<1>4. PICK u : u = Used
  OBVIOUS
<1>5. /\ N \in Nat \ {0} /\ h \in 0 .. N - 1 /\ u \in 0 .. N - 1
      /\ Free(LOG_HEAD, LOG_TAIL) = N - u
  BY <1>3, <1>4, RingSizes, Sizes
<1>6. e \in Seq(Nat) /\ Len(e) \in Nat /\ Len(e) + 1 \in 1 .. N - 1
  BY EntryLen
<1>7. /\ N - u + Hop[k] - h >= Len(e) + 1
      /\ \A j \in 0 .. k - 1 : /\ N - u + Hop[j] - h < Len(e) + 1
                               /\ Cell(Hop[j] + 1) \notin Critical
  BY <1>3, <1>5 DEF Evictable, Need
<1>8. k =< Len(es)
  <2>1. SUFFICES ASSUME Len(es) < k PROVE FALSE
    BY <1>2
  <2>2. Len(es) \in 0 .. k - 1 /\ Len(es) \in 0 .. Len(es)
    BY <1>2, <2>1
  <2>3. Hop[Len(es)] = h + u
    BY <1>1, <1>2, <1>3, <1>4, <2>2 DEF Laid
  <2>4. N - u + (h + u) - h < Len(e) + 1
    BY <1>7, <2>2, <2>3
  <2>5. QED
    BY <1>5, <1>6, <2>4
<1>9. k \in 0 .. Len(es)
  BY <1>2, <1>8
<1>10. /\ LOG_HEAD' \in 0 .. N - 1
       /\ off[k] \in LOG_HEAD .. LOG_HEAD + Used
       /\ Used' = Used - (off[k] - LOG_HEAD)
       /\ RingIs(SubSeq(es, k + 1, Len(es)))'
  <2>1. LOG_HEAD' = off[k] % N
    BY <1>2, <1>9
  <2>2. QED
    BY <1>1, <1>9, <2>1, RingDrops
<1>11. Len(e) + 1 =< N - Used'
  <2>1. PICK p : p = off[k]
    OBVIOUS
  <2>2. PICK v : v = Used'
    OBVIOUS
  <2>3. p \in h .. h + u /\ v = u - (p - h) /\ N - u + p - h >= Len(e) + 1
    BY <1>2, <1>3, <1>4, <1>7, <1>9, <1>10, <2>1, <2>2
  <2>4. Len(e) + 1 =< N - v
    BY <1>5, <1>6, <2>3
  <2>5. QED
    BY <2>2, <2>4
<1>12. ASSUME NEW i \in 1 .. k PROVE Head(es[i]) \notin Critical
  <2>1. i \in 1 .. Len(es) /\ i - 1 \in 0 .. k - 1 /\ i - 1 \in 0 .. Len(es)
    BY <1>2, <1>9
  <2>2. Cell(Hop[i - 1] + 1) \notin Critical /\ Hop[i - 1] = off[i - 1]
    BY <1>2, <1>7, <2>1
  <2>3. es[i] \in Entries
    BY <1>1, <2>1 DEF Laid
  <2>4. 1 \in 1 .. Len(es[i]) /\ Head(es[i]) = es[i][1]
    BY <2>3, EntryLen
  <2>5. LOG_RING[(off[i - 1] + 1) % N] = es[i][1]
    BY <1>1, <2>1, <2>4 DEF Laid
  <2>6. QED
    BY <2>2, <2>4, <2>5 DEF Cell, N
<1>13. QED
  BY <1>9, <1>10, <1>11, <1>12

LEMMA EvictInv ==
  ASSUME LogIInv, NEW t \in Emitter, PushEvict(t)
  PROVE  EntriesInv' /\ Evicts
<1>1. PICK k \in 1 .. N : Evictable(k, entry[t]) /\ LOG_HEAD' = Hop[k] % N
  BY DEF PushEvict, N
<1>2. /\ pc[t] = "place" /\ pc' = [pc EXCEPT ![t] = "write"]
      /\ at' = [at EXCEPT ![t] = LOG_TAIL]
      /\ UNCHANGED <<LOG_RING, LOG_TAIL, LOG_MTX, entry, packing, calls>>
  BY DEF PushEvict, Step
<1>3. entry[t] \in EntryOf(calls) /\ entry[t] \in Entries
  BY <1>2, EmitterFacts DEF EmitterInv
<1>4. PICK e \in Entries : e = entry[t]
  BY <1>3
<1>5. \A es : RingIs(es) =>
        /\ LOG_HEAD' \in 0 .. N - 1 /\ Len(e) + 1 =< N - Used'
        /\ k \in 0 .. Len(es) /\ RingIs(SubSeq(es, k + 1, Len(es)))'
        /\ \A i \in 1 .. k : Head(es[i]) \notin Critical
  BY <1>1, <1>2, <1>4, EmitterFacts, EvictDrops
<1>6. Evicts
  BY <1>5 DEF Evicts
<1>7. PICK es : RingIs(es)
  BY DEF LogIInv, EntriesInv
<1>8. LOG_HEAD' \in 0 .. N - 1 /\ Len(e) + 1 =< N - Used' /\ \E new : RingIs(new)'
  BY <1>5, <1>7
<1>9. t \in Task /\ pc'[t] = "write" /\ at' \in [Task -> 0 .. N - 1] /\ at'[t] = LOG_TAIL
  BY <1>2, EmitterFacts, Tasks
<1>10. EmitterInv(t)'
  BY <1>2, <1>3, <1>4, <1>8, <1>9 DEF EmitterInv
<1>11. Inside(pc[t]) /\ "write" \in EmitLabel
  BY <1>2 DEF Inside, EmitLabel
<1>12. EntriesInv'
  BY <1>2, <1>8, <1>9, <1>10, <1>11, EmitterFacts, EmitterSteps
<1>13. QED
  BY <1>6, <1>12

LEMMA WriteInv ==
  ASSUME LogIInv, NEW t \in Emitter, PushWrite(t)
  PROVE  EntriesInv' /\ Keeps
<1>1. /\ pc[t] = "write" /\ pc' = [pc EXCEPT ![t] = "publish"]
      /\ UNCHANGED <<LOG_HEAD, LOG_TAIL, LOG_MTX, entry, at, packing, calls>>
  BY DEF PushWrite, Step
<1>2. /\ entry[t] \in EntryOf(calls) /\ entry[t] \in Entries
      /\ at[t] = LOG_TAIL /\ Len(entry[t]) + 1 =< N - Used
  BY <1>1, EmitterFacts DEF EmitterInv
<1>3. PICK e \in Entries : e = entry[t]
  BY <1>2
<1>4. LOG_RING' = [c \in DOMAIN LOG_RING |->
                    LET cells == <<Len(e)>> \o e
                        i == 1 + ((c + LOG_RING_SIZE - LOG_TAIL) % LOG_RING_SIZE) IN
                    IF i \in DOMAIN cells THEN cells[i] ELSE LOG_RING[c]]
  BY <1>2, <1>3 DEF PushWrite
<1>5. \A es : RingIs(es) =>
        LOG_RING' \in [0 .. N - 1 -> Nat] /\ RingIs(es)' /\ Written(LOG_RING', LOG_TAIL, e)
  BY <1>1, <1>2, <1>3, <1>4, EmitterFacts, RingWrites
<1>6. Keeps
  BY <1>5 DEF Keeps
<1>7. LOG_RING' \in [0 .. N - 1 -> Nat] /\ Written(LOG_RING', LOG_TAIL, e) /\ \E es : RingIs(es)'
  BY <1>5 DEF LogIInv, EntriesInv
<1>8. pc'[t] = "publish" /\ Used' = Used
  BY <1>1, EmitterFacts, Tasks DEF Used
<1>9. EmitterInv(t)'
  BY <1>1, <1>2, <1>3, <1>7, <1>8 DEF EmitterInv
<1>10. Inside(pc[t]) /\ "publish" \in EmitLabel
  BY <1>1 DEF Inside, EmitLabel
<1>11. EntriesInv'
  BY <1>1, <1>7, <1>9, <1>10, EmitterFacts, EmitterSteps
<1>12. QED
  BY <1>6, <1>11

\* One entry more, or, when it fits exactly, none at all.
Grew(e) ==
  /\ LOG_TAIL' # LOG_TAIL
  /\ \A es : RingIs(es) => \/ RingIs(Append(es, e))'
                           \/ RingIs(<<>>)' /\ LOG_TAIL' = LOG_HEAD'

LEMMA PublishInv ==
  ASSUME LogIInv, NEW t \in Emitter, PushPublish(t), NEW e, e = entry[t]
  PROVE  EntriesInv' /\ Grew(e) /\ e \in Entries /\ e \in EntryOf(calls)
<1>1. /\ pc[t] = "publish" /\ pc' = [pc EXCEPT ![t] = "unlock"]
      /\ UNCHANGED <<LOG_RING, LOG_HEAD, LOG_MTX, entry, at, packing, calls>>
  BY DEF PushPublish, Step
<1>2. /\ e \in EntryOf(calls) /\ e \in Entries
      /\ at[t] = LOG_TAIL /\ Len(e) + 1 =< N - Used /\ Written(LOG_RING, LOG_TAIL, e)
  BY <1>1, EmitterFacts DEF EmitterInv
<1>3. LOG_TAIL' = (LOG_TAIL + (Len(e) + 1)) % N
  BY <1>2 DEF PushPublish, Need, N
<1>4. \A es : RingIs(es) =>
        /\ LOG_TAIL' \in 0 .. N - 1 /\ LOG_TAIL' # LOG_TAIL
        /\ \/ RingIs(Append(es, e))'
           \/ RingIs(<<>>)' /\ LOG_TAIL' = LOG_HEAD
  BY <1>1, <1>2, <1>3, EmitterFacts, RingGrows
<1>5. PICK es : RingIs(es)
  BY DEF LogIInv, EntriesInv
<1>6. LOG_TAIL' \in 0 .. N - 1 /\ LOG_TAIL' # LOG_TAIL /\ \E new : RingIs(new)'
  BY <1>4, <1>5
<1>7. Grew(e)
  BY <1>1, <1>4, <1>6 DEF Grew
<1>8. pc'[t] = "unlock"
  BY <1>1, EmitterFacts, Tasks
<1>9. EmitterInv(t)'
  BY <1>8 DEF EmitterInv
<1>10. Inside(pc[t]) /\ "unlock" \in EmitLabel
  BY <1>1 DEF Inside, EmitLabel
<1>11. EntriesInv'
  BY <1>1, <1>6, <1>9, <1>10, EmitterFacts, EmitterSteps
<1>12. QED
  BY <1>2, <1>7, <1>11

LEMMA UnlockInv ==
  ASSUME LogIInv, NEW t \in Emitter, EmitUnlock(t)
  PROVE  EntriesInv' /\ Keeps
<1>1. /\ pc[t] = "unlock" /\ pc' = [pc EXCEPT ![t] = "away"] /\ LOG_MTX' = FALSE
      /\ entry' = [entry EXCEPT ![t] = <<>>]
      /\ at' = [at EXCEPT ![t] = 0]
      /\ UNCHANGED <<ring, packing, calls>>
  BY DEF EmitUnlock, Step
<1>2. UNCHANGED ring /\ UNCHANGED packing /\ calls' = calls
      /\ LOG_RING' = LOG_RING /\ LOG_HEAD' = LOG_HEAD /\ LOG_TAIL' = LOG_TAIL
  BY <1>1 DEF ring
<1>3. Keeps
  BY <1>2, KeepsRing
<1>4. DOMAIN entry' = Emitter
  BY <1>1, EmitterFacts
<1>5. pc'[t] = "away"
  BY <1>1, EmitterFacts, Tasks
<1>6. at' \in [Task -> 0 .. N - 1]
  <2>1. 0 \in 0 .. N - 1
    BY Sizes
  <2>2. QED
    BY <1>1, <2>1, EmitterFacts
<1>7. EmitterInv(t)'
  BY <1>5 DEF EmitterInv
<1>8. \E es : RingIs(es)'
  BY <1>3 DEF Keeps, LogIInv, EntriesInv
<1>9. Inside(pc[t]) /\ "away" \in EmitLabel
  BY <1>1 DEF Inside, EmitLabel
<1>10. EntriesInv'
  BY <1>1, <1>2, <1>4, <1>6, <1>7, <1>8, <1>9, EmitterFacts, EmitterSteps
<1>11. QED
  BY <1>3, <1>10

-----------------------------------------------------------------------------
(* The steps of log_task *)

LEMMA SameSeq ==
  ASSUME NEW r \in Seq(Nat), NEW s \in Seq(Nat), Len(r) = Len(s),
         \A i \in 1 .. Len(s) : r[i] = s[i]
  PROVE  r = s
OBVIOUS

LEMMA CrlfSplits ==
  ASSUME NEW s \in Seq(Nat), NEW k \in 0 .. Len(s)
  PROVE  /\ SubSeq(s, 1, k) \in Seq(Nat) /\ SubSeq(s, k + 1, Len(s)) \in Seq(Nat)
         /\ Crlf(SubSeq(s, 1, k)) \in Seq(Nat) /\ Crlf(SubSeq(s, k + 1, Len(s))) \in Seq(Nat)
         /\ Crlf(s) = Crlf(SubSeq(s, 1, k)) \o Crlf(SubSeq(s, k + 1, Len(s)))
         /\ Len(Crlf(s)) = Len(Crlf(SubSeq(s, 1, k))) + Len(Crlf(SubSeq(s, k + 1, Len(s))))
         /\ Len(Crlf(SubSeq(s, 1, k))) \in Nat /\ Len(Crlf(SubSeq(s, k + 1, Len(s)))) \in Nat
<1> DEFINE p == SubSeq(s, 1, k)
           q == SubSeq(s, k + 1, Len(s))
<1>1. p \in Seq(Nat) /\ q \in Seq(Nat) /\ s = p \o q
  <2>1. Len(s) \in Nat /\ k \in 0 .. Len(s)
    OBVIOUS
  <2>2. p \in Seq(Nat) /\ Len(p) = k /\ \A i \in 1 .. k : p[i] = s[i]
    BY <2>1
  <2>3. q \in Seq(Nat) /\ Len(q) = Len(s) - k /\ \A i \in 1 .. Len(s) - k : q[i] = s[k + i]
    <3>1. k + 1 \in Int /\ Len(s) \in Int /\ \A i \in k + 1 .. Len(s) : s[i] \in Nat
      BY <2>1
    <3>2. /\ q \in Seq(Nat)
          /\ Len(q) = IF k + 1 =< Len(s) THEN Len(s) - (k + 1) + 1 ELSE 0
          /\ \A i \in 1 .. Len(s) - (k + 1) + 1 : q[i] = s[(k + 1) + i - 1]
      BY <3>1, SubSeqProperties
    <3> HIDE DEF q, p
    <3>3. Len(q) = Len(s) - k /\ Len(s) - (k + 1) + 1 = Len(s) - k
      BY <2>1, <3>2
    <3>4. \A i \in 1 .. Len(s) - k : (k + 1) + i - 1 = k + i
      BY <2>1
    <3>5. QED
      BY <3>2, <3>3, <3>4
  <2> HIDE DEF p, q
  <2>4. p \o q \in Seq(Nat) /\ Len(p \o q) = Len(s)
    <3>1. p \o q \in Seq(Nat) /\ Len(p \o q) = Len(p) + Len(q)
      BY <2>2, <2>3, ConcatProperties
    <3>2. QED
      BY <2>1, <2>2, <2>3, <3>1
  <2>5. ASSUME NEW i \in 1 .. Len(s) PROVE (p \o q)[i] = s[i]
    <3>1. (p \o q)[i] = IF i =< k THEN p[i] ELSE q[i - k]
      BY <2>1, <2>2, <2>3
    <3>2. CASE i =< k
      BY <2>1, <2>2, <3>1, <3>2
    <3>3. CASE ~(i =< k)
      <4>1. i - k \in 1 .. Len(s) - k /\ k + (i - k) = i
        BY <2>1, <3>3
      <4>2. QED
        BY <2>3, <3>1, <3>3, <4>1
    <3>4. QED
      BY <3>2, <3>3
  <2>6. p \o q = s
    BY <2>4, <2>5, SameSeq
  <2>7. QED
    BY <2>2, <2>3, <2>6
<1> HIDE DEF p, q
<1>2. Crlf(p) \in Seq(Nat) /\ Crlf(q) \in Seq(Nat) /\ Crlf(s) = Crlf(p) \o Crlf(q)
  BY <1>1, CrlfSeq, CrlfConcat
<1>3. Len(Crlf(s)) = Len(Crlf(p)) + Len(Crlf(q)) /\ Len(Crlf(p)) \in Nat /\ Len(Crlf(q)) \in Nat
  BY <1>2, ConcatProperties
<1>4. QED
  BY <1>1, <1>2, <1>3 DEF p, q

\* As much as fits, and no less.
LEMMA FittingFits ==
  ASSUME NEW p \in Seq(Nat), Len(p) =< PKT, NEW s \in Seq(Nat), NEW k, k = Fitting(p, s)
  PROVE  /\ k \in 0 .. Len(s)
         /\ Len(p) + Len(Crlf(SubSeq(s, 1, k))) =< PKT
         /\ k = Len(s) \/ Len(p) + Len(Crlf(SubSeq(s, 1, k + 1))) > PKT
<1> DEFINE Sum(j) == Len(p) + Len(Crlf(SubSeq(s, 1, j)))
           T == {j \in 0 .. Len(s) : j = Len(s) \/ Sum(j + 1) > PKT}
<1>1. Len(s) \in Nat /\ Len(p) \in Nat /\ PKT \in Nat
  BY Sizes
<1>2. Len(s) \in T /\ T \subseteq Nat
  BY <1>1
<1>3. PICK j \in T : \A i \in T : j =< i
  <2> HIDE DEF T
  <2> QED
    BY <1>2, LeastNat
<1>4. j \in 0 .. Len(s) /\ (j = Len(s) \/ Sum(j + 1) > PKT)
  OBVIOUS
<1>5. \A i \in 0 .. Len(s) : Sum(i) \in Nat
  <2> SUFFICES ASSUME NEW i \in 0 .. Len(s) PROVE Sum(i) \in Nat
    OBVIOUS
  <2>1. Len(Crlf(SubSeq(s, 1, i))) \in Nat
    BY CrlfSplits
  <2>2. QED
    BY <1>1, <2>1
<1>6. Sum(j) =< PKT
  <2>1. CASE j = 0
    <3>1. Sum(0) = Len(p)
      <4>1. Crlf(SubSeq(s, 1, 0)) = <<>> /\ Len(<<>>) = 0
        BY Whole, CrlfEmpty
      <4>2. QED
        BY <1>1, <4>1
    <3> HIDE DEF Sum
    <3>2. QED
      BY <2>1, <3>1
  <2>2. CASE j # 0
    <3>1. j - 1 \in 0 .. Len(s) /\ j - 1 # Len(s) /\ ~(j =< j - 1) /\ (j - 1) + 1 = j
      <4> HIDE DEF T
      <4> QED
        BY <1>1, <1>4, <2>2
    <3>2. j - 1 \notin T
      <4> HIDE DEF T
      <4> QED
        BY <1>3, <3>1
    <3>3. ~(Sum((j - 1) + 1) > PKT)
      <4> HIDE DEF Sum
      <4> QED
        BY <3>1, <3>2
    <3> HIDE DEF Sum, T
    <3>4. QED
      BY <1>1, <1>4, <1>5, <3>1, <3>3
  <2>3. QED
    BY <2>1, <2>2
<1>7. \E i \in 0 .. Len(s) : Sum(i) =< PKT /\ (i = Len(s) \/ Sum(i + 1) > PKT)
  <2> HIDE DEF Sum, T
  <2> QED
    BY <1>4, <1>6
<1>8. k = CHOOSE i \in 0 .. Len(s) : Sum(i) =< PKT /\ (i = Len(s) \/ Sum(i + 1) > PKT)
  BY DEF Fitting
<1>9. k \in 0 .. Len(s) /\ Sum(k) =< PKT /\ (k = Len(s) \/ Sum(k + 1) > PKT)
  <2> HIDE DEF Sum, T
  <2> QED
    BY <1>7, <1>8
<1>10. QED
  BY <1>9

\* What goes into a packet whole is not cut.
LEMMA FittingAll ==
  ASSUME NEW s \in Seq(Nat), Len(Crlf(s)) =< PKT
  PROVE  SubSeq(s, 1, Fitting(<<>>, s)) = s
<1>1. PICK k : k = Fitting(<<>>, s)
  OBVIOUS
<1>2. <<>> \in Seq(Nat) /\ Len(<<>>) = 0 /\ 0 =< PKT
  BY Sizes
<1>3. k \in 0 .. Len(s) /\ (k = Len(s) \/ 0 + Len(Crlf(SubSeq(s, 1, k + 1))) > PKT)
  BY <1>1, <1>2, FittingFits
<1>4. k = Len(s)
  <2>1. SUFFICES ASSUME k # Len(s) PROVE FALSE
    OBVIOUS
  <2>2. PICK j : j = k + 1
    OBVIOUS
  <2>3. j \in 0 .. Len(s) /\ 0 + Len(Crlf(SubSeq(s, 1, j))) > PKT
    BY <1>3, <2>1, <2>2
  <2>4. /\ Len(Crlf(s)) = Len(Crlf(SubSeq(s, 1, j))) + Len(Crlf(SubSeq(s, j + 1, Len(s))))
        /\ Len(Crlf(SubSeq(s, 1, j))) \in Nat /\ Len(Crlf(SubSeq(s, j + 1, Len(s)))) \in Nat
    BY <2>3, CrlfSplits
  <2>5. QED
    BY <2>3, <2>4, Sizes
<1>5. QED
  BY <1>1, <1>4, Whole

LEMMA PopperFacts ==
  ASSUME LogIInv
  PROVE  /\ LogTypeOK /\ EntriesInv /\ FlagIInv /\ PopperInv
         /\ LOG_HEAD \in 0 .. N - 1 /\ LOG_MTX \in BOOLEAN
         /\ at \in [Task -> 0 .. N - 1] /\ pc \in [Task -> Label]
         /\ tmp \in Seq(Nat) /\ pkt \in Seq(Nat) /\ uart \in Seq(Nat) /\ Len(pkt) =< PKT
         /\ flushed \in BOOLEAN /\ \E es : RingIs(es)
BY DEF LogIInv, EntriesInv, LogTypeOK, FlagIInv, LabelInv, N

LEMMA PopMoves ==
  ASSUME LogIInv, NEW label, pc' = [pc EXCEPT ![Popper] = label]
  PROVE  pc'[Popper] = label
BY PopperFacts, Tasks

LEMMA RingAlone ==
  ASSUME LogTypeOK, NEW es, RingIs(es)
  PROVE  Stored = es /\ WholeEntries /\ es \in Seq(Entries)
BY ReadRing DEF RingReads, RingIs, Laid

LEMMA PopTryLockInv ==
  ASSUME LogIInv, PopTryLock
  PROVE  EntriesInv' /\ Keeps
<1>1. PICK label \in {"round_end", "pop"} :
        /\ pc' = [pc EXCEPT ![Popper] = label] /\ LOG_MTX' = TRUE
        /\ UNCHANGED <<ring, entry, at, packing, calls>>
  BY DEF PopTryLock, Step
<1>2. /\ UNCHANGED ring /\ UNCHANGED <<LOG_RING, LOG_TAIL, entry, calls>> /\ LOG_HEAD' = LOG_HEAD
      /\ at' = at /\ tmp' = tmp /\ pkt' = pkt /\ uart' = uart /\ flushed' = flushed
  BY <1>1 DEF ring, packing
<1>3. Keeps
  BY <1>2, KeepsRing
<1>4. PopperInv'
  BY <1>1, PopMoves DEF PopperInv
<1>5. label \in PopLabel
  BY DEF PopLabel
<1>6. \E es : RingIs(es)'
  BY <1>3, PopperFacts DEF Keeps
<1>7. EntriesInv'
  BY <1>1, <1>2, <1>4, <1>5, <1>6, PopperFacts, PopperSteps
<1>8. QED
  BY <1>3, <1>7

\* What log_task copies is the oldest entry and its length.
LEMMA CopiesFirst ==
  ASSUME LogTypeOK, NEW es, RingIs(es), LOG_HEAD # LOG_TAIL,
         NEW n, n = AtMost(Cell(LOG_HEAD) + 1, TMP)
  PROVE  /\ es # <<>> /\ es[1] \in Entries
         /\ [i \in 1 .. n |-> Cell(LOG_HEAD + i - 1)] = <<Len(es[1])>> \o es[1]
<1>1. PICK off : Laid(LOG_RING, LOG_HEAD, Used, es, off)
  BY DEF RingIs
<1>2. LOG_HEAD \in 0 .. N - 1 /\ Used \in 0 .. N - 1 /\ Used # 0 /\ N \in Nat \ {0}
  BY RingSizes, Sizes
<1>3. es \in Seq(Entries) /\ off[0] = LOG_HEAD /\ off[Len(es)] = LOG_HEAD + Used
  BY <1>1 DEF Laid
<1>4. es # <<>>
  <2>1. SUFFICES ASSUME es = <<>> PROVE FALSE
    OBVIOUS
  <2>2. off[0] = LOG_HEAD + Used
    BY <1>3, <2>1
  <2>3. QED
    BY <1>2, <1>3, <2>2
<1>5. 1 \in 1 .. Len(es) /\ es[1] \in Entries
  BY <1>3, <1>4
<1>6. PICK e \in Entries : e = es[1]
  BY <1>5
<1>7. e \in Seq(Nat) /\ Len(e) \in Nat /\ Len(e) + 1 =< TMP
  BY EntryLen, Sizes
<1>8. LOG_RING[LOG_HEAD % N] = Len(e) /\ \A c \in 1 .. Len(e) : LOG_RING[(LOG_HEAD + c) % N] = e[c]
  <2>1. 1 - 1 = 0
    OBVIOUS
  <2>2. /\ LOG_RING[off[1 - 1] % N] = Len(e)
        /\ \A c \in 1 .. Len(e) : LOG_RING[(off[1 - 1] + c) % N] = e[c]
    BY <1>1, <1>5, <1>6 DEF Laid
  <2>3. QED
    BY <1>3, <2>1, <2>2
<1>9. n = Len(e) + 1
  <2>1. Cell(LOG_HEAD) = Len(e)
    BY <1>8 DEF Cell, N
  <2>2. QED
    BY <1>7, <2>1 DEF AtMost
<1> DEFINE copy == [i \in 1 .. n |-> Cell(LOG_HEAD + i - 1)]
           cells == <<Len(e)>> \o e
<1>10. cells \in Seq(Nat) /\ Len(cells) = Len(e) + 1 /\ cells[1] = Len(e)
       /\ \A c \in 1 .. Len(e) : cells[c + 1] = e[c]
  BY <1>7
<1>11. ASSUME NEW i \in 1 .. Len(e) + 1 PROVE Cell(LOG_HEAD + i - 1) = cells[i]
  <2> HIDE DEF cells
  <2>1. CASE i = 1
    <3>1. LOG_HEAD + i - 1 = LOG_HEAD
      BY <1>2, <2>1
    <3>2. QED
      BY <1>8, <1>10, <2>1, <3>1 DEF Cell, N
  <2>2. CASE i # 1
    <3>1. PICK c : c = i - 1
      OBVIOUS
    <3>2. c \in 1 .. Len(e) /\ i = c + 1 /\ LOG_HEAD + i - 1 = LOG_HEAD + c
      BY <1>2, <1>7, <2>2, <3>1
    <3>3. QED
      BY <1>8, <1>10, <3>2 DEF Cell, N
  <2>3. QED
    BY <2>1, <2>2
<1>12. copy = cells
  <2>1. cells = [i \in 1 .. Len(e) + 1 |-> cells[i]]
    <3> HIDE DEF cells
    <3> QED
      BY <1>10
  <2>2. copy = [i \in 1 .. Len(e) + 1 |-> cells[i]]
    <3> HIDE DEF cells
    <3> QED
      BY <1>9, <1>11
  <2> HIDE DEF copy, cells
  <2>3. QED
    BY <2>1, <2>2
<1>13. QED
  BY <1>4, <1>5, <1>6, <1>12

LEMMA PopReadInv ==
  ASSUME LogIInv, PopRead
  PROVE  EntriesInv' /\ Keeps /\ (pc'[Popper] = "unlock" => tmp' = <<>>)
<1> DEFINE n == AtMost(Cell(LOG_HEAD) + 1, TMP)
           copy == [i \in 1 .. n |-> Cell(LOG_HEAD + i - 1)]
<1>1. PICK label \in {"unlock", "advance"} :
        /\ pc[Popper] = "pop" /\ pc' = [pc EXCEPT ![Popper] = label]
        /\ label = "unlock" => tmp' = <<>>
        /\ label = "advance" => LOG_HEAD # LOG_TAIL /\ tmp' = copy
        /\ at' = [at EXCEPT ![Popper] = LOG_HEAD]
        /\ UNCHANGED <<ring, LOG_MTX, entry, pkt, flushed, calls, uart>>
  BY DEF PopRead, Step
<1> HIDE DEF n
<1>2. /\ UNCHANGED ring /\ UNCHANGED <<LOG_RING, LOG_TAIL, entry, calls>> /\ LOG_HEAD' = LOG_HEAD
      /\ LOG_MTX' = LOG_MTX /\ pkt' = pkt /\ uart' = uart /\ flushed' = flushed
  BY <1>1 DEF ring
<1>3. Keeps
  BY <1>2, KeepsRing
<1>4. PICK es : RingIs(es)
  BY PopperFacts
<1>5. label = "advance" => es # <<>> /\ es[1] \in Entries /\ tmp' = <<Len(es[1])>> \o es[1]
  <2> HIDE DEF copy
  <2> SUFFICES ASSUME label = "advance"
               PROVE  es # <<>> /\ es[1] \in Entries /\ tmp' = <<Len(es[1])>> \o es[1]
    OBVIOUS
  <2>1. es # <<>> /\ es[1] \in Entries /\ copy = <<Len(es[1])>> \o es[1]
    BY <1>1, <1>4, PopperFacts, CopiesFirst DEF n, copy
  <2>2. QED
    BY <1>1, <2>1
<1> HIDE DEF copy
<1>6. tmp' \in Seq(Nat)
  <2>1. CASE label = "unlock"
    BY <1>1, <2>1
  <2>2. CASE label = "advance"
    <3>1. PICK e \in Entries : e = es[1]
      BY <1>5, <2>2
    <3>2. e \in Seq(Nat) /\ <<Len(e)>> \in Seq(Nat)
      BY EntryLen
    <3>3. <<Len(e)>> \o e \in Seq(Nat)
      BY <3>2, ConcatProperties
    <3>4. QED
      BY <1>5, <2>2, <3>1, <3>3
  <2>3. QED
    BY <2>1, <2>2
<1>7. at' \in [Task -> 0 .. N - 1] /\ at'[Popper] = LOG_HEAD /\ \A u \in Emitter : at'[u] = at[u]
  BY <1>1, PopperFacts, Tasks
<1>8. pc'[Popper] = label
  BY <1>1, PopMoves
<1>9. RingIs(es)'
  BY <1>3, <1>4 DEF Keeps
<1>10. PopperInv'
  <2>1. CASE label = "unlock"
    BY <1>1, <1>8, <2>1 DEF PopperInv
  <2>2. CASE label = "advance"
    BY <1>2, <1>5, <1>7, <1>8, <1>9, <2>2 DEF PopperInv
  <2>3. QED
    BY <2>1, <2>2
<1>11. label \in PopLabel
  BY DEF PopLabel
<1>12. EntriesInv'
  BY <1>1, <1>2, <1>6, <1>7, <1>9, <1>10, <1>11, PopperFacts, PopperSteps
<1>13. QED
  BY <1>1, <1>3, <1>8, <1>12

\* The oldest entry leaves the ring, into the hand of log_task.
Pops1 ==
  \A es : RingIs(es) =>
    es # <<>> /\ es[1] \in Entries /\ tmp = <<Len(es[1])>> \o es[1] /\ RingIs(Tail(es))'

LEMMA PopAdvanceInv ==
  ASSUME LogIInv, PopAdvance
  PROVE  EntriesInv' /\ Pops1 /\ tmp' = tmp /\ pc'[Popper] = "unlock"
<1>1. /\ pc[Popper] = "advance" /\ pc' = [pc EXCEPT ![Popper] = "unlock"]
      /\ LOG_HEAD' = (at[Popper] + tmp[1] + 1) % N
      /\ UNCHANGED <<LOG_RING, LOG_TAIL, LOG_MTX, entry, at, packing, calls>>
  BY DEF PopAdvance, Step, N
<1>2. tmp' = tmp /\ pkt' = pkt /\ uart' = uart /\ flushed' = flushed
  BY <1>1 DEF packing
<1>3. PICK es : RingIs(es) /\ es # <<>> /\ tmp = <<Len(es[1])>> \o es[1]
  BY <1>1, PopperFacts DEF PopperInv
<1>4. at[Popper] = LOG_HEAD
  BY <1>1, PopperFacts DEF PopperInv
<1>5. PICK off : Laid(LOG_RING, LOG_HEAD, Used, es, off)
  BY <1>3 DEF RingIs
<1>6. 1 \in 1 .. Len(es) /\ 1 \in 0 .. Len(es) /\ es[1] \in Entries /\ es \in Seq(Entries)
  BY <1>3, <1>5 DEF Laid
<1>7. Len(es[1]) \in Nat /\ es[1] \in Seq(Nat)
  BY <1>6, EntryLen
<1>8. tmp[1] = Len(es[1])
  BY <1>3, <1>7
<1>9. off[1] = LOG_HEAD + Len(es[1]) + 1
  <2>1. off[1] = off[1 - 1] + Len(es[1]) + 1 /\ off[0] = LOG_HEAD /\ 1 - 1 = 0
    BY <1>5, <1>6 DEF Laid
  <2>2. QED
    BY <2>1
<1>10. LOG_HEAD' = off[1] % N
  BY <1>1, <1>4, <1>8, <1>9
<1>11. LOG_HEAD' \in 0 .. N - 1 /\ RingIs(SubSeq(es, 1 + 1, Len(es)))'
  BY <1>1, <1>5, <1>6, <1>10, PopperFacts, RingDrops
<1>12. SubSeq(es, 1 + 1, Len(es)) = Tail(es)
  BY <1>3, <1>6, TailIsSubSeq
<1>13. RingIs(Tail(es))'
  BY <1>11, <1>12
<1>14. Pops1
  <2> SUFFICES ASSUME NEW fs, RingIs(fs)
               PROVE  fs # <<>> /\ fs[1] \in Entries /\ tmp = <<Len(fs[1])>> \o fs[1] /\ RingIs(Tail(fs))'
    BY DEF Pops1
  <2>1. fs = es
    BY <1>3, PopperFacts, RingAlone
  <2>2. QED
    BY <1>3, <1>6, <1>13, <2>1
<1>15. pc'[Popper] = "unlock"
  BY <1>1, PopMoves
<1>16. PopperInv'
  BY <1>2, <1>3, <1>6, <1>15 DEF PopperInv
<1>17. Inside(pc[Popper]) /\ "unlock" \in PopLabel
  BY <1>1 DEF Inside, PopLabel
<1>18. EntriesInv'
  BY <1>1, <1>2, <1>11, <1>13, <1>16, <1>17, PopperFacts, PopperSteps
<1>19. QED
  BY <1>2, <1>14, <1>15, <1>18

LEMMA PopUnlockInv ==
  ASSUME LogIInv, PopUnlock
  PROVE  /\ EntriesInv' /\ Keeps /\ pc[Popper] = "unlock"
         /\ \/ tmp = <<>> /\ tmp' = <<>> /\ pc'[Popper] = "round_end"
            \/ tmp # <<>> /\ tmp' = Tail(tmp) /\ tmp' \in Entries /\ pc'[Popper] = "pack"
<1> DEFINE sound == tmp # <<>> /\ tmp[1] # 0 /\ tmp[1] + 1 =< TMP
           label == IF sound THEN "pack" ELSE "round_end"
           body == IF sound THEN SubSeq(tmp, 2, tmp[1] + 1) ELSE <<>>
<1>1. /\ pc[Popper] = "unlock" /\ pc' = [pc EXCEPT ![Popper] = label]
      /\ LOG_MTX' = FALSE /\ tmp' = body /\ at' = [at EXCEPT ![Popper] = 0]
      /\ UNCHANGED <<ring, entry, pkt, flushed, calls, uart>>
  BY DEF PopUnlock, Step
<1>2. /\ UNCHANGED ring /\ UNCHANGED <<LOG_RING, LOG_TAIL, entry, calls>> /\ LOG_HEAD' = LOG_HEAD
      /\ pkt' = pkt /\ uart' = uart /\ flushed' = flushed
  BY <1>1 DEF ring
<1>3. Keeps
  BY <1>2, KeepsRing
<1>4. tmp = <<>> \/ \E e \in Entries : tmp = <<Len(e)>> \o e
  BY <1>1, PopperFacts DEF PopperInv
<1>5. \/ tmp = <<>> /\ body = <<>> /\ label = "round_end"
      \/ tmp # <<>> /\ body = Tail(tmp) /\ body \in Entries /\ label = "pack"
  <2>1. CASE tmp = <<>>
    BY <2>1
  <2>2. CASE \E e \in Entries : tmp = <<Len(e)>> \o e
    <3>1. PICK e \in Entries : tmp = <<Len(e)>> \o e
      BY <2>2
    <3>2. e \in Seq(Nat) /\ Len(e) \in 2 .. BUF + 1 /\ Len(e) \in Nat
      BY EntryLen
    <3>3. tmp \in Seq(Nat) /\ tmp # <<>> /\ tmp[1] = Len(e) /\ Len(tmp) = Len(e) + 1
      BY <3>1, <3>2
    <3>4. tmp[1] # 0 /\ tmp[1] + 1 =< TMP
      BY <3>2, <3>3, Sizes
    <3>5. sound
      BY <3>3, <3>4
    <3>6. Tail(tmp) = SubSeq(tmp, 2, tmp[1] + 1)
      BY <3>3, TailIsSubSeq
    <3>7. Tail(tmp) = e
      BY <3>1, <3>2
    <3> HIDE DEF sound
    <3>8. QED
      BY <3>3, <3>5, <3>6, <3>7
  <2>3. QED
    BY <1>4, <2>1, <2>2
<1> HIDE DEF label, body
<1>6. pc'[Popper] = label
  BY <1>1, PopMoves
<1>7. PopperInv'
  BY <1>1, <1>5, <1>6 DEF PopperInv
<1>8. tmp' \in Seq(Nat)
  <2>1. <<>> \in Seq(Nat)
    OBVIOUS
  <2>2. \A e \in Entries : e \in Seq(Nat)
    BY DEF Entries
  <2>3. QED
    BY <1>1, <1>5, <2>1, <2>2
<1>9. at' \in [Task -> 0 .. N - 1] /\ \A u \in Emitter : at'[u] = at[u]
  <2>1. 0 \in 0 .. N - 1
    BY Sizes
  <2>2. QED
    BY <1>1, <2>1, PopperFacts, Tasks
<1>10. label \in PopLabel
  BY <1>5 DEF PopLabel
<1>11. \E es : RingIs(es)'
  BY <1>3, PopperFacts DEF Keeps
<1>12. EntriesInv'
  BY <1>1, <1>2, <1>7, <1>8, <1>9, <1>10, <1>11, PopperFacts, PopperSteps
<1>13. QED
  BY <1>1, <1>3, <1>5, <1>6, <1>12

\* The rest of a line is still to come while log_task waits with it in hand.
Resting == pc[Popper] \in {"sending_part", "rest"}

\* What is on its way to the console.
OnItsWay == IF Resting THEN Crlf(tmp) ELSE <<>>

LEMMA ConsoleIs == Console = (uart \o pkt) \o OnItsWay
BY DEF Console, OnItsWay, Resting

LEMMA PackFacts ==
  ASSUME LogIInv, pc[Popper] = "pack"
  PROVE  tmp \in Entries /\ tmp \in Seq(Nat) /\ Crlf(tmp) \in Seq(Nat) /\ Len(Crlf(tmp)) =< PKT
<1>1. tmp \in Entries
  BY PopperFacts DEF PopperInv
<1>2. PICK e \in Entries : e = tmp
  BY <1>1
<1>3. e \in Seq(Nat) /\ Len(Crlf(e)) = Len(e) + 1 /\ Len(e) + 1 =< PKT
  BY CrlfEntry
<1>4. QED
  BY <1>1, <1>2, <1>3, CrlfSeq

LEMMA Appended ==
  ASSUME NEW a \in Seq(Nat), NEW b \in Seq(Nat)
  PROVE  a \o b \in Seq(Nat) /\ a \o <<>> = a /\ <<>> \o a = a
BY ConcatProperties, ConcatEmptySeq

LEMMA PackWholeInv ==
  ASSUME LogIInv, PackWhole
  PROVE  /\ EntriesInv' /\ Keeps /\ pc[Popper] = "pack" /\ tmp \in Entries
         /\ pc'[Popper] \in {"sending", "trylock"} /\ Console' = Console \o Crlf(tmp)
<1> DEFINE packed == pkt \o Crlf(tmp)
           full == Len(packed) + Len(tmp) + 2 > PKT
           label == IF full THEN "sending" ELSE "trylock"
<1>1. /\ Len(packed) =< PKT /\ pc[Popper] = "pack" /\ pc' = [pc EXCEPT ![Popper] = label]
      /\ tmp' = <<>>
      /\ IF full THEN uart' = uart \o packed /\ pkt' = <<>> /\ flushed' = TRUE
         ELSE pkt' = packed /\ uart' = uart /\ flushed' = flushed
      /\ UNCHANGED <<ring, LOG_MTX, entry, at, calls>>
  BY DEF PackWhole, Write, Step
<1>2. /\ UNCHANGED ring /\ UNCHANGED <<LOG_RING, LOG_TAIL, entry, calls>> /\ LOG_HEAD' = LOG_HEAD
      /\ LOG_MTX' = LOG_MTX /\ at' = at
  BY <1>1 DEF ring
<1>3. Keeps
  BY <1>2, KeepsRing
<1>4. /\ tmp \in Entries /\ tmp \in Seq(Nat) /\ Crlf(tmp) \in Seq(Nat)
      /\ pkt \in Seq(Nat) /\ uart \in Seq(Nat)
  BY <1>1, PackFacts, PopperFacts
<1>5. packed \in Seq(Nat) /\ uart \o packed \in Seq(Nat)
  BY <1>4, Appended
<1>6. label \in {"sending", "trylock"} /\ label \in PopLabel
  BY DEF PopLabel
<1>7. pc'[Popper] = label
  <2> HIDE DEF label
  <2> QED
    BY <1>1, PopMoves
<1>8. Console' = Console \o Crlf(tmp)
  <2>1. ~Resting /\ ~Resting'
    BY <1>1, <1>6, <1>7 DEF Resting
  <2>2. Console = uart \o pkt
    <3>1. OnItsWay = <<>> /\ uart \o pkt \in Seq(Nat)
      BY <1>4, <2>1, Appended DEF OnItsWay
    <3>2. QED
      BY <3>1, ConsoleIs, Appended
  <2>3. Console' = uart' \o pkt'
    <3>1. OnItsWay' = <<>>
      BY <2>1 DEF OnItsWay
    <3>2. Console' = (uart' \o pkt') \o OnItsWay'
      BY DEF Console, OnItsWay, Resting
    <3>3. uart' \in Seq(Nat) /\ pkt' \in Seq(Nat)
      <4> HIDE DEF packed
      <4>1. <<>> \in Seq(Nat)
        OBVIOUS
      <4>2. CASE full
        BY <1>1, <1>5, <4>1, <4>2
      <4>3. CASE ~full
        BY <1>1, <1>4, <1>5, <4>3
      <4>4. QED
        BY <4>2, <4>3
    <3>4. uart' \o pkt' \in Seq(Nat)
      BY <3>3, Appended
    <3>5. QED
      BY <3>1, <3>2, <3>4, Appended
  <2>4. uart' \o pkt' = uart \o packed
    <3> HIDE DEF packed
    <3>1. CASE full
      <4>1. uart' = uart \o packed /\ pkt' = <<>>
        BY <1>1, <3>1
      <4>2. QED
        BY <1>5, <4>1, Appended
    <3>2. CASE ~full
      BY <1>1, <3>2
    <3>3. QED
      BY <3>1, <3>2
  <2>5. uart \o packed = (uart \o pkt) \o Crlf(tmp)
    BY <1>4, Associative
  <2>6. QED
    BY <2>2, <2>3, <2>4, <2>5
<1>9. /\ tmp' \in Seq(Nat) /\ pkt' \in Seq(Nat) /\ uart' \in Seq(Nat) /\ Len(pkt') =< PKT
      /\ flushed' \in BOOLEAN
  <2> HIDE DEF packed
  <2>1. <<>> \in Seq(Nat) /\ Len(<<>>) = 0 /\ 0 =< PKT
    BY Sizes
  <2>2. CASE full
    BY <1>1, <1>5, <2>1, <2>2
  <2>3. CASE ~full
    BY <1>1, <1>4, <1>5, <2>1, <2>3, PopperFacts
  <2>4. QED
    BY <2>2, <2>3
<1>10. PopperInv'
  BY <1>6, <1>7 DEF PopperInv
<1>11. \E es : RingIs(es)'
  BY <1>3, PopperFacts DEF Keeps
<1> HIDE DEF label
<1>12. EntriesInv'
  BY <1>1, <1>2, <1>6, <1>9, <1>10, <1>11, PopperFacts, PopperSteps
<1>13. QED
  BY <1>1, <1>3, <1>4, <1>6, <1>7, <1>8, <1>12

LEMMA PackPartInv ==
  ASSUME LogIInv, PackPart
  PROVE  /\ EntriesInv' /\ Keeps /\ pc[Popper] = "pack" /\ tmp \in Entries
         /\ pc'[Popper] = "sending_part" /\ Console' = Console \o Crlf(tmp)
<1>1. PICK k : k = Fitting(pkt, tmp)
  OBVIOUS
<1> DEFINE part == SubSeq(tmp, 1, k)
           left == SubSeq(tmp, k + 1, Len(tmp))
<1>2. /\ pc[Popper] = "pack" /\ pc' = [pc EXCEPT ![Popper] = "sending_part"]
      /\ uart' = uart \o (pkt \o Crlf(part)) /\ pkt' = <<>> /\ flushed' = TRUE
      /\ tmp' = left
      /\ UNCHANGED <<ring, LOG_MTX, entry, at, calls>>
  BY <1>1 DEF PackPart, Write, Step
<1>3. /\ UNCHANGED ring /\ UNCHANGED <<LOG_RING, LOG_TAIL, entry, calls>> /\ LOG_HEAD' = LOG_HEAD
      /\ LOG_MTX' = LOG_MTX /\ at' = at
  BY <1>2 DEF ring
<1>4. Keeps
  BY <1>3, KeepsRing
<1>5. /\ tmp \in Entries /\ tmp \in Seq(Nat) /\ Crlf(tmp) \in Seq(Nat) /\ Len(Crlf(tmp)) =< PKT
      /\ pkt \in Seq(Nat) /\ uart \in Seq(Nat) /\ Len(pkt) =< PKT
  BY <1>2, PackFacts, PopperFacts
<1>6. k \in 0 .. Len(tmp)
  BY <1>1, <1>5, FittingFits
<1>7. /\ part \in Seq(Nat) /\ left \in Seq(Nat)
      /\ Crlf(part) \in Seq(Nat) /\ Crlf(left) \in Seq(Nat)
      /\ Crlf(tmp) = Crlf(part) \o Crlf(left)
      /\ Len(Crlf(tmp)) = Len(Crlf(part)) + Len(Crlf(left))
      /\ Len(Crlf(part)) \in Nat /\ Len(Crlf(left)) \in Nat
  BY <1>5, <1>6, CrlfSplits
<1> HIDE DEF part, left
<1>8. Len(Crlf(left)) =< PKT
  BY <1>5, <1>7, Sizes
<1>9. pc'[Popper] = "sending_part"
  BY <1>2, PopMoves
<1>10. PopperInv'
  BY <1>2, <1>8, <1>9 DEF PopperInv
<1>11. uart' \in Seq(Nat)
  BY <1>2, <1>5, <1>7, Appended
<1>12. \E es : RingIs(es)'
  BY <1>4, PopperFacts DEF Keeps
<1>13. EntriesInv'
  <2>1. "sending_part" \in PopLabel /\ TRUE \in BOOLEAN /\ LOG_HEAD' \in 0 .. N - 1
    BY <1>3, PopperFacts DEF PopLabel
  <2>2. pkt' \in Seq(Nat) /\ Len(pkt') =< PKT /\ tmp' \in Seq(Nat) /\ flushed' \in BOOLEAN
    BY <1>2, <1>7, Sizes
  <2>3. at' \in [Task -> 0 .. N - 1] /\ LOG_MTX' \in BOOLEAN /\ \A u \in Emitter : at'[u] = at[u]
    BY <1>3, PopperFacts
  <2>4. QED
    BY <1>2, <1>3, <1>10, <1>11, <1>12, <2>1, <2>2, <2>3, PopperSteps
<1>14. Console' = Console \o Crlf(tmp)
  <2>1. ~Resting /\ Resting'
    BY <1>2, <1>9 DEF Resting
  <2>2. Console = uart \o pkt
    <3>1. OnItsWay = <<>> /\ uart \o pkt \in Seq(Nat)
      BY <1>5, <2>1, Appended DEF OnItsWay
    <3>2. QED
      BY <3>1, ConsoleIs, Appended
  <2>3. Console' = (uart' \o pkt') \o Crlf(left)
    <3>1. OnItsWay' = Crlf(left)
      BY <1>2, <2>1 DEF OnItsWay
    <3>2. Console' = (uart' \o pkt') \o OnItsWay'
      BY DEF Console, OnItsWay, Resting
    <3>3. QED
      BY <3>1, <3>2
  <2>4. uart' \o pkt' = (uart \o pkt) \o Crlf(part)
    <3>1. uart' \o pkt' = uart'
      BY <1>2, <1>11, Appended
    <3>2. uart \o (pkt \o Crlf(part)) = (uart \o pkt) \o Crlf(part)
      BY <1>5, <1>7, Associative
    <3>3. QED
      BY <1>2, <3>1, <3>2
  <2>5. ((uart \o pkt) \o Crlf(part)) \o Crlf(left) = (uart \o pkt) \o (Crlf(part) \o Crlf(left))
    <3>1. uart \o pkt \in Seq(Nat)
      BY <1>5, Appended
    <3>2. QED
      BY <1>7, <3>1, Associative
  <2>6. QED
    BY <1>7, <2>2, <2>3, <2>4, <2>5
<1>15. QED
  BY <1>2, <1>4, <1>5, <1>9, <1>13, <1>14

LEMMA PackRestInv ==
  ASSUME LogIInv, PackRest
  PROVE  /\ EntriesInv' /\ Keeps /\ pc[Popper] = "rest" /\ pc'[Popper] = "trylock"
         /\ Console' = Console
<1>1. /\ pc[Popper] = "rest" /\ pc' = [pc EXCEPT ![Popper] = "trylock"]
      /\ pkt' = Crlf(SubSeq(tmp, 1, Fitting(<<>>, tmp))) /\ tmp' = <<>>
      /\ UNCHANGED <<ring, LOG_MTX, entry, at, flushed, calls, uart>>
  BY DEF PackRest, Step
<1>2. /\ UNCHANGED ring /\ UNCHANGED <<LOG_RING, LOG_TAIL, entry, calls>> /\ LOG_HEAD' = LOG_HEAD
      /\ LOG_MTX' = LOG_MTX /\ at' = at /\ uart' = uart /\ flushed' = flushed
  BY <1>1 DEF ring
<1>3. Keeps
  BY <1>2, KeepsRing
<1>4. pkt = <<>> /\ Len(Crlf(tmp)) =< PKT /\ tmp \in Seq(Nat) /\ uart \in Seq(Nat)
  BY <1>1, PopperFacts DEF PopperInv
<1>5. pkt' = Crlf(tmp) /\ Crlf(tmp) \in Seq(Nat)
  BY <1>1, <1>4, FittingAll, CrlfSeq
<1>6. pc'[Popper] = "trylock"
  BY <1>1, PopMoves
<1>7. PopperInv'
  BY <1>6 DEF PopperInv
<1>8. \E es : RingIs(es)'
  BY <1>3, PopperFacts DEF Keeps
<1>9. EntriesInv'
  <2>1. "trylock" \in PopLabel /\ LOG_HEAD' \in 0 .. N - 1 /\ flushed' \in BOOLEAN
    BY <1>2, PopperFacts DEF PopLabel
  <2>2. pkt' \in Seq(Nat) /\ Len(pkt') =< PKT /\ tmp' \in Seq(Nat) /\ uart' \in Seq(Nat)
    BY <1>1, <1>2, <1>4, <1>5
  <2>3. at' \in [Task -> 0 .. N - 1] /\ LOG_MTX' \in BOOLEAN /\ \A u \in Emitter : at'[u] = at[u]
    BY <1>2, PopperFacts
  <2>4. QED
    BY <1>1, <1>2, <1>7, <1>8, <2>1, <2>2, <2>3, PopperSteps
<1>10. Console' = Console
  <2>1. OnItsWay = Crlf(tmp) /\ OnItsWay' = <<>>
    BY <1>1, <1>6 DEF OnItsWay, Resting
  <2>2. Console' = (uart' \o pkt') \o OnItsWay'
    BY DEF Console, OnItsWay, Resting
  <2>3. Console' = uart \o Crlf(tmp)
    BY <1>2, <1>4, <1>5, <2>1, <2>2, Appended
  <2>4. Console = uart \o Crlf(tmp)
    BY <1>4, <2>1, ConsoleIs, Appended
  <2>5. QED
    BY <2>3, <2>4
<1>11. QED
  BY <1>1, <1>3, <1>6, <1>9, <1>10

\* A packet is written, or a wait ends: nothing is packed.
LEMMA RoundInv ==
  ASSUME LogIInv, RoundEnd \/ Resume
  PROVE  /\ EntriesInv' /\ Keeps /\ Console' = Console
         /\ pc[Popper] \notin {"pack", "unlock"} /\ pc'[Popper] \notin {"pack", "unlock"}
<1>1. PICK label \in {"sending", "trylock", "asleep", "rest"} :
        /\ pc' = [pc EXCEPT ![Popper] = label]
        /\ pc[Popper] \in {"round_end", "sending", "asleep", "sending_part"}
        /\ label = "rest" <=> pc[Popper] = "sending_part"
        /\ \/ uart' = uart \o pkt /\ pkt' = <<>> /\ label # "rest"
           \/ uart' = uart /\ pkt' = pkt
        /\ tmp' = tmp /\ flushed' \in {FALSE, flushed}
        /\ UNCHANGED <<ring, LOG_MTX, entry, at, calls>>
  BY DEF RoundEnd, Resume, Step, packing
<1>2. /\ UNCHANGED ring /\ UNCHANGED <<LOG_RING, LOG_TAIL, entry, calls>> /\ LOG_HEAD' = LOG_HEAD
      /\ LOG_MTX' = LOG_MTX /\ at' = at
  BY <1>1 DEF ring
<1>3. Keeps
  BY <1>2, KeepsRing
<1>4. pc'[Popper] = label
  BY <1>1, PopMoves
<1>5. tmp \in Seq(Nat) /\ pkt \in Seq(Nat) /\ uart \in Seq(Nat) /\ uart \o pkt \in Seq(Nat)
  BY PopperFacts, Appended
<1>6. label = "rest" => pkt' = <<>> /\ Len(Crlf(tmp')) =< PKT
  BY <1>1, PopperFacts DEF PopperInv
<1>7. PopperInv'
  BY <1>4, <1>6 DEF PopperInv
<1>8. \E es : RingIs(es)'
  BY <1>3, PopperFacts DEF Keeps
<1>9. EntriesInv'
  <2>1. label \in PopLabel /\ LOG_HEAD' \in 0 .. N - 1 /\ flushed' \in BOOLEAN
    BY <1>1, <1>2, PopperFacts DEF PopLabel
  <2>2. <<>> \in Seq(Nat) /\ Len(<<>>) = 0 /\ 0 =< PKT
    BY Sizes
  <2>3. pkt' \in Seq(Nat) /\ Len(pkt') =< PKT /\ tmp' \in Seq(Nat) /\ uart' \in Seq(Nat)
    BY <1>1, <1>5, <2>2, PopperFacts
  <2>4. at' \in [Task -> 0 .. N - 1] /\ LOG_MTX' \in BOOLEAN /\ \A u \in Emitter : at'[u] = at[u]
    BY <1>2, PopperFacts
  <2>5. QED
    BY <1>1, <1>2, <1>7, <1>8, <2>1, <2>3, <2>4, PopperSteps
<1>10. Console' = Console
  <2>1. OnItsWay' = OnItsWay
    BY <1>1, <1>4 DEF OnItsWay, Resting
  <2>2. uart' \o pkt' = uart \o pkt
    BY <1>1, <1>5, Appended
  <2>3. Console' = (uart' \o pkt') \o OnItsWay'
    BY DEF Console, OnItsWay, Resting
  <2>4. QED
    BY <2>1, <2>2, <2>3, ConsoleIs
<1>11. QED
  BY <1>1, <1>3, <1>4, <1>9, <1>10

-----------------------------------------------------------------------------
(* Every step keeps the entries *)

LEMMA RingBegins == LogInit => RingIs(<<>>)
<1> SUFFICES ASSUME LogInit PROVE RingIs(<<>>)
  OBVIOUS
<1>1. N \in Nat \ {0}
  BY Sizes
<1>2. LOG_RING = [c \in 0 .. N - 1 |-> 0] /\ LOG_HEAD = 0 /\ LOG_TAIL = 0
  BY DEF LogInit, N
<1>3. LOG_RING \in [0 .. N - 1 -> Nat] /\ 0 \in 0 .. N - 1
  BY <1>1, <1>2
<1>4. (0 + N - 0) % N = 0
  BY <1>1
<1>5. Used = 0
  BY <1>2, <1>4 DEF Used, N
<1>6. \E off : Laid(LOG_RING, 0, 0, <<>>, off)
  BY <1>3, LaidNothing
<1>7. QED
  BY <1>2, <1>5, <1>6 DEF RingIs

LEMMA EntriesInit == LogInit => EntriesInv
<1> SUFFICES ASSUME LogInit PROVE EntriesInv
  OBVIOUS
<1>1. N \in Nat \ {0} /\ 0 =< PKT /\ 0 \in 0 .. MaxCalls
  BY Sizes, LogAssumption
<1>2. /\ LOG_RING = [c \in 0 .. N - 1 |-> 0] /\ LOG_HEAD = 0 /\ LOG_TAIL = 0 /\ LOG_MTX = FALSE
      /\ pc = [t \in Task |-> IF t = Popper THEN "trylock" ELSE "away"]
      /\ entry = [t \in Emitter |-> <<>>] /\ at = [t \in Task |-> 0]
      /\ tmp = <<>> /\ pkt = <<>> /\ flushed = FALSE /\ uart = <<>> /\ calls = 0
  BY DEF LogInit, N
<1>3. pc[Popper] = "trylock" /\ \A t \in Emitter : pc[t] = "away"
  BY <1>2, Tasks
<1>4. LOG_RING \in [0 .. N - 1 -> Nat] /\ 0 \in 0 .. N - 1 /\ at \in [Task -> 0 .. N - 1]
  BY <1>1, <1>2
<1>5. <<>> \in Seq(Nat) /\ Len(<<>>) = 0
  OBVIOUS
<1>6. LogTypeOK
  BY <1>1, <1>2, <1>3, <1>4, <1>5 DEF LogTypeOK, N
<1>7. \E es : RingIs(es)
  BY RingBegins
<1>8. \A t \in Emitter : EmitterInv(t)
  BY <1>3 DEF EmitterInv
<1>9. PopperInv
  BY <1>3 DEF PopperInv
<1>10. DOMAIN entry = Emitter
  BY <1>2
<1>11. QED
  BY <1>6, <1>7, <1>8, <1>9, <1>10 DEF EntriesInv

LEMMA NothingMoves ==
  ASSUME LogIInv, UNCHANGED logVars
  PROVE  EntriesInv' /\ Keeps
<1>1. /\ UNCHANGED ring /\ LOG_RING' = LOG_RING /\ LOG_HEAD' = LOG_HEAD /\ LOG_TAIL' = LOG_TAIL
      /\ LOG_MTX' = LOG_MTX /\ pc' = pc /\ entry' = entry /\ at' = at /\ calls' = calls
      /\ tmp' = tmp /\ pkt' = pkt /\ flushed' = flushed /\ uart' = uart
  BY DEF logVars, ring, packing
<1>2. Keeps
  BY <1>1, KeepsRing
<1>3. Used' = Used
  BY <1>1 DEF Used
<1>4. LogTypeOK'
  BY <1>1, PopperFacts DEF LogTypeOK
<1>5. ASSUME NEW t \in Emitter PROVE EmitterInv(t)'
  BY <1>1, <1>3, EmitterFacts DEF EmitterInv
<1>6. PopperInv'
  BY <1>1, <1>2, PopperFacts DEF PopperInv, Keeps
<1>7. \E es : RingIs(es)'
  BY <1>2, PopperFacts DEF Keeps
<1>8. DOMAIN entry' = Emitter
  BY <1>1, EmitterFacts
<1>9. QED
  BY <1>2, <1>4, <1>5, <1>6, <1>7, <1>8 DEF EntriesInv

LEMMA EntriesNext == LogIInv /\ [LogNext]_logVars => EntriesInv'
<1> SUFFICES ASSUME LogIInv, [LogNext]_logVars PROVE EntriesInv'
  OBVIOUS
<1>1. CASE UNCHANGED logVars
  BY <1>1, NothingMoves
<1>2. ASSUME NEW t \in Emitter, NEW level \in Level, NEW text \in Text, EmitTryLock(t, level, text)
      PROVE  EntriesInv'
  <2>1. CASE pc' # pc
    BY <1>2, <2>1, TryLockInv
  <2>2. CASE UNCHANGED logVars
    BY <2>2, NothingMoves
  <2>3. UNCHANGED logVars \/ pc' # pc
    <3>1. CASE LOG_MTX
      BY <1>2, <3>1 DEF EmitTryLock
    <3>2. CASE ~LOG_MTX
      <4>1. pc[t] = "away" /\ pc' = [pc EXCEPT ![t] = "emit"] /\ t \in DOMAIN pc
        BY <1>2, <3>2, EmitterFacts, Tasks DEF EmitTryLock, Step
      <4>2. pc'[t] = "emit"
        BY <4>1
      <4>3. QED
        BY <4>1, <4>2
    <3>3. QED
      BY <3>1, <3>2
  <2>4. QED
    BY <2>1, <2>2, <2>3
<1>3. ASSUME NEW t \in Emitter, EmitGoesOn(t)
      PROVE  EntriesInv'
  <2>1. ASSUME NEW e, e = entry[t], PushPublish(t) PROVE EntriesInv'
    BY <2>1, PublishInv
  <2>2. QED
    BY <1>3, <2>1, FormatInv, PlaceInv, EvictInv, WriteInv, UnlockInv DEF EmitGoesOn
<1>4. CASE PopGoesOn
  BY <1>4, PopTryLockInv, PopReadInv, PopAdvanceInv, PopUnlockInv, PackWholeInv, PackPartInv,
     PackRestInv, RoundInv DEF PopGoesOn
<1>5. CASE Resume
  BY <1>5, RoundInv
<1>6. CASE Halted
  BY <1>6, NothingMoves DEF Halted
<1>7. QED
  BY <1>1, <1>2, <1>3, <1>4, <1>5, <1>6 DEF LogNext

\* Every step of emit, ring_push, ring_pop and log_task keeps the ring a
\* sequence of whole entries, and what each of them has in hand true to it.
THEOREM EntriesKept == LogSpec => []LogIInv
<1>1. LogInit => EntriesInv
  BY EntriesInit
<1>2. FlagIInv /\ EntriesInv /\ [LogNext]_logVars => EntriesInv'
  BY EntriesNext DEF LogIInv
<1>3. FlagIInv /\ EntriesInv <=> LogIInv
  BY DEF LogIInv
<1>4. QED
  BY <1>1, <1>2, <1>3, FlagExcludes, PTL DEF LogSpec

\* The types, the packet that never outgrows PKT, and every index inside the ring.
THEOREM LogTypes == LogSpec => []LogTypeOK
<1>1. LogIInv => LogTypeOK
  BY DEF LogIInv, EntriesInv
<1>2. QED
  BY <1>1, EntriesKept, PTL

\* ring_pop and the eviction of ring_push never start in the middle of an entry.
THEOREM EntriesWhole == LogSpec => []WholeEntries
<1>1. LogIInv => WholeEntries
  BY PopperFacts, RingAlone
<1>2. QED
  BY <1>1, EntriesKept, PTL

-----------------------------------------------------------------------------
(* What a critical entry can be lost by *)

LEMMA RingAloneNext ==
  ASSUME LogTypeOK', NEW es, RingIs(es)'
  PROVE  Stored' = es /\ WholeEntries' /\ es \in Seq(Entries)
BY ReadRingNext DEF RingReads, RingIs, Laid

CriticalOf(es) == {e \in Range(es) : Head(e) \in Critical}

LEMMA CriticalDropped ==
  ASSUME NEW es \in Seq(Entries), NEW k \in 0 .. Len(es),
         \A i \in 1 .. k : Head(es[i]) \notin Critical
  PROVE  CriticalOf(es) \subseteq CriticalOf(SubSeq(es, k + 1, Len(es)))
<1> DEFINE new == SubSeq(es, k + 1, Len(es))
<1>1. /\ Len(es) \in Nat /\ new \in Seq(Entries) /\ Len(new) = Len(es) - k
      /\ \A i \in 1 .. Len(es) - k : new[i] = es[k + i]
  OBVIOUS
<1> HIDE DEF new
<1>2. DOMAIN new = 1 .. Len(new) /\ DOMAIN es = 1 .. Len(es)
  BY <1>1
<1>3. ASSUME NEW i \in 1 .. Len(es), Head(es[i]) \in Critical
      PROVE  es[i] \in Range(new)
  <2>1. ~(i =< k)
    BY <1>3
  <2>2. i - k \in 1 .. Len(new) /\ k + (i - k) = i
    BY <1>1, <2>1
  <2>3. new[i - k] = es[i]
    BY <1>1, <2>2
  <2>4. QED
    BY <1>2, <2>2, <2>3 DEF Range
<1>4. QED
  BY <1>2, <1>3 DEF CriticalOf, Range, new

LEMMA CriticalStays ==
  ASSUME LogIInv, LogIInv', [LogNext]_logVars, ~Pops, ~(CriticalIn \subseteq CriticalIn')
  PROVE  LOG_TAIL' # LOG_TAIL /\ LOG_TAIL' = LOG_HEAD'
<1>1. PICK es : RingIs(es)
  BY PopperFacts
<1>2. es \in Seq(Entries) /\ CriticalIn = CriticalOf(es)
  BY <1>1, PopperFacts, RingAlone DEF CriticalIn, CriticalOf
<1>3. LogTypeOK'
  BY DEF LogIInv, EntriesInv
<1>4. \A fs : RingIs(fs)' => CriticalIn' = CriticalOf(fs)
  BY <1>3, RingAloneNext DEF CriticalIn, CriticalOf
<1>5. ~Keeps
  BY <1>1, <1>2, <1>4 DEF Keeps
<1>6. ~Evicts
  <2>1. SUFFICES ASSUME Evicts PROVE FALSE
    OBVIOUS
  <2>2. PICK k \in 0 .. Len(es) : /\ RingIs(SubSeq(es, k + 1, Len(es)))'
                                  /\ \A i \in 1 .. k : Head(es[i]) \notin Critical
    BY <1>1, <2>1 DEF Evicts
  <2>3. CriticalOf(es) \subseteq CriticalOf(SubSeq(es, k + 1, Len(es)))
    BY <1>2, <2>2, CriticalDropped
  <2>4. QED
    BY <1>2, <1>4, <2>2, <2>3
<1>7. ASSUME NEW t \in Emitter, NEW level \in Level, NEW text \in Text, EmitTryLock(t, level, text)
      PROVE  FALSE
  <2>1. UNCHANGED ring
    BY <1>7 DEF EmitTryLock, logVars
  <2>2. QED
    BY <1>5, <2>1, KeepsRing
<1>8. ASSUME NEW t \in Emitter, EmitGoesOn(t)
      PROVE  LOG_TAIL' # LOG_TAIL /\ LOG_TAIL' = LOG_HEAD'
  <2>1. PushPublish(t)
    BY <1>5, <1>6, <1>8, FormatInv, PlaceInv, EvictInv, WriteInv, UnlockInv DEF EmitGoesOn
  <2>2. PICK e : e = entry[t]
    OBVIOUS
  <2>3. Grew(e) /\ e \in Entries
    BY <2>1, <2>2, PublishInv
  <2>4. LOG_TAIL' # LOG_TAIL /\ (RingIs(Append(es, e))' \/ (RingIs(<<>>)' /\ LOG_TAIL' = LOG_HEAD'))
    BY <1>1, <2>3 DEF Grew
  <2>5. ~RingIs(Append(es, e))'
    <3>1. SUFFICES ASSUME RingIs(Append(es, e))' PROVE FALSE
      OBVIOUS
    <3>2. PICK new : new = Append(es, e)
      OBVIOUS
    <3>3. /\ new \in Seq(Entries) /\ Len(new) = Len(es) + 1 /\ Len(es) \in Nat
          /\ \A i \in 1 .. Len(es) : new[i] = es[i]
      BY <1>2, <2>3, <3>2, AppendProperties
    <3>4. DOMAIN new = 1 .. Len(new) /\ DOMAIN es = 1 .. Len(es)
      BY <1>2, <3>3
    <3>5. CriticalOf(es) \subseteq CriticalOf(new)
      BY <3>3, <3>4 DEF CriticalOf, Range
    <3>6. RingIs(new)'
      BY <3>1, <3>2
    <3>7. QED
      BY <1>2, <1>4, <3>5, <3>6
  <2>6. QED
    BY <2>4, <2>5
<1>9. ASSUME PopGoesOn \/ Resume \/ Halted \/ UNCHANGED logVars
      PROVE  FALSE
  <2>1. PopAdvance
    BY <1>5, <1>9, PopTryLockInv, PopReadInv, PopUnlockInv, PackWholeInv, PackPartInv,
       PackRestInv, RoundInv, NothingMoves DEF PopGoesOn, Halted
  <2>2. pc[Popper] = "advance" /\ pc'[Popper] = "unlock"
    BY <2>1, PopAdvanceInv DEF PopAdvance, Step
  <2>3. QED
    BY <2>2 DEF Pops
<1>10. QED
  BY <1>7, <1>8, <1>9 DEF LogNext

\* A Warn or Error entry leaves the ring through ring_pop, or all entries go at
\* once because a new one fits exactly and moves the tail onto the head.
THEOREM CriticalLeavesPrinted == LogSpec => CriticalLostByExactFit
<1>1. LogIInv /\ LogIInv' /\ [LogNext]_logVars =>
        [~Pops /\ ~(CriticalIn \subseteq CriticalIn')
           => LOG_TAIL' # LOG_TAIL /\ LOG_TAIL' = LOG_HEAD']_logVars
  BY CriticalStays
<1>2. QED
  BY <1>1, EntriesKept, PTL DEF LogSpec, CriticalLostByExactFit

-----------------------------------------------------------------------------
(* The log implements what its reader is promised *)

\* The entry that log_task has taken out and not yet packed.
Hand ==
  CASE pc[Popper] = "pack" -> <<tmp>>
    [] pc[Popper] = "unlock" /\ tmp # <<>> -> <<Tail(tmp)>>
    [] OTHER -> <<>>

\* The same, case by case, for the state before a step and the one after it.
HandIsNow ==
  /\ pc[Popper] = "pack" => Hand = <<tmp>>
  /\ pc[Popper] = "unlock" /\ tmp # <<>> => Hand = <<Tail(tmp)>>
  /\ pc[Popper] = "unlock" /\ tmp = <<>> => Hand = <<>>
  /\ pc[Popper] \notin {"pack", "unlock"} => Hand = <<>>

QueueIs == \A es : LogIInv /\ RingIs(es) => Hand \in Seq(Entries) /\ Queue = Hand \o es

LEMMA QueueRead == QueueIs
<1> SUFFICES ASSUME LogIInv, NEW es, RingIs(es)
             PROVE  Hand \in Seq(Entries) /\ Queue = Hand \o es
  BY DEF QueueIs
<1>1. WholeEntries /\ Stored = es /\ es \in Seq(Entries)
  BY PopperFacts, RingAlone
<1>2. CASE pc[Popper] = "pack"
  <2>1. tmp \in Entries
    BY <1>2, PackFacts
  <2>2. Hand = <<tmp>> /\ Queue = <<tmp>> \o es
    BY <1>1, <1>2 DEF Hand, Queue
  <2>3. QED
    BY <2>1, <2>2
<1>3. CASE pc[Popper] = "unlock" /\ tmp # <<>>
  <2>1. PICK e \in Entries : tmp = <<Len(e)>> \o e
    BY <1>3, PopperFacts DEF PopperInv
  <2>2. Tail(tmp) = e
    <3>1. e \in Seq(Nat) /\ Len(e) \in Nat
      BY EntryLen
    <3>2. QED
      BY <2>1, <3>1
  <2>3. Hand = <<Tail(tmp)>> /\ Queue = <<Tail(tmp)>> \o es
    BY <1>1, <1>3 DEF Hand, Queue
  <2>4. Hand = <<e>> /\ Queue = <<e>> \o es
    BY <2>2, <2>3
  <2>5. QED
    BY <2>4
<1>4. CASE pc[Popper] # "pack" /\ ~(pc[Popper] = "unlock" /\ tmp # <<>>)
  <2>1. Hand = <<>> /\ Queue = es
    BY <1>1, <1>4 DEF Hand, Queue
  <2>2. <<>> \o es = es /\ <<>> \in Seq(Entries)
    BY <1>1
  <2>3. QED
    BY <2>1, <2>2
<1>5. QED
  BY <1>2, <1>3, <1>4

LEMMA QueueReadNext == QueueIs'
BY QueueRead, PTL

LEMMA HandRead == HandIsNow
BY DEF HandIsNow, Hand

LEMMA HandReadNext == HandIsNow'
BY HandRead, PTL

LEMMA SameLines ==
  ASSUME NEW r \in Seq(Entries), NEW s \in Seq(Entries), Len(r) = Len(s),
         \A i \in 1 .. Len(s) : r[i] = s[i]
  PROVE  r = s
OBVIOUS

\* A queue whose middle got lost.
LEMMA Thins ==
  ASSUME NEW a \in Seq(Entries), NEW b \in Seq(Entries), NEW k \in 0 .. Len(b)
  PROVE  a \o SubSeq(b, k + 1, Len(b)) \in Reader!Thinned(a \o b)
<1> DEFINE q == a \o b
           m == Len(a)
           n == Len(b)
<1>1. m \in Nat /\ n \in Nat /\ k \in 0 .. n
  OBVIOUS
<1>2. /\ q \in Seq(Entries) /\ Len(q) = m + n
      /\ \A i \in 1 .. m + n : q[i] = IF i =< m THEN a[i] ELSE b[i - m]
  BY ConcatProperties
<1>3. m \in 0 .. Len(q) /\ m + k + 1 \in 1 .. Len(q) + 1 /\ m < m + k + 1
  <2> HIDE DEF q, m, n
  <2> QED
    BY <1>1, <1>2
<1>4. SubSeq(q, 1, m) = a
  <2> DEFINE p == SubSeq(q, 1, m)
  <2>1. p \in Seq(Entries) /\ Len(p) = m /\ \A i \in 1 .. m : p[i] = q[i]
    <3> HIDE DEF q, m
    <3> QED
      BY <1>2, <1>3
  <2>2. \A i \in 1 .. m : p[i] = a[i]
    <3> HIDE DEF q, p, m
    <3> QED
      BY <1>1, <1>2, <2>1
  <2> HIDE DEF p
  <2>3. p = a
    BY <2>1, <2>2
  <2>4. QED
    BY <2>3 DEF p
<1>5. SubSeq(q, m + k + 1, Len(q)) = SubSeq(b, k + 1, Len(b))
  <2> DEFINE p == SubSeq(q, m + k + 1, m + n)
             r == SubSeq(b, k + 1, n)
  <2>1. p \in Seq(Entries) /\ Len(p) = n - k /\ \A i \in 1 .. n - k : p[i] = q[m + k + i]
    <3> HIDE DEF q, m, n
    <3>1. \A i \in m + k + 1 .. m + n : q[i] \in Entries
      BY <1>1, <1>2
    <3>2. /\ p \in Seq(Entries)
          /\ Len(p) = IF m + k + 1 =< m + n THEN (m + n) - (m + k + 1) + 1 ELSE 0
          /\ \A i \in 1 .. (m + n) - (m + k + 1) + 1 : p[i] = q[(m + k + 1) + i - 1]
      BY <1>1, <3>1, SubSeqProperties
    <3> HIDE DEF p
    <3>3. Len(p) = n - k /\ (m + n) - (m + k + 1) + 1 = n - k
      BY <1>1, <3>2
    <3>4. \A i \in 1 .. n - k : (m + k + 1) + i - 1 = m + k + i
      BY <1>1
    <3>5. QED
      BY <3>2, <3>3, <3>4
  <2>2. r \in Seq(Entries) /\ Len(r) = n - k /\ \A i \in 1 .. n - k : r[i] = b[k + i]
    BY <1>1
  <2>3. \A i \in 1 .. n - k : q[m + k + i] = b[k + i]
    <3> HIDE DEF q, m, n
    <3>1. ASSUME NEW i \in 1 .. n - k PROVE q[m + k + i] = b[k + i]
      <4>1. m + k + i \in 1 .. m + n /\ ~(m + k + i =< m) /\ (m + k + i) - m = k + i
        BY <1>1
      <4>2. QED
        BY <1>2, <4>1
    <3>2. QED
      BY <3>1
  <2> HIDE DEF p, r, q, m, n
  <2>4. p = r
    <3>1. PICK l : l = n - k
      OBVIOUS
    <3>2. /\ p \in Seq(Entries) /\ Len(p) = l /\ \A i \in 1 .. l : p[i] = b[k + i]
          /\ r \in Seq(Entries) /\ Len(r) = l /\ \A i \in 1 .. l : r[i] = b[k + i]
      BY <2>1, <2>2, <2>3, <3>1
    <3>3. Len(p) = Len(r) /\ \A i \in 1 .. Len(r) : p[i] = r[i]
      BY <3>2
    <3>4. QED
      BY <3>2, <3>3, SameLines
  <2>5. QED
    BY <1>2, <2>4 DEF p, r, n
<1> HIDE DEF q, m, n
<1>6. PICK x \in (0 .. Len(q)) \X (1 .. Len(q) + 1) : x[1] = m /\ x[2] = m + k + 1
  <2>1. <<m, m + k + 1>> \in (0 .. Len(q)) \X (1 .. Len(q) + 1)
    BY <1>3
  <2>2. QED
    BY <2>1
<1>7. x \in {s \in (0 .. Len(q)) \X (1 .. Len(q) + 1) : s[1] < s[2]}
  BY <1>3, <1>6
<1>8. SubSeq(q, 1, x[1]) \o SubSeq(q, x[2], Len(q)) = a \o SubSeq(b, k + 1, Len(b))
  BY <1>4, <1>5, <1>6
<1>9. a \o SubSeq(b, k + 1, Len(b)) \in Reader!Thinned(q)
  BY <1>7, <1>8 DEF Reader!Thinned
<1>10. QED
  BY <1>9 DEF q

LEMMA ThinsNothing ==
  ASSUME NEW a \in Seq(Entries)
  PROVE  a \in Reader!Thinned(a)
<1>1. <<>> \in Seq(Entries) /\ a \o <<>> = a /\ 0 \in 0 .. Len(a)
  OBVIOUS
<1>2. <<>> \o SubSeq(a, 0 + 1, Len(a)) \in Reader!Thinned(<<>> \o a)
  BY <1>1, Thins
<1>3. <<>> \o SubSeq(a, 0 + 1, Len(a)) = a /\ <<>> \o a = a
  OBVIOUS
<1>4. QED
  BY <1>2, <1>3

\* Who has the flag and has neither stored nor dropped its entry.
Busy == {t \in Emitter : pc[t] \in {"emit", "place", "write", "publish"}}

BusyCount == /\ Busy = {} => Returned = calls - 0
             /\ \A t : Busy = {t} => Returned = calls - 1

LEMMA BusyCountNow == BusyCount
<1>1. Returned = calls - Cardinality(Busy)
  BY DEF Returned, Busy
<1>2. Cardinality({}) = 0 /\ \A t : Cardinality({t}) = 1
  BY FS_EmptySet, FS_Singleton
<1>3. QED
  BY <1>1, <1>2 DEF BusyCount

LEMMA BusyCountNext == BusyCount'
BY BusyCountNow, PTL

\* An emitter that moves is the only one that may be busy, before and after.
LEMMA BusyAlone ==
  ASSUME LogIInv, NEW t \in Emitter, NEW label, pc' = [pc EXCEPT ![t] = label],
         Inside(pc[t]) \/ ~LOG_MTX
  PROVE  /\ pc'[Popper] = pc[Popper]
         /\ Busy = IF pc[t] \in {"emit", "place", "write", "publish"} THEN {t} ELSE {}
         /\ Busy' = IF label \in {"emit", "place", "write", "publish"} THEN {t} ELSE {}
<1>1. t \in Task /\ t # Popper /\ \A u \in Task : u # t => ~Inside(pc[u])
  BY Tasks, OthersOut DEF LogIInv
<1>2. pc'[t] = label /\ \A u \in Task : u # t => pc'[u] = pc[u]
  BY <1>1, EmitterFacts
<1>3. \A u \in Emitter : u # t => pc[u] \notin {"emit", "place", "write", "publish"} /\ pc'[u] = pc[u]
  BY <1>1, <1>2, Tasks DEF Inside
<1>4. QED
  BY <1>1, <1>2, <1>3, Tasks DEF Busy

BusyLabel == {"emit", "place", "write", "publish"}

\* What a step of an emitter does to what the reader sees.
LEMMA EmitterView ==
  ASSUME LogIInv, NEW t \in Emitter, NEW label, pc' = [pc EXCEPT ![t] = label],
         Inside(pc[t]) \/ ~LOG_MTX, UNCHANGED packing
  PROVE  Hand' = Hand /\ Console' = Console
<1>1. pc'[Popper] = pc[Popper]
  BY BusyAlone
<1>2. tmp' = tmp /\ pkt' = pkt /\ uart' = uart
  BY DEF packing
<1>3. Hand' = Hand
  BY <1>1, <1>2 DEF Hand
<1>4. Console' = Console
  BY <1>1, <1>2 DEF Console
<1>5. QED
  BY <1>3, <1>4

LEMMA CallGoesOn ==
  ASSUME LogIInv, NEW t \in Emitter, NEW label, pc' = [pc EXCEPT ![t] = label],
         Inside(pc[t]) \/ ~LOG_MTX, pc[t] \in BusyLabel <=> label \in BusyLabel, calls' = calls
  PROVE  Returned' = Returned
<1>1. \/ Busy = {} /\ Busy' = {}
      \/ Busy = {t} /\ Busy' = {t}
  BY BusyAlone DEF BusyLabel
<1>2. QED
  BY <1>1, BusyCountNow, BusyCountNext DEF BusyCount

LEMMA CallEnds ==
  ASSUME LogIInv, NEW t \in Emitter, NEW label, pc' = [pc EXCEPT ![t] = label],
         Inside(pc[t]) \/ ~LOG_MTX, pc[t] \in BusyLabel, label \notin BusyLabel, calls' = calls
  PROVE  Returned' = Returned + 1 /\ Returned' = calls
<1>1. Busy = {t} /\ Busy' = {}
  BY BusyAlone DEF BusyLabel
<1>2. Returned = calls - 1 /\ Returned' = calls - 0
  BY <1>1, BusyCountNow, BusyCountNext DEF BusyCount
<1>3. calls \in Nat
  BY EmitterFacts, Sizes
<1>4. QED
  BY <1>2, <1>3

LEMMA QueueStays ==
  ASSUME LogIInv, LogIInv', Keeps, Hand' = Hand
  PROVE  Queue' = Queue /\ Queue \in Seq(Entries)
<1>1. PICK es : RingIs(es)
  BY PopperFacts
<1>2. RingIs(es)'
  BY <1>1 DEF Keeps
<1>3. Queue = Hand \o es /\ Queue' = Hand' \o es /\ Hand \in Seq(Entries)
  BY <1>1, <1>2, QueueRead, QueueReadNext DEF QueueIs
<1>4. es \in Seq(Entries)
  BY <1>1, PopperFacts, RingAlone
<1>5. QED
  BY <1>3, <1>4

LEMMA QueueThins ==
  ASSUME LogIInv, LogIInv', Evicts, Hand' = Hand
  PROVE  Queue' \in Reader!Thinned(Queue)
<1>1. PICK es : RingIs(es)
  BY PopperFacts
<1>2. PICK k \in 0 .. Len(es) : RingIs(SubSeq(es, k + 1, Len(es)))'
  BY <1>1 DEF Evicts
<1>3. PICK rest : rest = SubSeq(es, k + 1, Len(es))
  OBVIOUS
<1>4. Queue = Hand \o es /\ Hand \in Seq(Entries)
  BY <1>1, QueueRead DEF QueueIs
<1>5. Queue' = Hand' \o rest
  BY <1>2, <1>3, QueueReadNext DEF QueueIs
<1>6. es \in Seq(Entries)
  BY <1>1, PopperFacts, RingAlone
<1>7. Hand \o SubSeq(es, k + 1, Len(es)) \in Reader!Thinned(Hand \o es)
  BY <1>4, <1>6, Thins
<1>8. QED
  BY <1>3, <1>4, <1>5, <1>7

LEMMA Appends ==
  ASSUME NEW a \in Seq(Entries), NEW b \in Seq(Entries), NEW e \in Entries
  PROVE  a \o Append(b, e) = Append(a \o b, e)
OBVIOUS

LEMMA QueueGrows ==
  ASSUME LogIInv, LogIInv', NEW e \in Entries, Grew(e), Hand' = Hand
  PROVE  Queue' \in Reader!Thinned(Queue) \/ Queue' \in Reader!Thinned(Append(Queue, e))
<1>1. PICK es : RingIs(es)
  BY PopperFacts
<1>2. Queue = Hand \o es /\ Hand \in Seq(Entries)
  BY <1>1, QueueRead DEF QueueIs
<1>3. es \in Seq(Entries)
  BY <1>1, PopperFacts, RingAlone
<1>4. CASE RingIs(Append(es, e))'
  <2>1. Queue' = Hand' \o Append(es, e)
    BY <1>4, QueueReadNext DEF QueueIs
  <2>2. Hand \o Append(es, e) = Append(Hand \o es, e)
    <3>1. PICK h : h = Hand
      OBVIOUS
    <3>2. h \o Append(es, e) = Append(h \o es, e)
      BY <1>2, <1>3, <3>1, Appends
    <3>3. QED
      BY <3>1, <3>2
  <2>3. Append(Queue, e) \in Seq(Entries)
    BY <1>2, <1>3
  <2>4. Append(Queue, e) \in Reader!Thinned(Append(Queue, e))
    BY <2>3, ThinsNothing
  <2>5. Queue' = Append(Queue, e)
    BY <1>2, <2>1, <2>2
  <2>6. QED
    BY <2>4, <2>5
<1>5. CASE RingIs(<<>>)'
  <2>1. Queue' = Hand' \o <<>>
    BY <1>5, QueueReadNext DEF QueueIs
  <2>2. Len(es) \in 0 .. Len(es) /\ SubSeq(es, Len(es) + 1, Len(es)) = <<>>
    BY <1>3
  <2>3. Hand \o SubSeq(es, Len(es) + 1, Len(es)) \in Reader!Thinned(Hand \o es)
    BY <1>2, <1>3, <2>2, Thins
  <2>4. QED
    BY <1>2, <2>1, <2>2, <2>3
<1>6. QED
  BY <1>1, <1>4, <1>5 DEF Grew

ReaderStep == [Reader!Next]_<<Queue, Returned, Console>>

LEMMA ReaderStays ==
  ASSUME Queue' = Queue, Returned' = Returned, Console' = Console
  PROVE  ReaderStep
BY DEF ReaderStep

\* A call that ends without an entry of its own in the log, and with one.
LEMMA ReaderLogs ==
  ASSUME Returned' = Returned + 1, Console' = Console,
         \/ Queue' \in Reader!Thinned(Queue)
         \/ \E e \in EntryOf(Returned') : Queue' \in Reader!Thinned(Append(Queue, e))
  PROVE  ReaderStep
BY DEF ReaderStep, Reader!Next, Reader!Log

LEMMA CallsRefine ==
  ASSUME LogIInv, LogIInv', NEW t \in Emitter, NEW level \in Level, NEW text \in Text,
         EmitTryLock(t, level, text)
  PROVE  ReaderStep
<1>1. CASE pc' = pc
  <2>1. /\ UNCHANGED ring /\ UNCHANGED packing /\ calls' = calls
    <3>1. pc'[t] = "emit" => pc[t] # "away"
      BY <1>1
    <3>2. Step(t, "away", "emit") => pc[t] = "away" /\ pc'[t] = "emit"
      BY EmitterFacts, Tasks DEF Step
    <3>3. UNCHANGED logVars
      BY <1>1, <3>1, <3>2 DEF EmitTryLock
    <3>4. QED
      BY <3>3 DEF logVars
  <2>2. Hand' = Hand /\ Console' = Console /\ Returned' = Returned
    BY <1>1, <2>1 DEF Hand, Console, Returned, packing
  <2>3. Queue' = Queue
    BY <2>1, <2>2, KeepsRing, QueueStays
  <2>4. QED
    BY <2>2, <2>3, ReaderStays
<1>2. CASE pc' # pc
  <2>1. /\ ~LOG_MTX /\ pc[t] = "away" /\ pc' = [pc EXCEPT ![t] = "emit"]
        /\ calls' = calls + 1 /\ UNCHANGED packing
    BY <1>2 DEF EmitTryLock, Step, logVars
  <2>2. Keeps
    BY <1>2, TryLockInv
  <2>3. Hand' = Hand /\ Console' = Console
    BY <2>1, EmitterView
  <2>4. Queue' = Queue
    BY <2>2, <2>3, QueueStays
  <2>5. Busy = {} /\ Busy' = {t}
    BY <2>1, BusyAlone
  <2>6. Returned = calls - 0 /\ Returned' = calls' - 1
    BY <2>5, BusyCountNow, BusyCountNext DEF BusyCount
  <2>7. calls \in Nat
    BY EmitterFacts, Sizes
  <2>8. Returned' = Returned
    BY <2>1, <2>6, <2>7
  <2>9. QED
    BY <2>3, <2>4, <2>8, ReaderStays
<1>3. QED
  BY <1>1, <1>2

LEMMA EmitterRefines ==
  ASSUME LogIInv, LogIInv', NEW t \in Emitter, EmitGoesOn(t)
  PROVE  ReaderStep
<1>1. CASE EmitFormat(t)
  <2>1. PICK label \in {"place", "panic"} :
          pc[t] = "emit" /\ pc' = [pc EXCEPT ![t] = label] /\ UNCHANGED packing /\ calls' = calls
    BY <1>1 DEF EmitFormat, Step
  <2>2. Inside(pc[t]) /\ pc[t] \in BusyLabel
    BY <2>1 DEF Inside, BusyLabel
  <2>3. Hand' = Hand /\ Console' = Console
    BY <2>1, <2>2, EmitterView
  <2>4. Queue' = Queue /\ Queue \in Seq(Entries)
    BY <1>1, <2>3, FormatInv, QueueStays
  <2>5. CASE label = "place"
    <3>1. label \in BusyLabel
      BY <2>5 DEF BusyLabel
    <3>2. Returned' = Returned
      BY <2>1, <2>2, <3>1, CallGoesOn
    <3>3. QED
      BY <2>3, <2>4, <3>2, ReaderStays
  <2>6. CASE label = "panic"
    <3>1. label \notin BusyLabel
      BY <2>6 DEF BusyLabel
    <3>2. Returned' = Returned + 1
      BY <2>1, <2>2, <3>1, CallEnds
    <3>3. Queue' \in Reader!Thinned(Queue)
      BY <2>4, ThinsNothing
    <3>4. QED
      BY <2>3, <3>2, <3>3, ReaderLogs
  <2>7. QED
    BY <2>1, <2>5, <2>6
<1>2. CASE PushRoom(t) \/ PushWrite(t) \/ EmitUnlock(t)
  <2>1. PICK label \in {"write", "publish", "away"} :
          /\ pc' = [pc EXCEPT ![t] = label] /\ UNCHANGED packing /\ calls' = calls
          /\ \/ pc[t] = "place" /\ label = "write"
             \/ pc[t] = "write" /\ label = "publish"
             \/ pc[t] = "unlock" /\ label = "away"
    BY <1>2 DEF PushRoom, PushWrite, EmitUnlock, Step
  <2>2. Inside(pc[t]) /\ (pc[t] \in BusyLabel <=> label \in BusyLabel)
    BY <2>1 DEF Inside, BusyLabel
  <2>3. Hand' = Hand /\ Console' = Console
    BY <2>1, <2>2, EmitterView
  <2>4. Keeps
    BY <1>2, PlaceInv, WriteInv, UnlockInv
  <2>5. Queue' = Queue
    BY <2>3, <2>4, QueueStays
  <2>6. Returned' = Returned
    BY <2>1, <2>2, CallGoesOn
  <2>7. QED
    BY <2>3, <2>5, <2>6, ReaderStays
<1>3. CASE PushGiveUp(t)
  <2>1. /\ pc[t] = "place" /\ pc' = [pc EXCEPT ![t] = "unlock"]
        /\ UNCHANGED packing /\ calls' = calls
    BY <1>3 DEF PushGiveUp, Step
  <2>2. Inside(pc[t]) /\ pc[t] \in BusyLabel /\ "unlock" \notin BusyLabel
    BY <2>1 DEF Inside, BusyLabel
  <2>3. Hand' = Hand /\ Console' = Console
    BY <2>1, <2>2, EmitterView
  <2>4. Queue' = Queue /\ Queue \in Seq(Entries)
    BY <1>3, <2>3, PlaceInv, QueueStays
  <2>5. Returned' = Returned + 1
    BY <2>1, <2>2, CallEnds
  <2>6. Queue' \in Reader!Thinned(Queue)
    BY <2>4, ThinsNothing
  <2>7. QED
    BY <2>3, <2>5, <2>6, ReaderLogs
<1>4. CASE PushEvict(t)
  <2>1. /\ pc[t] = "place" /\ pc' = [pc EXCEPT ![t] = "write"]
        /\ UNCHANGED packing /\ calls' = calls
    BY <1>4 DEF PushEvict, Step
  <2>2. Inside(pc[t]) /\ pc[t] \in BusyLabel /\ "write" \in BusyLabel
    BY <2>1 DEF Inside, BusyLabel
  <2>3. Hand' = Hand /\ Console' = Console
    BY <2>1, <2>2, EmitterView
  <2>4. Queue' \in Reader!Thinned(Queue)
    BY <1>4, <2>3, EvictInv, QueueThins
  <2>5. Returned' = Returned
    BY <2>1, <2>2, CallGoesOn
  <2>6. QED
    BY <2>3, <2>4, <2>5 DEF ReaderStep, Reader!Next, Reader!Lose
<1>5. CASE PushPublish(t)
  <2>1. /\ pc[t] = "publish" /\ pc' = [pc EXCEPT ![t] = "unlock"]
        /\ UNCHANGED packing /\ calls' = calls
    BY <1>5 DEF PushPublish, Step
  <2>2. Inside(pc[t]) /\ pc[t] \in BusyLabel /\ "unlock" \notin BusyLabel
    BY <2>1 DEF Inside, BusyLabel
  <2>3. Hand' = Hand /\ Console' = Console
    BY <2>1, <2>2, EmitterView
  <2>4. PICK e : e = entry[t]
    OBVIOUS
  <2>5. Grew(e) /\ e \in Entries /\ e \in EntryOf(calls)
    BY <1>5, <2>4, PublishInv
  <2>6. Queue' \in Reader!Thinned(Queue) \/ Queue' \in Reader!Thinned(Append(Queue, e))
    BY <2>3, <2>5, QueueGrows
  <2>7. Returned' = Returned + 1 /\ Returned' = calls
    BY <2>1, <2>2, CallEnds
  <2>8. \/ Queue' \in Reader!Thinned(Queue)
        \/ \E x \in EntryOf(Returned') : Queue' \in Reader!Thinned(Append(Queue, x))
    BY <2>5, <2>6, <2>7
  <2>9. QED
    BY <2>3, <2>7, <2>8, ReaderLogs
<1>6. QED
  BY <1>1, <1>2, <1>3, <1>4, <1>5 DEF EmitGoesOn

LEMMA PopperReturned ==
  ASSUME LogIInv, PopGoesOn \/ Resume
  PROVE  Returned' = Returned
<1>1. PICK label : pc' = [pc EXCEPT ![Popper] = label]
  BY DEF PopGoesOn, PopTryLock, PopRead, PopAdvance, PopUnlock, PackWhole, PackPart, PackRest,
         RoundEnd, Resume, Step
<1>2. calls' = calls
  BY DEF PopGoesOn, PopTryLock, PopRead, PopAdvance, PopUnlock, PackWhole, PackPart, PackRest,
         RoundEnd, Resume
<1>3. \A t \in Emitter : pc'[t] = pc[t]
  BY <1>1, PopperFacts, Tasks
<1>4. QED
  BY <1>2, <1>3 DEF Returned

\* The console, while nothing is packed.
LEMMA ConsoleStays ==
  ASSUME uart' = uart, pkt' = pkt, pc[Popper] \notin {"sending_part", "rest"},
         pc'[Popper] \notin {"sending_part", "rest"}
  PROVE  Console' = Console
BY DEF Console

LEMMA PopsRefine ==
  ASSUME LogIInv, LogIInv', PopTryLock \/ PopRead \/ PopAdvance \/ PopUnlock
  PROVE  ReaderStep
<1>1. Returned' = Returned
  BY PopperReturned DEF PopGoesOn
<1>2. CASE PopTryLock
  <2>1. PICK label \in {"round_end", "pop"} :
          pc[Popper] = "trylock" /\ pc' = [pc EXCEPT ![Popper] = label] /\ UNCHANGED packing
    BY <1>2 DEF PopTryLock, Step
  <2>2. pc'[Popper] = label
    BY <2>1, PopMoves
  <2>3. Hand' = Hand
    BY <2>1, <2>2, HandRead, HandReadNext DEF HandIsNow
  <2>4. Console' = Console
    BY <2>1, <2>2, ConsoleStays DEF packing
  <2>5. QED
    BY <1>1, <1>2, <2>3, <2>4, PopTryLockInv, QueueStays, ReaderStays
<1>3. CASE PopRead
  <2>1. PICK label \in {"unlock", "advance"} :
          pc[Popper] = "pop" /\ pc' = [pc EXCEPT ![Popper] = label] /\ pkt' = pkt /\ uart' = uart
    BY <1>3 DEF PopRead, Step
  <2>2. pc'[Popper] = label
    BY <2>1, PopMoves
  <2>3. Keeps /\ (label = "unlock" => tmp' = <<>>)
    BY <1>3, <2>2, PopReadInv
  <2>4. Hand' = Hand
    BY <2>1, <2>2, <2>3, HandRead, HandReadNext DEF HandIsNow
  <2>5. Console' = Console
    BY <2>1, <2>2, ConsoleStays
  <2>6. QED
    BY <1>1, <2>3, <2>4, <2>5, QueueStays, ReaderStays
<1>4. CASE PopAdvance
  <2>1. pc[Popper] = "advance" /\ pkt' = pkt /\ uart' = uart
    BY <1>4 DEF PopAdvance, Step, packing
  <2>2. Pops1 /\ tmp' = tmp /\ pc'[Popper] = "unlock"
    BY <1>4, PopAdvanceInv
  <2>3. PICK es : RingIs(es)
    BY PopperFacts
  <2>4. PICK e \in Entries : e = es[1]
    BY <2>2, <2>3 DEF Pops1
  <2>5. es # <<>> /\ tmp = <<Len(e)>> \o e /\ RingIs(Tail(es))'
    BY <2>2, <2>3, <2>4 DEF Pops1
  <2>6. tmp # <<>> /\ Tail(tmp) = e
    <3>1. e \in Seq(Nat) /\ Len(e) \in Nat
      BY EntryLen
    <3>2. QED
      BY <2>5, <3>1
  <2>7. Hand' = <<e>> /\ Hand = <<>>
    <3>1. tmp' # <<>> /\ Tail(tmp') = e
      BY <2>2, <2>6
    <3>2. Hand' = <<Tail(tmp')>>
      BY <2>2, <3>1, HandReadNext DEF HandIsNow
    <3>3. Hand = <<>>
      BY <2>1, HandRead DEF HandIsNow
    <3>4. QED
      BY <3>1, <3>2, <3>3
  <2>8. PICK rest : rest = Tail(es)
    OBVIOUS
  <2>9. Queue = <<>> \o es /\ Queue' = <<e>> \o rest
    <3>1. Queue = Hand \o es
      BY <2>3, QueueRead DEF QueueIs
    <3>2. Queue' = Hand' \o rest
      BY <2>5, <2>8, QueueReadNext DEF QueueIs
    <3>3. QED
      BY <2>7, <3>1, <3>2
  <2>10. es \in Seq(Entries)
    BY <2>3, PopperFacts, RingAlone
  <2>11. <<>> \o es = <<e>> \o Tail(es)
    BY <2>4, <2>5, <2>10
  <2>12. Console' = Console
    BY <2>1, <2>2, ConsoleStays
  <2>13. QED
    BY <1>1, <2>8, <2>9, <2>11, <2>12, ReaderStays
<1>5. CASE PopUnlock
  <2>1. pkt' = pkt /\ uart' = uart
    BY <1>5 DEF PopUnlock
  <2>2. /\ Keeps /\ pc[Popper] = "unlock"
        /\ \/ tmp = <<>> /\ tmp' = <<>> /\ pc'[Popper] = "round_end"
           \/ tmp # <<>> /\ tmp' = Tail(tmp) /\ tmp' \in Entries /\ pc'[Popper] = "pack"
    BY <1>5, PopUnlockInv
  <2>3. Hand' = Hand
    BY <2>2, HandRead, HandReadNext DEF HandIsNow
  <2>4. Console' = Console
    BY <2>1, <2>2, ConsoleStays
  <2>5. QED
    BY <1>1, <2>2, <2>3, <2>4, QueueStays, ReaderStays
<1>6. QED
  BY <1>2, <1>3, <1>4, <1>5

LEMMA PacksRefine ==
  ASSUME LogIInv, LogIInv', PackWhole \/ PackPart
  PROVE  ReaderStep
<1>1. Returned' = Returned
  BY PopperReturned DEF PopGoesOn
<1>2. /\ Keeps /\ pc[Popper] = "pack" /\ tmp \in Entries
      /\ pc'[Popper] \notin {"pack", "unlock"} /\ Console' = Console \o Crlf(tmp)
  BY PackWholeInv, PackPartInv
<1>3. PICK es : RingIs(es)
  BY PopperFacts
<1>4. RingIs(es)' /\ es \in Seq(Entries)
  BY <1>2, <1>3, PopperFacts, RingAlone DEF Keeps
<1>5. Hand = <<tmp>> /\ Hand' = <<>>
  BY <1>2, HandRead, HandReadNext DEF HandIsNow
<1>6. Queue = <<tmp>> \o es /\ Queue' = <<>> \o es
  BY <1>3, <1>4, <1>5, QueueRead, QueueReadNext DEF QueueIs
<1>7. PICK e \in Entries : e = tmp
  BY <1>2
<1>8. <<e>> \o es # <<>> /\ Head(<<e>> \o es) = e /\ Tail(<<e>> \o es) = <<>> \o es
  BY <1>4
<1>9. Queue # <<>> /\ Head(Queue) = tmp /\ Queue' = Tail(Queue)
  BY <1>6, <1>7, <1>8
<1>10. QED
  BY <1>1, <1>2, <1>9 DEF ReaderStep, Reader!Next, Reader!Deliver

LEMMA RoundRefines ==
  ASSUME LogIInv, LogIInv', PackRest \/ RoundEnd \/ Resume
  PROVE  ReaderStep
<1>1. Returned' = Returned
  BY PopperReturned DEF PopGoesOn
<1>2. /\ Keeps /\ Console' = Console
      /\ pc[Popper] \notin {"pack", "unlock"} /\ pc'[Popper] \notin {"pack", "unlock"}
  BY PackRestInv, RoundInv
<1>3. Hand = <<>> /\ Hand' = <<>>
  BY <1>2, HandRead, HandReadNext DEF HandIsNow
<1>4. QED
  BY <1>1, <1>2, <1>3, QueueStays, ReaderStays

LEMMA ReaderIdles ==
  ASSUME LogIInv, LogIInv', UNCHANGED logVars
  PROVE  ReaderStep
<1>1. pc' = pc /\ tmp' = tmp /\ pkt' = pkt /\ uart' = uart /\ calls' = calls /\ UNCHANGED ring
  BY DEF logVars, packing
<1>2. Hand' = Hand /\ Console' = Console /\ Returned' = Returned
  BY <1>1 DEF Hand, Console, Returned
<1>3. QED
  BY <1>1, <1>2, KeepsRing, QueueStays, ReaderStays

LEMMA EveryStepReads ==
  ASSUME LogIInv, LogIInv', [LogNext]_logVars
  PROVE  ReaderStep
<1>1. CASE \E t \in Emitter : \E level \in Level, text \in Text : EmitTryLock(t, level, text)
  BY <1>1, CallsRefine
<1>2. CASE \E t \in Emitter : EmitGoesOn(t)
  BY <1>2, EmitterRefines
<1>3. CASE PopGoesOn
  BY <1>3, PopsRefine, PacksRefine, RoundRefines DEF PopGoesOn
<1>4. CASE Resume
  BY <1>4, RoundRefines
<1>5. CASE UNCHANGED logVars
  BY <1>5, ReaderIdles
<1>6. QED
  BY <1>1, <1>2, <1>3, <1>4, <1>5 DEF LogNext, Halted

LEMMA ReaderBegins == LogInit => Reader!Init
<1> SUFFICES ASSUME LogInit PROVE Reader!Init
  OBVIOUS
<1>1. LogIInv
  BY EntriesInit, FlagBegins DEF LogIInv
<1>2. pc[Popper] = "trylock" /\ \A t \in Emitter : pc[t] = "away"
  BY Tasks DEF LogInit
<1>3. uart = <<>> /\ pkt = <<>> /\ calls = 0
  BY DEF LogInit
<1>4. Console = <<>>
  BY <1>2, <1>3 DEF Console
<1>5. Returned = 0
  <2>1. Busy = {}
    BY <1>2 DEF Busy
  <2>2. QED
    BY <1>3, <2>1, BusyCountNow DEF BusyCount
<1>6. Queue = <<>>
  <2>1. PICK es : RingIs(es) /\ es = <<>>
    BY RingBegins
  <2>2. Hand = <<>>
    BY <1>2, HandRead DEF HandIsNow
  <2>3. Queue = Hand \o es
    BY <1>1, <2>1, QueueRead DEF QueueIs
  <2>4. QED
    BY <2>1, <2>2, <2>3
<1>7. QED
  BY <1>4, <1>5, <1>6 DEF Reader!Init

\* Every step of the log is a call that stores or drops its entry, a loss of
\* entries in a row, a delivery of the oldest line, whole, or none of these.
THEOREM LinesKept == LogSpec => LinesWholeAndInOrder
<1>1. LogInit => Reader!Init
  BY ReaderBegins
<1>2. LogIInv /\ LogIInv' /\ [LogNext]_logVars => [Reader!Next]_<<Queue, Returned, Console>>
  BY EveryStepReads DEF ReaderStep
<1>3. LogSpec => []LogIInv
  BY EntriesKept
<1>4. QED
  BY <1>1, <1>2, <1>3, PTL DEF LogSpec, LinesWholeAndInOrder, Reader!Spec
=============================================================================
