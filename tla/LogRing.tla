------------------------------ MODULE LogRing -------------------------------
(***************************************************************************)
(* The log of the application (src/src/log.rs).  Any task logs through     *)
(* emit, which puts an entry into a ring of bytes or drops it but never    *)
(* waits; log_task, the task of the lowest priority, takes the entries out *)
(* and writes them to uart0 in packets.  One processor, fixed priorities:  *)
(* a task takes its steps only when no task above it can run.  What keeps  *)
(* the ring consistent is a flag that everyone only tries to take.         *)
(***************************************************************************)
EXTENDS Integers, Sequences, FiniteSets, SequencesExt

CONSTANTS LOG_RING_SIZE, \* bytes of the ring (2048 in the code)
          BUF,           \* bytes of the buffer of emit (180)
          HEADER,        \* bytes that emit puts before the text
          PKT,           \* bytes of the packet of log_task (512)
          TMP,           \* bytes of its buffer for one entry (256)
          Text,          \* the lengths of the texts that are logged
          MaxCalls       \* bound on the calls of emit that get the flag

ASSUME LogAssumption ==
  /\ HEADER \in Nat /\ BUF \in Nat /\ HEADER < BUF
  /\ LOG_RING_SIZE \in Nat /\ BUF + 2 < LOG_RING_SIZE
  /\ TMP \in Nat /\ BUF + 2 =< TMP
  /\ PKT \in Nat /\ BUF + 2 =< PKT
  /\ Text \subseteq Nat
  /\ MaxCalls \in Nat

VARIABLES
  LOG_RING, LOG_HEAD, LOG_TAIL,
  LOG_MTX,    \* TRUE while somebody has the flag
  pc,         \* where each task is
  entry,      \* what each emitter logs: level and text, then level and line
  at,         \* the index that a task has read: the tail, or log_task the head
  tmp,        \* what log_task has still to pack of the entry it took
  pkt,        \* its packet
  flushed,    \* has it written a packet since it last began a round?
  calls,      \* calls of emit that have got the flag, the bound MaxCalls
  uart        \* history: the bytes written to uart0

ring    == <<LOG_RING, LOG_HEAD, LOG_TAIL>>
packing == <<tmp, pkt, flushed, uart>>
logVars == <<ring, LOG_MTX, pc, entry, at, packing, calls>>

-----------------------------------------------------------------------------
(* Tasks *)

Emitter == {"control", "uplink"}
Task    == Emitter \cup {"log_task"}
Prio    == [control |-> 4, uplink |-> 10, log_task |-> 28]

Waiting == {"away", "asleep", "sending", "sending_part"}

\* A panic ends in the fault handler of the kernel: no task goes on.
Faulted == \E t \in Emitter : pc[t] = "panic"

OnTop(t) ==
  /\ ~Faulted
  /\ \A u \in Task : pc[u] \notin Waiting => Prio[t] =< Prio[u]

Step(t, from, to) ==
  /\ OnTop(t)
  /\ pc[t] = from
  /\ pc' = [pc EXCEPT ![t] = to]

-----------------------------------------------------------------------------
(* Bytes *)

NL == 10
CR == 13
Level    == {73, 87}   \* 'I' and 'W' of Level::letter
Critical == {87}       \* Level::critical

AtMost(a, b) == IF a =< b THEN a ELSE b

\* The line that a call makes of a text: header, what fits of the text, newline.
Fitted(text)   == AtMost(text, BUF - HEADER)
Bytes(n, text) == [i \in 1 .. HEADER + Fitted(text) |-> 100 + n] \o <<NL>>

\* In a packet a newline is two bytes.
Crlf(s) == FlattenSeq([i \in 1 .. Len(s) |-> IF s[i] = NL THEN <<CR, NL>> ELSE <<s[i]>>])

\* How much of s fits into a packet that already holds p.
Fitting(p, s) ==
  CHOOSE k \in 0 .. Len(s) :
    /\ Len(p) + Len(Crlf(SubSeq(s, 1, k))) =< PKT
    /\ k = Len(s) \/ Len(p) + Len(Crlf(SubSeq(s, 1, k + 1))) > PKT

-----------------------------------------------------------------------------
(* The ring: entries of a length, a level and a line, from head to tail.   *)

Cell(i) == LOG_RING[i % LOG_RING_SIZE]

\* Where the k-th entry after the head begins, not wrapped.
Hop[k \in 0 .. LOG_RING_SIZE] ==
  IF k = 0 THEN LOG_HEAD ELSE Hop[k - 1] + Cell(Hop[k - 1]) + 1

Free(head, tail) ==
  IF tail >= head THEN LOG_RING_SIZE - (tail - head) ELSE head - tail

Need(e) == Len(e) + 1

\* An Info entry may cost the k oldest entries, the fewest that make room for
\* it, if none of them is critical.  Fault: only the oldest is looked at.
EvictableFirst(k, e) ==
  LET room(j) == Free(LOG_HEAD, LOG_TAIL) + Hop[j] - LOG_HEAD IN
  /\ room(k) >= Need(e)
  /\ \A j \in 0 .. k - 1 : room(j) < Need(e)
  /\ Cell(Hop[0] + 1) \notin Critical

Evictable(k, e) ==
  LET room(j) == Free(LOG_HEAD, LOG_TAIL) + Hop[j] - LOG_HEAD IN
  /\ room(k) >= Need(e)
  /\ \A j \in 0 .. k - 1 :
       room(j) < Need(e) /\ Cell(Hop[j] + 1) \notin Critical

-----------------------------------------------------------------------------
(* emit *)

\* The flag is free, or somebody that this task has preempted holds it.
\* Fault: the flag is not looked at.
EmitTryLockBlind(t, level, text) ==
  /\ calls < MaxCalls
  /\ Step(t, "away", "emit")
  /\ LOG_MTX' = TRUE
  /\ calls' = calls + 1
  /\ entry' = [entry EXCEPT ![t] = <<level, text>>]
  /\ UNCHANGED <<ring, at, packing>>

EmitTryLock(t, level, text) ==
  \/ /\ ~LOG_MTX
     /\ calls < MaxCalls
     /\ Step(t, "away", "emit")
     /\ LOG_MTX' = TRUE
     /\ calls' = calls + 1
     /\ entry' = [entry EXCEPT ![t] = <<level, text>>]
     /\ UNCHANGED <<ring, at, packing>>
  \/ /\ LOG_MTX
     /\ pc[t] = "away" /\ OnTop(t)
     /\ UNCHANGED logVars

\* The line is put together in a buffer.  The text is cut to what fits, which
\* leaves no room for the newline after it: the index is out of bounds.
EmitFormat(t) ==
  LET e == entry[t]
      fits == HEADER + Fitted(e[2]) < BUF
  IN
  /\ Step(t, "emit", IF fits THEN "place" ELSE "panic")
  /\ entry' = [entry EXCEPT ![t] =
                 IF fits THEN <<e[1]>> \o Bytes(calls, e[2]) ELSE <<>>]
  /\ UNCHANGED <<ring, LOG_MTX, at, packing, calls>>

\* ring_push: there is room, or old entries are given up, or the entry is.  Its
\* other returns are for lines that are longer than emit can make them.
\* Fault: the one that gives up forgets the flag.
PushRoom(t) ==
  /\ Step(t, "place", "write")
  /\ Free(LOG_HEAD, LOG_TAIL) >= Need(entry[t])
  /\ at' = [at EXCEPT ![t] = LOG_TAIL]
  /\ UNCHANGED <<ring, LOG_MTX, entry, packing, calls>>

PushEvict(t) ==
  /\ Step(t, "place", "write")
  /\ Free(LOG_HEAD, LOG_TAIL) < Need(entry[t])
  /\ Head(entry[t]) \notin Critical
  /\ \E k \in 1 .. LOG_RING_SIZE :
       /\ Evictable(k, entry[t])
       /\ LOG_HEAD' = Hop[k] % LOG_RING_SIZE
  /\ at' = [at EXCEPT ![t] = LOG_TAIL]
  /\ UNCHANGED <<LOG_RING, LOG_TAIL, LOG_MTX, entry, packing, calls>>

GivesUp(e) ==
  /\ Free(LOG_HEAD, LOG_TAIL) < Need(e)
  /\ Head(e) \in Critical \/ \A k \in 1 .. LOG_RING_SIZE : ~Evictable(k, e)

PushGiveUpLocked(t) ==
  /\ Step(t, "place", "away")
  /\ GivesUp(entry[t])
  /\ entry' = [entry EXCEPT ![t] = <<>>]
  /\ UNCHANGED <<ring, LOG_MTX, at, packing, calls>>

PushGiveUp(t) ==
  /\ Step(t, "place", "unlock")
  /\ GivesUp(entry[t])
  /\ UNCHANGED <<ring, LOG_MTX, entry, at, packing, calls>>

\* The cells from the tail on are written: the length, the level and the line.
PushWrite(t) ==
  LET cells == <<Len(entry[t])>> \o entry[t] IN
  /\ Step(t, "write", "publish")
  /\ LOG_RING' = [c \in DOMAIN LOG_RING |->
                    LET i == 1 + ((c + LOG_RING_SIZE - at[t]) % LOG_RING_SIZE) IN
                    IF i \in DOMAIN cells THEN cells[i] ELSE LOG_RING[c]]
  /\ UNCHANGED <<LOG_HEAD, LOG_TAIL, LOG_MTX, entry, at, packing, calls>>

\* The tail is moved behind them.  Fault: it does not wrap.
PushPublishPast(t) ==
  /\ Step(t, "publish", "unlock")
  /\ LOG_TAIL' = at[t] + Need(entry[t])
  /\ UNCHANGED <<LOG_RING, LOG_HEAD, LOG_MTX, entry, at, packing, calls>>

PushPublish(t) ==
  /\ Step(t, "publish", "unlock")
  /\ LOG_TAIL' = (at[t] + Need(entry[t])) % LOG_RING_SIZE
  /\ UNCHANGED <<LOG_RING, LOG_HEAD, LOG_MTX, entry, at, packing, calls>>

EmitUnlock(t) ==
  /\ Step(t, "unlock", "away")
  /\ LOG_MTX' = FALSE
  /\ entry' = [entry EXCEPT ![t] = <<>>]
  /\ at' = [at EXCEPT ![t] = 0]
  /\ UNCHANGED <<ring, packing, calls>>

EmitGoesOn(t) ==
  \/ EmitFormat(t)
  \/ PushRoom(t) \/ PushEvict(t) \/ PushGiveUp(t)
  \/ PushWrite(t) \/ PushPublish(t)
  \/ EmitUnlock(t)

-----------------------------------------------------------------------------
(* log_task *)

Popper == "log_task"

\* Should the flag be taken, the round ends.
PopTryLock ==
  /\ Step(Popper, "trylock", IF LOG_MTX THEN "round_end" ELSE "pop")
  /\ LOG_MTX' = TRUE
  /\ UNCHANGED <<ring, entry, at, packing, calls>>

\* ring_pop: the oldest entry is copied, then the head is moved behind it.
PopRead ==
  LET n == AtMost(Cell(LOG_HEAD) + 1, TMP) IN
  /\ \/ /\ LOG_HEAD = LOG_TAIL
        /\ Step(Popper, "pop", "unlock")
        /\ tmp' = <<>>
     \/ /\ LOG_HEAD # LOG_TAIL
        /\ Step(Popper, "pop", "advance")
        /\ tmp' = [i \in 1 .. n |-> Cell(LOG_HEAD + i - 1)]
  /\ at' = [at EXCEPT ![Popper] = LOG_HEAD]
  /\ UNCHANGED <<ring, LOG_MTX, entry, pkt, flushed, calls, uart>>

\* Fault: the length cell is not counted.
PopAdvanceShort ==
  /\ Step(Popper, "advance", "unlock")
  /\ LOG_HEAD' = (at[Popper] + tmp[1]) % LOG_RING_SIZE
  /\ UNCHANGED <<LOG_RING, LOG_TAIL, LOG_MTX, entry, at, packing, calls>>

PopAdvance ==
  /\ Step(Popper, "advance", "unlock")
  /\ LOG_HEAD' = (at[Popper] + tmp[1] + 1) % LOG_RING_SIZE
  /\ UNCHANGED <<LOG_RING, LOG_TAIL, LOG_MTX, entry, at, packing, calls>>

\* The entry without its length is what goes into the packet.  Nothing, or an
\* entry whose length cannot be right, ends the round.
PopUnlock ==
  LET sound == tmp # <<>> /\ tmp[1] # 0 /\ tmp[1] + 1 =< TMP IN
  /\ Step(Popper, "unlock", IF sound THEN "pack" ELSE "round_end")
  /\ LOG_MTX' = FALSE
  /\ tmp' = IF sound THEN SubSeq(tmp, 2, tmp[1] + 1) ELSE <<>>
  /\ at' = [at EXCEPT ![Popper] = 0]
  /\ UNCHANGED <<ring, entry, pkt, flushed, calls, uart>>

\* Device::write waits until the packet has been transmitted.
Write(bytes) ==
  /\ uart' = uart \o bytes
  /\ pkt' = <<>>
  /\ flushed' = TRUE

\* The entry fits: the packet is written if another such entry might not.
PackWhole ==
  LET packed == pkt \o Crlf(tmp)
      full   == Len(packed) + Len(tmp) + 2 > PKT
  IN
  /\ Len(packed) =< PKT
  /\ Step(Popper, "pack", IF full THEN "sending" ELSE "trylock")
  /\ tmp' = <<>>
  /\ IF full THEN Write(packed) ELSE pkt' = packed /\ UNCHANGED <<flushed, uart>>
  /\ UNCHANGED <<ring, LOG_MTX, entry, at, calls>>

\* What fits is written at once, and the rest goes into the next packet.
\* Fault: the rest begins a byte too late.
PackPartSkips ==
  LET k == Fitting(pkt, tmp) IN
  /\ k < Len(tmp)
  /\ Step(Popper, "pack", "sending_part")
  /\ Write(pkt \o Crlf(SubSeq(tmp, 1, k)))
  /\ tmp' = SubSeq(tmp, k + 2, Len(tmp))
  /\ UNCHANGED <<ring, LOG_MTX, entry, at, calls>>

PackPart ==
  LET k == Fitting(pkt, tmp) IN
  /\ k < Len(tmp)
  /\ Step(Popper, "pack", "sending_part")
  /\ Write(pkt \o Crlf(SubSeq(tmp, 1, k)))
  /\ tmp' = SubSeq(tmp, k + 1, Len(tmp))
  /\ UNCHANGED <<ring, LOG_MTX, entry, at, calls>>

PackRest ==
  /\ Step(Popper, "rest", "trylock")
  /\ pkt' = Crlf(SubSeq(tmp, 1, Fitting(<<>>, tmp)))
  /\ tmp' = <<>>
  /\ UNCHANGED <<ring, LOG_MTX, entry, at, flushed, calls, uart>>

\* What is left of the packet is written.  After a round that has written
\* something the next begins at once.  Fault: only a full packet is written.
RoundEndWaits ==
  /\ Step(Popper, "round_end", IF flushed THEN "trylock" ELSE "asleep")
  /\ flushed' = FALSE
  /\ UNCHANGED <<ring, LOG_MTX, entry, at, tmp, pkt, calls, uart>>

RoundEnd ==
  /\ \/ /\ pkt # <<>>
        /\ Step(Popper, "round_end", "sending")
        /\ uart' = uart \o pkt
        /\ pkt' = <<>>
     \/ /\ pkt = <<>>
        /\ Step(Popper, "round_end", IF flushed THEN "trylock" ELSE "asleep")
        /\ UNCHANGED <<pkt, uart>>
  /\ flushed' = FALSE
  /\ UNCHANGED <<ring, LOG_MTX, entry, at, tmp, calls>>

PopGoesOn ==
  \/ PopTryLock \/ PopRead \/ PopAdvance \/ PopUnlock
  \/ PackWhole \/ PackPart \/ PackRest
  \/ RoundEnd

\* A packet is out, or the 5 ms are over.
Resume ==
  /\ ~Faulted
  /\ \/ /\ pc[Popper] \in {"sending", "asleep"}
        /\ pc' = [pc EXCEPT ![Popper] = "trylock"]
     \/ /\ pc[Popper] = "sending_part"
        /\ pc' = [pc EXCEPT ![Popper] = "rest"]
  /\ UNCHANGED <<ring, LOG_MTX, entry, at, packing, calls>>

Halted == Faulted /\ UNCHANGED logVars

-----------------------------------------------------------------------------
LogInit ==
  /\ LOG_RING = [c \in 0 .. LOG_RING_SIZE - 1 |-> 0]
  /\ LOG_HEAD = 0 /\ LOG_TAIL = 0
  /\ LOG_MTX = FALSE
  /\ pc = [t \in Task |-> IF t = Popper THEN "trylock" ELSE "away"]
  /\ entry = [t \in Emitter |-> <<>>]
  /\ at = [t \in Task |-> 0]
  /\ tmp = <<>> /\ pkt = <<>> /\ flushed = FALSE /\ uart = <<>>
  /\ calls = 0

LogNext ==
  \/ \E t \in Emitter :
       \/ \E level \in Level, text \in Text : EmitTryLock(t, level, text)
       \/ EmitGoesOn(t)
  \/ PopGoesOn
  \/ Resume
  \/ Halted

LogSpec == LogInit /\ [][LogNext]_logVars

\* The processor runs, transmissions end, timers expire.
LogFairSpec ==
  /\ LogSpec
  /\ \A t \in Emitter : WF_logVars(EmitGoesOn(t))
  /\ WF_logVars(PopGoesOn)
  /\ WF_logVars(Resume)

-----------------------------------------------------------------------------
(* Properties *)

LogTypeOK ==
  /\ LOG_RING \in [0 .. LOG_RING_SIZE - 1 -> Nat]
  /\ LOG_HEAD \in 0 .. LOG_RING_SIZE - 1 /\ LOG_TAIL \in 0 .. LOG_RING_SIZE - 1
  /\ LOG_MTX \in BOOLEAN /\ flushed \in BOOLEAN
  /\ \A t \in Emitter :
       pc[t] \in {"away", "emit", "place", "write", "publish", "unlock", "panic"}
  /\ pc[Popper] \in {"trylock", "pop", "advance", "unlock", "pack", "sending",
                     "sending_part", "rest", "round_end", "asleep"}
  /\ at \in [Task -> 0 .. LOG_RING_SIZE - 1]
  /\ tmp \in Seq(Nat) /\ pkt \in Seq(Nat) /\ uart \in Seq(Nat)
  /\ Len(pkt) =< PKT
  /\ calls \in 0 .. MaxCalls

\* From the head on, whole entries reach exactly to the tail, whatever was
\* written, given up or taken in between: no reader ever starts in the middle
\* of an entry.
Used == (LOG_TAIL + LOG_RING_SIZE - LOG_HEAD) % LOG_RING_SIZE
WholeEntries ==
  \E k \in 0 .. LOG_RING_SIZE :
    /\ Hop[k] = LOG_HEAD + Used
    /\ \A j \in 0 .. k - 1 : Cell(Hop[j]) > 1 /\ Cell(Hop[j] + 1) \in Level

\* log_task never finds the flag taken: whoever preempts it has given it back.
\* A path of emit that returned without doing so would silence the log for ever.
PopperFindsFlagFree ==
  pc[Popper] = "trylock" /\ OnTop(Popper) => ~LOG_MTX

\* The log as its reader sees it: the entries in the ring behind the one that
\* log_task holds, the calls that have stored or dropped theirs, and the bytes
\* on the console once what is being packed is out.
Stored ==
  LET n == CHOOSE k \in 0 .. LOG_RING_SIZE : Hop[k] = LOG_HEAD + Used
  IN [i \in 1 .. n |-> [c \in 1 .. Cell(Hop[i - 1]) |-> Cell(Hop[i - 1] + c)]]
Queue ==
  CASE ~WholeEntries          -> <<>>
    [] pc[Popper] = "pack"    -> <<tmp>> \o Stored
    [] pc[Popper] = "unlock" /\ tmp # <<>> -> <<Tail(tmp)>> \o Stored
    [] OTHER                  -> Stored
Returned ==
  calls - Cardinality({t \in Emitter : pc[t] \in {"emit", "place", "write", "publish"}})
Console ==
  uart \o pkt \o (IF pc[Popper] \in {"sending_part", "rest"} THEN Crlf(tmp) ELSE <<>>)
EntryOf(n) == {<<level>> \o Bytes(n, text) : level \in Level, text \in Text}

Reader == INSTANCE LossyLog
  WITH Entry <- EntryOf, Line <- Crlf,
       queue <- Queue, calls <- Returned, console <- Console

\* Preemption at any point, a ring and a packet that are full at any byte:
\* lines may be missing, those that come are whole, in order and come once.
LinesWholeAndInOrder == Reader!Spec

\* The critical entries in the ring, and the step of log_task that takes one out.
CriticalIn == {e \in Range(Stored) : Head(e) \in Critical}
Pops == pc[Popper] = "advance" /\ pc'[Popper] # "advance"

\* log.rs lines 12-13: a Warn or Error entry that is stored stays whole.  So it
\* leaves the ring only to be printed.  A new entry that just fits refutes this.
CriticalKept == [][~Pops => CriticalIn \subseteq CriticalIn']_logVars

\* A Warn or Error entry in the ring leaves it only to be printed, but for one
\* case: a new entry that fits exactly moves the tail onto the head, which
\* makes the full ring an empty one.
CriticalLostByExactFit ==
  [][ ~Pops /\ ~(CriticalIn \subseteq CriticalIn')
      => LOG_TAIL' # LOG_TAIL /\ LOG_TAIL' = LOG_HEAD' ]_logVars

\* Once nobody logs any more, everything stored gets out, the last packet too.
Drained == Queue = <<>> /\ pkt = <<>> /\ LOG_HEAD = LOG_TAIL
DrainedWhenQuiet == <>Faulted \/ <>[]Drained

\* log.rs line 386: what does not fit is cut, without a panic.
NeverPanics == ~Faulted
=============================================================================
