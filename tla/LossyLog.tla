------------------------------ MODULE LossyLog ------------------------------
(***************************************************************************)
(* What the log (src/src/log.rs) promises to who reads the console: lines  *)
(* may be missing, but those that come are whole, in the order in which    *)
(* they were logged, and none comes twice.                                 *)
(***************************************************************************)
EXTENDS Integers, Sequences

CONSTANTS Entry(_),  \* the entries that the n-th call may store
          Line(_)    \* the bytes that an entry puts on the console

VARIABLES queue,     \* entries stored and not yet on the console
          calls,     \* calls that have been made
          console    \* the bytes that have come out

\* What may be left of a queue from which some entries in a row got lost.
Thinned(q) ==
  {SubSeq(q, 1, r[1]) \o SubSeq(q, r[2], Len(q)) :
     r \in {s \in (0 .. Len(q)) \X (1 .. Len(q) + 1) : s[1] < s[2]}}

Init == queue = <<>> /\ calls = 0 /\ console = <<>>

\* A call stores its entry or drops it.  Making room may cost older entries.
Log ==
  /\ calls' = calls + 1
  /\ \/ queue' \in Thinned(queue)
     \/ \E e \in Entry(calls') : queue' \in Thinned(Append(queue, e))
  /\ UNCHANGED console

Lose ==
  /\ queue' \in Thinned(queue)
  /\ UNCHANGED <<calls, console>>

Deliver ==
  /\ queue # <<>>
  /\ console' = console \o Line(Head(queue))
  /\ queue' = Tail(queue)
  /\ UNCHANGED calls

Next == Log \/ Lose \/ Deliver

Spec == Init /\ [][Next]_<<queue, calls, console>>
=============================================================================
