------------------------------ MODULE GpsDriver ------------------------------
(***************************************************************************)
(* GpsUblox: the driver of the GPS receiver.  At first it tries baud rates *)
(* until it has read a GGA sentence; then each read of the sensors task    *)
(* takes what the UART holds, puts lines together and returns at the first *)
(* GGA or RMC sentence.  A line is a sequence of cells: the beginning of a *)
(* sentence, the rest of it with its checksum, and the newline.  The line  *)
(* may lose cells, and at a wrong baud rate all that arrives is noise.     *)
(***************************************************************************)
EXTENDS Integers, Sequences

CONSTANTS Candidates,   \* baud rates tried (three)
          READ_MAX,     \* cells that one read takes at most (64 bytes)
          LINE_MAX,     \* cells that the line buffer holds (82 bytes)
          MaxSentences, \* sentences that the receiver sends
          MaxCellsLost  \* cells that the line loses

ASSUME GpsAssumption ==
  /\ {Candidates, READ_MAX, LINE_MAX} \subseteq Nat \ {0}
  /\ {MaxSentences, MaxCellsLost} \subseteq Nat

VARIABLES
  phase,    \* new() probes the baud rate, then the driver runs
  baud,     \* the candidate in use
  line,     \* NmeaLine
  chunk,    \* what is left of the read at hand
  ref,      \* the sentence of ref_lat, ref_lon, ref_alt; 0 for None
  fixes,    \* the sentences from which positions were returned
  uart,     \* what has arrived, or is about to, and is not read
  gpsBaud,  \* the candidate that the receiver uses; 0 if it is none of them
  spoken,   \* all sentences that the receiver has sent
  cellsLost

driverVars   == <<phase, baud, line, chunk, ref, fixes>>
receiverVars == <<gpsBaud, spoken, cellsLost>>
gpsVars == <<driverVars, uart, receiverVars>>

-----------------------------------------------------------------------------
(* Sentences *)

Sentence ==
  [id : {"GGA"}, quality : {0, 1}] \cup [id : {"RMC"}, status : {"A", "V"}]
    \cup [id : {"other"}]

\* What the line may leave of the three cells of a sentence.
Heard ==
  {<<>>, <<"head">>, <<"tail">>, <<"newline">>, <<"head", "tail">>,
   <<"head", "newline">>, <<"tail", "newline">>, <<"head", "tail", "newline">>}

\* The fields of an RMC sentence, the first of which has index 0.
FieldChar(s, idx) ==
  <<"RMC", "time", s.status, "latitude", "N", "longitude", "E">>[idx + 1]

\* `$GPGGA`, `$GPRMC` and their `$GN` forms, with a checksum that is right up
\* to the first `*`: both cells are of one sentence.
IsSentence(cells) ==
  /\ Len(cells) >= 2
  /\ cells[1].part = "head"
  /\ cells[2] = [n |-> cells[1].n, part |-> "tail"]
  /\ spoken[cells[1].n].id \in {"GGA", "RMC"}

\* The sentence itself says that the receiver has a fix.
SaysFix(s) ==
  \/ s.id = "GGA" /\ s.quality >= 1
  \/ s.id = "RMC" /\ s.status = "A"

\* Of RMC, drain takes field 3 for the status: it is the latitude.
HasFix(s) ==
  \/ s.id = "GGA" /\ s.quality >= 1
  \/ s.id = "RMC" /\ FieldChar(s, 3) = "A"

\* NmeaLine.push: a cell too many empties the buffer, and is dropped.
Push(cells, c) == IF Len(cells) < LINE_MAX THEN Append(cells, c) ELSE <<>>

-----------------------------------------------------------------------------
(* The receiver and the line *)

Speak(s, parts) ==
  LET n == Len(spoken) + 1 IN
  /\ n =< MaxSentences
  /\ cellsLost + 3 - Len(parts) =< MaxCellsLost
  /\ cellsLost' = cellsLost + 3 - Len(parts)
  /\ spoken' = Append(spoken, s)
  /\ uart' = uart \o
       [k \in DOMAIN parts |->
          IF baud = gpsBaud THEN [n |-> n, part |-> parts[k]]
                            ELSE [n |-> n, part |-> "noise"]]
  /\ UNCHANGED <<driverVars, gpsBaud>>

-----------------------------------------------------------------------------
(* new *)

\* A cell of what probe_baud reads.  After the newline of a GGA sentence the
\* rest of the read is dropped.
ProbeCell ==
  /\ phase = "probe"
  /\ uart # <<>>
  /\ IF Head(uart).part # "newline"
     THEN /\ line' = Push(line, Head(uart))
          /\ uart' = Tail(uart)
          /\ UNCHANGED phase
     ELSE /\ line' = <<>>
          /\ IF IsSentence(line) /\ spoken[line[1].n].id = "GGA"
             THEN /\ phase' = "run"
                  /\ \E k \in 1 .. Len(uart) :
                       k =< READ_MAX /\ uart' = SubSeq(uart, k + 1, Len(uart))
             ELSE uart' = Tail(uart) /\ UNCHANGED phase
  /\ UNCHANGED <<baud, chunk, ref, fixes, receiverVars>>

\* The window of a candidate is over; after the last it stays with the first.
ProbeTimeout ==
  /\ phase = "probe"
  /\ line' = <<>>
  /\ IF baud < Candidates
     THEN baud' = baud + 1 /\ UNCHANGED phase
     ELSE baud' = 1 /\ phase' = "run"
  /\ UNCHANGED <<chunk, ref, fixes, uart, receiverVars>>

-----------------------------------------------------------------------------
(* read *)

\* drain begins: the UART gives what has arrived by now of what is on the line.
ReadUart(k) ==
  /\ phase = "run"
  /\ chunk = <<>>
  /\ k =< Len(uart)
  /\ chunk' = SubSeq(uart, 1, k)
  /\ uart' = SubSeq(uart, k + 1, Len(uart))
  /\ UNCHANGED <<phase, baud, line, ref, fixes, receiverVars>>

CellOfLine ==
  /\ chunk # <<>>
  /\ Head(chunk).part # "newline"
  /\ line' = Push(line, Head(chunk))
  /\ chunk' = Tail(chunk)
  /\ UNCHANGED <<phase, baud, ref, fixes, uart, receiverVars>>

LineOfNoInterest ==
  /\ chunk # <<>>
  /\ Head(chunk).part = "newline"
  /\ ~IsSentence(line)
  /\ line' = <<>>
  /\ chunk' = Tail(chunk)
  /\ UNCHANGED <<phase, baud, ref, fixes, uart, receiverVars>>

\* A sentence without a fix ends the read, too: the rest of it is dropped.
NoFix ==
  /\ chunk # <<>>
  /\ Head(chunk).part = "newline"
  /\ IsSentence(line)
  /\ ~HasFix(spoken[line[1].n])
  /\ line' = <<>>
  /\ chunk' = <<>>
  /\ UNCHANGED <<phase, baud, ref, fixes, uart, receiverVars>>

\* Fault: the line is not emptied when it has been taken.
FixKeepsLine ==
  /\ chunk # <<>>
  /\ Head(chunk).part = "newline"
  /\ IsSentence(line)
  /\ HasFix(spoken[line[1].n])
  /\ fixes' = Append(fixes, line[1].n)
  /\ ref' = IF ref = 0 THEN line[1].n ELSE ref
  /\ chunk' = <<>>
  /\ UNCHANGED <<line, phase, baud, uart, receiverVars>>

\* A position is returned, relative to the first there was.
Fix ==
  /\ chunk # <<>>
  /\ Head(chunk).part = "newline"
  /\ IsSentence(line)
  /\ HasFix(spoken[line[1].n])
  /\ fixes' = Append(fixes, line[1].n)
  /\ ref' = IF ref = 0 THEN line[1].n ELSE ref
  /\ line' = <<>>
  /\ chunk' = <<>>
  /\ UNCHANGED <<phase, baud, uart, receiverVars>>

\* A read that finds nothing.
GpsEmpty == UNCHANGED gpsVars

healthy == ref # 0

-----------------------------------------------------------------------------

GpsInit ==
  /\ phase = "probe"
  /\ baud = 1
  /\ line = <<>>
  /\ chunk = <<>>
  /\ ref = 0
  /\ fixes = <<>>
  /\ uart = <<>>
  /\ gpsBaud \in 0 .. Candidates
  /\ spoken = <<>>
  /\ cellsLost = 0

GpsNext ==
  \/ \E s \in Sentence, parts \in Heard : Speak(s, parts)
  \/ ProbeCell \/ ProbeTimeout
  \/ \E k \in 1 .. READ_MAX : ReadUart(k)
  \/ CellOfLine \/ LineOfNoInterest \/ NoFix \/ Fix \/ GpsEmpty

GpsSpec == GpsInit /\ [][GpsNext]_gpsVars

-----------------------------------------------------------------------------
(* Properties *)

\* However the sentences are cut into reads and whatever is lost of them,
\* each position is of a sentence, GGA or RMC, that says that it has a fix and
\* was received whole, none is returned twice or after a later one, and all
\* are relative to the first; the driver is healthy from then on.
FixesAreSent ==
  /\ \A k \in DOMAIN fixes : SaysFix(spoken[fixes[k]])
  /\ \A j, k \in DOMAIN fixes : j < k => fixes[j] < fixes[k]
  /\ healthy <=> fixes # <<>>
  /\ healthy => ref = fixes[1]

\* What ublox.rs 3-4 and 212 say: the position is taken from GGA and from RMC
\* sentences, of RMC if its status is A.  A read that comes upon the end of a
\* whole sentence that says that it has a fix returns its position.
FixesAreTaken ==
  [][ /\ chunk # <<>> /\ chunk' # chunk
      /\ Head(chunk).part = "newline"
      /\ IsSentence(line)
      /\ SaysFix(spoken[line[1].n])
      => fixes' = Append(fixes, line[1].n) ]_gpsVars
=============================================================================
