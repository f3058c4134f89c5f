----------------------------- MODULE Recorder -----------------------------
(***************************************************************************)
(* The frame recorder of src/src/record.rs: sessions submit frames without *)
(* waiting, through a bounded queue, and one writer task appends them to   *)
(* one file per stream, moving a full file aside.  A write that fails ends *)
(* the writer, and may leave part of a record; the program may be killed   *)
(* and started again on the same files, of which nothing else is lost.     *)
(*                                                                         *)
(* Records are numbered as they are submitted, over all streams and        *)
(* restarts.  What a frame holds is left out, but for how long it is.      *)
(***************************************************************************)
EXTENDS Naturals, Sequences

CONSTANTS
    Streams,     \* Stream::ALL
    Sizes,       \* the sizes an encoded record may have
    QueueDepth,  \* QUEUE_DEPTH
    MaxBytes,    \* RecorderConfig.max_bytes
    MaxRecords,  \* bound: records submitted
    MaxRestarts, \* bound: restarts of the program
    Closed       \* the size of a file that is not open

(* A record has a header, and so a size.                                   *)
ASSUME RecorderAssumption ==
    /\ Sizes \subseteq Nat \ {0}
    /\ QueueDepth \in Nat /\ MaxBytes \in Nat
    /\ MaxRecords \in Nat /\ MaxRestarts \in Nat
    /\ Closed \notin Nat

Record == [number : 1..MaxRecords, stream : Streams, size : Sizes]

VARIABLES
    offered,   \* how many records have been submitted
    queue,     \* the writer's channel
    running,   \* the writer has not ended
    sink,      \* per stream: Writer.files, the size it believes, or Closed
    live,      \* per stream: the file, its whole records and its size
    aside,     \* per stream: the whole records of the file moved aside
    dropped,   \* Counters.dropped
    recorded,  \* history: the records written whole, in order
    written,   \* history: per stream, the same
    restarts

recorderVars == <<offered, queue, running, sink, live, aside, dropped, recorded, written, restarts>>

EmptyFile == [records |-> <<>>, size |-> 0]

RecorderInit ==
    /\ offered = 0 /\ queue = <<>> /\ running = TRUE
    /\ sink = [s \in Streams |-> Closed]
    /\ live = [s \in Streams |-> EmptyFile] /\ aside = [s \in Streams |-> <<>>]
    /\ dropped = 0 /\ recorded = <<>> /\ restarts = 0
    /\ written = [s \in Streams |-> <<>>]

(* Recorder::record: try_send, which also fails once the writer has ended. *)
Submit(s, size) ==
    LET r == [number |-> offered + 1, stream |-> s, size |-> size] IN
    /\ offered < MaxRecords
    /\ offered' = offered + 1
    /\ IF running /\ Len(queue) < QueueDepth
       THEN queue' = Append(queue, r) /\ UNCHANGED dropped
       ELSE dropped' = dropped + 1 /\ UNCHANGED queue
    /\ UNCHANGED <<running, sink, live, aside, recorded, written, restarts>>

(* Sink::open: append, with the size there is.                             *)
Opened(s) == live[s].size

(* Writer::write, before the record itself: the file is opened if it is    *)
(* not, and rotated if the record would exceed the cap.                    *)
BelievedSize(s) == IF sink[s] = Closed THEN Opened(s) ELSE sink[s]
NeedsRotation(r) == BelievedSize(r.stream) + r.size > MaxBytes

(* rotate: the file replaces the one moved aside before.                   *)
RotatedKept(s) == IF aside[s] = <<>> THEN live[s].records ELSE aside[s]  \* mutant
Rotated(s) == live[s].records

Prepared(r) ==
    IF NeedsRotation(r)
    THEN [live |-> EmptyFile, aside |-> Rotated(r.stream), size |-> 0]
    ELSE [live |-> live[r.stream], aside |-> aside[r.stream], size |-> BelievedSize(r.stream)]

(* Sink::write: the record is appended.                                    *)
With(file, r) == [records |-> Append(file.records, r.number), size |-> file.size + r.size]

(* Writer::run, a record appended and flushed.                             *)
WritesUntaken ==  \* mutant: the record is taken off the queue only after the next
    /\ running /\ queue # <<>>
    /\ LET r == Head(queue)
           s == r.stream
           file == Prepared(r) IN
       /\ live' = [live EXCEPT ![s] = With(file.live, r)]
       /\ aside' = [aside EXCEPT ![s] = file.aside]
       /\ sink' = [sink EXCEPT ![s] = file.size + r.size]
       /\ recorded' = Append(recorded, r.number)
       /\ written' = [written EXCEPT ![s] = Append(@, r.number)]
       /\ queue' \in {Tail(queue)} \cup (IF NeedsRotation(r) THEN {queue} ELSE {})
    /\ UNCHANGED <<offered, running, dropped, restarts>>
Writes ==
    /\ running /\ queue # <<>>
    /\ LET r == Head(queue)
           s == r.stream
           file == Prepared(r) IN
       /\ live' = [live EXCEPT ![s] = With(file.live, r)]
       /\ aside' = [aside EXCEPT ![s] = file.aside]
       /\ sink' = [sink EXCEPT ![s] = file.size + r.size]
       /\ recorded' = Append(recorded, r.number)
       /\ written' = [written EXCEPT ![s] = Append(@, r.number)]
       /\ queue' = Tail(queue)
    /\ UNCHANGED <<offered, running, dropped, restarts>>

(* Writer::run, a write that fails: while opening or rotating, after the   *)
(* rotation, or part of the way through the record.  The writer ends, and  *)
(* its channel closes with what it holds.                                  *)
WriteFails ==
    /\ running /\ queue # <<>>
    /\ LET r == Head(queue)
           s == r.stream
           file == Prepared(r) IN
       \/ UNCHANGED <<live, aside>>
       \/ \E torn \in 0..(r.size - 1) :
            /\ live' = [live EXCEPT ![s] = [file.live EXCEPT !.size = @ + torn]]
            /\ aside' = [aside EXCEPT ![s] = file.aside]
    /\ running' = FALSE /\ queue' = <<>>
    /\ sink' = [t \in Streams |-> Closed]
    /\ UNCHANGED <<offered, dropped, recorded, written, restarts>>

(* Recorder::start, in the next run of the program, whether the last ended *)
(* or was killed: in the middle of a write is WriteFails first.            *)
Restart ==
    /\ restarts < MaxRestarts
    /\ restarts' = restarts + 1
    /\ running' = TRUE /\ queue' = <<>> /\ dropped' = 0
    /\ sink' = [t \in Streams |-> Closed]
    /\ UNCHANGED <<offered, live, aside, recorded, written>>

RecorderNext ==
    \/ \E s \in Streams, size \in Sizes : Submit(s, size)
    \/ Writes \/ WriteFails
    \/ Restart

RecorderSpec == RecorderInit /\ [][RecorderNext]_recorderVars

-----------------------------------------------------------------------------
RecorderTypeOK ==
    /\ offered \in 0..MaxRecords
    /\ queue \in Seq(Record) /\ Len(queue) <= QueueDepth
    /\ running \in BOOLEAN
    /\ sink \in [Streams -> Nat \cup {Closed}]
    /\ live \in [Streams -> [records : Seq(1..MaxRecords), size : Nat]]
    /\ aside \in [Streams -> Seq(1..MaxRecords)]
    /\ dropped \in 0..MaxRecords
    /\ recorded \in Seq(1..MaxRecords)
    /\ written \in [Streams -> Seq(1..MaxRecords)]
    /\ restarts \in 0..MaxRestarts

(* Whatever is dropped, records are written in the order they were         *)
(* submitted and none twice: the recorder implements LossyChannel.         *)
Channel == INSTANCE LossyChannel WITH received <- recorded
RecordedInOrder == Channel!Spec

(* "On reaching it the file rotates once to .1, so the most recent window  *)
(* survives" (record.rs:230): what the two files of a stream hold is its   *)
(* latest records, with none missing among them, through failures and      *)
(* restarts; and a file never grows past the cap, but for a record that    *)
(* exceeds it alone, even if earlier runs of the program wrote to it.      *)
Latest(window, all) ==
    /\ Len(window) <= Len(all)
    /\ \A i \in 1..Len(window) : window[i] = all[Len(all) - Len(window) + i]
WindowIsRecent ==
    \A s \in Streams :
        /\ Latest(aside[s] \o live[s].records, written[s])
        /\ live[s].size <= MaxBytes \/ Len(live[s].records) <= 1
=============================================================================
