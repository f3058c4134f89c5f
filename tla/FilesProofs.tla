----------------------------- MODULE FilesProofs -----------------------------
(* What TLAPS proves of the files the program keeps: of the recorder, for  *)
(* any streams, sizes of records, cap and depth of its queue, and of the   *)
(* firmware store, for any images and number of transfers.                 *)
EXTENDS Recorder, Firmware, SequenceTheorems, TLAPS

Number == 1..MaxRecords
FileOf == [records : Seq(Number), size : Nat]

(* Records wait in the order they were submitted, behind all recorded.     *)
QueueInOrder ==
    /\ \A i, j \in 1..Len(queue) : i < j => queue[i].number < queue[j].number
    /\ \A i \in 1..Len(queue) : queue[i].number <= offered
    /\ \A k \in 1..Len(recorded) : recorded[k] <= offered
    /\ \A k \in 1..Len(recorded), i \in 1..Len(queue) : recorded[k] < queue[i].number

(* The writer knows how long an open file is.                              *)
SinkIsTrue == \A s \in Streams : sink[s] # Closed => sink[s] = live[s].size

(* The inductive invariant of the recorder.                                *)
RecorderInv ==
    RecorderTypeOK /\ dropped <= offered /\ QueueInOrder /\ SinkIsTrue /\ WindowIsRecent

-----------------------------------------------------------------------------
(* What a queue is after its first is taken.                               *)
LEMMA Shorter ==
    ASSUME NEW S, NEW q \in Seq(S), q # <<>>
    PROVE  /\ Tail(q) \in Seq(S) /\ Len(q) \in Nat /\ Len(Tail(q)) = Len(q) - 1
           /\ Len(q) >= 1 /\ Head(q) = q[1] /\ Head(q) \in S
           /\ \A i \in 1..Len(Tail(q)) : i + 1 \in 1..Len(q) /\ Tail(q)[i] = q[i + 1]
  BY HeadTailProperties, LenProperties, EmptySeq

(* And after one is added.                                                 *)
LEMMA Longer ==
    ASSUME NEW S, NEW q \in Seq(S), NEW m \in S
    PROVE  /\ Append(q, m) \in Seq(S) /\ Len(q) \in Nat /\ Len(Append(q, m)) = Len(q) + 1
           /\ Append(q, m)[Len(q) + 1] = m
           /\ \A i \in 1..Len(q) : Append(q, m)[i] = q[i]
           /\ \A i \in 1..Len(Append(q, m)) : i \in 1..Len(q) \/ i = Len(q) + 1
  <1>1. /\ Append(q, m) \in Seq(S) /\ Len(q) \in Nat /\ Len(Append(q, m)) = Len(q) + 1
        /\ Append(q, m)[Len(q) + 1] = m
        /\ \A i \in 1..Len(q) : Append(q, m)[i] = q[i]
    BY AppendProperties, LenProperties
  <1>. QED  BY <1>1

(* The latest of what was written stay the latest when one is added to     *)
(* both, and the last of the latest are the latest.                        *)
LEMMA LatestLonger ==
    ASSUME NEW S, NEW w \in Seq(S), NEW all \in Seq(S), NEW m \in S, Latest(w, all)
    PROVE  Latest(Append(w, m), Append(all, m))
  <1>. DEFINE v == Append(w, m)
              more == Append(all, m)
  <1>1. /\ Len(w) \in Nat /\ Len(v) = Len(w) + 1 /\ v[Len(w) + 1] = m
        /\ \A i \in 1..Len(w) : v[i] = w[i]
        /\ Len(all) \in Nat /\ Len(more) = Len(all) + 1 /\ more[Len(all) + 1] = m
        /\ \A i \in 1..Len(all) : more[i] = all[i]
    BY Longer
  <1>. HIDE DEF v, more
  <1>2. Len(v) <= Len(more)
    BY <1>1 DEF Latest
  <1>3. ASSUME NEW i \in 1..Len(v) PROVE v[i] = more[Len(more) - Len(v) + i]
    <2>1. CASE i = Len(w) + 1
      BY <1>1, <2>1 DEF Latest
    <2>2. CASE i \in 1..Len(w)
      <3>1. Len(all) - Len(w) + i \in 1..Len(all) /\ Len(more) - Len(v) + i = Len(all) - Len(w) + i
        BY <1>1, <2>2 DEF Latest
      <3>. QED  BY <1>1, <2>2, <3>1 DEF Latest
    <2>. QED  BY <1>1, <2>1, <2>2
  <1>. QED  BY <1>2, <1>3 DEF Latest, v, more

LEMMA LatestPart ==
    ASSUME NEW S, NEW a \in Seq(S), NEW b \in Seq(S), NEW all \in Seq(S), Latest(a \o b, all)
    PROVE  Latest(b, all)
  <1>. DEFINE c == a \o b
  <1>1. /\ Len(a) \in Nat /\ Len(b) \in Nat /\ Len(all) \in Nat /\ Len(c) = Len(a) + Len(b)
        /\ \A i \in 1..(Len(a) + Len(b)) : c[i] = IF i <= Len(a) THEN a[i] ELSE b[i - Len(a)]
    BY ConcatProperties, LenProperties
  <1>. HIDE DEF c
  <1>2. Latest(c, all)
    BY DEF c
  <1>3. ASSUME NEW i \in 1..Len(b) PROVE b[i] = all[Len(all) - Len(b) + i]
    <2>. DEFINE k == Len(a) + i
    <2>1. k \in 1..Len(c) /\ ~ (k <= Len(a)) /\ k - Len(a) = i
      BY <1>1
    <2>2. Len(all) - Len(c) + k = Len(all) - Len(b) + i
      BY <1>1
    <2>. HIDE DEF k
    <2>3. c[k] = b[i]
      BY <1>1, <2>1
    <2>. QED  BY <1>2, <2>1, <2>2, <2>3 DEF Latest
  <1>4. Len(b) <= Len(all)
    BY <1>1, <1>2 DEF Latest
  <1>. QED  BY <1>3, <1>4 DEF Latest

(* Two files in a row, and one more record.                                *)
LEMMA LatestOfBoth ==
    ASSUME NEW S, NEW a \in Seq(S), NEW b \in Seq(S), NEW all \in Seq(S), NEW m \in S,
           Latest(a \o b, all)
    PROVE  /\ Latest(a \o Append(b, m), Append(all, m))
           /\ Latest(b \o Append(<<>>, m), Append(all, m))
           /\ Latest(b \o <<>>, all)
  <1>1. a \o b \in Seq(S) /\ <<m>> \in Seq(S) /\ <<>> \in Seq(S)
    BY ConcatProperties, EmptySeq
  <1>2. Latest(b, all)
    BY LatestPart
  <1>3. /\ Latest(Append(a \o b, m), Append(all, m))
        /\ Latest(Append(b, m), Append(all, m))
    BY <1>1, <1>2, LatestLonger
  <1>4. Append(a \o b, m) = (a \o b) \o <<m>> /\ Append(b, m) = b \o <<m>>
    BY <1>1, AppendIsConcat
  <1>5. (a \o b) \o <<m>> = a \o (b \o <<m>>)
    BY <1>1, ConcatAssociative
  <1>6. Append(<<>>, m) = <<m>>
    OBVIOUS
  <1>7. b \o <<>> = b
    BY ConcatEmptySeq
  <1>. QED  BY <1>2, <1>3, <1>4, <1>5, <1>6, <1>7

-----------------------------------------------------------------------------
(* The recorder                                                            *)

LEMMA RecorderInitSound == RecorderInit => RecorderInv
  <1>. SUFFICES ASSUME RecorderInit PROVE RecorderInv
    OBVIOUS
  <1>. USE RecorderAssumption
  <1>1. <<>> \in Seq(Number) /\ <<>> \in Seq(Record) /\ Len(<<>>) = 0
    BY EmptySeq
  <1>2. EmptyFile \in FileOf
    BY <1>1 DEF EmptyFile, FileOf
  <1>3. RecorderTypeOK
    BY <1>1, <1>2 DEF RecorderInit, RecorderTypeOK, FileOf, Number
  <1>4. QueueInOrder /\ SinkIsTrue /\ dropped <= offered
    BY <1>1 DEF RecorderInit, QueueInOrder, SinkIsTrue
  <1>5. WindowIsRecent
    <2>1. <<>> \o <<>> = <<>>
      BY <1>1, ConcatEmptySeq
    <2>2. Latest(<<>>, <<>>)
      BY <1>1 DEF Latest
    <2>3. \A s \in Streams : /\ aside[s] = <<>> /\ written[s] = <<>>
                             /\ live[s].records = <<>> /\ live[s].size = 0
      BY DEF RecorderInit, EmptyFile
    <2>4. ASSUME NEW s \in Streams PROVE Latest(aside[s] \o live[s].records, written[s])
      BY <2>1, <2>2, <2>3
    <2>5. \A s \in Streams : live[s].size <= MaxBytes
      <3>1. 0 <= MaxBytes
        OBVIOUS
      <3>. QED  BY <2>3, <3>1
    <2>. QED  BY <2>4, <2>5 DEF WindowIsRecent
  <1>. QED  BY <1>3, <1>4, <1>5 DEF RecorderInv

(* A record is numbered past all those before it.                          *)
LEMMA SubmitSound ==
    ASSUME RecorderInv, NEW s \in Streams, NEW size \in Sizes, Submit(s, size)
    PROVE  RecorderInv'
  <1>. USE RecorderAssumption DEF RecorderInv
  <1>1. PICK r \in Record : r = [number |-> offered + 1, stream |-> s, size |-> size]
    <2>1. offered + 1 \in 1..MaxRecords
      BY DEF Submit, RecorderTypeOK
    <2>. QED  BY <2>1 DEF Record
  <1>2. /\ offered \in Nat /\ dropped \in Nat /\ offered < MaxRecords /\ offered' = offered + 1
        /\ r.number = offered + 1
        /\ UNCHANGED <<running, sink, live, aside, recorded, written, restarts>>
    BY <1>1 DEF Submit, RecorderTypeOK
  <1>3. \/ queue' = queue /\ dropped' = dropped + 1
        \/ queue' = Append(queue, r) /\ dropped' = dropped /\ Len(queue) < QueueDepth
    BY <1>1 DEF Submit
  <1>4. /\ queue \in Seq(Record) /\ Append(queue, r) \in Seq(Record)
        /\ Len(queue) \in Nat /\ Len(Append(queue, r)) = Len(queue) + 1
        /\ Append(queue, r)[Len(queue) + 1] = r
        /\ \A i \in 1..Len(queue) : Append(queue, r)[i] = queue[i]
    BY Longer DEF RecorderTypeOK
  <1>5. dropped' \in 0..MaxRecords /\ dropped' <= offered'
    BY <1>2, <1>3
  <1>6. queue' \in Seq(Record) /\ Len(queue') <= QueueDepth
    <2>1. CASE queue' = queue
      BY <2>1 DEF RecorderTypeOK
    <2>2. CASE queue' = Append(queue, r) /\ Len(queue) < QueueDepth
      BY <1>4, <2>2
    <2>. QED  BY <1>3, <2>1, <2>2
  <1>7. RecorderTypeOK'
    BY <1>2, <1>5, <1>6 DEF RecorderTypeOK
  <1>8. \A i \in 1..Len(queue) : queue[i].number \in Nat
    <2>1. \A i \in 1..Len(queue) : queue[i] \in Record
      BY ElementOfSeq, <1>4
    <2>. QED  BY <2>1 DEF Record
  <1>9. \A k \in 1..Len(recorded) : recorded[k] \in Nat
    <2>1. \A k \in 1..Len(recorded) : recorded[k] \in Number
      BY ElementOfSeq DEF RecorderTypeOK, Number
    <2>. QED  BY <2>1 DEF Number
  <1>10. ASSUME NEW i \in 1..Len(queue')
         PROVE  \/ i \in 1..Len(queue) /\ queue'[i] = queue[i]
                \/ i = Len(queue) + 1 /\ queue'[i] = r
    BY <1>3, <1>4
  <1>11. ASSUME NEW i \in 1..Len(queue'), NEW j \in 1..Len(queue'), i < j
         PROVE  queue'[i].number < queue'[j].number
    <2>1. i \in 1..Len(queue) /\ queue'[i] = queue[i]
      BY <1>3, <1>4, <1>11
    <2>2. CASE j \in 1..Len(queue) /\ queue'[j] = queue[j]
      BY <1>11, <2>1, <2>2 DEF QueueInOrder
    <2>3. CASE queue'[j] = r
      <3>1. queue[i].number <= offered /\ queue[i].number \in Nat
        BY <1>8, <2>1 DEF QueueInOrder
      <3>. QED  BY <1>2, <2>1, <2>3, <3>1
    <2>. QED  BY <1>10, <2>2, <2>3
  <1>12. /\ \A i \in 1..Len(queue') : queue'[i].number <= offered'
         /\ \A k \in 1..Len(recorded') : recorded'[k] <= offered'
    BY <1>2, <1>8, <1>9, <1>10 DEF QueueInOrder
  <1>13. ASSUME NEW k \in 1..Len(recorded'), NEW i \in 1..Len(queue')
         PROVE  recorded'[k] < queue'[i].number
    <2>1. recorded'[k] = recorded[k] /\ k \in 1..Len(recorded) /\ recorded[k] \in Nat
          /\ recorded[k] <= offered
      BY <1>2, <1>9 DEF QueueInOrder
    <2>2. CASE i \in 1..Len(queue) /\ queue'[i] = queue[i]
      BY <2>1, <2>2 DEF QueueInOrder
    <2>3. CASE queue'[i] = r
      BY <1>2, <2>1, <2>3
    <2>. QED  BY <1>10, <2>2, <2>3
  <1>14. SinkIsTrue' /\ WindowIsRecent'
    BY <1>2 DEF SinkIsTrue, WindowIsRecent
  <1>. QED  BY <1>5, <1>7, <1>11, <1>12, <1>13, <1>14 DEF QueueInOrder

(* A record's number and size are numbers.                                 *)
LEMMA RecordTyped ==
    ASSUME NEW r \in Record
    PROVE  r.number \in Number /\ r.number \in Nat /\ r.size \in Nat /\ r.size > 0
  <1>1. r.number \in 1..MaxRecords /\ r.size \in Sizes
    BY DEF Record
  <1>2. r.size \in Nat \ {0}
    BY <1>1, RecorderAssumption
  <1>. QED  BY <1>1, <1>2 DEF Number

(* The file a record goes to, made ready.                                  *)
LEMMA PreparedSound ==
    ASSUME RecorderInv, NEW r \in Record, NEW s \in Streams, s = r.stream
    PROVE  /\ Prepared(r).live \in FileOf /\ Prepared(r).aside \in Seq(Number)
           /\ Prepared(r).size = Prepared(r).live.size
           /\ Prepared(r).live.size + r.size <= MaxBytes \/ Prepared(r).live.records = <<>>
           /\ Latest(Prepared(r).aside \o Prepared(r).live.records, written[s])
           /\ Latest(Prepared(r).aside \o Append(Prepared(r).live.records, r.number),
                     Append(written[s], r.number))
  <1>. USE RecorderAssumption DEF RecorderInv
  <1>1. /\ live[s] \in FileOf /\ live[s].records \in Seq(Number) /\ live[s].size \in Nat
        /\ aside[s] \in Seq(Number) /\ written[s] \in Seq(Number)
        /\ r.number \in Number /\ r.size \in Nat
    BY DEF RecorderTypeOK, FileOf, Number, Record
  <1>2. BelievedSize(s) = live[s].size
    BY DEF BelievedSize, Opened, SinkIsTrue
  <1>3. Latest(aside[s] \o live[s].records, written[s])
    BY DEF WindowIsRecent
  <1>4. /\ Latest(aside[s] \o Append(live[s].records, r.number), Append(written[s], r.number))
        /\ Latest(live[s].records \o Append(<<>>, r.number), Append(written[s], r.number))
        /\ Latest(live[s].records \o <<>>, written[s])
    BY <1>1, <1>3, LatestOfBoth
  <1>5. CASE NeedsRotation(r)
    <2>1. Prepared(r) = [live |-> EmptyFile, aside |-> live[s].records, size |-> 0]
      BY <1>5 DEF Prepared, Rotated
    <2>2. EmptyFile.records = <<>> /\ EmptyFile.size = 0 /\ EmptyFile \in FileOf
      BY EmptySeq DEF EmptyFile, FileOf
    <2>3. /\ Prepared(r).live = EmptyFile /\ Prepared(r).aside = live[s].records
          /\ Prepared(r).size = 0
      BY <2>1
    <2>. QED  BY <1>1, <1>4, <2>2, <2>3
  <1>6. CASE ~ NeedsRotation(r)
    <2>1. Prepared(r) = [live |-> live[s], aside |-> aside[s], size |-> live[s].size]
      BY <1>2, <1>6 DEF Prepared
    <2>2. live[s].size + r.size <= MaxBytes
      BY <1>1, <1>2, <1>6 DEF NeedsRotation
    <2>3. /\ Prepared(r).live = live[s] /\ Prepared(r).aside = aside[s]
          /\ Prepared(r).size = live[s].size
      BY <2>1
    <2>. QED  BY <1>1, <1>3, <1>4, <2>2, <2>3
  <1>. QED  BY <1>5, <1>6

(* A record is written whole, to the end of its stream's file.             *)
LEMMA WritesSound == ASSUME RecorderInv, Writes PROVE RecorderInv'
  <1>. USE RecorderAssumption DEF RecorderInv
  <1>1. /\ queue \in Seq(Record) /\ Tail(queue) \in Seq(Record) /\ Len(queue) \in Nat
        /\ Len(Tail(queue)) = Len(queue) - 1 /\ Len(queue) >= 1
        /\ Head(queue) = queue[1] /\ queue[1] \in Record
        /\ \A i \in 1..Len(Tail(queue)) : i + 1 \in 1..Len(queue) /\ Tail(queue)[i] = queue[i + 1]
    BY Shorter DEF Writes, RecorderTypeOK
  <1>2. PICK r \in Record : r = queue[1]
    BY <1>1
  <1>3. PICK s \in Streams : s = r.stream
    BY DEF Record
  <1>4. PICK ready : ready = Prepared(r)
    OBVIOUS
  <1>5. /\ live' = [live EXCEPT ![s] = With(ready.live, r)]
        /\ aside' = [aside EXCEPT ![s] = ready.aside]
        /\ sink' = [sink EXCEPT ![s] = ready.size + r.size]
        /\ recorded' = Append(recorded, r.number)
        /\ written' = [written EXCEPT ![s] = Append(written[s], r.number)]
        /\ queue' = Tail(queue)
        /\ UNCHANGED <<offered, running, dropped, restarts>>
    BY <1>1, <1>2, <1>3, <1>4 DEF Writes
  <1>6. /\ ready.live \in FileOf /\ ready.aside \in Seq(Number) /\ ready.size = ready.live.size
        /\ ready.live.size + r.size <= MaxBytes \/ ready.live.records = <<>>
        /\ Latest(ready.aside \o Append(ready.live.records, r.number), Append(written[s], r.number))
    BY <1>3, <1>4, PreparedSound
  <1>7. r.number \in Number /\ r.number \in Nat /\ r.size \in Nat
    BY RecordTyped
  <1>8. /\ ready.live.records \in Seq(Number) /\ ready.live.size \in Nat
        /\ Append(ready.live.records, r.number) \in Seq(Number)
    BY <1>6, <1>7, Longer DEF FileOf
  <1>9. PICK new \in FileOf : /\ new.records = Append(ready.live.records, r.number)
                             /\ new.size = ready.live.size + r.size
                             /\ new = With(ready.live, r)
    <2>1. With(ready.live, r) \in FileOf
      BY <1>7, <1>8 DEF With, FileOf
    <2>. QED  BY <2>1 DEF With
  <1>10. /\ live' \in [Streams -> FileOf] /\ live'[s] = new
         /\ aside' \in [Streams -> Seq(Number)] /\ aside'[s] = ready.aside
         /\ \A q \in Streams : q # s => live'[q] = live[q] /\ aside'[q] = aside[q]
    BY <1>5, <1>6, <1>9 DEF RecorderTypeOK, FileOf, Number
  <1>11. /\ sink' \in [Streams -> Nat \cup {Closed}] /\ sink'[s] = new.size
         /\ \A q \in Streams : q # s => sink'[q] = sink[q]
    <2>1. ready.size + r.size = new.size /\ new.size \in Nat
      BY <1>6, <1>9 DEF FileOf
    <2>2. sink' = [sink EXCEPT ![s] = new.size] /\ sink \in [Streams -> Nat \cup {Closed}]
      BY <1>5, <2>1 DEF RecorderTypeOK
    <2>. QED  BY <2>1, <2>2
  <1>12. /\ written' \in [Streams -> Seq(Number)] /\ written'[s] = Append(written[s], r.number)
         /\ \A q \in Streams : q # s => written'[q] = written[q]
    <2>1. written[s] \in Seq(Number) /\ written \in [Streams -> Seq(Number)]
      BY DEF RecorderTypeOK, Number
    <2>2. Append(written[s], r.number) \in Seq(Number)
      BY <1>7, <2>1, Longer
    <2>. QED  BY <1>5, <2>1, <2>2
  <1>13. /\ recorded \in Seq(Number) /\ recorded' \in Seq(Number) /\ Len(recorded) \in Nat
         /\ Len(recorded') = Len(recorded) + 1 /\ recorded'[Len(recorded) + 1] = r.number
         /\ \A k \in 1..Len(recorded) : recorded'[k] = recorded[k]
    <2>1. recorded \in Seq(Number)
      BY DEF RecorderTypeOK, Number
    <2>. QED  BY <1>5, <1>7, <2>1, Longer
  <1>14. RecorderTypeOK'
    <2>1. queue' \in Seq(Record) /\ Len(queue') <= QueueDepth
      BY <1>1, <1>5 DEF RecorderTypeOK
    <2>. QED  BY <1>5, <1>10, <1>11, <1>12, <1>13, <2>1 DEF RecorderTypeOK, FileOf, Number
  <1>15. QueueInOrder'
    <2>1. \A i \in 1..Len(queue) : queue[i].number \in Nat
      <3>1. \A i \in 1..Len(queue) : queue[i] \in Record
        BY ElementOfSeq, <1>1
      <3>. QED  BY <3>1 DEF Record
    <2>2. ASSUME NEW i \in 1..Len(queue')
          PROVE  /\ i + 1 \in 1..Len(queue) /\ queue'[i] = queue[i + 1]
                 /\ queue[i + 1].number \in Nat /\ r.number < queue'[i].number
      <3>1. i + 1 \in 1..Len(queue) /\ queue'[i] = queue[i + 1] /\ 1 \in 1..Len(queue) /\ 1 < i + 1
        BY <1>1, <1>5
      <3>. QED  BY <1>2, <2>1, <3>1 DEF QueueInOrder
    <2>3. ASSUME NEW i \in 1..Len(queue'), NEW j \in 1..Len(queue'), i < j
          PROVE  queue'[i].number < queue'[j].number
      <3>1. i + 1 < j + 1
        BY <2>3
      <3>. QED  BY <2>2, <3>1 DEF QueueInOrder
    <2>4. \A i \in 1..Len(queue') : queue'[i].number <= offered
      BY <2>2 DEF QueueInOrder
    <2>5. ASSUME NEW k \in 1..Len(recorded')
          PROVE  \/ k \in 1..Len(recorded) /\ recorded'[k] = recorded[k]
                 \/ recorded'[k] = r.number
      BY <1>13
    <2>6. r.number <= offered
      BY <1>1, <1>2 DEF QueueInOrder
    <2>7. \A k \in 1..Len(recorded') : recorded'[k] <= offered
      BY <2>5, <2>6 DEF QueueInOrder
    <2>8. ASSUME NEW k \in 1..Len(recorded'), NEW i \in 1..Len(queue')
          PROVE  recorded'[k] < queue'[i].number
      <3>1. CASE k \in 1..Len(recorded) /\ recorded'[k] = recorded[k]
        BY <2>2, <3>1 DEF QueueInOrder
      <3>2. CASE recorded'[k] = r.number
        BY <2>2, <3>2
      <3>. QED  BY <2>5, <3>1, <3>2
    <2>. QED  BY <1>5, <2>3, <2>4, <2>7, <2>8 DEF QueueInOrder
  <1>16. SinkIsTrue'
    BY <1>10, <1>11 DEF SinkIsTrue
  <1>17. WindowIsRecent'
    <2>1. Latest(aside'[s] \o live'[s].records, written'[s])
      BY <1>6, <1>9, <1>10, <1>12
    <2>2. live'[s].size <= MaxBytes \/ Len(live'[s].records) <= 1
      <3>1. CASE ready.live.size + r.size <= MaxBytes
        BY <1>9, <1>10, <3>1
      <3>2. CASE ready.live.records = <<>>
        <4>1. Len(Append(<<>>, r.number)) = 1
          OBVIOUS
        <4>2. live'[s].records = Append(<<>>, r.number)
          BY <1>9, <1>10, <3>2
        <4>. QED  BY <4>1, <4>2
      <3>. QED  BY <1>6, <3>1, <3>2
    <2>3. \A q \in Streams : q # s =>
            /\ Latest(aside'[q] \o live'[q].records, written'[q])
            /\ live'[q].size <= MaxBytes \/ Len(live'[q].records) <= 1
      BY <1>10, <1>12 DEF WindowIsRecent
    <2>. QED  BY <2>1, <2>2, <2>3 DEF WindowIsRecent
  <1>. QED  BY <1>5, <1>14, <1>15, <1>16, <1>17

(* With the queue gone and the files closed, order is kept for nothing.    *)
LEMMA ClosedSound ==
    ASSUME RecorderInv, RecorderTypeOK', WindowIsRecent', dropped' <= offered', queue' = <<>>,
           sink' = [t \in Streams |-> Closed], UNCHANGED <<offered, recorded>>
    PROVE  RecorderInv'
  <1>1. Len(<<>>) = 0
    OBVIOUS
  <1>2. QueueInOrder'
    BY <1>1 DEF RecorderInv, QueueInOrder
  <1>3. SinkIsTrue'
    BY DEF SinkIsTrue
  <1>. QED  BY <1>2, <1>3 DEF RecorderInv

(* A write fails, at any point.                                            *)
LEMMA WriteFailsSound == ASSUME RecorderInv, WriteFails PROVE RecorderInv'
  <1>. USE RecorderAssumption DEF RecorderInv
  <1>1. PICK r \in Record : r = Head(queue)
    BY Shorter DEF WriteFails, RecorderTypeOK
  <1>2. PICK s \in Streams : s = r.stream
    BY DEF Record
  <1>3. /\ running' = FALSE /\ queue' = <<>> /\ sink' = [t \in Streams |-> Closed]
        /\ UNCHANGED <<offered, dropped, recorded, written, restarts>>
    BY DEF WriteFails
  <1>4. /\ <<>> \in Seq(Record) /\ Len(<<>>) <= QueueDepth
        /\ sink' \in [Streams -> Nat \cup {Closed}]
    BY <1>3, EmptySeq
  <1>5. CASE UNCHANGED <<live, aside>>
    <2>1. RecorderTypeOK'
      BY <1>3, <1>4, <1>5 DEF RecorderTypeOK
    <2>2. WindowIsRecent'
      BY <1>3, <1>5 DEF WindowIsRecent
    <2>. QED  BY <1>3, <2>1, <2>2, ClosedSound
  <1>6. CASE \E torn \in 0..(r.size - 1) :
               /\ live' = [live EXCEPT ![s] = [Prepared(r).live EXCEPT !.size = @ + torn]]
               /\ aside' = [aside EXCEPT ![s] = Prepared(r).aside]
    <2>1. PICK ready : ready = Prepared(r)
      OBVIOUS
    <2>2. PICK torn \in 0..(r.size - 1) :
            /\ live' = [live EXCEPT ![s] = [ready.live EXCEPT !.size = @ + torn]]
            /\ aside' = [aside EXCEPT ![s] = ready.aside]
      BY <1>6, <2>1
    <2>3. /\ ready.live \in FileOf /\ ready.aside \in Seq(Number)
          /\ ready.live.size + r.size <= MaxBytes \/ ready.live.records = <<>>
          /\ Latest(ready.aside \o ready.live.records, written[s])
      BY <1>2, <2>1, PreparedSound
    <2>4. r.size \in Nat /\ torn \in Nat /\ torn < r.size
      BY RecordTyped
    <2>5. PICK new \in FileOf : /\ new = [ready.live EXCEPT !.size = @ + torn]
                               /\ new.records = ready.live.records
                               /\ new.size = ready.live.size + torn
      <3>1. ready.live.size + torn \in Nat
        BY <2>3, <2>4 DEF FileOf
      <3>2. [ready.live EXCEPT !.size = ready.live.size + torn] \in FileOf
        BY <2>3, <3>1 DEF FileOf
      <3>3. /\ [ready.live EXCEPT !.size = ready.live.size + torn].records = ready.live.records
            /\ [ready.live EXCEPT !.size = ready.live.size + torn].size = ready.live.size + torn
        BY <2>3 DEF FileOf
      <3>. QED  BY <3>2, <3>3
    <2>6. /\ live' \in [Streams -> FileOf] /\ live'[s] = new
          /\ aside' \in [Streams -> Seq(Number)] /\ aside'[s] = ready.aside
          /\ \A q \in Streams : q # s => live'[q] = live[q] /\ aside'[q] = aside[q]
      BY <2>2, <2>3, <2>5 DEF RecorderTypeOK, FileOf, Number
    <2>7. RecorderTypeOK'
      BY <1>3, <1>4, <2>6 DEF RecorderTypeOK, FileOf, Number
    <2>8. WindowIsRecent'
      <3>1. Latest(aside'[s] \o live'[s].records, written'[s])
        BY <1>3, <2>3, <2>5, <2>6
      <3>2. live'[s].size <= MaxBytes \/ Len(live'[s].records) <= 1
        <4>1. CASE ready.live.size + r.size <= MaxBytes
          BY <2>3, <2>4, <2>5, <2>6, <4>1 DEF FileOf
        <4>2. CASE ready.live.records = <<>>
          <5>1. Len(<<>>) = 0
            OBVIOUS
          <5>. QED  BY <2>5, <2>6, <4>2, <5>1
        <4>. QED  BY <2>3, <4>1, <4>2
      <3>3. \A q \in Streams : q # s =>
              /\ Latest(aside'[q] \o live'[q].records, written'[q])
              /\ live'[q].size <= MaxBytes \/ Len(live'[q].records) <= 1
        BY <1>3, <2>6 DEF WindowIsRecent
      <3>. QED  BY <3>1, <3>2, <3>3 DEF WindowIsRecent
    <2>. QED  BY <1>3, <2>7, <2>8, ClosedSound
  <1>. QED  BY <1>1, <1>2, <1>5, <1>6 DEF WriteFails

(* The program is started again on the files there are.                    *)
LEMMA RestartSound == ASSUME RecorderInv, Restart PROVE RecorderInv'
  <1>. USE RecorderAssumption DEF RecorderInv
  <1>1. /\ restarts < MaxRestarts /\ restarts' = restarts + 1
        /\ running' = TRUE /\ queue' = <<>> /\ dropped' = 0
        /\ sink' = [t \in Streams |-> Closed]
        /\ UNCHANGED <<offered, live, aside, recorded, written>>
    BY DEF Restart
  <1>2. /\ <<>> \in Seq(Record) /\ Len(<<>>) <= QueueDepth
        /\ sink' \in [Streams -> Nat \cup {Closed}]
    BY <1>1, EmptySeq
  <1>3. restarts' \in 0..MaxRestarts /\ dropped' \in 0..MaxRecords /\ dropped' <= offered'
    BY <1>1 DEF RecorderTypeOK
  <1>4. RecorderTypeOK'
    BY <1>1, <1>2, <1>3 DEF RecorderTypeOK
  <1>5. WindowIsRecent'
    BY <1>1 DEF WindowIsRecent
  <1>. QED  BY <1>1, <1>3, <1>4, <1>5, ClosedSound

LEMMA RecorderNextSound == RecorderInv /\ [RecorderNext]_recorderVars => RecorderInv'
  <1>. SUFFICES ASSUME RecorderInv, [RecorderNext]_recorderVars PROVE RecorderInv'
    OBVIOUS
  <1>1. CASE \E s \in Streams, size \in Sizes : Submit(s, size)
    BY <1>1, SubmitSound
  <1>2. CASE Writes \/ WriteFails \/ Restart
    BY <1>2, WritesSound, WriteFailsSound, RestartSound
  <1>3. CASE UNCHANGED recorderVars
    BY <1>3 DEF RecorderInv, RecorderTypeOK, QueueInOrder, SinkIsTrue, WindowIsRecent, recorderVars
  <1>. QED  BY <1>1, <1>2, <1>3 DEF RecorderNext

(* The invariant holds in every state: what waits is numbered past what    *)
(* was recorded, and the writer knows how long its files are (Sink).       *)
THEOREM RecorderInvariant == RecorderSpec => []RecorderInv
  <1>1. RecorderInit => RecorderInv
    BY RecorderInitSound
  <1>2. RecorderInv /\ [RecorderNext]_recorderVars => RecorderInv'
    BY RecorderNextSound
  <1>. QED  BY <1>1, <1>2, PTL DEF RecorderSpec

(* For any streams, sizes and cap, through any failed writes and restarts: *)
(* a stream's two files hold its latest records, with none missing among   *)
(* them, and a file past the cap holds one record at most (Writer::write,  *)
(* rotate, Sink::open).                                                    *)
THEOREM WindowIsAlwaysRecent == RecorderSpec => []WindowIsRecent
  <1>1. RecorderInv => WindowIsRecent
    BY DEF RecorderInv
  <1>. QED  BY <1>1, RecorderInvariant, PTL

(* A step of the recorder is a step of the channel, or none.               *)
LEMMA RecorderStepIsChannelStep ==
    RecorderInv /\ [RecorderNext]_recorderVars => [Channel!Next]_<<offered, recorded>>
  <1>. SUFFICES ASSUME RecorderInv, [RecorderNext]_recorderVars
                PROVE  [Channel!Next]_<<offered, recorded>>
    OBVIOUS
  <1>1. CASE \E s \in Streams, size \in Sizes : Submit(s, size)
    BY <1>1 DEF Submit, Channel!Next, Channel!Offer
  <1>2. CASE Writes
    <2>1. /\ queue \in Seq(Record) /\ queue # <<>> /\ Len(queue) >= 1 /\ Len(queue) \in Nat
          /\ Head(queue) = queue[1] /\ queue[1] \in Record
      BY <1>2, Shorter DEF Writes, RecorderInv, RecorderTypeOK
    <2>2. recorded' = Append(recorded, queue[1].number) /\ offered' = offered
      BY <1>2, <2>1 DEF Writes
    <2>3. /\ queue[1].number \in 1..offered
          /\ \A k \in 1..Len(recorded) : recorded[k] < queue[1].number
      BY <2>1 DEF RecorderInv, RecorderTypeOK, QueueInOrder, Record
    <2>. QED  BY <2>2, <2>3 DEF Channel!Next, Channel!Receive
  <1>3. CASE WriteFails \/ Restart \/ UNCHANGED recorderVars
    BY <1>3 DEF WriteFails, Restart, recorderVars
  <1>. QED  BY <1>1, <1>2, <1>3 DEF RecorderNext

(* The recorder implements the lossy channel: whatever it drops, it writes *)
(* records in the order they were submitted, and none twice                *)
(* (Recorder::record, Writer::run).                                        *)
THEOREM RecorderImplementsChannel == RecorderSpec => RecordedInOrder
  <1>1. RecorderInit => Channel!Init
    BY DEF RecorderInit, Channel!Init
  <1>2. RecorderInv /\ [RecorderNext]_recorderVars => [Channel!Next]_<<offered, recorded>>
    BY RecorderStepIsChannelStep
  <1>. QED
    BY <1>1, <1>2, RecorderInvariant, PTL DEF RecorderSpec, RecordedInOrder, Channel!Spec

-----------------------------------------------------------------------------
(* The firmware store.  Of an image that two sessions are offered at once, *)
(* or that shares its temporary name, less is true: Undisturbed says which *)
(* are neither.                                                            *)
Undisturbed(i) ==
    i \notin Together /\ \A j \in Images : Partial[j] = Partial[i] => j = i

Before == {"unused", "offered", "asking"}
Writing(t) == stage[t] = "writing"
NameOf(t) == Partial[image[t]]

(* A transfer that has not come to its file has made none.                 *)
FreshIsUnused ==
    \A t \in Transfers : stage[t] \in Before =>
        /\ place[t] = 0
        /\ \A p \in Part : partial[p] # t
        /\ \A i \in Images : held[i] # t
        /\ \A u \in Transfers : Writing(u) => file[u] # t

(* A file has the temporary name of the transfer that made it, or the      *)
(* final one that goes with it.                                            *)
NamedByMaker ==
    /\ \A p \in Part : partial[p] # Nil => NameOf(partial[p]) = p
    /\ \A i \in Images : held[i] # Nil => NameOf(held[i]) = Partial[i]
    /\ \A t \in Transfers : Writing(t) => NameOf(file[t]) = NameOf(t)

(* A transfer under way is for an image, and for an undisturbed one there  *)
(* is no other.                                                            *)
OneEach ==
    /\ \A t \in Transfers : Underway(t) => image[t] \in Images
    /\ \A t, u \in Transfers :
          Underway(t) /\ Underway(u) /\ Undisturbed(image[t]) /\ image[t] = image[u] => t = u

(* The file a transfer writes has its image's temporary name and, in it,   *)
(* what the transfer has written and no more.                              *)
FileIsOwn ==
    \A t \in Transfers : Writing(t) =>
        /\ file[t] \in Transfers
        /\ length[t] \in {Pieces, MaxPieces + 1}
        /\ Undisturbed(image[t]) =>
               partial[NameOf(t)] = file[t] /\ contents[file[t]] = 1..place[t]

(* No file has two names.                                                  *)
NamedOnce == \A p \in Part, i \in Images : partial[p] # Nil => held[i] # partial[p]

(* What is under a temporary name was left there, or is being written.     *)
LeftOrWritten ==
    \A p \in Part : partial[p] # Nil =>
        p \in spoiled \/ \E t \in Transfers : Writing(t) /\ NameOf(t) = p

(* What is held of an undisturbed image is all of it.                      *)
UndisturbedIsWhole ==
    \A i \in Images : Undisturbed(i) /\ held[i] # Nil => contents[held[i]] = 1..Pieces

(* The inductive invariant of the store.                                   *)
FirmwareInv ==
    /\ FirmwareTypeOK /\ FreshIsUnused /\ NamedByMaker /\ OneEach /\ FileIsOwn /\ NamedOnce
    /\ LeftOrWritten /\ UndisturbedIsWhole

LEMMA FirmwareInitSound == FirmwareInit => FirmwareInv
  <1>. SUFFICES ASSUME FirmwareInit PROVE FirmwareInv
    OBVIOUS
  <1>. USE FirmwareAssumption
  <1>1. FirmwareTypeOK
    BY DEF FirmwareInit, FirmwareTypeOK
  <1>2. FreshIsUnused /\ OneEach /\ FileIsOwn
    BY DEF FirmwareInit, FreshIsUnused, OneEach, FileIsOwn, Underway, Writing
  <1>3. NamedByMaker /\ NamedOnce /\ LeftOrWritten /\ UndisturbedIsWhole
    BY DEF FirmwareInit, NamedByMaker, NamedOnce, LeftOrWritten, UndisturbedIsWhole, Writing
  <1>. QED  BY <1>1, <1>2, <1>3 DEF FirmwareInv

(* A transfer's temporary name is one, and where its image is undisturbed  *)
(* no other transfer has it.                                               *)
LEMMA NameIsOwn ==
    ASSUME FirmwareInv, NEW t \in Transfers, Underway(t)
    PROVE  /\ image[t] \in Images /\ NameOf(t) \in Part
           /\ \A u \in Transfers :
                 Underway(u) /\ Undisturbed(image[u]) /\ NameOf(u) = NameOf(t) => u = t
  <1>1. \A u \in Transfers : Underway(u) => image[u] \in Images
    BY DEF FirmwareInv, OneEach
  <1>2. NameOf(t) \in Part
    BY <1>1 DEF NameOf, Part
  <1>3. ASSUME NEW u \in Transfers, Underway(u), Undisturbed(image[u]), NameOf(u) = NameOf(t)
        PROVE  u = t
    <2>1. image[t] = image[u]
      BY <1>1, <1>3 DEF Undisturbed, NameOf
    <2>. QED  BY <1>3, <2>1 DEF FirmwareInv, OneEach
  <1>. QED  BY <1>1, <1>2, <1>3

(* A transfer is offered an image.                                         *)
LEMMA OfferSound ==
    ASSUME FirmwareInv, NEW t \in Transfers, NEW i \in Images, Offer(t, i)
    PROVE  FirmwareInv'
  <1>. USE DEF FirmwareInv
  <1>1. /\ stage[t] = "unused" /\ stage' = [stage EXCEPT ![t] = "offered"]
        /\ image' = [image EXCEPT ![t] = i]
        /\ Undisturbed(i) => \A u \in Transfers : Underway(u) => image[u] # i
        /\ UNCHANGED <<file, length, place, contents, partial, held, spoiled>>
    BY DEF Offer, Undisturbed
  <1>2. FirmwareTypeOK'
    BY <1>1 DEF FirmwareTypeOK
  <1>3. /\ stage'[t] = "offered" /\ image'[t] = i
        /\ \A u \in Transfers : u # t => stage'[u] = stage[u] /\ image'[u] = image[u]
    BY <1>1 DEF FirmwareTypeOK
  <1>5. OneEach'
    BY <1>1, <1>3 DEF OneEach, Underway, Undisturbed
  <1>6. /\ \A u \in Transfers : u # t => NameOf(u)' = NameOf(u)
        /\ \A u \in Transfers : Writing(u)' <=> Writing(u)
        /\ ~ Writing(t)
    BY <1>1, <1>3 DEF Writing, NameOf
  <1>4. FreshIsUnused'
    BY <1>1, <1>3, <1>6 DEF FreshIsUnused, Before
  <1>7. NamedByMaker'
    <2>1. /\ \A p \in Part : partial[p] # t
          /\ \A j \in Images : held[j] # t
          /\ \A u \in Transfers : Writing(u) => file[u] # t /\ file[u] \in Transfers
      BY <1>1 DEF FreshIsUnused, Before, FileIsOwn
    <2>2. /\ \A p \in Part : partial[p] # Nil => partial[p] \in Transfers
          /\ \A j \in Images : held[j] # Nil => held[j] \in Transfers
      BY DEF FirmwareTypeOK
    <2>3. \A u \in Transfers : u # t => Partial[image'[u]] = Partial[image[u]]
      BY <1>3
    <2>. QED  BY <1>1, <1>6, <2>1, <2>2, <2>3 DEF NamedByMaker, NameOf
  <1>8. NamedOnce' /\ UndisturbedIsWhole'
    BY <1>1 DEF NamedOnce, UndisturbedIsWhole, Undisturbed
  <1>9. FileIsOwn'
    BY <1>1, <1>3, <1>6 DEF FileIsOwn, Undisturbed
  <1>10. LeftOrWritten'
    BY <1>1, <1>6 DEF LeftOrWritten
  <1>. QED  BY <1>2, <1>4, <1>5, <1>7, <1>8, <1>9, <1>10

(* A transfer moves on, or ends, before it comes to its file.              *)
LEMMA EarlySound ==
    ASSUME FirmwareInv, NEW t \in Transfers, stage[t] \in {"offered", "asking"},
           NEW next \in {"asking", "over"}, stage' = [stage EXCEPT ![t] = next],
           UNCHANGED <<image, file, length, place, contents, partial, held, spoiled>>
    PROVE  FirmwareInv'
  <1>. USE DEF FirmwareInv
  <1>2. FirmwareTypeOK'
    BY DEF FirmwareTypeOK
  <1>3. /\ stage'[t] = next
        /\ \A u \in Transfers : u # t => stage'[u] = stage[u]
    BY DEF FirmwareTypeOK
  <1>5. OneEach'
    BY <1>3 DEF OneEach, Underway, Undisturbed
  <1>6. \A u \in Transfers : Writing(u)' <=> Writing(u)
    BY <1>3 DEF Writing
  <1>4. FreshIsUnused'
    BY <1>3, <1>6 DEF FreshIsUnused, Before
  <1>7. FileIsOwn' /\ NamedByMaker'
    BY <1>6 DEF FileIsOwn, NamedByMaker, NameOf, Undisturbed
  <1>8. LeftOrWritten' /\ NamedOnce' /\ UndisturbedIsWhole'
    BY <1>6 DEF LeftOrWritten, NamedOnce, UndisturbedIsWhole, NameOf, Undisturbed
  <1>. QED  BY <1>2, <1>4, <1>5, <1>7, <1>8

(* The temporary file is made, or emptied: no transfer of an undisturbed   *)
(* image writes it, and no image is held in it.                            *)
LEMMA AnsweredSound ==
    ASSUME FirmwareInv, NEW t \in Transfers, Answered(t)
    PROVE  FirmwareInv'
  <1>. USE FirmwareAssumption DEF FirmwareInv
  <1>1. PICK p \in Part : p = NameOf(t)
    BY NameIsOwn DEF Answered, Underway
  <1>2. PICK f \in Transfers : f = IF partial[p] = Nil THEN t ELSE partial[p]
    BY DEF FirmwareTypeOK
  <1>3. /\ stage[t] = "asking" /\ stage' = [stage EXCEPT ![t] = "writing"]
        /\ \E n \in {Pieces, MaxPieces + 1} : length' = [length EXCEPT ![t] = n]
        /\ file' = [file EXCEPT ![t] = f] /\ contents' = [contents EXCEPT ![f] = {}]
        /\ partial' = [partial EXCEPT ![p] = f] /\ spoiled' = spoiled \ {p}
        /\ UNCHANGED <<image, place, held>>
    BY <1>1, <1>2 DEF Answered, NameOf
  <1>4. FirmwareTypeOK'
    BY <1>3 DEF FirmwareTypeOK
  <1>5. /\ stage'[t] = "writing" /\ file'[t] = f /\ contents'[f] = {} /\ partial'[p] = f
        /\ length'[t] \in {Pieces, MaxPieces + 1}
        /\ \A u \in Transfers : u # t => stage'[u] = stage[u] /\ file'[u] = file[u]
                                          /\ length'[u] = length[u]
        /\ \A g \in Transfers : g # f => contents'[g] = contents[g]
        /\ \A q \in Part : q # p => partial'[q] = partial[q]
    BY <1>3 DEF FirmwareTypeOK
  <1>6. /\ \A i \in Images : held[i] # f
        /\ \A u \in Transfers : stage[u] \in Before /\ u # t => u # f
        /\ place[t] = 0 /\ NameOf(f) = p
    BY <1>1, <1>2, <1>3 DEF FreshIsUnused, NamedOnce, NamedByMaker, Before
  <1>7. f # Nil /\ \A u : NameOf(u)' = NameOf(u)
    BY <1>3 DEF NameOf
  <1>8. \A u \in Transfers : Writing(u)' <=> Writing(u) \/ u = t
    BY <1>3, <1>5 DEF Writing
  <1>9. FreshIsUnused'
    BY <1>3, <1>5, <1>6, <1>8 DEF FreshIsUnused, Before
  <1>10. OneEach'
    BY <1>3, <1>5 DEF OneEach, Underway, Undisturbed
  <1>11. FileIsOwn'
    <2>1. ASSUME NEW u \in Transfers, u # t, Writing(u)
          PROVE  /\ file'[u] \in Transfers /\ length'[u] \in {Pieces, MaxPieces + 1}
                 /\ Undisturbed(image[u]) =>
                        partial'[NameOf(u)] = file'[u] /\ contents'[file'[u]] = 1..place'[u]
      <3>1. file[u] \in Transfers /\ length[u] \in {Pieces, MaxPieces + 1}
        BY <2>1 DEF FileIsOwn
      <3>2. ASSUME Undisturbed(image[u])
            PROVE  partial'[NameOf(u)] = file'[u] /\ contents'[file'[u]] = 1..place'[u]
        <4>1. partial[NameOf(u)] = file[u] /\ contents[file[u]] = 1..place[u]
          BY <2>1, <3>2 DEF FileIsOwn
        <4>2. NameOf(u) # p /\ NameOf(u) \in Part
          BY <1>1, <1>3, <2>1, <3>2, NameIsOwn DEF Writing, Underway
        <4>3. file[u] # f
          BY <1>6, <2>1, <4>2 DEF NamedByMaker
        <4>. QED  BY <1>3, <1>5, <2>1, <3>1, <4>1, <4>2, <4>3
      <3>. QED  BY <1>5, <2>1, <3>1, <3>2
    <2>2. contents'[file'[t]] = 1..place'[t] /\ partial'[NameOf(t)] = file'[t]
      <3>1. {} = 1..0
        OBVIOUS
      <3>. QED  BY <1>1, <1>3, <1>5, <1>6, <3>1
    <2>3. \A u : Undisturbed(image[u])' <=> Undisturbed(image[u])
      BY <1>3 DEF Undisturbed
    <2>. QED  BY <1>5, <1>7, <1>8, <2>1, <2>2, <2>3 DEF FileIsOwn
  <1>12. NamedOnce'
    BY <1>3, <1>5, <1>6 DEF NamedOnce
  <1>13. LeftOrWritten'
    BY <1>1, <1>3, <1>5, <1>7, <1>8 DEF LeftOrWritten
  <1>14. UndisturbedIsWhole'
    <2>1. \A i \in Images : held[i] # Nil => held[i] \in Transfers
      BY DEF FirmwareTypeOK
    <2>2. \A i \in Images : held[i] # Nil => contents'[held[i]] = contents[held[i]]
      BY <1>5, <1>6, <2>1
    <2>3. \A i : Undisturbed(i)' = Undisturbed(i)
      BY DEF Undisturbed
    <2>. QED  BY <1>3, <2>2, <2>3 DEF UndisturbedIsWhole
  <1>15. NamedByMaker'
    BY <1>1, <1>3, <1>5, <1>6, <1>7, <1>8 DEF NamedByMaker
  <1>. QED  BY <1>4, <1>9, <1>10, <1>11, <1>12, <1>13, <1>14, <1>15

(* A transfer ends, and its temporary name goes with it: because the image *)
(* is held under its own name, or has failed.                              *)
LEMMA GoneSound ==
    ASSUME FirmwareInv, NEW t \in Transfers, Writing(t),
           Ends(t), Removed(t), UndisturbedIsWhole',
           \/ held' = held
           \/ partial[NameOf(t)] # Nil /\ held' = [held EXCEPT ![image[t]] = partial[NameOf(t)]],
           UNCHANGED <<image, file, length, place, contents, spoiled>>
    PROVE  FirmwareInv'
  <1>. USE FirmwareAssumption DEF FirmwareInv
  <1>1. PICK p \in Part : p = NameOf(t)
    BY NameIsOwn DEF Writing, Underway
  <1>2. PICK f \in Transfers \cup {Nil} : f = partial[p]
    BY <1>1 DEF FirmwareTypeOK
  <1>3. image[t] \in Images /\ Partial[image[t]] = p
    BY <1>1, NameIsOwn DEF Writing, Underway, NameOf
  <1>4. /\ stage' = [stage EXCEPT ![t] = "over"] /\ partial' = [partial EXCEPT ![p] = Nil]
        /\ held' = held \/ (f # Nil /\ held' = [held EXCEPT ![image[t]] = f])
    BY <1>1, <1>2 DEF Ends, Removed, NameOf
  <1>5. /\ stage'[t] = "over" /\ partial'[p] = Nil
        /\ \A u \in Transfers : u # t => stage'[u] = stage[u]
        /\ \A q \in Part : q # p => partial'[q] = partial[q]
        /\ \A i \in Images : held'[i] = held[i] \/ (i = image[t] /\ f # Nil /\ held'[i] = f)
    BY <1>2, <1>4 DEF FirmwareTypeOK
  <1>6. FirmwareTypeOK'
    BY <1>2, <1>3, <1>4 DEF FirmwareTypeOK
  <1>7. /\ \A u : NameOf(u)' = NameOf(u)
        /\ \A u : Undisturbed(image[u])' <=> Undisturbed(image[u])
        /\ \A u \in Transfers : Writing(u)' <=> Writing(u) /\ u # t
    BY <1>5 DEF NameOf, Undisturbed, Writing
  <1>8. FreshIsUnused'
    <2>1. \A u \in Transfers : stage[u] \in Before => u # f
      BY <1>2 DEF FreshIsUnused
    <2>2. \A q \in Part, u \in Transfers : partial'[q] = u => partial[q] = u
      BY <1>5
    <2>. QED  BY <1>5, <1>7, <2>1, <2>2 DEF FreshIsUnused, Before
  <1>9. OneEach'
    BY <1>5, <1>7 DEF OneEach, Underway
  <1>10. FileIsOwn'
    <2>1. \A u \in Transfers : Writing(u) /\ Undisturbed(image[u]) /\ u # t =>
              NameOf(u) # p /\ NameOf(u) \in Part
      BY <1>1, NameIsOwn DEF Writing, Underway
    <2>. QED  BY <1>5, <1>7, <2>1 DEF FileIsOwn
  <1>11. NamedOnce'
    <2>1. ASSUME NEW q \in Part, NEW i \in Images, partial'[q] # Nil, held'[i] = partial'[q]
          PROVE  FALSE
      <3>1. q # p /\ partial'[q] = partial[q]
        BY <1>5, <2>1
      <3>2. held'[i] # held[i]
        BY <2>1, <3>1 DEF NamedOnce
      <3>3. f # Nil /\ partial[q] = f
        BY <1>5, <2>1, <3>1, <3>2
      <3>4. NameOf(partial[q]) = q /\ NameOf(partial[p]) = p
        BY <1>2, <3>3 DEF NamedByMaker
      <3>. QED  BY <1>2, <3>1, <3>3, <3>4
    <2>. QED  BY <2>1 DEF NamedOnce
  <1>12. LeftOrWritten'
    <2>1. ASSUME NEW q \in Part, partial'[q] # Nil
          PROVE  q \in spoiled' \/ \E u \in Transfers : Writing(u)' /\ NameOf(u)' = q
      <3>1. q # p /\ partial[q] # Nil
        BY <1>5, <2>1
      <3>2. CASE q \in spoiled
        BY <3>2
      <3>3. CASE \E u \in Transfers : Writing(u) /\ NameOf(u) = q
        BY <1>1, <1>7, <3>1, <3>3
      <3>. QED  BY <3>1, <3>2, <3>3 DEF LeftOrWritten
    <2>. QED  BY <2>1 DEF LeftOrWritten
  <1>13. NamedByMaker'
    <2>1. f # Nil => NameOf(f) = p
      BY <1>2 DEF NamedByMaker
    <2>. QED  BY <1>3, <1>5, <1>7, <2>1 DEF NamedByMaker
  <1>. QED  BY <1>6, <1>8, <1>9, <1>10, <1>11, <1>12, <1>13

(* Transfers stop where they are: what they leave is counted as left.      *)
LEMMA StopsSound ==
    ASSUME FirmwareInv, stage' \in [Transfers -> {"unused", "offered", "asking", "writing", "over"}],
           \A t \in Transfers : stage'[t] = stage[t] \/ stage'[t] = "over",
           spoiled' \subseteq Part, spoiled \subseteq spoiled',
           \A t \in Transfers : Writing(t) /\ stage'[t] # stage[t] =>
               NameOf(t) \in spoiled' \/ partial[NameOf(t)] = Nil,
           UNCHANGED <<image, file, length, place, contents, partial, held>>
    PROVE  FirmwareInv'
  <1>. USE DEF FirmwareInv
  <1>1. FirmwareTypeOK'
    BY DEF FirmwareTypeOK
  <1>2. FreshIsUnused'
    BY DEF FreshIsUnused, Before, Writing
  <1>3. OneEach'
    BY DEF OneEach, Underway, Undisturbed
  <1>4. FileIsOwn' /\ NamedByMaker'
    BY DEF FileIsOwn, NamedByMaker, Writing, NameOf, Undisturbed
  <1>5. NamedOnce' /\ UndisturbedIsWhole'
    BY DEF NamedOnce, UndisturbedIsWhole, Undisturbed
  <1>6. LeftOrWritten'
    <2>1. \A t \in Transfers : Writing(t) =>
              Writing(t)' \/ NameOf(t) \in spoiled' \/ partial[NameOf(t)] = Nil
      BY DEF Writing
    <2>2. \A t \in Transfers : NameOf(t)' = NameOf(t)
      BY DEF NameOf
    <2>. QED  BY <2>1, <2>2 DEF LeftOrWritten
  <1>. QED  BY <1>1, <1>2, <1>3, <1>4, <1>5, <1>6

LEMMA PieceSound ==
    ASSUME FirmwareInv, NEW t \in Transfers, Piece(t)
    PROVE  FirmwareInv'
  <1>. USE FirmwareAssumption DEF FirmwareInv
  <1>1. Writing(t) /\ UNCHANGED <<image, file, length, held, spoiled>>
    BY DEF Piece, Writing
  <1>2. CASE place[t] + 1 > MaxPieces
    <2>1. Ends(t) /\ Removed(t) /\ UNCHANGED <<place, contents>>
      BY <1>2 DEF Piece
    <2>2. UndisturbedIsWhole'
      BY <1>1, <2>1 DEF UndisturbedIsWhole, Undisturbed
    <2>. QED  BY <1>1, <2>1, <2>2, GoneSound
  <1>3. CASE ~ (place[t] + 1 > MaxPieces)
    <2>1. PICK f \in Transfers : f = file[t]
      BY <1>1 DEF FileIsOwn
    <2>2. PICK n \in Nat : n = place[t] /\ n + 1 <= MaxPieces
      BY <1>3 DEF FirmwareTypeOK
    <2>3. /\ place' = [place EXCEPT ![t] = n + 1]
          /\ contents' = [contents EXCEPT ![f] = contents[f] \cup {n + 1}]
          /\ UNCHANGED <<stage, partial>>
      BY <1>3, <2>1, <2>2 DEF Piece
    <2>4. /\ place'[t] = n + 1 /\ contents'[f] = contents[f] \cup {n + 1}
          /\ \A u \in Transfers : u # t => place'[u] = place[u]
          /\ \A g \in Transfers : g # f => contents'[g] = contents[g]
      BY <2>3 DEF FirmwareTypeOK
    <2>5. FirmwareTypeOK'
      <3>1. n + 1 \in 1..MaxPieces
        BY <2>2
      <3>2. /\ n + 1 \in 0..MaxPieces
            /\ contents[f] \cup {n + 1} \in SUBSET (1..MaxPieces)
        BY <3>1 DEF FirmwareTypeOK
      <3>. QED  BY <1>1, <2>3, <3>2 DEF FirmwareTypeOK
    <2>6. FreshIsUnused' /\ OneEach' /\ NamedOnce' /\ LeftOrWritten' /\ NamedByMaker'
      <3>1. FreshIsUnused'
        BY <1>1, <2>3, <2>4 DEF FreshIsUnused, Writing, Before
      <3>2. OneEach' /\ NamedOnce' /\ LeftOrWritten'
        BY <1>1, <2>3 DEF OneEach, Underway, NamedOnce, LeftOrWritten, Writing, NameOf, Undisturbed
      <3>3. NamedByMaker'
        BY <1>1, <2>3 DEF NamedByMaker, Writing, NameOf
      <3>. QED  BY <3>1, <3>2, <3>3
    <2>7. NameOf(f) = NameOf(t) /\ NameOf(t) \in Part
      BY <1>1, <2>1, NameIsOwn DEF NamedByMaker, Writing, Underway
    <2>8. FileIsOwn'
      <3>1. ASSUME NEW u \in Transfers, u # t, Writing(u), Undisturbed(image[u])
            PROVE  file[u] # f
        <4>1. NameOf(u) # NameOf(t)
          BY <1>1, <3>1, NameIsOwn DEF Writing, Underway
        <4>. QED  BY <2>7, <3>1, <4>1 DEF NamedByMaker
      <3>2. Undisturbed(image[t]) => contents'[f] = 1..(n + 1)
        <4>1. (1..n) \cup {n + 1} = 1..(n + 1)
          OBVIOUS
        <4>. QED  BY <1>1, <2>1, <2>2, <2>4, <4>1 DEF FileIsOwn
      <3>3. \A u : /\ Writing(u)' = Writing(u) /\ NameOf(u)' = NameOf(u)
                   /\ Undisturbed(image[u])' = Undisturbed(image[u])
        BY <1>1, <2>3 DEF Writing, NameOf, Undisturbed
      <3>4. ASSUME NEW u \in Transfers, Writing(u)
            PROVE  /\ file'[u] \in Transfers /\ length'[u] \in {Pieces, MaxPieces + 1}
                   /\ Undisturbed(image[u]) =>
                          /\ partial'[NameOf(u)] = file'[u]
                          /\ contents'[file'[u]] = 1..place'[u]
        <4>1. CASE u = t
          BY <1>1, <2>1, <2>3, <2>4, <3>2, <3>4, <4>1 DEF FileIsOwn
        <4>2. CASE u # t
          BY <1>1, <2>3, <2>4, <3>1, <3>4, <4>2 DEF FileIsOwn
        <4>. QED  BY <4>1, <4>2
      <3>. QED  BY <3>3, <3>4 DEF FileIsOwn
    <2>9. UndisturbedIsWhole'
      <3>1. ASSUME NEW i \in Images, Undisturbed(i), held[i] # Nil PROVE held[i] # f
        <4>1. SUFFICES ASSUME held[i] = f PROVE FALSE
          OBVIOUS
        <4>2. Partial[i] = NameOf(t) /\ image[t] \in Images
          BY <1>1, <2>7, <3>1, <4>1, NameIsOwn DEF NamedByMaker, Writing, Underway
        <4>3. image[t] = i
          BY <3>1, <4>2 DEF Undisturbed, NameOf
        <4>4. partial[NameOf(t)] = f
          BY <1>1, <2>1, <3>1, <4>3 DEF FileIsOwn
        <4>. QED  BY <2>7, <3>1, <4>1, <4>4 DEF NamedOnce
      <3>2. \A i \in Images : held[i] # Nil => held[i] \in Transfers
        BY DEF FirmwareTypeOK
      <3>3. \A i : Undisturbed(i)' = Undisturbed(i)
        BY DEF Undisturbed
      <3>. QED  BY <1>1, <2>4, <3>1, <3>2, <3>3 DEF UndisturbedIsWhole
    <2>. QED  BY <2>5, <2>6, <2>8, <2>9
  <1>. QED  BY <1>2, <1>3

(* The end of the body: what was written is all of it, for a body that is  *)
(* longer than is taken is not read to its end.                            *)
LEMMA KeepsSound ==
    ASSUME FirmwareInv, NEW t \in Transfers, Keeps(t)
    PROVE  FirmwareInv'
  <1>. USE FirmwareAssumption DEF FirmwareInv
  <1>1. /\ Writing(t) /\ place[t] = length[t] /\ Ends(t)
        /\ UNCHANGED <<image, file, length, place, contents, spoiled>>
    BY DEF Keeps, Writing
  <1>2. image[t] \in Images /\ NameOf(t) = Partial[image[t]]
    BY <1>1, NameIsOwn DEF Writing, Underway, NameOf
  <1>3. CASE partial[NameOf(t)] = Nil
    <2>1. /\ stage' \in [Transfers -> {"unused", "offered", "asking", "writing", "over"}]
          /\ \A u \in Transfers : stage'[u] = stage[u] \/ (u = t /\ stage'[u] = "over")
      BY <1>1 DEF Ends, FirmwareTypeOK
    <2>2. UNCHANGED <<held, partial>> /\ spoiled \subseteq Part
      BY <1>2, <1>3 DEF Keeps, FirmwareTypeOK
    <2>. QED  BY <1>1, <1>3, <2>1, <2>2, StopsSound
  <1>4. CASE partial[NameOf(t)] # Nil
    <2>1. held' = [held EXCEPT ![image[t]] = partial[NameOf(t)]] /\ Removed(t)
      BY <1>2, <1>4 DEF Keeps
    <2>2. Undisturbed(image[t]) =>
              partial[NameOf(t)] = file[t] /\ contents[file[t]] = 1..Pieces
      <3>1. place[t] \in Nat /\ place[t] <= MaxPieces
        BY DEF FirmwareTypeOK
      <3>2. length[t] \in {Pieces, MaxPieces + 1}
        BY <1>1 DEF FileIsOwn
      <3>3. place[t] = Pieces
        BY <1>1, <3>1, <3>2
      <3>. QED  BY <1>1, <3>3 DEF FileIsOwn
    <2>3. \A i \in Images : IF i = image[t] THEN held'[i] = partial[NameOf(t)]
                                            ELSE held'[i] = held[i]
      BY <1>2, <2>1 DEF FirmwareTypeOK
    <2>4. UndisturbedIsWhole'
      <3>1. \A i : Undisturbed(i)' = Undisturbed(i)
        BY DEF Undisturbed
      <3>. QED  BY <1>1, <2>2, <2>3, <3>1 DEF UndisturbedIsWhole
    <2>. QED  BY <1>1, <1>4, <2>1, <2>4, GoneSound
  <1>. QED  BY <1>3, <1>4

LEMMA FirmwareNextSound ==
    FirmwareInv /\ [FirmwareNext]_firmwareVars => FirmwareInv'
  <1>. SUFFICES ASSUME FirmwareInv, [FirmwareNext]_firmwareVars PROVE FirmwareInv'
    OBVIOUS
  <1>1. ASSUME NEW t \in Transfers, \E i \in Images : Offer(t, i) PROVE FirmwareInv'
    BY <1>1, OfferSound
  <1>2. ASSUME NEW t \in Transfers, ChecksHeld(t) \/ Refused(t) PROVE FirmwareInv'
    <2>1. stage' = [stage EXCEPT ![t] = "asking"] \/ stage' = [stage EXCEPT ![t] = "over"]
      BY <1>2 DEF ChecksHeld, Refused, Ends
    <2>. QED  BY <1>2, <2>1, EarlySound DEF ChecksHeld, Refused
  <1>3. ASSUME NEW t \in Transfers, Answered(t) \/ Piece(t) \/ Keeps(t) PROVE FirmwareInv'
    BY <1>3, AnsweredSound, PieceSound, KeepsSound
  <1>4. ASSUME NEW t \in Transfers, BodyFails(t) PROVE FirmwareInv'
    <2>1. UndisturbedIsWhole'
      BY <1>4 DEF BodyFails, FirmwareInv, UndisturbedIsWhole, Undisturbed
    <2>. QED  BY <1>4, <2>1, GoneSound DEF BodyFails, Writing
  <1>5. ASSUME NEW t \in Transfers, SyncFails(t) PROVE FirmwareInv'
    <2>1. NameOf(t) \in Part
      BY <1>5, NameIsOwn DEF SyncFails, Underway
    <2>2. /\ stage' \in [Transfers -> {"unused", "offered", "asking", "writing", "over"}]
          /\ \A u \in Transfers : stage'[u] = stage[u] \/ (u = t /\ stage'[u] = "over")
      BY <1>5 DEF SyncFails, Ends, FirmwareInv, FirmwareTypeOK
    <2>3. spoiled' = spoiled \cup {NameOf(t)} /\ spoiled \subseteq Part
      BY <1>5 DEF SyncFails, NameOf, FirmwareInv, FirmwareTypeOK
    <2>. QED  BY <1>5, <2>1, <2>2, <2>3, StopsSound DEF SyncFails
  <1>6. ASSUME Crash PROVE FirmwareInv'
    <2>1. /\ stage' \in [Transfers -> {"unused", "offered", "asking", "writing", "over"}]
          /\ \A u \in Transfers : stage'[u] = stage[u] \/ stage'[u] = "over"
      BY <1>6 DEF Crash, FirmwareInv, FirmwareTypeOK
    <2>2. spoiled' = spoiled \cup {p \in Part : partial[p] # Nil} /\ spoiled \subseteq Part
      BY <1>6 DEF Crash, FirmwareInv, FirmwareTypeOK
    <2>3. \A u \in Transfers : Writing(u) => NameOf(u) \in Part
      BY NameIsOwn DEF Writing, Underway
    <2>. QED  BY <1>6, <2>1, <2>2, <2>3, StopsSound DEF Crash
  <1>7. ASSUME UNCHANGED firmwareVars PROVE FirmwareInv'
    BY <1>7, StopsSound DEF firmwareVars, transferVars, FirmwareInv, FirmwareTypeOK
  <1>. QED  BY <1>1, <1>2, <1>3, <1>4, <1>5, <1>6, <1>7 DEF FirmwareNext

(* The invariant is inductive, for any number of images and transfers and  *)
(* any temporary names (fetch and store).                                  *)
THEOREM FirmwareInvariant == FirmwareSpec => []FirmwareInv
  <1>. QED  BY FirmwareInitSound, FirmwareNextSound, PTL DEF FirmwareSpec

(* "A failed transfer removes it" (firmware.rs:41), whatever is offered at *)
(* once: a temporary file is there only while a transfer of its name is    *)
(* under way, or where a crash or the disk left it.                        *)
THEOREM NothingEverLeftOver == FirmwareSpec => []NothingLeftOver
  <1>1. FirmwareInv => NothingLeftOver
    BY DEF FirmwareInv, NothingLeftOver, LeftOrWritten, Writing, Underway, NameOf
  <1>. QED  BY <1>1, FirmwareInvariant, PTL

(* Both promises, where every image is undisturbed: "a partial file never  *)
(* gets the final name" (firmware.rs:40) only then.  The invariant says    *)
(* the same of each undisturbed image among others that are not.           *)
THEOREM StoreIsAlwaysSound ==
    ASSUME \A i \in Images : Undisturbed(i) PROVE FirmwareSpec => []StoreIsSound
  <1>1. FirmwareInv => HeldIsWhole
    BY DEF FirmwareInv, UndisturbedIsWhole, HeldIsWhole
  <1>2. FirmwareInv /\ NothingLeftOver => StoreIsSound
    BY <1>1 DEF StoreIsSound
  <1>. QED  BY <1>2, FirmwareInvariant, NothingEverLeftOver, PTL
=============================================================================
