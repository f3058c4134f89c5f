----------------------------- MODULE RelayProofs -----------------------------
(* What TLAPS proves of the cloud relay, for any number of sessions and    *)
(* messages and every depth of the queues.                                 *)
EXTENDS Relay, SequenceTheorems, TLAPS

(* A relay that has stopped has no session to fill its queue again.        *)
StoppedIsOver == \A n \in Sessions : phase[n] = "stopped" => n \notin alive

(* A session's messages are numbered in order, first those the cloud had,  *)
(* then those queued, and none past the last one offered.                  *)
Numbered(q, last, had) ==
    /\ \A i, j \in 1..Len(q) : i < j => q[i] < q[j]
    /\ \A i \in 1..Len(q) : q[i] \in 1..last
    /\ \A k \in 1..Len(had) : had[k] <= last
    /\ \A i \in 1..Len(q), k \in 1..Len(had) : had[k] < q[i]
InOrder == \A n \in Sessions : Numbered(uplink[n], offered[n], heard[n])

(* The inductive invariant.                                                *)
IInv == TypeOK /\ StoppedIsOver /\ LastWordsSaid /\ InOrder /\ AcknowledgedIsPassed

-----------------------------------------------------------------------------
(* What appending to a queue and taking from it do to its messages.        *)
LEMMA QueuedAppend ==
    ASSUME NEW S, NEW q \in Seq(S), NEW m \in S
    PROVE  Queued(Append(q, m)) = Queued(q) \cup {m}
BY AppendProperties DEF Queued

LEMMA QueuedTail ==
    ASSUME NEW S, NEW q \in Seq(S), q # <<>>
    PROVE  Queued(q) \subseteq Queued(Tail(q)) \cup {Head(q)}
  <1>1. /\ Len(Tail(q)) = Len(q) - 1 /\ Len(q) \in Nat
        /\ \A i \in 1..Len(Tail(q)) : Tail(q)[i] = q[i + 1]
        /\ Head(q) = q[1]
    BY HeadTailProperties
  <1>2. ASSUME NEW i \in 1..Len(q), i # 1 PROVE q[i] \in Queued(Tail(q))
    <2>1. i - 1 \in 1..Len(Tail(q)) /\ (i - 1) + 1 = i
      BY <1>1, <1>2
    <2>2. Tail(q)[i - 1] = q[i]
      BY <1>1, <2>1
    <2>. QED  BY <2>1, <2>2 DEF Queued
  <1>. QED  BY <1>1, <1>2 DEF Queued

(* What they do to its order: a message dropped, a message queued, one     *)
(* taken and lost, and one taken and heard.                                *)
LEMMA NumberedOffer ==
    ASSUME NEW q \in Seq(Nat), NEW last \in Nat, NEW had \in Seq(Nat), Numbered(q, last, had)
    PROVE  Numbered(q, last + 1, had) /\ Numbered(Append(q, last + 1), last + 1, had)
  <1>1. /\ Len(q) \in Nat /\ Len(had) \in Nat
        /\ \A i \in 1..Len(q) : q[i] \in Nat
        /\ \A k \in 1..Len(had) : had[k] \in Nat
    BY LenProperties, ElementOfSeq
  <1>2. Numbered(q, last + 1, had)
    BY <1>1 DEF Numbered
  <1>. DEFINE p == Append(q, last + 1)
  <1>3. /\ Len(p) = Len(q) + 1 /\ p[Len(q) + 1] = last + 1
        /\ \A i \in 1..Len(q) : p[i] = q[i]
    BY AppendProperties
  <1>. HIDE DEF p
  <1>4. ASSUME NEW i \in 1..Len(p)
        PROVE  \/ i \in 1..Len(q) /\ p[i] = q[i] /\ p[i] \in 1..last
               \/ i = Len(q) + 1 /\ p[i] = last + 1
    BY <1>1, <1>3 DEF Numbered
  <1>5. ASSUME NEW i \in 1..Len(p), NEW j \in 1..Len(p), i < j PROVE p[i] < p[j]
    <2>1. i \in 1..Len(q) /\ p[i] = q[i] /\ p[i] \in 1..last
      BY <1>1, <1>3, <1>4, <1>5
    <2>2. CASE j \in 1..Len(q) /\ p[j] = q[j]
      BY <1>5, <2>1, <2>2 DEF Numbered
    <2>3. CASE p[j] = last + 1
      BY <2>1, <2>3
    <2>. QED  BY <1>4, <2>2, <2>3
  <1>6. \A i \in 1..Len(p) : p[i] \in 1..(last + 1)
    BY <1>4
  <1>7. ASSUME NEW i \in 1..Len(p), NEW k \in 1..Len(had) PROVE had[k] < p[i]
    <2>1. had[k] \in Nat /\ had[k] <= last
      BY <1>1 DEF Numbered
    <2>2. CASE i \in 1..Len(q) /\ p[i] = q[i]
      BY <2>2 DEF Numbered
    <2>3. CASE p[i] = last + 1
      BY <2>1, <2>3
    <2>. QED  BY <1>4, <2>2, <2>3
  <1>8. \A k \in 1..Len(had) : had[k] <= last + 1
    BY <1>1 DEF Numbered
  <1>9. Numbered(p, last + 1, had)
    BY <1>5, <1>6, <1>7, <1>8 DEF Numbered
  <1>. QED  BY <1>2, <1>9 DEF p

LEMMA NumberedTake ==
    ASSUME NEW q \in Seq(Nat), NEW last \in Nat, NEW had \in Seq(Nat), Numbered(q, last, had),
           q # <<>>
    PROVE  /\ Head(q) \in 1..last /\ \A k \in 1..Len(had) : had[k] < Head(q)
           /\ Numbered(Tail(q), last, had)
           /\ Numbered(Tail(q), last, Append(had, Head(q)))
  <1>1. /\ Len(q) \in Nat \ {0} /\ Len(had) \in Nat
        /\ \A i \in 1..Len(q) : q[i] \in Nat
        /\ \A k \in 1..Len(had) : had[k] \in Nat
    BY LenProperties, ElementOfSeq, EmptySeq
  <1>. DEFINE p == Tail(q)
              m == Head(q)
              all == Append(had, m)
  <1>2. /\ m = q[1] /\ m \in Nat /\ Len(p) = Len(q) - 1
        /\ \A i \in 1..Len(p) : p[i] = q[i + 1]
    BY <1>1, HeadTailProperties
  <1>3. /\ Len(all) = Len(had) + 1 /\ all[Len(had) + 1] = m
        /\ \A k \in 1..Len(had) : all[k] = had[k]
    BY <1>2, AppendProperties
  <1>. HIDE DEF p, m, all
  <1>4. m \in 1..last /\ \A k \in 1..Len(had) : had[k] < m
    BY <1>1, <1>2 DEF Numbered
  <1>5. ASSUME NEW i \in 1..Len(p)
        PROVE  /\ i + 1 \in 1..Len(q) /\ p[i] = q[i + 1] /\ p[i] \in 1..last /\ m < p[i]
               /\ \A k \in 1..Len(had) : had[k] < p[i]
    <2>1. i + 1 \in 1..Len(q) /\ 1 \in 1..Len(q) /\ 1 < i + 1
      BY <1>1, <1>2
    <2>2. p[i] = q[i + 1]
      BY <1>2
    <2>. QED  BY <1>2, <2>1, <2>2 DEF Numbered
  <1>6. ASSUME NEW i \in 1..Len(p), NEW j \in 1..Len(p), i < j PROVE p[i] < p[j]
    <2>1. i + 1 \in 1..Len(q) /\ j + 1 \in 1..Len(q) /\ i + 1 < j + 1
      BY <1>5, <1>6
    <2>. QED  BY <1>5, <2>1 DEF Numbered
  <1>7. Numbered(p, last, had)
    BY <1>5, <1>6 DEF Numbered
  <1>8. ASSUME NEW k \in 1..Len(all)
        PROVE  all[k] <= last /\ \A i \in 1..Len(p) : all[k] < p[i]
    <2>1. CASE k \in 1..Len(had) /\ all[k] = had[k]
      BY <1>5, <2>1 DEF Numbered
    <2>2. CASE all[k] = m
      BY <1>4, <1>5, <2>2
    <2>. QED  BY <1>1, <1>3, <2>1, <2>2
  <1>9. Numbered(p, last, all)
    BY <1>5, <1>6, <1>8 DEF Numbered
  <1>. QED  BY <1>4, <1>7, <1>9 DEF p, m, all

-----------------------------------------------------------------------------
(* The invariant holds initially.                                          *)
LEMMA InitSound == Init => IInv
  <1>. SUFFICES ASSUME Init PROVE IInv
    OBVIOUS
  <1>1. TypeOK
    BY RelayAssumption DEF Init, TypeOK
  <1>2. StoppedIsOver /\ LastWordsSaid
    BY DEF Init, StoppedIsOver, LastWordsSaid
  <1>3. InOrder
    BY DEF Init, InOrder, Numbered
  <1>4. AcknowledgedIsPassed
    BY DEF Init, AcknowledgedIsPassed
  <1>. QED  BY <1>1, <1>2, <1>3, <1>4 DEF IInv

(* Steps that do not touch the uplink, or what the cloud commands.         *)
LEMMA SameOrder ==
    ASSUME InOrder, UNCHANGED <<uplink, offered, heard>>
    PROVE  InOrder'
BY DEF InOrder

LEMMA SameCommands ==
    ASSUME AcknowledgedIsPassed, UNCHANGED <<downlink, issued, unacked, settled>>
    PROVE  AcknowledgedIsPassed'
BY DEF AcknowledgedIsPassed, Queued

(* The session takes a relay.                                              *)
LEMMA StartSound == ASSUME IInv, NEW n \in Sessions, Start(n) PROVE IInv'
  <1>. USE DEF IInv
  <1>1. TypeOK'
    BY DEF TypeOK, Start, cloudVars
  <1>2. /\ \A k \in Sessions : phase'[k] = IF k = n THEN "dialling" ELSE phase[k]
        /\ alive' = alive \cup {n}
    BY DEF TypeOK, Start
  <1>3. StoppedIsOver' /\ LastWordsSaid'
    BY <1>2 DEF Start, StoppedIsOver, LastWordsSaid
  <1>4. InOrder' /\ AcknowledgedIsPassed'
    BY SameOrder, SameCommands DEF Start, cloudVars
  <1>. QED  BY <1>1, <1>3, <1>4

(* A message is numbered past all those before it.                         *)
LEMMA TryForwardSound == ASSUME IInv, NEW n \in Sessions, TryForward(n) PROVE IInv'
  <1>. USE DEF IInv
  <1>1. /\ uplink[n] \in Seq(Nat) /\ offered[n] \in Nat /\ offered[n] + 1 \in Nat
        /\ heard[n] \in Seq(Nat) /\ QueueDepth \in Nat /\ n \in alive
    BY RelayAssumption DEF TypeOK, TryForward
  <1>2. /\ offered' = [offered EXCEPT ![n] = offered[n] + 1]
        /\ UNCHANGED <<alive, phase, downlink, wire, cursor, reachable, issued, unacked, heard, settled>>
    BY DEF TryForward, cloudVars
  <1>3. \/ uplink' = uplink
        \/ uplink' = [uplink EXCEPT ![n] = Append(uplink[n], offered[n] + 1)] /\ Len(uplink[n]) < QueueDepth
    BY DEF TryForward
  <1>4. Len(Append(uplink[n], offered[n] + 1)) = Len(uplink[n]) + 1
        /\ Append(uplink[n], offered[n] + 1) \in Seq(Nat) /\ Len(uplink[n]) \in Nat
    BY <1>1, AppendProperties, LenProperties
  <1>5. TypeOK'
    <2>1. uplink' \in [Sessions -> Seq(Nat)] /\ offered' \in [Sessions -> Nat]
      BY <1>1, <1>2, <1>3, <1>4 DEF TypeOK
    <2>2. ASSUME NEW k \in Sessions PROVE Len(uplink'[k]) <= QueueDepth
      <3>1. CASE uplink'[k] = uplink[k]
        BY <3>1 DEF TypeOK
      <3>2. CASE uplink'[k] = Append(uplink[n], offered[n] + 1) /\ Len(uplink[n]) < QueueDepth
        BY <1>1, <1>4, <3>2
      <3>. QED  BY <1>3, <3>1, <3>2 DEF TypeOK
    <2>. QED  BY <1>2, <2>1, <2>2 DEF TypeOK
  <1>6. StoppedIsOver' /\ LastWordsSaid'
    BY <1>1, <1>2, <1>3 DEF StoppedIsOver, LastWordsSaid, TypeOK
  <1>7. InOrder'
    <2>1. /\ Numbered(uplink[n], offered[n] + 1, heard[n])
          /\ Numbered(Append(uplink[n], offered[n] + 1), offered[n] + 1, heard[n])
      BY <1>1, NumberedOffer DEF InOrder
    <2>. QED  BY <1>2, <1>3, <2>1 DEF InOrder, TypeOK
  <1>8. AcknowledgedIsPassed'
    BY <1>2 DEF AcknowledgedIsPassed, Queued
  <1>. QED  BY <1>5, <1>6, <1>7, <1>8

(* The session takes a command out of its queue.                           *)
LEMMA NextFromCloudSound == ASSUME IInv, NEW n \in Sessions, NextFromCloud(n) PROVE IInv'
  <1>. USE DEF IInv
  <1>1. /\ downlink[n] \in Seq(Commands) /\ downlink[n] # <<>>
        /\ downlink' = [downlink EXCEPT ![n] = Tail(downlink[n])]
        /\ settled' = settled \cup {Head(downlink[n])}
        /\ UNCHANGED <<alive, phase, uplink, wire, cursor, offered, reachable, issued, unacked, heard>>
    BY DEF NextFromCloud, TypeOK, taskVars, cloudVars
  <1>2. /\ Tail(downlink[n]) \in Seq(Commands) /\ Head(downlink[n]) \in Commands
        /\ Len(Tail(downlink[n])) = Len(downlink[n]) - 1 /\ Len(downlink[n]) \in Nat
    BY <1>1, HeadTailProperties, LenProperties
  <1>3. TypeOK'
    <2>1. ASSUME NEW k \in Sessions PROVE Len(downlink'[k]) <= QueueDepth
      BY <1>1, <1>2, RelayAssumption DEF TypeOK
    <2>. QED  BY <1>1, <1>2, <2>1 DEF TypeOK
  <1>4. StoppedIsOver' /\ LastWordsSaid' /\ InOrder'
    BY <1>1, SameOrder DEF StoppedIsOver, LastWordsSaid
  <1>5. AcknowledgedIsPassed'
    <2>1. Queued(downlink[n]) \subseteq Queued(Tail(downlink[n])) \cup {Head(downlink[n])}
      BY <1>1, QueuedTail
    <2>. QED  BY <1>1, <2>1 DEF AcknowledgedIsPassed, TypeOK
  <1>. QED  BY <1>3, <1>4, <1>5

(* The session ends: what is queued for it counts as handed over.          *)
LEMMA DropSound == ASSUME IInv, NEW n \in Sessions, Drop(n) PROVE IInv'
  <1>. USE DEF IInv
  <1>1. /\ downlink' = [downlink EXCEPT ![n] = <<>>]
        /\ settled' = settled \cup Queued(downlink[n]) /\ alive' = alive \ {n}
        /\ UNCHANGED <<phase, uplink, wire, cursor, offered, reachable, issued, unacked, heard>>
    BY DEF Drop, taskVars, cloudVars
  <1>2. TypeOK'
    <2>1. Queued(downlink[n]) \subseteq Commands
      <3>1. \A i \in 1..Len(downlink[n]) : downlink[n][i] \in Commands
        BY ElementOfSeq DEF TypeOK
      <3>. QED  BY <3>1 DEF Queued
    <2>2. <<>> \in Seq(Commands) /\ Len(<<>>) = 0
      BY EmptySeq
    <2>3. ASSUME NEW k \in Sessions PROVE Len(downlink'[k]) <= QueueDepth
      BY <1>1, <2>2, RelayAssumption DEF TypeOK
    <2>4. downlink' \in [Sessions -> Seq(Commands)]
      BY <1>1, <2>2 DEF TypeOK
    <2>. QED  BY <1>1, <2>1, <2>3, <2>4 DEF TypeOK
  <1>3. StoppedIsOver' /\ LastWordsSaid' /\ InOrder'
    BY <1>1, SameOrder DEF StoppedIsOver, LastWordsSaid
  <1>4. AcknowledgedIsPassed'
    BY <1>1 DEF AcknowledgedIsPassed, TypeOK
  <1>. QED  BY <1>2, <1>3, <1>4

-----------------------------------------------------------------------------
(* What a task does to its connection is of its type, and stops nothing.   *)
ConnectionTypes ==
    /\ \A k \in Sessions : phase'[k] # phase[k] => phase'[k] \in {"dialling", "pumping"}
    /\ phase' \in [Sessions -> {"none", "dialling", "pumping", "stopped"}]
    /\ wire' \in [Sessions -> {"down", "up", "dead"}]
    /\ cursor' \in [Sessions -> 0..MaxDown]

LEMMA TypedDisconnected ==
    ASSUME TypeOK, NEW n \in Sessions, Disconnected(n) PROVE ConnectionTypes
  <1>1. 0 \in 0..MaxDown
    BY RelayAssumption
  <1>. QED  BY <1>1 DEF Disconnected, TypeOK, ConnectionTypes

LEMMA TypedTakeOver ==
    ASSUME TypeOK, NEW n \in Sessions, NEW w \in {"down", "up"}, TakeOver(n, w)
    PROVE  wire' \in [Sessions -> {"down", "up", "dead"}]
BY DEF TakeOver, TypeOK

(* Connecting, failing to, losing the connection and noticing it: steps of *)
(* the task that touch its connection alone.                               *)
LEMMA ConnectionSound ==
    ASSUME IInv, NEW n \in Sessions, Connects(n) \/ ConnectFails(n) \/ Notices(n) \/ Breaks(n)
    PROVE  IInv'
  <1>. USE DEF IInv
  <1>1. UNCHANGED <<alive, uplink, downlink, offered, reachable, issued, unacked, heard, settled>>
    BY DEF Connects, ConnectFails, Notices, Breaks
  <1>0. ConnectionTypes
    <2>1. CASE Connects(n)
      <3>1. 0 \in 0..MaxDown
        BY RelayAssumption
      <3>. QED  BY <2>1, <3>1, TypedTakeOver DEF Connects, TypeOK, ConnectionTypes
    <2>2. CASE ConnectFails(n)
      BY <2>2, TypedTakeOver DEF ConnectFails, TypeOK, ConnectionTypes
    <2>3. CASE Notices(n)
      BY <2>3, TypedDisconnected DEF Notices
    <2>4. CASE Breaks(n)
      BY <2>4 DEF Breaks, TypeOK, ConnectionTypes
    <2>. QED  BY <2>1, <2>2, <2>3, <2>4
  <1>2. TypeOK'
    BY <1>0, <1>1 DEF TypeOK, ConnectionTypes
  <1>3. StoppedIsOver' /\ LastWordsSaid'
    BY <1>0, <1>1 DEF StoppedIsOver, LastWordsSaid, ConnectionTypes
  <1>4. InOrder' /\ AcknowledgedIsPassed'
    BY <1>1, SameOrder, SameCommands
  <1>. QED  BY <1>2, <1>3, <1>4

(* The relay of a session that is over stops.                              *)
LEMMA LocalShutdownSound == ASSUME IInv, NEW n \in Sessions, LocalShutdown(n) PROVE IInv'
  <1>. USE DEF IInv
  <1>1. /\ UNCHANGED <<alive, uplink, downlink, offered, reachable, issued, unacked, heard, settled>>
        /\ n \notin alive /\ uplink[n] = <<>>
        /\ \A k \in Sessions : phase'[k] = IF k = n THEN "stopped" ELSE phase[k]
    BY DEF LocalShutdown, TypeOK
  <1>2. TypeOK'
    <2>1. 0 \in 0..MaxDown
      BY RelayAssumption
    <2>. QED  BY <1>1, <2>1 DEF LocalShutdown, TypeOK
  <1>3. StoppedIsOver' /\ LastWordsSaid'
    BY <1>1 DEF StoppedIsOver, LastWordsSaid
  <1>4. InOrder' /\ AcknowledgedIsPassed'
    BY <1>1, SameOrder, SameCommands
  <1>. QED  BY <1>2, <1>3, <1>4

(* The task sends a message on: the cloud has it after all it had before.  *)
LEMMA SendsUpSound == ASSUME IInv, NEW n \in Sessions, SendsUp(n) PROVE IInv'
  <1>. USE DEF IInv
  <1>1. /\ uplink[n] \in Seq(Nat) /\ uplink[n] # <<>> /\ phase[n] = "pumping"
        /\ offered[n] \in Nat /\ heard[n] \in Seq(Nat)
        /\ uplink' = [uplink EXCEPT ![n] = Tail(uplink[n])]
        /\ UNCHANGED <<alive, downlink, offered, reachable, issued, unacked, settled>>
    BY DEF SendsUp, TypeOK
  <1>2. /\ \/ heard' = heard
           \/ heard' = [heard EXCEPT ![n] = Append(heard[n], Head(uplink[n]))]
        /\ Disconnected(n) \/ UNCHANGED <<phase, wire, cursor>>
    BY DEF SendsUp
  <1>0. ConnectionTypes
    <2>1. CASE UNCHANGED <<phase, wire, cursor>>
      BY <2>1 DEF TypeOK, ConnectionTypes
    <2>. QED  BY <1>2, <2>1, TypedDisconnected
  <1>3. /\ Head(uplink[n]) \in Nat /\ Tail(uplink[n]) \in Seq(Nat)
        /\ Len(Tail(uplink[n])) = Len(uplink[n]) - 1 /\ Len(uplink[n]) \in Nat
        /\ Append(heard[n], Head(uplink[n])) \in Seq(Nat)
    BY <1>1, HeadTailProperties, LenProperties, AppendProperties
  <1>4. TypeOK'
    <2>1. ASSUME NEW k \in Sessions PROVE Len(uplink'[k]) <= QueueDepth
      BY <1>1, <1>3, RelayAssumption DEF TypeOK
    <2>2. heard' \in [Sessions -> Seq(Nat)] /\ uplink' \in [Sessions -> Seq(Nat)]
      BY <1>1, <1>2, <1>3 DEF TypeOK
    <2>. QED  BY <1>0, <1>1, <2>1, <2>2 DEF TypeOK, ConnectionTypes
  <1>5. StoppedIsOver' /\ LastWordsSaid'
    <2>1. phase'[n] # "stopped"
      BY <1>0, <1>1 DEF ConnectionTypes
    <2>2. \A k \in Sessions : k # n => uplink'[k] = uplink[k]
      BY <1>1 DEF TypeOK
    <2>. QED  BY <1>0, <1>1, <2>1, <2>2 DEF StoppedIsOver, LastWordsSaid, ConnectionTypes
  <1>6. InOrder'
    <2>1. /\ Numbered(Tail(uplink[n]), offered[n], heard[n])
          /\ Numbered(Tail(uplink[n]), offered[n], Append(heard[n], Head(uplink[n])))
      BY <1>1, NumberedTake DEF InOrder
    <2>. QED  BY <1>1, <1>2, <2>1 DEF InOrder, TypeOK
  <1>7. AcknowledgedIsPassed'
    BY <1>1, SameCommands
  <1>. QED  BY <1>4, <1>5, <1>6, <1>7

(* A command is queued, or settled, in the step it is acknowledged in.     *)
LEMMA HandleDownlinkSound == ASSUME IInv, NEW n \in Sessions, HandleDownlink(n) PROVE IInv'
  <1>. USE DEF IInv
  <1>1. UNCHANGED <<alive, uplink, offered, reachable, issued, heard>> /\ phase[n] = "pumping"
    BY DEF HandleDownlink
  <1>2. PICK m \in unacked :
            \/ /\ Passed(n, m)
               /\ cursor' = [cursor EXCEPT ![n] = m]
               /\ UNCHANGED phase
               /\ \/ unacked' = unacked \ {m} /\ UNCHANGED wire
                  \/ UNCHANGED unacked /\ wire' = [wire EXCEPT ![n] = "dead"]
            \/ Disconnected(n) /\ UNCHANGED <<unacked, downlink, settled>>
    BY DEF HandleDownlink
  <1>3. m \in Commands /\ m \in 0..MaxDown
    BY RelayAssumption DEF TypeOK, Commands
  <1>4. CASE Disconnected(n) /\ UNCHANGED <<unacked, downlink, settled>>
    <2>1. ConnectionTypes
      BY <1>4, TypedDisconnected
    <2>2. TypeOK'
      BY <1>1, <1>4, <2>1 DEF TypeOK, ConnectionTypes
    <2>3. StoppedIsOver' /\ LastWordsSaid'
      BY <1>1, <2>1 DEF StoppedIsOver, LastWordsSaid, ConnectionTypes
    <2>4. InOrder' /\ AcknowledgedIsPassed'
      BY <1>1, <1>4, SameOrder, SameCommands
    <2>. QED  BY <2>2, <2>3, <2>4
  <1>5. CASE /\ Passed(n, m)
             /\ cursor' = [cursor EXCEPT ![n] = m]
             /\ UNCHANGED phase
             /\ \/ unacked' = unacked \ {m} /\ UNCHANGED wire
                \/ UNCHANGED unacked /\ wire' = [wire EXCEPT ![n] = "dead"]
    <2>1. /\ cursor' \in [Sessions -> 0..MaxDown] /\ wire' \in [Sessions -> {"down", "up", "dead"}]
          /\ unacked' \subseteq unacked /\ unacked \subseteq unacked' \cup {m}
      BY <1>3, <1>5 DEF TypeOK
    <2>2. StoppedIsOver' /\ LastWordsSaid' /\ InOrder'
      BY <1>1, <1>5, SameOrder DEF StoppedIsOver, LastWordsSaid
    <2>3. CASE /\ Len(downlink[n]) < QueueDepth
               /\ downlink' = [downlink EXCEPT ![n] = Append(downlink[n], m)] /\ settled' = settled
      <3>1. /\ downlink[n] \in Seq(Commands) /\ Append(downlink[n], m) \in Seq(Commands)
            /\ Len(Append(downlink[n], m)) = Len(downlink[n]) + 1 /\ Len(downlink[n]) \in Nat
            /\ Queued(Append(downlink[n], m)) = Queued(downlink[n]) \cup {m}
        BY <1>3, AppendProperties, LenProperties, QueuedAppend DEF TypeOK
      <3>2. TypeOK'
        <4>1. ASSUME NEW k \in Sessions PROVE Len(downlink'[k]) <= QueueDepth
          BY <2>3, <3>1, RelayAssumption DEF TypeOK
        <4>. QED  BY <1>1, <1>5, <2>1, <2>3, <3>1, <4>1 DEF TypeOK
      <3>3. AcknowledgedIsPassed'
        <4>1. \A k \in Sessions : Queued(downlink[k]) \subseteq Queued(downlink'[k])
          BY <2>3, <3>1 DEF TypeOK
        <4>2. m \in Queued(downlink'[n])
          BY <2>3, <3>1 DEF TypeOK
        <4>3. ASSUME NEW c \in (1..issued') \ unacked'
              PROVE  c \in settled' \/ \E k \in Sessions : c \in Queued(downlink'[k])
          <5>1. CASE c = m
            BY <4>2, <5>1
          <5>2. CASE c \in (1..issued) \ unacked
            BY <2>3, <4>1, <5>2 DEF AcknowledgedIsPassed
          <5>. QED  BY <1>1, <2>1, <5>1, <5>2
        <4>. QED  BY <4>3 DEF AcknowledgedIsPassed, Queued
      <3>. QED  BY <2>2, <3>2, <3>3
    <2>4. CASE downlink' = downlink /\ settled' = settled \cup {m}
      <3>1. TypeOK'
        BY <1>1, <1>3, <1>5, <2>1, <2>4 DEF TypeOK
      <3>2. AcknowledgedIsPassed'
        BY <1>1, <2>1, <2>4 DEF AcknowledgedIsPassed
      <3>. QED  BY <2>2, <3>1, <3>2
    <2>. QED  BY <1>5, <2>3, <2>4 DEF Passed
  <1>. QED  BY <1>2, <1>4, <1>5

-----------------------------------------------------------------------------
(* The cloud and the way to it.                                            *)
LEMMA OutsideSound == ASSUME IInv, Issues \/ PathChanges PROVE IInv'
  <1>. USE DEF IInv
  <1>1. UNCHANGED <<alive, phase, uplink, wire, cursor, downlink, offered, heard, settled>>
    BY DEF Issues, PathChanges, taskVars, cloudVars
  <1>2. StoppedIsOver' /\ LastWordsSaid' /\ InOrder'
    BY <1>1, SameOrder DEF StoppedIsOver, LastWordsSaid
  <1>3. CASE Issues
    <2>1. /\ issued \in Nat /\ issued' = issued + 1 /\ issued < MaxDown
          /\ unacked' = unacked \cup {issued + 1} /\ reachable' = reachable
      BY <1>3, RelayAssumption DEF Issues, TypeOK
    <2>2. TypeOK'
      BY <1>1, <2>1, RelayAssumption DEF TypeOK
    <2>3. (1..issued') \ unacked' \subseteq (1..issued) \ unacked
      BY <2>1
    <2>. QED  BY <1>1, <1>2, <2>2, <2>3 DEF AcknowledgedIsPassed
  <1>4. CASE PathChanges
    <2>1. TypeOK'
      BY <1>1, <1>4 DEF PathChanges, TypeOK, cloudVars
    <2>. QED  BY <1>1, <1>2, <1>4, <2>1, SameCommands DEF PathChanges, cloudVars
  <1>. QED  BY <1>3, <1>4

-----------------------------------------------------------------------------
(* Every step keeps the invariant.                                         *)
LEMMA NextSound == IInv /\ [Next]_vars => IInv'
  <1>. SUFFICES ASSUME IInv, [Next]_vars PROVE IInv'
    OBVIOUS
  <1>1. ASSUME NEW n \in Sessions, Session(n) PROVE IInv'
    BY <1>1, StartSound, TryForwardSound, NextFromCloudSound, DropSound DEF Session
  <1>2. ASSUME NEW n \in Sessions, Task(n) PROVE IInv'
    BY <1>2, ConnectionSound, SendsUpSound, HandleDownlinkSound, LocalShutdownSound DEF Task
  <1>3. ASSUME NEW n \in Sessions, Breaks(n) PROVE IInv'
    BY <1>3, ConnectionSound
  <1>4. CASE Issues \/ PathChanges
    BY <1>4, OutsideSound
  <1>5. CASE UNCHANGED vars
    <2>1. UNCHANGED <<alive, phase, uplink, wire, cursor, downlink, offered, reachable, issued,
                      unacked, heard, settled>>
      BY <1>5 DEF vars, taskVars, cloudVars
    <2>2. TypeOK' /\ StoppedIsOver' /\ LastWordsSaid'
      BY <2>1 DEF IInv, TypeOK, StoppedIsOver, LastWordsSaid
    <2>3. InOrder' /\ AcknowledgedIsPassed'
      BY <2>1, SameOrder, SameCommands DEF IInv
    <2>. QED  BY <2>2, <2>3 DEF IInv
  <1>. QED  BY <1>1, <1>2, <1>3, <1>4, <1>5 DEF Next

(* The inductive invariant of the relay.                                   *)
THEOREM RelayInvariant == Spec => []IInv
  <1>. QED  BY InitSound, NextSound, PTL DEF Spec

(* The types, among them that neither queue exceeds QUEUE_DEPTH.           *)
THEOREM TypeCorrect == Spec => []TypeOK
  <1>1. IInv => TypeOK
    BY DEF IInv
  <1>. QED  BY <1>1, RelayInvariant, PTL

(* A relay stops with nothing left to say (LocalShutdown, in pump).        *)
THEOREM LastWordsAlwaysSaid == Spec => []LastWordsSaid
  <1>1. IInv => LastWordsSaid
    BY DEF IInv
  <1>. QED  BY <1>1, RelayInvariant, PTL

(* What the cloud counts as delivered was handed over or refused           *)
(* (handle_downlink).                                                      *)
THEOREM AcknowledgedAlwaysPassed == Spec => []AcknowledgedIsPassed
  <1>1. IInv => AcknowledgedIsPassed
    BY DEF IInv
  <1>. QED  BY <1>1, RelayInvariant, PTL

-----------------------------------------------------------------------------
(* Every step of the relay is one of each session's LossyChannel, or none. *)
LEMMA UplinkSteps ==
    ASSUME IInv, [Next]_vars, NEW n \in Sessions
    PROVE  [Uplink(n)!Next]_<<offered[n], heard[n]>>
  <1>1. ASSUME NEW k \in Sessions, TryForward(k)
        PROVE  [Uplink(n)!Next]_<<offered[n], heard[n]>>
    <2>1. heard'[n] = heard[n] /\ offered'[n] \in {offered[n], offered[n] + 1}
      BY <1>1 DEF TryForward, cloudVars, IInv, TypeOK
    <2>. QED  BY <2>1 DEF Uplink!Next, Uplink!Offer
  <1>2. ASSUME NEW k \in Sessions, SendsUp(k)
        PROVE  [Uplink(n)!Next]_<<offered[n], heard[n]>>
    <2>1. offered'[n] = offered[n]
      BY <1>2 DEF SendsUp
    <2>2. CASE heard'[n] = heard[n]
      BY <2>1, <2>2
    <2>3. CASE k = n /\ heard' = [heard EXCEPT ![n] = Append(heard[n], Head(uplink[n]))]
      <3>1. /\ heard'[n] = Append(heard[n], Head(uplink[n]))
            /\ Head(uplink[n]) \in 1..offered[n]
            /\ \A i \in 1..Len(heard[n]) : heard[n][i] < Head(uplink[n])
        BY <1>2, <2>3, NumberedTake DEF SendsUp, IInv, InOrder, TypeOK
      <3>. QED  BY <2>1, <3>1 DEF Uplink!Next, Uplink!Receive
    <2>. QED  BY <1>2, <2>2, <2>3 DEF SendsUp, IInv, TypeOK
  <1>3. CASE UNCHANGED <<offered, heard>>
    BY <1>3
  <1>. QED
    BY <1>1, <1>2, <1>3
       DEF Next, Session, Task, Start, NextFromCloud, Drop, Connects, ConnectFails, HandleDownlink,
           Notices, LocalShutdown, Breaks, Issues, PathChanges, vars, cloudVars

(* Every session's uplink implements LossyChannel.                         *)
THEOREM UplinkAlwaysInOrder == Spec => UplinkKeepsOrder
  <1>1. Init => \A n \in Sessions : Uplink(n)!Init
    BY DEF Init, Uplink!Init
  <1>2. IInv /\ [Next]_vars
        => [\A n \in Sessions : [Uplink(n)!Next]_<<offered[n], heard[n]>>]_vars
    BY UplinkSteps
  <1>. QED  BY <1>1, <1>2, RelayInvariant, PTL DEF Spec, UplinkKeepsOrder
=============================================================================
