--------------------------- MODULE RegistryProofs ---------------------------
(* What TLAPS proves of the two parts that MCRegistry checks side by side: *)
(* of the registry, for any number of devices, sessions and ids; and of    *)
(* the delivery of commands, for any payloads, any number of commands and  *)
(* sessions, and every depth of the queues.                                *)
EXTENDS Registry, Delivery, SequenceTheorems, TLAPS

(* Every id in use was issued: a new one is in use nowhere.                *)
Issued ==
    /\ \A s \in Sessions : registration[s].id # None => registration[s].id < next
    /\ \A s \in Sessions : displaced[s].id # None => displaced[s].id < next
    /\ \A d \in Devices : entry[d] # None => entry[d] < next

(* No two registrations have the same id.                                  *)
Distinct ==
    /\ \A s, t \in Sessions :
           s # t /\ registration[s].id # None => registration[s].id # registration[t].id
    /\ \A s, t \in Sessions :
           registration[s].id # None => registration[s].id # displaced[t].id

(* A listed session holds the registration the entry is about.             *)
Listed ==
    \A d \in Devices : entry[d] # None =>
        \E s \in Sessions :
            [device |-> d, id |-> entry[d]] \in {registration[s], displaced[s]}

(* A session that is leaving has told whoever it had to tell.              *)
LeavesQuietly == \A s \in Sessions : pc[s] \in {"ending", "closed"} => Idle(s)

(* The inductive invariant.                                                *)
IInv == TypeOK /\ Issued /\ Distinct /\ Listed /\ LeavesQuietly /\ AddressableOrTold

-----------------------------------------------------------------------------
(* What EntryAfterDrop returns: the map without the entry dropped.         *)
LEMMA DropFacts ==
    ASSUME TypeOK, NEW r \in Registration \cup {NoRegistration}
    PROVE  /\ EntryAfterDrop(r) \in Connected
           /\ \A d \in Devices :
                  \/ EntryAfterDrop(r)[d] = entry[d] /\ (entry[d] = None \/ r # [device |-> d, id |-> entry[d]])
                  \/ EntryAfterDrop(r)[d] = None /\ entry[d] = r.id
BY RegistryAssumption, SMT
   DEF TypeOK, EntryAfterDrop, Connected, Registration, NoRegistration, SessionId

(* The invariant holds initially.                                          *)
LEMMA InitSound == Init => IInv
  <1>. SUFFICES ASSUME Init PROVE IInv
    OBVIOUS
  <1>1. TypeOK
    BY RegistryAssumption
       DEF Init, TypeOK, Connected, Registration, NoRegistration, SessionId, Quiet
  <1>2. Issued /\ Distinct /\ Listed /\ LeavesQuietly /\ AddressableOrTold
    BY DEF Init, Issued, Distinct, Listed, LeavesQuietly, Idle, AddressableOrTold, NoRegistration
  <1>. QED  BY <1>1, <1>2 DEF IInv

(* A CONNECT: its registration is the only one with its id, and whoever    *)
(* held the entry is about to be told.                                     *)
LEMMA RegisterSound ==
    ASSUME IInv, NEW s \in Sessions, NEW d \in Devices, Register(s, d)
    PROVE  IInv'
  <1>. USE DEF IInv
  <1>1. /\ registration[s] \in Registration \cup {NoRegistration}
        /\ displaced[s] = NoRegistration /\ announcing[s] = Quiet
        /\ next \in SessionId /\ Limit \in Nat /\ None \notin Nat
    BY RegistryAssumption DEF Register, Idle, TypeOK
  <1>2. CASE next < Limit
    <2>1. /\ next' = next + 1
          /\ entry' = [entry EXCEPT ![d] = next]
          /\ registration' = [registration EXCEPT ![s] = [device |-> d, id |-> next]]
          /\ displaced' = [displaced EXCEPT ![s] = registration[s]]
          /\ pc' = [pc EXCEPT ![s] = "serving"]
          /\ watch' = watch /\ stop' = stop
          /\ announcing' = [announcing EXCEPT ![s] =
                IF entry[d] = None THEN [step |-> "read"]
                                   ELSE [step |-> "notify", id |-> entry[d]]]
      BY <1>2 DEF Register, Announce, Displace
    <2>2. TypeOK'
      <3>1. next' \in SessionId /\ next \in SessionId
        BY <1>1, <1>2, <2>1 DEF SessionId
      <3>2. [device |-> d, id |-> next] \in Registration
        BY <3>1 DEF Registration
      <3>3. entry' \in Connected /\ watch' \in Connected
        BY <2>1, <3>1 DEF TypeOK, Connected
      <3>4. entry[d] = None \/ entry[d] \in SessionId
        BY DEF TypeOK, Connected
      <3>5. announcing' \in [Sessions ->
                {Quiet} \cup [step : {"notify"}, id : SessionId] \cup [step : {"read"}]
                    \cup [step : {"send"}, connected : Connected]]
        BY <2>1, <3>4 DEF TypeOK
      <3>. QED  BY <1>1, <2>1, <3>1, <3>2, <3>3, <3>5 DEF TypeOK
    <2>3. Issued'
      BY <1>1, <2>1 DEF Issued, TypeOK, Connected, Registration, NoRegistration, SessionId
    <2>4. Distinct'
      BY <1>1, <2>1 DEF Issued, Distinct, TypeOK, Registration, NoRegistration, SessionId
    <2>5. Listed'
      <3>. SUFFICES ASSUME NEW e \in Devices, entry'[e] # None
                    PROVE  \E t \in Sessions : [device |-> e, id |-> entry'[e]]
                               \in {registration'[t], displaced'[t]}
        BY DEF Listed
      <3>1. CASE e = d
        BY <2>1, <3>1 DEF TypeOK, Connected
      <3>2. CASE e # d
        <4>1. entry'[e] = entry[e]
          BY <2>1, <3>2 DEF TypeOK, Connected
        <4>2. PICK t \in Sessions :
                  [device |-> e, id |-> entry[e]] \in {registration[t], displaced[t]}
          BY <4>1 DEF Listed
        <4>3. CASE t = s
          BY <1>1, <2>1, <4>1, <4>2, <4>3, RegistryAssumption DEF TypeOK, NoRegistration
        <4>4. CASE t # s
          BY <2>1, <4>1, <4>2, <4>4 DEF TypeOK
        <4>. QED  BY <4>3, <4>4
      <3>. QED  BY <3>1, <3>2
    <2>6. LeavesQuietly'
      BY <2>1 DEF LeavesQuietly, Idle, TypeOK
    <2>7. AddressableOrTold'
      <3>. SUFFICES ASSUME NEW t \in Sessions, pc'[t] = "serving", registration'[t].id # None
                    PROVE  \/ entry'[registration'[t].device] = registration'[t].id
                           \/ registration'[t].id \in stop'
                           \/ \E u \in Sessions : announcing'[u] =
                                  [step |-> "notify", id |-> registration'[t].id]
        BY DEF AddressableOrTold
      <3>1. CASE t = s
        BY <2>1, <3>1 DEF TypeOK, Connected
      <3>2. CASE t # s
        <4>. DEFINE i == registration[t].id
                    e == registration[t].device
        <4>1. /\ registration'[t] = registration[t] /\ pc[t] = "serving" /\ i # None
              /\ e \in Devices
          BY <2>1, <3>2 DEF TypeOK, Registration, NoRegistration
        <4>2. CASE entry[e] = i /\ e # d
          BY <2>1, <4>1, <4>2 DEF TypeOK, Connected
        <4>3. CASE entry[e] = i /\ e = d
          <5>1. announcing'[s] = [step |-> "notify", id |-> i]
            BY <2>1, <4>1, <4>3 DEF TypeOK
          <5>. QED  BY <4>1, <5>1
        <4>4. CASE i \in stop
          BY <2>1, <4>1, <4>4
        <4>5. CASE \E u \in Sessions : announcing[u] = [step |-> "notify", id |-> i]
          <5>1. PICK u \in Sessions : announcing[u] = [step |-> "notify", id |-> i]
            BY <4>5
          <5>2. u # s
            BY <1>1, <5>1 DEF Quiet
          <5>3. announcing'[u] = announcing[u]
            BY <2>1, <5>2 DEF TypeOK
          <5>. QED  BY <4>1, <5>1, <5>3
        <4>. QED  BY <4>1, <4>2, <4>3, <4>4, <4>5 DEF AddressableOrTold
      <3>. QED  BY <3>1, <3>2
    <2>. QED  BY <2>2, <2>3, <2>4, <2>5, <2>6, <2>7
  <1>3. CASE ~ next < Limit
    <2>1. /\ next' = next /\ entry' = entry /\ watch' = watch /\ stop' = stop
          /\ registration' = [registration EXCEPT ![s] = [device |-> d, id |-> None]]
          /\ displaced' = [displaced EXCEPT ![s] = registration[s]]
          /\ pc' = [pc EXCEPT ![s] = "serving"]
          /\ announcing' = [announcing EXCEPT ![s] = [step |-> "read"]]
      BY <1>3 DEF Register, Announce
    <2>2. TypeOK'
      BY <1>1, <2>1 DEF TypeOK, Registration
    <2>3. Issued'
      BY <1>1, <2>1 DEF Issued, TypeOK, Registration, NoRegistration
    <2>4. Distinct'
      BY <1>1, <2>1 DEF Distinct, TypeOK, NoRegistration
    <2>5. Listed'
      <3>. SUFFICES ASSUME NEW e \in Devices, entry[e] # None
                    PROVE  \E t \in Sessions : [device |-> e, id |-> entry[e]]
                               \in {registration'[t], displaced'[t]}
        BY <2>1 DEF Listed
      <3>1. PICK t \in Sessions :
                [device |-> e, id |-> entry[e]] \in {registration[t], displaced[t]}
        BY DEF Listed
      <3>2. CASE t = s
        BY <1>1, <2>1, <3>1, <3>2, RegistryAssumption DEF TypeOK, NoRegistration
      <3>3. CASE t # s
        BY <2>1, <3>1, <3>3 DEF TypeOK
      <3>. QED  BY <3>2, <3>3
    <2>6. LeavesQuietly'
      BY <2>1 DEF LeavesQuietly, Idle, TypeOK
    <2>7. AddressableOrTold'
      <3>. SUFFICES ASSUME NEW t \in Sessions, pc'[t] = "serving", registration'[t].id # None
                    PROVE  \/ entry[registration[t].device] = registration[t].id
                           \/ registration[t].id \in stop
                           \/ \E u \in Sessions : announcing'[u] =
                                  [step |-> "notify", id |-> registration[t].id]
        BY <2>1 DEF AddressableOrTold, TypeOK
      <3>1. t # s /\ pc[t] = "serving" /\ registration[t].id # None
        BY <2>1 DEF TypeOK
      <3>2. \A u \in Sessions : announcing[u].step = "notify" => announcing'[u] = announcing[u]
        BY <1>1, <2>1 DEF TypeOK, Quiet
      <3>. QED  BY <3>1, <3>2 DEF AddressableOrTold
    <2>. QED  BY <2>2, <2>3, <2>4, <2>5, <2>6, <2>7
  <1>. QED  BY <1>2, <1>3

(* The displaced session is told: what was about to happen has.            *)
LEMMA NotifySound ==
    ASSUME IInv, NEW s \in Sessions, Notify(s)
    PROVE  IInv'
  <1>. USE DEF IInv
  <1>1. /\ announcing[s].step = "notify"
        /\ stop' = stop \cup {announcing[s].id}
        /\ announcing' = [announcing EXCEPT ![s] = [step |-> "read"]]
        /\ UNCHANGED <<next, entry, watch, pc, registration, displaced>>
    BY DEF Notify, Announce
  <1>2. announcing[s].id \in SessionId
    BY <1>1 DEF TypeOK, Quiet
  <1>3. TypeOK'
    BY <1>1, <1>2 DEF TypeOK
  <1>4. Issued' /\ Distinct' /\ Listed'
    BY <1>1 DEF Issued, Distinct, Listed
  <1>5. LeavesQuietly'
    BY <1>1 DEF LeavesQuietly, Idle, TypeOK, Quiet
  <1>6. AddressableOrTold'
    <2>. SUFFICES ASSUME NEW t \in Sessions, pc[t] = "serving", registration[t].id # None
                  PROVE  \/ entry[registration[t].device] = registration[t].id
                         \/ registration[t].id \in stop'
                         \/ \E u \in Sessions : announcing'[u] =
                                [step |-> "notify", id |-> registration[t].id]
      BY <1>1 DEF AddressableOrTold
    <2>1. CASE \E u \in Sessions :
                   announcing[u] = [step |-> "notify", id |-> registration[t].id]
      <3>1. PICK u \in Sessions :
                announcing[u] = [step |-> "notify", id |-> registration[t].id]
        BY <2>1
      <3>2. CASE u = s
        BY <1>1, <3>1, <3>2
      <3>3. CASE u # s
        BY <1>1, <3>1, <3>3 DEF TypeOK
      <3>. QED  BY <3>2, <3>3
    <2>. QED  BY <1>1, <2>1 DEF AddressableOrTold
  <1>. QED  BY <1>3, <1>4, <1>5, <1>6

(* A step that moves neither an id nor a session into service, and drops   *)
(* no notification, changes nothing the invariant is about.                *)
LEMMA QuietStepSound ==
    ASSUME IInv, TypeOK', LeavesQuietly',
           UNCHANGED <<next, entry, stop, registration, displaced>>,
           \A s \in Sessions : pc'[s] = "serving" => pc[s] = "serving",
           \A s \in Sessions : announcing[s].step = "notify" => announcing'[s] = announcing[s]
    PROVE  IInv'
  <1>1. Issued' /\ Distinct' /\ Listed'
    BY DEF IInv, Issued, Distinct, Listed
  <1>2. AddressableOrTold'
    <2>. SUFFICES ASSUME NEW t \in Sessions, pc'[t] = "serving", registration[t].id # None
                  PROVE  \/ entry[registration[t].device] = registration[t].id
                         \/ registration[t].id \in stop
                         \/ \E u \in Sessions : announcing'[u] =
                                [step |-> "notify", id |-> registration[t].id]
      BY DEF AddressableOrTold
    <2>1. pc[t] = "serving"
      OBVIOUS
    <2>. QED  BY <2>1 DEF IInv, AddressableOrTold
  <1>. QED  BY <1>1, <1>2 DEF IInv

(* Announcing, and a session's way out up to the drop of its registration. *)
LEMMA QuietStepsSound ==
    ASSUME IInv, NEW s \in Sessions,
           \/ AnnounceRead(s) \/ AnnounceSend(s)
           \/ StopReplaced(s) \/ End(s) \/ CloseChannels(s)
    PROVE  IInv'
  <1>. USE DEF IInv
  <1>1. CASE AnnounceRead(s)
    <2>1. TypeOK'
      BY <1>1 DEF AnnounceRead, TypeOK
    <2>2. LeavesQuietly'
      BY <1>1 DEF AnnounceRead, LeavesQuietly, Idle, TypeOK, Quiet
    <2>3. \A t \in Sessions : announcing[t].step = "notify" => announcing'[t] = announcing[t]
      BY <1>1 DEF AnnounceRead, TypeOK
    <2>. QED  BY <1>1, <2>1, <2>2, <2>3, QuietStepSound DEF AnnounceRead
  <1>2. CASE AnnounceSend(s)
    <2>1. announcing[s].connected \in Connected
      BY <1>2 DEF AnnounceSend, TypeOK, Quiet
    <2>2. TypeOK'
      BY <1>2, <2>1 DEF AnnounceSend, TypeOK
    <2>3. LeavesQuietly'
      BY <1>2 DEF AnnounceSend, LeavesQuietly, Idle, TypeOK
    <2>4. \A t \in Sessions : announcing[t].step = "notify" => announcing'[t] = announcing[t]
      BY <1>2 DEF AnnounceSend, TypeOK
    <2>. QED  BY <1>2, <2>2, <2>3, <2>4, QuietStepSound DEF AnnounceSend
  <1>3. CASE StopReplaced(s) \/ End(s) \/ CloseChannels(s)
    <2>1. /\ UNCHANGED <<next, entry, watch, stop, registration, displaced, announcing>>
          /\ Idle(s)
      BY <1>3 DEF StopReplaced, End, CloseChannels, LeavesQuietly, Idle
    <2>2. \E p \in {"ending", "closed", "gone"} : pc' = [pc EXCEPT ![s] = p]
      BY <1>3 DEF StopReplaced, End, CloseChannels
    <2>3. TypeOK'
      BY <2>1, <2>2 DEF TypeOK
    <2>4. LeavesQuietly'
      BY <2>1, <2>2 DEF LeavesQuietly, Idle, TypeOK
    <2>5. \A t \in Sessions : pc'[t] = "serving" => pc[t] = "serving"
      BY <2>2 DEF TypeOK
    <2>. QED  BY <2>1, <2>3, <2>4, <2>5, QuietStepSound
  <1>. QED  BY <1>1, <1>2, <1>3

(* Dropping a registration that is held nowhere any more takes its own     *)
(* entry, and no other session's.                                          *)
LEMMA DropSound ==
    ASSUME IInv, NEW s \in Sessions, DropDisplaced(s) \/ DropRegistration(s)
    PROVE  IInv'
  <1>. USE DEF IInv
  <1>. DEFINE r == IF DropDisplaced(s) THEN displaced[s] ELSE registration[s]
  <1>1. /\ r \in Registration \cup {NoRegistration}
        /\ announcing[s] = Quiet
        /\ entry' = EntryAfterDrop(r)
        /\ announcing' = [announcing EXCEPT ![s] = [step |-> "read"]]
        /\ UNCHANGED <<next, watch, stop>>
    BY DEF DropDisplaced, DropRegistration, Announce, TypeOK, LeavesQuietly, Idle
  <1>2. \/ /\ DropDisplaced(s) /\ r = displaced[s]
           /\ displaced' = [displaced EXCEPT ![s] = NoRegistration]
           /\ registration' = registration /\ pc' = pc
        \/ /\ DropRegistration(s) /\ r = registration[s] /\ pc[s] = "closed"
           /\ registration' = [registration EXCEPT ![s] = NoRegistration]
           /\ displaced' = displaced /\ pc' = [pc EXCEPT ![s] = "gone"]
    BY DEF DropDisplaced, DropRegistration
  <1>3. /\ entry' \in Connected
        /\ \A d \in Devices :
               \/ entry'[d] = entry[d]
                  /\ (entry[d] = None \/ r # [device |-> d, id |-> entry[d]])
               \/ entry'[d] = None /\ entry[d] = r.id
    BY <1>1, DropFacts
  <1>4. TypeOK'
    <2>1. /\ registration' \in [Sessions -> Registration \cup {NoRegistration}]
          /\ displaced' \in [Sessions -> Registration \cup {NoRegistration}]
          /\ pc' \in [Sessions -> {"accepted", "serving", "ending", "closed", "gone"}]
      BY <1>2 DEF TypeOK
    <2>. QED  BY <1>1, <1>3, <2>1 DEF TypeOK
  <1>5. Issued'
    <2>1. \A d \in Devices : entry'[d] # None => entry'[d] < next'
      BY <1>1, <1>3 DEF Issued
    <2>2. /\ \A t \in Sessions : registration'[t].id # None => registration'[t].id < next'
          /\ \A t \in Sessions : displaced'[t].id # None => displaced'[t].id < next'
      BY <1>1, <1>2 DEF Issued, TypeOK, NoRegistration
    <2>. QED  BY <2>1, <2>2 DEF Issued
  <1>6. Distinct'
    BY <1>2 DEF Distinct, TypeOK, NoRegistration
  <1>7. Listed'
    <2>. SUFFICES ASSUME NEW e \in Devices, entry'[e] # None
                  PROVE  \E t \in Sessions : [device |-> e, id |-> entry'[e]]
                             \in {registration'[t], displaced'[t]}
      BY DEF Listed
    <2>1. entry'[e] = entry[e] /\ r # [device |-> e, id |-> entry[e]]
      BY <1>3
    <2>2. PICK t \in Sessions :
              [device |-> e, id |-> entry[e]] \in {registration[t], displaced[t]}
      BY <2>1 DEF Listed
    <2>. QED  BY <1>2, <2>1, <2>2 DEF TypeOK
  <1>8. LeavesQuietly'
    BY <1>1, <1>2 DEF LeavesQuietly, Idle, DropDisplaced, TypeOK, Quiet
  <1>9. AddressableOrTold'
    <2>. SUFFICES ASSUME NEW t \in Sessions, pc'[t] = "serving", registration'[t].id # None
                  PROVE  \/ entry'[registration'[t].device] = registration'[t].id
                         \/ registration'[t].id \in stop'
                         \/ \E u \in Sessions : announcing'[u] =
                                [step |-> "notify", id |-> registration'[t].id]
      BY DEF AddressableOrTold
    <2>. DEFINE i == registration[t].id
                e == registration[t].device
    <2>1. /\ registration'[t] = registration[t] /\ pc[t] = "serving"
          /\ i # None /\ e \in Devices /\ r.id # i
      BY <1>2 DEF TypeOK, Registration, NoRegistration, Distinct
    <2>2. CASE entry[e] = i
      BY <1>3, <2>1, <2>2
    <2>3. CASE i \in stop
      BY <1>1, <2>1, <2>3
    <2>4. CASE \E u \in Sessions : announcing[u] = [step |-> "notify", id |-> i]
      <3>1. PICK u \in Sessions : announcing[u] = [step |-> "notify", id |-> i]
        BY <2>4
      <3>2. u # s
        BY <1>1, <3>1 DEF Quiet
      <3>3. announcing'[u] = announcing[u]
        BY <1>1, <3>2 DEF TypeOK
      <3>. QED  BY <2>1, <3>1, <3>3
    <2>. QED  BY <2>1, <2>2, <2>3, <2>4 DEF AddressableOrTold
  <1>. QED  BY <1>4, <1>5, <1>6, <1>7, <1>8, <1>9

-----------------------------------------------------------------------------
(* The invariant holds of every behaviour.                                 *)
THEOREM RegistryInvariant == Spec => []IInv
  <1>1. Init => IInv
    BY InitSound
  <1>2. IInv /\ [Next]_vars => IInv'
    <2>. SUFFICES ASSUME IInv, [Next]_vars PROVE IInv'
      OBVIOUS
    <2>1. CASE Next
      <3>1. PICK s \in Sessions : Proceed(s) \/ End(s) \/ \E d \in Devices : Register(s, d)
        BY <2>1 DEF Next
      <3>2. CASE \E d \in Devices : Register(s, d)
        BY <3>2, RegisterSound
      <3>3. CASE Notify(s)
        BY <3>3, NotifySound
      <3>4. CASE DropDisplaced(s) \/ DropRegistration(s)
        BY <3>4, DropSound
      <3>5. CASE \/ AnnounceRead(s) \/ AnnounceSend(s)
                 \/ StopReplaced(s) \/ End(s) \/ CloseChannels(s)
        BY <3>5, QuietStepsSound
      <3>. QED  BY <3>1, <3>2, <3>3, <3>4, <3>5 DEF Proceed
    <2>2. CASE UNCHANGED vars
      BY <2>2 DEF vars, IInv, TypeOK, Issued, Distinct, Listed, LeavesQuietly, Idle,
                  AddressableOrTold
    <2>. QED  BY <2>1, <2>2
  <1>. QED  BY <1>1, <1>2, PTL DEF Spec

(* The registry's state keeps its types; no id is issued past the last.    *)
THEOREM TypeCorrect == Spec => []TypeOK
  BY RegistryInvariant, PTL DEF IInv

(* A serving session is the one its device is reached by, or has been told *)
(* to stop, or is about to be.                                             *)
THEOREM ServingIsAddressable == Spec => []AddressableOrTold
  BY RegistryInvariant, PTL DEF IInv

(* An entry always has a session that has yet to drop it.                  *)
THEOREM EntriesAreOwned == Spec => []NoGhostEntry
  <1>1. IInv => NoGhostEntry
    <2>. SUFFICES ASSUME IInv, NEW d \in Devices, entry[d] # None PROVE Owned(entry[d])
      BY DEF NoGhostEntry
    <2>1. PICK s \in Sessions :
              [device |-> d, id |-> entry[d]] \in {registration[s], displaced[s]}
      BY DEF IInv, Listed
    <2>. QED  BY <2>1 DEF Owned
  <1>. QED  BY <1>1, RegistryInvariant, PTL

-----------------------------------------------------------------------------
(* The delivery of commands.                                               *)

(* A command that no task has yet is in one place at most: the commands    *)
(* among the events, then the one being handed on, then those on the wire, *)
(* are numbered in order.                                                  *)
Increasing(q) == \A i, j \in 1..Len(q) : i < j => q[i] < q[j]
Unbegun ==
    /\ Increasing(events) /\ Increasing(wire)
    /\ \A i \in 1..Len(events) : task[events[i]].step = "none" /\ events[i] <= Len(said)
    /\ \A k \in 1..Len(wire) : task[wire[k]].step = "none" /\ wire[k] <= Len(said)
    /\ handing # 0 => task[handing].step = "none" /\ handing <= Len(said)
    /\ \A i \in 1..Len(events) : handing # 0 => events[i] < handing
    /\ \A k \in 1..Len(wire) : handing < wire[k]
    /\ \A i \in 1..Len(events), k \in 1..Len(wire) : events[i] < wire[k]
    /\ \A m \in Messages : m > Len(said) => task[m].step = "none"

(* How far a task has got: the place of the last request it made.          *)
LastPlace(t) == Place(t) - IF t.step = "asks" THEN 1 ELSE 0

(* The requests a session was given are of its own tasks, in their order,  *)
(* after those taken up, and none is past the last one its task made.      *)
Made(r) == task[r.message].step # "none" /\ Place(r) <= LastPlace(task[r.message])
Before(r, q) == r.message = q.message => Place(r) < Place(q)
InTurn ==
    /\ \A i \in 1..Len(tookUp) : Made(tookUp[i])
    /\ \A s \in SessionIds : \A i \in 1..Len(mailbox[s]) :
         Made(mailbox[s][i]) /\ task[mailbox[s][i].message].session = s
    /\ \A s \in SessionIds : \A i, j \in 1..Len(mailbox[s]) :
         i < j => Before(mailbox[s][i], mailbox[s][j])
    /\ \A s \in SessionIds : \A i \in 1..Len(tookUp), j \in 1..Len(mailbox[s]) :
         Before(tookUp[i], mailbox[s][j])

(* The inductive invariant.                                                *)
DeliveryInv == DeliveryTypeOK /\ Unbegun /\ InTurn /\ ChangesInOrder

Task == [step : {"none", "asks", "waits", "over"}, session : 0..MaxSessions,
         at : Nat, reread : BOOLEAN]

-----------------------------------------------------------------------------
(* The place of a request, or of a task, is a number.                      *)
LEMMA PlaceIsNat ==
    /\ \A r \in Request : Place(r) \in Nat
    /\ \A t \in Task : Place(t) \in Nat /\ LastPlace(t) \in Int
  BY DEF Place, LastPlace, Request, Task

(* What a task may go on to.                                               *)
Reads(t) == TaskAt("asks", t.session, t.at, TRUE)
Moves(t) == TaskAt("asks", t.session, t.at + 1, FALSE)
Stops(t) == [t EXCEPT !.step = "over"]
Ahead(t, u) ==
    u \in Task /\ u.step # "none" /\ u.session = t.session /\ LastPlace(t) <= LastPlace(u)
LEMMA StepsAhead ==
    ASSUME NEW t \in Task, t.step \in {"asks", "waits"}
    PROVE  (~ t.reread => Ahead(t, Reads(t))) /\ Ahead(t, Moves(t)) /\ Ahead(t, Stops(t))
  <1>1. t.at \in Nat /\ t.reread \in BOOLEAN /\ t.session \in 0..MaxSessions
    BY DEF Task
  <1>2. t = [step |-> t.step, session |-> t.session, at |-> t.at, reread |-> t.reread]
    BY DEF Task
  <1>3. Reads(t) = [step |-> "asks", session |-> t.session, at |-> t.at, reread |-> TRUE]
    BY DEF Reads, TaskAt
  <1>4. Moves(t) = [step |-> "asks", session |-> t.session, at |-> t.at + 1, reread |-> FALSE]
    BY DEF Moves, TaskAt
  <1>5. Stops(t) = [step |-> "over", session |-> t.session, at |-> t.at, reread |-> t.reread]
    BY <1>2 DEF Stops
  <1>6. ~ t.reread => Ahead(t, Reads(t))
    BY <1>1, <1>3 DEF Ahead, Task, LastPlace, Place
  <1>7. Ahead(t, Moves(t))
    BY <1>1, <1>4 DEF Ahead, Task, LastPlace, Place
  <1>8. Ahead(t, Stops(t))
    BY <1>1, <1>5 DEF Ahead, Task, LastPlace, Place
  <1>. QED  BY <1>6, <1>7, <1>8

(* A task that goes on keeps its session, and never goes back.             *)
LEMMA OnwardsAhead ==
    ASSUME DeliveryTypeOK, NEW m \in Messages, NEW stored \in BOOLEAN,
           task[m].step \in {"asks", "waits"}
    PROVE  Ahead(task[m], Onwards(m, stored))
  <1>1. task[m] \in Task
    BY DEF DeliveryTypeOK, Task
  <1>2. \/ Onwards(m, stored) = Reads(task[m]) /\ ~ task[m].reread
        \/ Onwards(m, stored) = Moves(task[m])
        \/ Onwards(m, stored) = Stops(task[m])
    BY DEF Onwards, Reads, Moves, Stops
  <1>. QED  BY <1>1, <1>2, StepsAhead

(* What was asked for stays so while tasks go on.                          *)
GoesOn ==
    \A m \in Messages : task[m].step # "none" =>
        /\ task'[m].step # "none" /\ task'[m].session = task[m].session
        /\ LastPlace(task[m]) <= LastPlace(task'[m])
LEMMA MadeKept ==
    ASSUME DeliveryTypeOK, DeliveryTypeOK', GoesOn, NEW r \in Request, Made(r)
    PROVE  Made(r)'
  <1>1. r.message \in Messages
    BY DEF Request
  <1>2. task[r.message] \in Task /\ task'[r.message] \in Task
    BY <1>1 DEF DeliveryTypeOK, Task
  <1>3. /\ Place(r) \in Nat
        /\ LastPlace(task[r.message]) \in Int /\ LastPlace(task'[r.message]) \in Int
    BY <1>2, PlaceIsNat
  <1>. QED  BY <1>1, <1>3 DEF Made, GoesOn

(* The requests made stay in turn while tasks go on and mailboxes are      *)
(* emptied.                                                                *)
LEMMA InTurnKept ==
    ASSUME DeliveryTypeOK, DeliveryTypeOK', InTurn, GoesOn, tookUp' = tookUp,
           \A s \in SessionIds : mailbox'[s] \in {mailbox[s], <<>>}
    PROVE  InTurn'
  <1>1. \A r \in Request : Made(r) => Made(r)'
    BY MadeKept
  <1>2. /\ \A i \in 1..Len(tookUp) : tookUp[i] \in Request
        /\ \A s \in SessionIds : \A i \in 1..Len(mailbox[s]) : mailbox[s][i] \in Request
    BY ElementOfSeq DEF DeliveryTypeOK
  <1>3. \A s \in SessionIds : mailbox'[s] = mailbox[s] \/ Len(mailbox'[s]) = 0
    BY EmptySeq
  <1>4. \A i \in 1..Len(tookUp') : Made(tookUp[i])'
    BY <1>1, <1>2 DEF InTurn
  <1>5. ASSUME NEW s \in SessionIds, NEW i \in 1..Len(mailbox'[s])
        PROVE  Made(mailbox[s][i])' /\ task'[mailbox'[s][i].message].session = s
    <2>. DEFINE r == mailbox[s][i]
    <2>1. mailbox'[s][i] = r /\ i \in 1..Len(mailbox[s])
      BY <1>3
    <2>2. r \in Request /\ Made(r) /\ task[r.message].session = s
      BY <1>2, <2>1 DEF InTurn
    <2>. HIDE DEF r
    <2>3. task'[r.message].session = s
      BY <2>2 DEF GoesOn, Request, Made
    <2>. QED  BY <1>1, <2>1, <2>2, <2>3
  <1>. QED  BY <1>2, <1>3, <1>4, <1>5 DEF InTurn, Before

(* The messages in the broker client's places are messages.                *)
LEMMA QueuesTyped ==
    ASSUME DeliveryTypeOK
    PROVE  /\ \A i \in 1..Len(events) : events[i] \in Messages /\ events[i] \in Nat \ {0}
           /\ \A k \in 1..Len(wire) : wire[k] \in Messages /\ wire[k] \in Nat \ {0}
           /\ handing \in Nat /\ (handing # 0 => handing \in Messages)
           /\ Len(events) \in Nat /\ Len(wire) \in Nat /\ Len(said) \in Nat
  <1>1. \A m \in Messages : m \in Nat \ {0}
    BY DEF Messages
  <1>2. handing \in Nat /\ (handing # 0 => handing \in Messages)
    BY DeliveryAssumption DEF DeliveryTypeOK, Messages
  <1>3. wire \in Seq(Messages) /\ events \in Seq(Messages) /\ said \in Seq(Payloads)
    BY DEF DeliveryTypeOK
  <1>4. /\ \A i \in 1..Len(events) : events[i] \in Messages
        /\ \A k \in 1..Len(wire) : wire[k] \in Messages
    BY <1>3, ElementOfSeq
  <1>5. Len(events) \in Nat /\ Len(wire) \in Nat /\ Len(said) \in Nat
    BY <1>3, LenProperties
  <1>. QED  BY <1>1, <1>2, <1>4, <1>5

(* What is told of them stays true while no task begins.                   *)
NoneBegins == \A m \in Messages : task[m].step = "none" => task'[m].step = "none"
LEMMA UnbegunKept ==
    ASSUME DeliveryTypeOK, Unbegun, NoneBegins, UNCHANGED brokerVars
    PROVE  Unbegun'
  <1>. QED  BY QueuesTyped DEF Unbegun, NoneBegins, brokerVars, Increasing

-----------------------------------------------------------------------------
LEMMA InitEstablishes == DeliveryInit => DeliveryInv
  <1>. SUFFICES ASSUME DeliveryInit PROVE DeliveryInv
    OBVIOUS
  <1>. USE DeliveryAssumption
  <1>1. Len(<<>>) = 0
    OBVIOUS
  <1>2. DeliveryTypeOK
    BY <1>1 DEF DeliveryInit, DeliveryTypeOK, TaskAt, Nobody
  <1>3. Unbegun
    BY <1>1 DEF DeliveryInit, Unbegun, Increasing, TaskAt
  <1>4. InTurn /\ ChangesInOrder
    BY <1>1 DEF DeliveryInit, InTurn, ChangesInOrder
  <1>. QED  BY <1>2, <1>3, <1>4 DEF DeliveryInv

(* The broker's steps leave every task and request alone.                  *)
LEMMA NothingMade ==
    ASSUME DeliveryTypeOK, DeliveryTypeOK', InTurn, ChangesInOrder,
           UNCHANGED <<task, mailbox, tookUp>>
    PROVE  InTurn' /\ ChangesInOrder'
  <1>1. GoesOn
    <2>1. \A m \in Messages : task[m] \in Task
      BY DEF DeliveryTypeOK, Task
    <2>. QED  BY <2>1, PlaceIsNat DEF GoesOn
  <1>2. InTurn'
    BY <1>1, InTurnKept
  <1>. QED  BY <1>2 DEF ChangesInOrder

LEMMA SaysPreserves == ASSUME DeliveryInv, NEW p \in Payloads, Says(p) PROVE DeliveryInv'
  <1>. USE DeliveryAssumption DEF DeliveryInv
  <1>1. /\ said \in Seq(Payloads) /\ Len(said) \in Nat /\ Len(said) < MaxMessages
        /\ said' = Append(said, p) /\ Len(said') = Len(said) + 1
        /\ wire' = Append(wire, Len(said) + 1)
        /\ Len(said) + 1 \in Messages
    BY AppendProperties, LenProperties DEF Says, DeliveryTypeOK, Messages
  <1>2. /\ wire \in Seq(Messages) /\ Len(wire) \in Nat
        /\ wire' \in Seq(Messages) /\ Len(wire') = Len(wire) + 1
        /\ \A k \in 1..Len(wire) : wire'[k] = wire[k]
        /\ wire'[Len(wire) + 1] = Len(said) + 1
    BY <1>1, AppendProperties, LenProperties DEF DeliveryTypeOK
  <1>3. UNCHANGED <<handing, events, task, sessionVars>>
    BY DEF Says
  <1>4. DeliveryTypeOK'
    BY <1>1, <1>2, <1>3, AppendProperties DEF DeliveryTypeOK, sessionVars
  <1>5. Unbegun'
    <2>1. /\ \A i \in 1..Len(events) : events[i] \in Nat
          /\ \A k \in 1..Len(wire) : wire[k] \in Nat
          /\ handing \in Nat
      BY QueuesTyped
    <2>2. ASSUME NEW k \in 1..Len(wire')
          PROVE  \/ k \in 1..Len(wire) /\ wire'[k] = wire[k]
                 \/ k = Len(wire) + 1 /\ wire'[k] = Len(said) + 1
      BY <1>2
    <2>3. /\ task[Len(said) + 1].step = "none"
          /\ \A k \in 1..Len(wire) : wire[k] < Len(said) + 1
          /\ \A i \in 1..Len(events) : events[i] < Len(said) + 1
          /\ handing < Len(said) + 1
      BY <1>1, <2>1 DEF Unbegun
    <2>4. Increasing(wire')
      BY <1>2, <2>2, <2>3 DEF Unbegun, Increasing
    <2>. QED  BY <1>1, <1>3, <2>1, <2>2, <2>3, <2>4 DEF Unbegun, Increasing, Messages
  <1>6. InTurn' /\ ChangesInOrder'
    BY <1>3, <1>4, NothingMade DEF sessionVars
  <1>. QED  BY <1>4, <1>5, <1>6

LEMMA BreaksPreserves == ASSUME DeliveryInv, Breaks PROVE DeliveryInv'
  <1>. USE DEF DeliveryInv
  <1>1. /\ wire' = <<>> /\ Len(<<>>) = 0
        /\ UNCHANGED <<handing, events, said, task, sessionVars>>
    BY DEF Breaks
  <1>2. DeliveryTypeOK'
    BY <1>1, EmptySeq DEF DeliveryTypeOK, sessionVars
  <1>3. Unbegun'
    BY <1>1 DEF Unbegun, Increasing
  <1>. QED  BY <1>1, <1>2, <1>3, NothingMade DEF sessionVars

(* What a queue is after its first is taken.                               *)
LEMMA TailFacts ==
    ASSUME NEW S, NEW q \in Seq(S), q # <<>>
    PROVE  /\ Tail(q) \in Seq(S) /\ Len(q) \in Nat /\ Len(Tail(q)) = Len(q) - 1
           /\ Len(q) >= 1 /\ Head(q) = q[1] /\ Head(q) \in S
           /\ \A i \in 1..Len(Tail(q)) : i + 1 \in 1..Len(q) /\ Tail(q)[i] = q[i + 1]
  BY HeadTailProperties, LenProperties, EmptySeq

LEMMA DeliverPreserves == ASSUME DeliveryInv, Deliver PROVE DeliveryInv'
  <1>. USE DeliveryAssumption DEF DeliveryInv
  <1>1. /\ handing = 0 /\ wire # <<>> /\ handing' = wire[1] /\ wire' = Tail(wire)
        /\ UNCHANGED <<events, said, task, sessionVars>>
        /\ wire \in Seq(Messages) /\ wire[1] \in Messages
    BY TailFacts DEF Deliver, DeliveryTypeOK
  <1>2. /\ Len(wire) \in Nat /\ Len(wire) >= 1 /\ Len(wire') = Len(wire) - 1
        /\ wire' \in Seq(Messages)
        /\ \A i \in 1..Len(wire') : i + 1 \in 1..Len(wire) /\ wire'[i] = wire[i + 1]
    BY <1>1, TailFacts
  <1>3. DeliveryTypeOK'
    <2>1. handing' \in 0..MaxMessages
      BY <1>1 DEF Messages
    <2>. QED  BY <1>1, <1>2, <2>1 DEF DeliveryTypeOK, sessionVars
  <1>4. Unbegun'
    BY <1>1, <1>2, QueuesTyped DEF Unbegun, Increasing
  <1>. QED  BY <1>1, <1>3, <1>4, NothingMade DEF sessionVars

LEMMA HandsOnPreserves == ASSUME DeliveryInv, HandsOn PROVE DeliveryInv'
  <1>. USE DeliveryAssumption DEF DeliveryInv
  <1>1. /\ handing # 0 /\ handing \in Messages /\ handing' = 0
        /\ Len(events) < EventsDepth
        /\ events' = Append(events, handing)
        /\ UNCHANGED <<wire, said, task, sessionVars>>
    BY DEF HandsOn, DeliveryTypeOK, Messages
  <1>2. /\ events \in Seq(Messages) /\ Len(events) \in Nat
        /\ events' \in Seq(Messages) /\ Len(events') = Len(events) + 1
        /\ \A i \in 1..Len(events) : events'[i] = events[i]
        /\ events'[Len(events) + 1] = handing
    BY <1>1, AppendProperties, LenProperties DEF DeliveryTypeOK
  <1>3. DeliveryTypeOK'
    BY <1>1, <1>2 DEF DeliveryTypeOK, sessionVars
  <1>4. Unbegun'
    <2>1. /\ \A i \in 1..Len(events) : events[i] \in Nat
          /\ \A k \in 1..Len(wire) : wire[k] \in Nat
          /\ handing \in Nat
      BY QueuesTyped
    <2>2. ASSUME NEW i \in 1..Len(events')
          PROVE  \/ i \in 1..Len(events) /\ events'[i] = events[i]
                 \/ i = Len(events) + 1 /\ events'[i] = handing
      BY <1>2
    <2>3. Increasing(events')
      BY <1>1, <1>2, <2>2 DEF Unbegun, Increasing
    <2>4. \A k \in 1..Len(wire) : 0 < wire[k]
      BY QueuesTyped
    <2>. QED  BY <1>1, <2>1, <2>2, <2>3, <2>4 DEF Unbegun, Increasing
  <1>. QED  BY <1>1, <1>3, <1>4, NothingMade DEF sessionVars

LEMMA HandleCommandPreserves == ASSUME DeliveryInv, HandleCommand PROVE DeliveryInv'
  <1>. USE DeliveryAssumption DEF DeliveryInv
  <1>. DEFINE m == events[1]
  <1>1. /\ events \in Seq(Messages) /\ events # <<>>
        /\ events' = Tail(events) /\ Head(events) = m
        /\ UNCHANGED <<wire, handing, said, sessionVars>>
    BY TailFacts DEF HandleCommand, DeliveryTypeOK
  <1>2. /\ Len(events) \in Nat /\ Len(events) >= 1 /\ Len(events') = Len(events) - 1
        /\ events' \in Seq(Messages) /\ m \in Messages
        /\ \A i \in 1..Len(events') : i + 1 \in 1..Len(events) /\ events'[i] = events[i + 1]
    BY <1>1, TailFacts
  <1>3. task[m].step = "none" /\ task[m] \in Task /\ registered \in 0..MaxSessions
    BY <1>2 DEF Unbegun, DeliveryTypeOK, Task
  <1>4. PICK t \in Task : task' = [task EXCEPT ![m] = t]
    <2>1. \/ task' = [task EXCEPT ![m] = Stops(task[m])]
          \/ task' = [task EXCEPT ![m] = TaskAt("asks", registered, 1, FALSE)]
      BY <1>1 DEF HandleCommand, Stops
    <2>2. Stops(task[m]) \in Task /\ TaskAt("asks", registered, 1, FALSE) \in Task
      BY <1>3 DEF Stops, TaskAt, Task
    <2>. QED  BY <2>1, <2>2
  <1>5. DeliveryTypeOK'
    BY <1>1, <1>2, <1>4 DEF DeliveryTypeOK, sessionVars, Task
  <1>6. \A n \in Messages : n # m => task'[n] = task[n]
    BY <1>4 DEF DeliveryTypeOK
  <1>7. Unbegun'
    <2>. HIDE DEF m
    <2>1. /\ \A i \in 1..Len(events') : events[i + 1] \in Messages /\ m < events[i + 1]
                                      /\ task[events[i + 1]].step = "none"
      BY <1>2, QueuesTyped DEF Unbegun, Increasing, m
    <2>2. /\ \A k \in 1..Len(wire) : wire[k] \in Messages /\ m < wire[k]
          /\ handing # 0 => handing \in Messages /\ m < handing
          /\ m <= Len(said) /\ m \in Nat /\ Len(said) \in Nat
      BY <1>2, QueuesTyped DEF Unbegun, m
    <2>3. \A n \in Messages : n \in Nat /\ (m < n => task'[n] = task[n])
      BY <1>6, <2>2 DEF Messages
    <2>4. /\ \A i \in 1..Len(events') : task'[events'[i]].step = "none"
          /\ \A k \in 1..Len(wire) : task'[wire[k]].step = "none"
          /\ handing # 0 => task'[handing].step = "none"
      <3>1. ASSUME NEW i \in 1..Len(events') PROVE task'[events'[i]].step = "none"
        <4>1. events'[i] = events[i + 1]
          BY <1>2
        <4>2. /\ events[i + 1] \in Messages /\ m < events[i + 1]
              /\ task[events[i + 1]].step = "none"
          BY <2>1
        <4>3. task'[events[i + 1]] = task[events[i + 1]]
          BY <4>2, <2>3
        <4>. QED  BY <4>1, <4>2, <4>3
      <3>2. \A k \in 1..Len(wire) : task'[wire[k]].step = "none"
        BY <2>2, <2>3 DEF Unbegun
      <3>3. handing # 0 => task'[handing].step = "none"
        BY <2>2, <2>3 DEF Unbegun
      <3>. QED  BY <3>1, <3>2, <3>3
    <2>5. \A n \in Messages : n > Len(said) => task'[n].step = "none"
      BY <2>2, <2>3 DEF Unbegun
    <2>6. Increasing(events')
      <3>1. ASSUME NEW i \in 1..Len(events'), NEW j \in 1..Len(events'), i < j
            PROVE  events'[i] < events'[j]
        <4>1. i + 1 \in 1..Len(events) /\ j + 1 \in 1..Len(events) /\ i + 1 < j + 1
          BY <1>2, <3>1
        <4>2. events[i + 1] < events[j + 1]
          BY <4>1 DEF Unbegun, Increasing
        <4>. QED  BY <4>2, <1>2
      <3>. QED  BY <3>1 DEF Increasing
    <2>. QED  BY <1>1, <1>2, <2>4, <2>5, <2>6, QueuesTyped DEF Unbegun
  <1>8. GoesOn
    <2>1. \A n \in Messages : task[n] \in Task
      BY DEF DeliveryTypeOK, Task
    <2>. QED  BY <1>3, <1>6, <2>1, PlaceIsNat DEF GoesOn
  <1>9. InTurn' /\ ChangesInOrder'
    BY <1>1, <1>5, <1>8, InTurnKept DEF sessionVars, ChangesInOrder
  <1>. QED  BY <1>5, <1>7, <1>9

(* Any number of tasks go on, and mailboxes may be emptied.                *)
Onward(m) == \E stored \in BOOLEAN : task'[m] = Onwards(m, stored)
LEMMA TasksGoOn ==
    ASSUME DeliveryInv, UNCHANGED brokerVars, tookUp' = tookUp,
           task' \in [Messages -> Task],
           \A m \in Messages :
               \/ task'[m] = task[m]
               \/ task[m].step \in {"asks", "waits"} /\ Onward(m),
           \A s \in SessionIds : mailbox'[s] \in {mailbox[s], <<>>},
           mailbox' \in [SessionIds -> Seq(Request)],
           owed' \in [SessionIds -> SUBSET Request],
           registered' \in 0..MaxSessions, began' \in 0..MaxSessions, alive' \subseteq SessionIds
    PROVE  DeliveryInv'
  <1>. USE DeliveryAssumption DEF DeliveryInv
  <1>1. \A m \in Messages : task[m] \in Task
    BY DEF DeliveryTypeOK, Task
  <1>2. ASSUME NEW m \in Messages
        PROVE  task'[m] = task[m] \/ (task[m].step # "none" /\ Ahead(task[m], task'[m]))
    BY OnwardsAhead DEF Onward
  <1>3. GoesOn /\ NoneBegins
    BY <1>1, <1>2, PlaceIsNat DEF GoesOn, NoneBegins, Ahead
  <1>4. \A s \in SessionIds : Len(mailbox'[s]) <= MailboxDepth
    <2>1. Len(<<>>) = 0
      OBVIOUS
    <2>. QED  BY <2>1 DEF DeliveryTypeOK
  <1>5. DeliveryTypeOK'
    BY <1>4 DEF DeliveryTypeOK, Task, brokerVars
  <1>6. InTurn'
    BY <1>3, <1>5, InTurnKept
  <1>. QED  BY <1>3, <1>5, <1>6, UnbegunKept DEF ChangesInOrder

LEMMA TimesOutPreserves == ASSUME DeliveryInv, NEW m \in Messages, TimesOut(m) PROVE DeliveryInv'
  <1>1. /\ task[m].step = "waits" /\ task' = [task EXCEPT ![m] = Onwards(m, FALSE)]
        /\ UNCHANGED <<brokerVars, sessionVars>>
    BY DEF TimesOut
  <1>2. Onwards(m, FALSE) \in Task /\ task \in [Messages -> Task]
    BY <1>1, OnwardsAhead DEF Ahead, DeliveryInv, DeliveryTypeOK, Task
  <1>3. \A n \in Messages : task'[n] = task[n] \/ (n = m /\ Onward(n))
    BY <1>1, <1>2 DEF Onward
  <1>. QED
    BY <1>1, <1>2, <1>3, TasksGoOn DEF DeliveryInv, DeliveryTypeOK, sessionVars

LEMMA AnswersPreserves == ASSUME DeliveryInv, NEW s \in SessionIds, Answers(s) PROVE DeliveryInv'
  <1>1. PICK r \in owed[s] :
          /\ owed' = [owed EXCEPT ![s] = @ \ {r}]
          /\ task' = IF WaitsFor(r) THEN [task EXCEPT ![r.message] = Onwards(r.message, TRUE)] ELSE task
    BY DEF Answers
  <1>2. UNCHANGED <<brokerVars, registered, began, alive, mailbox, tookUp>>
    BY DEF Answers
  <1>3. r \in Request /\ r.message \in Messages /\ task \in [Messages -> Task]
    BY DEF DeliveryInv, DeliveryTypeOK, Request, Task
  <1>4. WaitsFor(r) => Onwards(r.message, TRUE) \in Task /\ task[r.message].step = "waits"
    BY <1>3, OnwardsAhead DEF WaitsFor, Ahead, DeliveryInv
  <1>5. /\ task' \in [Messages -> Task]
        /\ \A n \in Messages :
             task'[n] = task[n] \/ (task[n].step = "waits" /\ Onward(n))
    BY <1>1, <1>3, <1>4 DEF Onward
  <1>6. owed' \in [SessionIds -> SUBSET Request]
    BY <1>1 DEF DeliveryInv, DeliveryTypeOK
  <1>. QED
    BY <1>2, <1>5, <1>6, TasksGoOn DEF DeliveryInv, DeliveryTypeOK

LEMMA EndsPreserves == ASSUME DeliveryInv, NEW s \in SessionIds, Ends(s) PROVE DeliveryInv'
  <1>1. /\ alive' = alive \ {s}
        /\ mailbox' = [mailbox EXCEPT ![s] = <<>>] /\ owed' = [owed EXCEPT ![s] = {}]
        /\ task' = [m \in Messages |->
             IF task[m].step = "waits" /\ task[m].session = s THEN Onwards(m, FALSE) ELSE task[m]]
        /\ UNCHANGED <<brokerVars, registered, began, tookUp>>
    BY DEF Ends
  <1>2. \A m \in Messages :
          \/ task'[m] = task[m]
          \/ task[m].step = "waits" /\ Onward(m) /\ task'[m] \in Task
    BY <1>1, OnwardsAhead DEF Ahead, Onward, DeliveryInv
  <1>3. task' \in [Messages -> Task]
    BY <1>1, <1>2 DEF DeliveryInv, DeliveryTypeOK, Task
  <1>4. /\ \A q \in SessionIds : mailbox'[q] \in {mailbox[q], <<>>}
        /\ mailbox' \in [SessionIds -> Seq(Request)]
        /\ owed' \in [SessionIds -> SUBSET Request]
        /\ alive' \subseteq SessionIds
    BY <1>1, EmptySeq DEF DeliveryInv, DeliveryTypeOK
  <1>. QED
    BY <1>1, <1>2, <1>3, <1>4, TasksGoOn DEF DeliveryInv, DeliveryTypeOK

LEMMA RegistersPreserves == ASSUME DeliveryInv, Registers PROVE DeliveryInv'
  <1>1. /\ began < MaxSessions /\ began' = began + 1
        /\ registered' = began + 1 /\ alive' = alive \cup {began + 1}
        /\ UNCHANGED <<brokerVars, task, mailbox, owed, tookUp>>
    BY DEF Registers
  <1>2. began' \in 0..MaxSessions /\ registered' \in 0..MaxSessions /\ alive' \subseteq SessionIds
    BY <1>1, DeliveryAssumption DEF DeliveryInv, DeliveryTypeOK, SessionIds
  <1>. QED
    BY <1>1, <1>2, TasksGoOn DEF DeliveryInv, DeliveryTypeOK, Task

LEMMA DropsRegistrationPreserves == ASSUME DeliveryInv, DropsRegistration PROVE DeliveryInv'
  <1>1. /\ registered' = 0
        /\ UNCHANGED <<brokerVars, task, began, alive, mailbox, owed, tookUp>>
    BY DEF DropsRegistration, Nobody
  <1>2. registered' \in 0..MaxSessions
    BY <1>1, DeliveryAssumption
  <1>. QED
    BY <1>1, <1>2, TasksGoOn DEF DeliveryInv, DeliveryTypeOK, Task

(* The request a task makes is past all that were made for its command.    *)
LEMMA AsksPreserves == ASSUME DeliveryInv, NEW m \in Messages, Asks(m) PROVE DeliveryInv'
  <1>. USE DeliveryAssumption DEF DeliveryInv
  <1>. DEFINE room == task[m].session \in alive /\ Len(mailbox[task[m].session]) < MailboxDepth
  <1>1. PICK t \in Task : t = task[m]
    BY DEF DeliveryTypeOK, Task
  <1>2. /\ t.step = "asks" /\ task \in [Messages -> Task]
        /\ \A n \in Messages : task[n] \in Task
        /\ UNCHANGED <<brokerVars, registered, began, alive, owed, tookUp>>
    BY <1>1 DEF Asks, CarryOut, DeliveryTypeOK, Task
  <1>3. CASE ~ room
    <2>1. task' = [task EXCEPT ![m] = Onwards(m, FALSE)] /\ mailbox' = mailbox
      BY <1>3 DEF Asks, CarryOut
    <2>2. Onwards(m, FALSE) \in Task
      BY <1>1, <1>2, OnwardsAhead DEF Ahead
    <2>3. \A n \in Messages : task'[n] = task[n] \/ (n = m /\ Onward(n))
      BY <1>2, <2>1 DEF Onward
    <2>. QED
      BY <1>1, <1>2, <2>1, <2>2, <2>3, TasksGoOn DEF DeliveryTypeOK
  <1>4. CASE room
    <2>1. PICK s \in SessionIds : s = t.session
      BY <1>1, <1>4 DEF DeliveryTypeOK
    <2>2. t.at \in Nat /\ t.reread \in BOOLEAN /\ s \in 0..MaxSessions
      BY <2>1 DEF Task
    <2>3. PICK r \in Request : r = [message |-> m, at |-> t.at, reread |-> t.reread]
      BY <2>2 DEF Request
    <2>4. PICK u \in Task : u = [step |-> "waits", session |-> s, at |-> t.at, reread |-> t.reread]
      BY <2>2 DEF Task
    <2>5. /\ mailbox' = [mailbox EXCEPT ![s] = Append(@, r)] /\ task' = [task EXCEPT ![m] = u]
          /\ Len(mailbox[s]) < MailboxDepth
      BY <1>1, <1>4, <2>1, <2>3, <2>4 DEF Asks, CarryOut, RequestOf, TaskAt
    <2>6. /\ Place(r) \in Nat /\ LastPlace(u) = Place(r) /\ LastPlace(t) = Place(r) - 1
          /\ r.message = m /\ u.step = "waits" /\ u.session = s
      BY <1>2, <2>2, <2>3, <2>4 DEF LastPlace, Place
    <2>7. /\ mailbox[s] \in Seq(Request) /\ Len(mailbox[s]) \in Nat
          /\ mailbox'[s] = Append(mailbox[s], r)
          /\ mailbox'[s] \in Seq(Request) /\ Len(mailbox'[s]) = Len(mailbox[s]) + 1
          /\ \A i \in 1..Len(mailbox[s]) : mailbox'[s][i] = mailbox[s][i]
          /\ mailbox'[s][Len(mailbox[s]) + 1] = r
          /\ \A q \in SessionIds : q # s => mailbox'[q] = mailbox[q]
      BY <2>5, <2>3, AppendProperties, LenProperties DEF DeliveryTypeOK
    <2>8. task'[m] = u /\ task' \in [Messages -> Task] /\ \A n \in Messages : n # m => task'[n] = task[n]
      BY <1>2, <2>5, <2>3
    <2>9. DeliveryTypeOK'
      <3>1. mailbox' \in [SessionIds -> Seq(Request)]
        BY <2>5, <2>7 DEF DeliveryTypeOK
      <3>2. \A q \in SessionIds : Len(mailbox'[q]) <= MailboxDepth
        BY <2>5, <2>7 DEF DeliveryTypeOK
      <3>. QED  BY <1>2, <2>8, <3>1, <3>2 DEF DeliveryTypeOK, Task, brokerVars
    <2>10. GoesOn /\ NoneBegins
      <3>1. LastPlace(t) <= LastPlace(u) /\ u.step # "none" /\ u.session = t.session /\ t = task[m]
            /\ t.step # "none"
        BY <1>1, <1>2, <2>1, <2>6
      <3>2. ASSUME NEW n \in Messages
            PROVE  /\ task[n].step = "none" => task'[n].step = "none"
                   /\ task[n].step # "none" =>
                        /\ task'[n].step # "none" /\ task'[n].session = task[n].session
                        /\ LastPlace(task[n]) <= LastPlace(task'[n])
        <4>1. CASE n = m
          BY <2>8, <3>1, <4>1
        <4>2. CASE n # m
          <5>1. task'[n] = task[n] /\ LastPlace(task[n]) \in Int
            BY <1>2, <2>8, <4>2, PlaceIsNat
          <5>. QED  BY <5>1
        <4>. QED  BY <4>1, <4>2
      <3>. QED  BY <3>2 DEF GoesOn, NoneBegins
    <2>11. \A q \in Request : Made(q) => Made(q)' /\ Before(q, r)
      <3>1. ASSUME NEW q \in Request, Made(q) PROVE Before(q, r)
        BY <2>6, <3>1, <1>1, PlaceIsNat DEF Made, Before
      <3>. QED  BY <2>9, <2>10, <3>1, MadeKept
    <2>12. Made(r)' /\ task'[r.message].session = s
      BY <2>6, <2>8 DEF Made
    <2>13. InTurn'
      <3>1. /\ \A i \in 1..Len(tookUp) : tookUp[i] \in Request /\ Made(tookUp[i])
            /\ \A q \in SessionIds : \A i \in 1..Len(mailbox[q]) :
                 mailbox[q][i] \in Request /\ Made(mailbox[q][i])
        BY ElementOfSeq DEF DeliveryTypeOK, InTurn
      <3>2. ASSUME NEW j \in 1..Len(mailbox'[s])
            PROVE  \/ j \in 1..Len(mailbox[s]) /\ mailbox'[s][j] = mailbox[s][j]
                   \/ j = Len(mailbox[s]) + 1 /\ mailbox'[s][j] = r
        BY <2>7
      <3>3. \A i \in 1..Len(tookUp') : Made(tookUp[i])'
        BY <1>2, <2>11, <3>1
      <3>4. ASSUME NEW q \in SessionIds, NEW i \in 1..Len(mailbox'[q])
            PROVE  Made(mailbox[q][i])' /\ task'[mailbox'[q][i].message].session = q
        <4>1. CASE mailbox'[q][i] = r /\ q = s
          BY <2>12, <4>1
        <4>2. CASE i \in 1..Len(mailbox[q]) /\ mailbox'[q][i] = mailbox[q][i]
          <5>1. /\ mailbox[q][i] \in Request /\ Made(mailbox[q][i])
                /\ task[mailbox[q][i].message].session = q /\ mailbox[q][i].message \in Messages
            BY <3>1, <4>2 DEF InTurn, Request
          <5>. QED  BY <2>10, <2>11, <4>2, <5>1 DEF GoesOn, Made
        <4>. QED  BY <2>7, <3>2, <4>1, <4>2
      <3>5. ASSUME NEW q \in SessionIds, NEW i \in 1..Len(mailbox'[q]), NEW j \in 1..Len(mailbox'[q]), i < j
            PROVE  Before(mailbox'[q][i], mailbox'[q][j])
        <4>1. CASE q # s
          BY <2>7, <3>5, <4>1 DEF InTurn
        <4>2. CASE q = s /\ j \in 1..Len(mailbox[s])
          <5>1. i \in 1..Len(mailbox[s]) /\ j \in 1..Len(mailbox[s])
            BY <2>7, <3>5, <4>2
          <5>. QED  BY <2>7, <3>5, <4>2, <5>1 DEF InTurn
        <4>3. CASE q = s /\ j = Len(mailbox[s]) + 1
          BY <2>5, <2>7, <2>11, <3>1, <3>5, <4>3
        <4>. QED  BY <2>7, <4>1, <4>2, <4>3
      <3>6. ASSUME NEW q \in SessionIds, NEW i \in 1..Len(tookUp'), NEW j \in 1..Len(mailbox'[q])
            PROVE  Before(tookUp'[i], mailbox'[q][j])
        BY <1>2, <2>7, <2>11, <3>1, <3>2 DEF InTurn
      <3>. QED  BY <3>3, <3>4, <3>5, <3>6 DEF InTurn, Before
    <2>. QED  BY <1>2, <2>9, <2>10, <2>13, UnbegunKept DEF ChangesInOrder
  <1>. QED  BY <1>3, <1>4

(* A session takes up what is first in its mailbox: all it took up before  *)
(* is behind that, and that is behind the rest of the mailbox, and behind  *)
(* what is in another, which is for other commands.                        *)
LEMMA TakesPreserves == ASSUME DeliveryInv, NEW s \in SessionIds, Takes(s) PROVE DeliveryInv'
  <1>. USE DeliveryAssumption DEF DeliveryInv
  <1>0. PICK r \in Request : r = mailbox[s][1]
    BY TailFacts DEF Takes, DeliveryTypeOK
  <1>1. /\ mailbox[s] \in Seq(Request) /\ mailbox[s] # <<>> /\ Head(mailbox[s]) = r
        /\ r = mailbox[s][1]
        /\ tookUp' = Append(tookUp, r)
        /\ owed' = [owed EXCEPT ![s] = @ \cup {r}]
        /\ mailbox' = [mailbox EXCEPT ![s] = Tail(@)]
        /\ UNCHANGED <<brokerVars, task, registered, began, alive>>
    BY <1>0, TailFacts DEF Takes, DeliveryTypeOK
  <1>2. /\ Len(mailbox[s]) \in Nat /\ Len(mailbox[s]) >= 1 /\ Len(mailbox'[s]) = Len(mailbox[s]) - 1
        /\ mailbox'[s] \in Seq(Request)
        /\ \A i \in 1..Len(mailbox'[s]) : i + 1 \in 1..Len(mailbox[s]) /\ mailbox'[s][i] = mailbox[s][i + 1]
        /\ \A q \in SessionIds : q # s => mailbox'[q] = mailbox[q]
    BY <1>1, TailFacts DEF DeliveryTypeOK
  <1>3. /\ tookUp \in Seq(Request) /\ Len(tookUp) \in Nat
        /\ tookUp' \in Seq(Request) /\ Len(tookUp') = Len(tookUp) + 1
        /\ \A i \in 1..Len(tookUp) : tookUp'[i] = tookUp[i]
        /\ tookUp'[Len(tookUp) + 1] = r
    BY <1>1, AppendProperties, LenProperties DEF DeliveryTypeOK
  <1>4. DeliveryTypeOK'
    <2>1. mailbox' \in [SessionIds -> Seq(Request)]
      BY <1>1, <1>2 DEF DeliveryTypeOK
    <2>2. \A q \in SessionIds : Len(mailbox'[q]) <= MailboxDepth
      BY <1>2 DEF DeliveryTypeOK
    <2>3. owed' \in [SessionIds -> SUBSET Request]
      BY <1>1 DEF DeliveryTypeOK
    <2>. QED  BY <1>1, <1>3, <2>1, <2>2, <2>3 DEF DeliveryTypeOK, brokerVars
  <1>5. Unbegun'
    BY <1>1, UnbegunKept DEF NoneBegins
  <1>6. /\ Made(r) /\ task[r.message].session = s
        /\ \A i \in 1..Len(tookUp) : Before(tookUp[i], r)
        /\ \A j \in 1..Len(mailbox'[s]) : Before(r, mailbox'[s][j])
    <2>1. 1 \in 1..Len(mailbox[s])
      BY <1>2
    <2>2. Made(r) /\ task[r.message].session = s
      BY <1>1, <2>1 DEF InTurn
    <2>3. \A i \in 1..Len(tookUp) : Before(tookUp[i], r)
      BY <1>1, <2>1 DEF InTurn
    <2>4. ASSUME NEW j \in 1..Len(mailbox'[s]) PROVE Before(r, mailbox'[s][j])
      <3>1. j + 1 \in 1..Len(mailbox[s]) /\ mailbox'[s][j] = mailbox[s][j + 1] /\ 1 < j + 1
        BY <1>2
      <3>. QED  BY <1>1, <2>1, <3>1 DEF InTurn
    <2>. QED  BY <2>2, <2>3, <2>4
  <1>7. ASSUME NEW i \in 1..Len(tookUp')
        PROVE  \/ i \in 1..Len(tookUp) /\ tookUp'[i] = tookUp[i]
               \/ i = Len(tookUp) + 1 /\ tookUp'[i] = r
    BY <1>3
  <1>8. InTurn'
    <2>1. \A i \in 1..Len(tookUp') : Made(tookUp'[i])
      BY <1>6, <1>7 DEF InTurn
    <2>2. ASSUME NEW q \in SessionIds, NEW i \in 1..Len(mailbox'[q])
          PROVE  Made(mailbox'[q][i]) /\ task[mailbox'[q][i].message].session = q
      <3>1. CASE q = s
        <4>1. i + 1 \in 1..Len(mailbox[s]) /\ mailbox'[s][i] = mailbox[s][i + 1]
          BY <1>2, <3>1
        <4>. QED  BY <3>1, <4>1 DEF InTurn
      <3>2. CASE q # s
        BY <1>2, <3>2 DEF InTurn
      <3>. QED  BY <3>1, <3>2
    <2>3. ASSUME NEW q \in SessionIds, NEW i \in 1..Len(mailbox'[q]), NEW j \in 1..Len(mailbox'[q]), i < j
          PROVE  Before(mailbox'[q][i], mailbox'[q][j])
      <3>1. CASE q = s
        <4>1. /\ i + 1 \in 1..Len(mailbox[s]) /\ j + 1 \in 1..Len(mailbox[s]) /\ i + 1 < j + 1
              /\ mailbox'[s][i] = mailbox[s][i + 1] /\ mailbox'[s][j] = mailbox[s][j + 1]
          BY <1>2, <2>3, <3>1
        <4>. QED  BY <3>1, <4>1 DEF InTurn
      <3>2. CASE q # s
        BY <1>2, <2>3, <3>2 DEF InTurn
      <3>. QED  BY <3>1, <3>2
    <2>4. ASSUME NEW q \in SessionIds, NEW j \in 1..Len(mailbox'[q]) PROVE Before(r, mailbox'[q][j])
      BY <1>2, <1>6, <2>2 DEF Before
    <2>5. ASSUME NEW q \in SessionIds, NEW i \in 1..Len(tookUp), NEW j \in 1..Len(mailbox'[q])
          PROVE  Before(tookUp[i], mailbox'[q][j])
      <3>1. CASE q = s
        BY <1>2, <3>1 DEF InTurn
      <3>2. CASE q # s
        BY <1>2, <3>2 DEF InTurn
      <3>. QED  BY <3>1, <3>2
    <2>6. \A q \in SessionIds : \A i \in 1..Len(tookUp'), j \in 1..Len(mailbox'[q]) :
             Before(tookUp'[i], mailbox'[q][j])
      BY <1>7, <2>4, <2>5
    <2>7. /\ \A i \in 1..Len(tookUp') : Made(tookUp[i])'
          /\ \A q \in SessionIds : \A i \in 1..Len(mailbox'[q]) :
               Made(mailbox[q][i])' /\ task'[mailbox'[q][i].message].session = q
      BY <1>1, <2>1, <2>2 DEF Made
    <2>8. /\ \A q \in SessionIds : \A i, j \in 1..Len(mailbox'[q]) :
               i < j => Before(mailbox[q][i], mailbox[q][j])'
          /\ \A q \in SessionIds : \A i \in 1..Len(tookUp'), j \in 1..Len(mailbox'[q]) :
               Before(tookUp[i], mailbox[q][j])'
      BY <2>3, <2>6 DEF Before
    <2>. QED  BY <2>7, <2>8 DEF InTurn
  <1>9. ChangesInOrder'
    <2>1. ASSUME NEW i \in 1..Len(tookUp'), NEW j \in 1..Len(tookUp'), i < j,
                 tookUp'[i].message = tookUp'[j].message
          PROVE  Place(tookUp'[i]) < Place(tookUp'[j])
      BY <1>3, <1>6, <1>7, <2>1 DEF ChangesInOrder, Before
    <2>. QED  BY <2>1 DEF ChangesInOrder
  <1>. QED  BY <1>4, <1>5, <1>8, <1>9

-----------------------------------------------------------------------------
LEMMA StutterPreserves == ASSUME DeliveryInv, UNCHANGED deliveryVars PROVE DeliveryInv'
  <1>1. UNCHANGED <<brokerVars, task, mailbox, tookUp>> /\ NoneBegins
    BY DEF deliveryVars, brokerVars, NoneBegins
  <1>2. DeliveryTypeOK'
    BY DEF DeliveryInv, DeliveryTypeOK, deliveryVars
  <1>. QED  BY <1>1, <1>2, UnbegunKept, NothingMade DEF DeliveryInv

LEMMA NextPreserves == DeliveryInv /\ [DeliveryNext]_deliveryVars => DeliveryInv'
  <1>. SUFFICES ASSUME DeliveryInv, [DeliveryNext]_deliveryVars PROVE DeliveryInv'
    OBVIOUS
  <1>1. CASE \E p \in Payloads : Says(p)
    BY <1>1, SaysPreserves
  <1>2. CASE Breaks \/ Deliver \/ HandsOn \/ HandleCommand
    BY <1>2, BreaksPreserves, DeliverPreserves, HandsOnPreserves, HandleCommandPreserves
  <1>3. CASE \E m \in Messages : Asks(m) \/ TimesOut(m)
    BY <1>3, AsksPreserves, TimesOutPreserves
  <1>4. CASE Registers \/ DropsRegistration
    BY <1>4, RegistersPreserves, DropsRegistrationPreserves
  <1>5. CASE \E s \in SessionIds : Takes(s) \/ Answers(s) \/ Ends(s)
    BY <1>5, TakesPreserves, AnswersPreserves, EndsPreserves
  <1>6. CASE UNCHANGED deliveryVars
    BY <1>6, StutterPreserves
  <1>. QED  BY <1>1, <1>2, <1>3, <1>4, <1>5, <1>6 DEF DeliveryNext

(* The invariant holds in every state: a command is in one place until its *)
(* task begins, and what sessions were given and took up is in the order   *)
(* the tasks asked for it.                                                 *)
THEOREM DeliveryInvariant == DeliverySpec => []DeliveryInv
  <1>1. DeliveryInit => DeliveryInv
    BY InitEstablishes
  <1>2. DeliveryInv /\ [DeliveryNext]_deliveryVars => DeliveryInv'
    BY NextPreserves
  <1>. QED  BY <1>1, <1>2, PTL DEF DeliverySpec

(* Every variable keeps its type, and the queues their depths: the channel *)
(* of the broker client and the mailbox of a session never hold more.      *)
THEOREM DeliveryTypeCorrect == DeliverySpec => []DeliveryTypeOK
  <1>1. DeliveryInv => DeliveryTypeOK
    BY DEF DeliveryInv
  <1>. QED  BY <1>1, DeliveryInvariant, PTL

(* For any payloads, queue depths, and number of sessions: the changes of  *)
(* a command are taken up in its order, each once, whether requests time   *)
(* out, meet a full mailbox, or the device reconnects (handle_command and  *)
(* carry_out).                                                             *)
THEOREM ChangesAlwaysInOrder == DeliverySpec => []ChangesInOrder
  <1>1. DeliveryInv => ChangesInOrder
    BY DEF DeliveryInv
  <1>. QED  BY <1>1, DeliveryInvariant, PTL
=============================================================================
