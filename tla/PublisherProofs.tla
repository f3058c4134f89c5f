-------------------------- MODULE PublisherProofs --------------------------
(* What Publisher guarantees for every choice of its constants: its types, *)
(* that no link of a replaced session is left running, that a device is    *)
(* only reported gone by its own link, and that what the broker retains is *)
(* true once it has what was last said.                                    *)
EXTENDS Publisher, SequenceTheorems, TLAPS

USE PublisherAssumption

-----------------------------------------------------------------------------
(* The inductive invariant.  Attended needs to know that the sessions      *)
(* registered and linked for a device are sessions of that device;         *)
(* FarewellIsOwn, that a farewell comes from a link that is over, and that *)
(* no link is started again for its session, whose channels have closed.   *)

WorldTyped ==
    /\ session \in [Sessions -> {"new", "open", "closed", "gone"}]
    /\ registered \in [Devices -> Sessions \cup {None}]
    /\ changed \in BOOLEAN
    /\ frame \in [Sessions -> {"none", "new", "seen"}]
    /\ identity \in [Sessions -> {"none", "new", "seen"}]

LinksTyped == link \in [Sessions -> Link] /\ aborted \subseteq Sessions

PublisherTyped ==
    /\ linked \in [Devices -> Sessions \cup {None}]
    /\ linking \subseteq Devices
    /\ replacing \subseteq Sessions
    /\ farewells \in Seq(Sessions) /\ Len(farewells) <= FarewellDepth

ConnectionsTyped ==
    /\ generation \in 0..MaxConnections
    /\ events \in 0..MaxConnections
    /\ generation + events = connections
    /\ conn \in {"down", "up", "dead"}
    /\ connections \in 0..MaxConnections

QueueTyped ==
    /\ queue \in Seq(Publication) /\ Len(queue) <= QueueDepth
    /\ dropped \in BOOLEAN
    /\ overtaken \subseteq Retained

RetainedTyped == retained \in [Retained -> Value \cup {None}]

OfTheDevice ==
    \A d \in Devices :
        /\ registered[d] # None => Serial[registered[d]] = d
        /\ linked[d] # None => Serial[linked[d]] = d

Leaving ==
    \A s \in Sessions : link[s].task = "leaving" => session[s] \in {"closed", "gone"}

FarewellsOver ==
    \A i \in 1..Len(farewells) :
        /\ link[farewells[i]].task = "over"
        /\ session[farewells[i]] \in {"closed", "gone"}

IInv == TypeOK /\ OfTheDevice /\ Leaving /\ FarewellsOver /\ Attended

LEMMA TypesSplit ==
    TypeOK <=> /\ WorldTyped /\ LinksTyped /\ PublisherTyped
               /\ ConnectionsTyped /\ QueueTyped /\ RetainedTyped
  BY DEF TypeOK, WorldTyped, LinksTyped, PublisherTyped, ConnectionsTyped, QueueTyped,
         RetainedTyped

LEMMA TypesSplitNext ==
    TypeOK' <=> /\ WorldTyped' /\ LinksTyped' /\ PublisherTyped'
                /\ ConnectionsTyped' /\ QueueTyped' /\ RetainedTyped'
  BY DEF TypeOK, WorldTyped, LinksTyped, PublisherTyped, ConnectionsTyped, QueueTyped,
         RetainedTyped

THEOREM InitSound == Init => IInv
  <1>. SUFFICES ASSUME Init PROVE IInv
    OBVIOUS
  <1>1. LinksTyped
    BY DEF Init, LinksTyped, NoLink, Link
  <1>2. WorldTyped /\ RetainedTyped
    BY DEF Init, WorldTyped, RetainedTyped
  <1>3. PublisherTyped
    BY DEF Init, PublisherTyped
  <1>4. ConnectionsTyped
    BY DEF Init, ConnectionsTyped
  <1>5. QueueTyped
    <2>1. queue \in Seq(Publication) /\ Len(queue) <= QueueDepth
      BY DEF Init
    <2>2. dropped \in BOOLEAN /\ overtaken \subseteq Retained
      BY DEF Init
    <2>. QED  BY <2>1, <2>2 DEF QueueTyped
  <1>6. OfTheDevice /\ Leaving /\ FarewellsOver /\ Attended
    BY DEF Init, OfTheDevice, Leaving, FarewellsOver, Attended, NoLink
  <1>. QED  BY <1>1, <1>2, <1>3, <1>4, <1>5, <1>6, TypesSplit DEF IInv

-----------------------------------------------------------------------------
(* What is said.                                                           *)

LEMMA SayTyped ==
    ASSUME NEW kind \in {"availability", "discovery", "config", "gate"},
           NEW owner \in Devices, NEW value \in Value
    PROVE  Say(kind, owner, value) \in Seq(Publication)
  <1>1. <<kind, owner>> \in Retained
    BY DEF Retained
  <1>2. [topic |-> <<kind, owner>>, value |-> value] \in Publication
    BY <1>1 DEF Publication
  <1>. QED  BY <1>2 DEF Say

LEMMA BridgeSayTyped == Say("availability", Bridge, "online") \in Seq(Publication)
  <1>1. <<"availability", Bridge>> \in Retained
    BY DEF Retained
  <1>2. [topic |-> <<"availability", Bridge>>, value |-> "online"] \in Publication
    BY <1>1 DEF Publication, Value
  <1>. QED  BY <1>2 DEF Say

(* A bounded queue stays bounded, and only publications enter it.          *)
LEMMA TryPublishSound ==
    ASSUME QueueTyped, NEW ps \in Seq(Publication), TryPublish(ps)
    PROVE  /\ queue' \in Seq(Publication) /\ Len(queue') <= QueueDepth
           /\ dropped' \in BOOLEAN
  <1>. DEFINE wanted == queue \o ps
              kept == IF Len(wanted) < QueueDepth THEN Len(wanted) ELSE QueueDepth
  <1>1. wanted \in Seq(Publication)
    BY ConcatProperties DEF QueueTyped
  <1>2. kept \in Nat /\ kept <= Len(wanted) /\ kept <= QueueDepth
    BY <1>1, LenProperties
  <1>3. \A i \in 1..kept : wanted[i] \in Publication
    BY <1>1, <1>2, ElementOfSeq
  <1>4. /\ SubSeq(wanted, 1, kept) \in Seq(Publication)
        /\ Len(SubSeq(wanted, 1, kept)) = IF 1 <= kept THEN kept - 1 + 1 ELSE 0
    BY <1>2, <1>3, SubSeqProperties
  <1>5. Len(SubSeq(wanted, 1, kept)) <= QueueDepth
    BY <1>2, <1>4
  <1>6. queue' = SubSeq(wanted, 1, kept)
    BY DEF TryPublish
  <1>7. dropped' \in BOOLEAN
    BY DEF TryPublish, QueueTyped
  <1>. QED  BY <1>4, <1>5, <1>6, <1>7

LEMMA SpokenSound ==
    ASSUME LinksTyped, QueueTyped, NEW s \in Sessions, NEW l \in Link,
           NEW ps \in Seq(Publication), Spoken(s, l, ps)
    PROVE  link' = [link EXCEPT ![s] = l] /\ QueueTyped'
  <1>1. TryPublish(ps)
    BY DEF Spoken
  <1>2. overtaken' \subseteq Retained
    <2>1. Topics(ps) \subseteq Retained
      <3>1. \A i \in 1..Len(ps) : ps[i] \in Publication
        BY ElementOfSeq
      <3>. QED  BY <3>1 DEF Topics, Publication
    <2>. QED  BY <2>1 DEF Spoken, QueueTyped
  <1>3. link' = [link EXCEPT ![s] = l]
    BY DEF Spoken
  <1>. QED  BY <1>1, <1>2, <1>3, TryPublishSound DEF QueueTyped

(* Everything a link says is a publication.                                *)
LEMMA LinkSays ==
    ASSUME NEW s \in Sessions, NEW l \in Link
    PROVE  /\ Description(s) \in {"plain", "named"}
           /\ Presence(l) \in Value
           /\ Say("discovery", Serial[s], Description(s)) \in Seq(Publication)
           /\ Discovery(s, l) \in Seq(Publication)
           /\ Gates(s, l) \in Seq(Publication)
           /\ \A v \in {"online", "offline", Presence(l)} :
                Say("availability", Serial[s], v) \in Seq(Publication)
  <1>1. Serial[s] \in Devices
    OBVIOUS
  <1>2. Description(s) \in {"plain", "named"} /\ Presence(l) \in {"online", "offline"}
    BY DEF Description, Presence
  <1>3. <<>> \in Seq(Publication)
    OBVIOUS
  <1>4. Say("discovery", Serial[s], Description(s)) \in Seq(Publication)
    BY <1>1, <1>2, SayTyped DEF Value
  <1>5. Say("gate", Serial[s], "online") \in Seq(Publication)
    BY <1>1, SayTyped DEF Value
  <1>6. \A v \in {"online", "offline", Presence(l)} :
            Say("availability", Serial[s], v) \in Seq(Publication)
    BY <1>1, <1>2, SayTyped DEF Value
  <1>. QED  BY <1>2, <1>3, <1>4, <1>5, <1>6 DEF Discovery, Gates, Value

-----------------------------------------------------------------------------
(* The links.                                                              *)

LinkFrame ==
    UNCHANGED <<session, registered, changed, aborted, publisherVars, farewells, events,
                brokerVars>>

(* A link task that was not over or leaving takes a step: whatever it      *)
(* says, the invariant stays, if what it is now is a link that runs on, is *)
(* over, or leaves a session that has closed.                              *)
LEMMA LinkSound ==
    ASSUME IInv, NEW s \in Sessions, NEW l \in Link,
           link' = [link EXCEPT ![s] = l], LinkFrame, QueueTyped',
           link[s].task \in {"spawned", "running"},
           frame' \in [Sessions -> {"none", "new", "seen"}],
           identity' \in [Sessions -> {"none", "new", "seen"}],
           l.task = "leaving" => session[s] \in {"closed", "gone"}
    PROVE  IInv'
  <1>. USE DEF LinkFrame
  <1>1. TypeOK'
    <2>. USE DEF IInv
    <2>1. WorldTyped' /\ LinksTyped'
      BY TypesSplit DEF WorldTyped, LinksTyped
    <2>2. PublisherTyped' /\ ConnectionsTyped' /\ RetainedTyped'
      BY TypesSplit DEF PublisherTyped, ConnectionsTyped, RetainedTyped, publisherVars, brokerVars
    <2>. QED  BY <2>1, <2>2, TypesSplitNext
  <1>2. link \in [Sessions -> Link]
    BY TypesSplit DEF IInv, LinksTyped
  <1>3. OfTheDevice'
    BY DEF IInv, OfTheDevice, publisherVars
  <1>4. Leaving'
    BY <1>2 DEF IInv, Leaving
  <1>5. FarewellsOver'
    <2>1. \A i \in 1..Len(farewells) : farewells[i] # s
      BY DEF IInv, FarewellsOver
    <2>2. \A i \in 1..Len(farewells) : farewells[i] \in Sessions
      BY TypesSplit, ElementOfSeq DEF IInv, PublisherTyped
    <2>. QED  BY <1>2, <2>1, <2>2 DEF IInv, FarewellsOver
  <1>6. Attended'
    BY <1>2 DEF IInv, Attended, publisherVars
  <1>. QED  BY <1>1, <1>3, <1>4, <1>5, <1>6 DEF IInv

(* republish keeps the invariant, from a link that was just spawned or     *)
(* that runs.                                                              *)
LEMMA RepublishSound ==
    ASSUME IInv, NEW s \in Sessions, NEW l \in Link, Republish(s, l), LinkFrame,
           link[s].task \in {"spawned", "running"}, l.task = "running",
           frame' \in [Sessions -> {"none", "new", "seen"}],
           identity' \in [Sessions -> {"none", "new", "seen"}]
    PROVE  IInv'
  <1>. DEFINE said == [l EXCEPT !.seen = generation, !.announced = Description(s),
                                !.gated = @ \/ frame[s] # "none"]
  <1>1. LinksTyped /\ QueueTyped /\ ConnectionsTyped
    BY TypesSplit DEF IInv
  <1>2. CASE generation = 0
    <2>1. link' = [link EXCEPT ![s] = l] /\ UNCHANGED queueVars
      BY <1>2 DEF Republish
    <2>2. QueueTyped'
      BY <1>1, <2>1 DEF QueueTyped, queueVars
    <2>. QED  BY <2>1, <2>2, LinkSound
  <1>3. CASE generation # 0
    <2>. DEFINE ps == Say("discovery", Serial[s], Description(s))
                        \o Say("availability", Serial[s], Presence(l)) \o Gates(s, l)
    <2>1. ps \in Seq(Publication)
      BY LinkSays, ConcatProperties
    <2>2. said \in Link /\ said.task = "running"
      BY <1>1, LinkSays DEF Link, ConnectionsTyped
    <2>3. Spoken(s, said, ps)
      BY <1>3 DEF Republish
    <2>4. link' = [link EXCEPT ![s] = said] /\ QueueTyped'
      BY <1>1, <2>1, <2>2, <2>3, SpokenSound
    <2>. QED  BY <2>2, <2>4, LinkSound
  <1>. QED  BY <1>2, <1>3

LEMMA LinkStartsSound ==
    ASSUME IInv, NEW s \in Sessions, LinkStarts(s)
    PROVE  IInv'
  <1>. DEFINE l == [link[s] EXCEPT !.task = "running"]
  <1>1. link[s] \in Link /\ WorldTyped
    BY TypesSplit DEF IInv, LinksTyped
  <1>2. l \in Link /\ l.task = "running"
    BY <1>1 DEF Link
  <1>3. /\ frame' \in [Sessions -> {"none", "new", "seen"}]
        /\ identity' \in [Sessions -> {"none", "new", "seen"}]
    BY <1>1 DEF LinkStarts, WorldTyped
  <1>4. Republish(s, l) /\ LinkFrame /\ link[s].task = "spawned"
    BY DEF LinkStarts, LinkFrame
  <1>. QED  BY <1>2, <1>3, <1>4, RepublishSound

LEMMA ReconnectedSound ==
    ASSUME IInv, NEW s \in Sessions, Reconnected(s)
    PROVE  IInv'
  <1>1. link[s] \in Link /\ WorldTyped
    BY TypesSplit DEF IInv, LinksTyped
  <1>2. /\ frame' \in [Sessions -> {"none", "new", "seen"}]
        /\ identity' \in [Sessions -> {"none", "new", "seen"}]
    BY <1>1 DEF Reconnected, WorldTyped, worldVars
  <1>3. Republish(s, link[s]) /\ LinkFrame /\ link[s].task = "running"
    BY DEF Reconnected, LinkFrame, Runs, worldVars
  <1>. QED  BY <1>1, <1>2, <1>3, RepublishSound

LEMMA TelemetryArrivedSound ==
    ASSUME IInv, NEW s \in Sessions, TelemetryArrived(s)
    PROVE  IInv'
  <1>. DEFINE l == [link[s] EXCEPT !.presence = "reporting"]
              said == [l EXCEPT !.announced = Description(s), !.gated = TRUE]
              ps == Discovery(s, l) \o Say("availability", Serial[s], "online") \o Gates(s, l)
  <1>1. link[s] \in Link /\ LinksTyped /\ QueueTyped /\ WorldTyped
    BY TypesSplit DEF IInv, LinksTyped
  <1>2. l \in Link /\ l.task = link[s].task
    BY <1>1 DEF Link
  <1>3. said \in Link /\ said.task = link[s].task
    BY <1>2, LinkSays DEF Link
  <1>4. LinkFrame /\ link[s].task = "running"
    BY DEF TelemetryArrived, LinkFrame, Runs
  <1>5. /\ frame' \in [Sessions -> {"none", "new", "seen"}]
        /\ identity' \in [Sessions -> {"none", "new", "seen"}]
    BY <1>1 DEF TelemetryArrived, WorldTyped
  <1>6. CASE l.seen = 0
    <2>1. link' = [link EXCEPT ![s] = l] /\ UNCHANGED queueVars
      BY <1>6 DEF TelemetryArrived
    <2>2. QueueTyped'
      BY <1>1, <2>1 DEF QueueTyped, queueVars
    <2>. QED  BY <1>2, <1>4, <1>5, <2>1, <2>2, LinkSound
  <1>7. CASE l.seen # 0
    <2>1. ps \in Seq(Publication)
      BY <1>2, LinkSays, ConcatProperties
    <2>2. Spoken(s, said, ps)
      BY <1>7 DEF TelemetryArrived
    <2>3. link' = [link EXCEPT ![s] = said] /\ QueueTyped'
      BY <1>1, <1>3, <2>1, <2>2, SpokenSound
    <2>. QED  BY <1>3, <1>4, <1>5, <2>3, LinkSound
  <1>. QED  BY <1>6, <1>7

LEMMA IdentityArrivedSound ==
    ASSUME IInv, NEW s \in Sessions, IdentityArrived(s)
    PROVE  IInv'
  <1>. DEFINE said == [link[s] EXCEPT !.announced = Description(s)]
              ps == Discovery(s, link[s]) \o Say("config", Serial[s], "entries")
  <1>1. link[s] \in Link /\ LinksTyped /\ QueueTyped /\ WorldTyped
    BY TypesSplit DEF IInv, LinksTyped
  <1>2. said \in Link /\ said.task = link[s].task
    BY <1>1, LinkSays DEF Link
  <1>3. LinkFrame /\ link[s].task = "running"
    BY DEF IdentityArrived, LinkFrame, Runs
  <1>4. /\ frame' \in [Sessions -> {"none", "new", "seen"}]
        /\ identity' \in [Sessions -> {"none", "new", "seen"}]
    BY <1>1 DEF IdentityArrived, WorldTyped
  <1>5. CASE link[s].seen = 0
    <2>1. UNCHANGED <<link, queueVars>>
      BY <1>5 DEF IdentityArrived
    <2>2. link' = [link EXCEPT ![s] = link[s]] /\ QueueTyped'
      BY <1>1, <2>1 DEF QueueTyped, queueVars, LinksTyped
    <2>. QED  BY <1>1, <1>3, <1>4, <2>2, LinkSound
  <1>6. CASE link[s].seen # 0
    <2>1. Say("config", Serial[s], "entries") \in Seq(Publication)
      BY SayTyped DEF Value
    <2>2. ps \in Seq(Publication)
      BY <1>1, <2>1, LinkSays, ConcatProperties
    <2>3. Spoken(s, said, ps)
      BY <1>6 DEF IdentityArrived
    <2>4. link' = [link EXCEPT ![s] = said] /\ QueueTyped'
      BY <1>1, <1>2, <2>2, <2>3, SpokenSound
    <2>. QED  BY <1>2, <1>3, <1>4, <2>4, LinkSound
  <1>. QED  BY <1>5, <1>6

LEMMA WentQuietSound ==
    ASSUME IInv, NEW s \in Sessions, WentQuiet(s)
    PROVE  IInv'
  <1>. DEFINE l == [link[s] EXCEPT !.presence = "quiet"]
  <1>1. link[s] \in Link /\ LinksTyped /\ QueueTyped /\ WorldTyped
    BY TypesSplit DEF IInv, LinksTyped
  <1>2. l \in Link /\ l.task = link[s].task
    BY <1>1 DEF Link
  <1>3. LinkFrame /\ link[s].task = "running"
    BY DEF WentQuiet, LinkFrame, Runs, worldVars
  <1>4. /\ frame' \in [Sessions -> {"none", "new", "seen"}]
        /\ identity' \in [Sessions -> {"none", "new", "seen"}]
    BY <1>1 DEF WentQuiet, WorldTyped, worldVars
  <1>5. link' = [link EXCEPT ![s] = l] /\ QueueTyped'
    <2>1. CASE l.seen = 0
      BY <1>1, <2>1 DEF WentQuiet, QueueTyped, queueVars
    <2>2. CASE l.seen # 0
      <3>1. Say("availability", Serial[s], "offline") \in Seq(Publication)
        BY <1>2, LinkSays
      <3>2. Spoken(s, l, Say("availability", Serial[s], "offline"))
        BY <2>2 DEF WentQuiet
      <3>. QED  BY <1>1, <1>2, <3>1, <3>2, SpokenSound
    <2>. QED  BY <2>1, <2>2
  <1>. QED  BY <1>2, <1>3, <1>4, <1>5, LinkSound

LEMMA LinkBreaksSound ==
    ASSUME IInv, NEW s \in Sessions, LinkBreaks(s)
    PROVE  IInv'
  <1>. DEFINE l == [link[s] EXCEPT !.task = "leaving"]
  <1>1. link[s] \in Link /\ QueueTyped /\ WorldTyped
    BY TypesSplit DEF IInv, LinksTyped
  <1>2. l \in Link /\ l.task = "leaving" /\ link[s].task = "running"
    BY <1>1 DEF Link, LinkBreaks, Runs
  <1>3. link' = [link EXCEPT ![s] = l] /\ LinkFrame
    BY DEF LinkBreaks, LinkFrame, worldVars
  <1>4. /\ frame' \in [Sessions -> {"none", "new", "seen"}]
        /\ identity' \in [Sessions -> {"none", "new", "seen"}]
        /\ QueueTyped'
    BY <1>1 DEF LinkBreaks, WorldTyped, QueueTyped, worldVars, queueVars
  <1>5. session[s] \in {"closed", "gone"}
    BY DEF LinkBreaks
  <1>. QED  BY <1>2, <1>3, <1>4, <1>5, LinkSound

(* A link that is over stays within its type, whatever it was.             *)
LEMMA OverTyped ==
    ASSUME LinksTyped, NEW s \in Sessions
    PROVE  [link EXCEPT ![s] = LinkOver] \in [Sessions -> Link]
  <1>1. LinkOver \in Link
    <2>1. NoLink \in Link
      BY DEF NoLink, Link
    <2>. QED  BY <2>1 DEF LinkOver, Link
  <1>. QED  BY <1>1 DEF LinksTyped

LEMMA FarewellSound ==
    ASSUME IInv, NEW s \in Sessions, Farewell(s)
    PROVE  IInv'
  <1>. USE DEF Farewell
  <1>1. WorldTyped /\ LinksTyped /\ PublisherTyped /\ ConnectionsTyped /\ QueueTyped
          /\ RetainedTyped
    BY TypesSplit DEF IInv
  <1>2. /\ farewells' \in Seq(Sessions) /\ Len(farewells') = Len(farewells) + 1
        /\ \A i \in 1..Len(farewells) : farewells'[i] = farewells[i]
        /\ farewells'[Len(farewells) + 1] = s
    BY <1>1, AppendProperties DEF PublisherTyped
  <1>3. \A i \in 1..Len(farewells) : farewells[i] \in Sessions
    BY <1>1, ElementOfSeq DEF PublisherTyped
  <1>4. /\ link'[s].task = "over"
        /\ \A t \in Sessions : link'[t].task \in {link[t].task, "over"}
    BY <1>1 DEF LinksTyped, LinkOver, NoLink
  <1>5. TypeOK'
    <2>1. WorldTyped' /\ ConnectionsTyped' /\ QueueTyped' /\ RetainedTyped'
      BY <1>1 DEF WorldTyped, ConnectionsTyped, QueueTyped, RetainedTyped, worldVars,
                  publisherVars, queueVars, brokerVars
    <2>2. LinksTyped'
      BY <1>1, OverTyped DEF LinksTyped
    <2>3. PublisherTyped'
      <3>1. Len(farewells') <= FarewellDepth
        BY <1>1, <1>2, LenProperties DEF PublisherTyped
      <3>. QED  BY <1>1, <1>2, <3>1 DEF PublisherTyped, publisherVars
    <2>. QED  BY <2>1, <2>2, <2>3, TypesSplitNext
  <1>6. OfTheDevice' /\ Leaving' /\ Attended'
    BY <1>4 DEF IInv, OfTheDevice, Leaving, Attended, worldVars, publisherVars
  <1>7. FarewellsOver'
    <2>1. session[s] \in {"closed", "gone"}
      BY DEF IInv, Leaving
    <2>2. ASSUME NEW i \in 1..Len(farewells')
          PROVE  /\ link'[farewells'[i]].task = "over"
                 /\ session'[farewells'[i]] \in {"closed", "gone"}
      <3>1. CASE i = Len(farewells) + 1
        BY <1>2, <1>4, <2>1, <3>1 DEF worldVars
      <3>2. CASE i # Len(farewells) + 1
        <4>1. i \in 1..Len(farewells)
          BY <1>1, <1>2, <3>2, LenProperties DEF PublisherTyped
        <4>. QED  BY <1>2, <1>3, <1>4, <4>1 DEF IInv, FarewellsOver, worldVars
      <3>. QED  BY <3>1, <3>2
    <2>. QED  BY <2>2 DEF FarewellsOver
  <1>. QED  BY <1>5, <1>6, <1>7 DEF IInv

LEMMA StopsSound ==
    ASSUME IInv, NEW s \in Sessions, Stops(s)
    PROVE  IInv'
  <1>. USE DEF Stops
  <1>1. WorldTyped /\ LinksTyped /\ PublisherTyped /\ ConnectionsTyped /\ QueueTyped
          /\ RetainedTyped
    BY TypesSplit DEF IInv
  <1>2. \A t \in Sessions : link'[t].task \in {link[t].task, "over"}
    BY <1>1 DEF LinksTyped, LinkOver, NoLink
  <1>3. TypeOK'
    <2>1. WorldTyped' /\ ConnectionsTyped' /\ QueueTyped' /\ RetainedTyped'
      BY <1>1 DEF WorldTyped, ConnectionsTyped, QueueTyped, RetainedTyped, worldVars,
                  publisherVars, queueVars, brokerVars
    <2>2. LinksTyped' /\ PublisherTyped'
      BY <1>1, OverTyped DEF LinksTyped, PublisherTyped, publisherVars
    <2>. QED  BY <2>1, <2>2, TypesSplitNext
  <1>4. OfTheDevice' /\ Leaving' /\ Attended'
    BY <1>2 DEF IInv, OfTheDevice, Leaving, Attended, worldVars, publisherVars
  <1>5. FarewellsOver'
    <2>1. \A i \in 1..Len(farewells) : farewells[i] \in Sessions
      BY <1>1, ElementOfSeq DEF PublisherTyped
    <2>. QED  BY <1>2, <2>1 DEF IInv, FarewellsOver, worldVars
  <1>. QED  BY <1>3, <1>4, <1>5 DEF IInv

-----------------------------------------------------------------------------
(* The publisher.                                                          *)

(* Linking a device: the session is its own, so the link it replaces is    *)
(* the only other one left alive for it, and is marked for the abort.      *)
LEMMA LinkDeviceSound ==
    ASSUME IInv, NEW d \in Devices, LinkDevice(d)
    PROVE  IInv'
  <1>. USE DEF LinkDevice
  <1>. DEFINE s == registered[d]
  <1>1. WorldTyped /\ LinksTyped /\ PublisherTyped /\ ConnectionsTyped /\ QueueTyped
          /\ RetainedTyped
    BY TypesSplit DEF IInv
  <1>2. WorldTyped' /\ ConnectionsTyped' /\ QueueTyped' /\ RetainedTyped'
    BY <1>1 DEF WorldTyped, ConnectionsTyped, QueueTyped, RetainedTyped, worldVars,
                queueVars, brokerVars
  <1>3. CASE s = None \/ linked[d] = s \/ session[s] # "open"
    <2>1. UNCHANGED <<link, linked, replacing>>
      BY <1>3
    <2>2. LinksTyped' /\ PublisherTyped'
      BY <1>1, <2>1 DEF LinksTyped, PublisherTyped
    <2>3. OfTheDevice' /\ Leaving' /\ FarewellsOver' /\ Attended'
      BY <2>1 DEF IInv, OfTheDevice, Leaving, FarewellsOver, Attended, worldVars
    <2>. QED  BY <1>2, <2>2, <2>3, TypesSplitNext DEF IInv
  <1>4. CASE ~ (s = None \/ linked[d] = s \/ session[s] # "open")
    <2>1. /\ s \in Sessions /\ Serial[s] = d /\ session[s] = "open" /\ linked[d] # s
          /\ link' = [link EXCEPT ![s].task = "spawned"]
          /\ linked' = [linked EXCEPT ![d] = s]
          /\ replacing' = {linked[d]} \ {None}
      BY <1>1, <1>4 DEF IInv, OfTheDevice, WorldTyped
    <2>2. [link[s] EXCEPT !.task = "spawned"] \in Link
      BY <1>1, <2>1 DEF LinksTyped, Link
    <2>3. link' = [link EXCEPT ![s] = [link[s] EXCEPT !.task = "spawned"]]
      BY <1>1, <2>1 DEF LinksTyped
    <2>4. LinksTyped'
      BY <1>1, <2>2, <2>3 DEF LinksTyped
    <2>5. PublisherTyped'
      BY <1>1, <2>1 DEF PublisherTyped
    <2>6. \A t \in Sessions : link'[t].task = IF t = s THEN "spawned" ELSE link[t].task
      BY <1>1, <2>1, <2>2, <2>3 DEF LinksTyped, Link
    <2>7. OfTheDevice'
      BY <1>1, <2>1 DEF IInv, OfTheDevice, PublisherTyped, worldVars
    <2>8. Leaving'
      BY <2>6 DEF IInv, Leaving, worldVars
    <2>9. FarewellsOver'
      <3>1. \A i \in 1..Len(farewells) : farewells[i] \in Sessions /\ farewells[i] # s
        BY <1>1, <2>1, ElementOfSeq DEF IInv, FarewellsOver, PublisherTyped
      <3>. QED  BY <2>6, <3>1 DEF IInv, FarewellsOver, worldVars
    <2>10. Attended'
      <3>. SUFFICES ASSUME NEW t \in Sessions,
                           link'[t].task \in {"spawned", "running", "leaving"}
                    PROVE  linked'[Serial[t]] = t \/ t \in aborted' \cup replacing'
        BY DEF Attended
      <3>1. CASE t = s
        BY <1>1, <2>1, <3>1 DEF PublisherTyped
      <3>2. CASE t # s
        <4>1. linked[Serial[t]] = t \/ t \in aborted
          BY <2>6, <3>2 DEF IInv, Attended
        <4>2. t # None
          OBVIOUS
        <4>3. linked[Serial[t]] = t /\ Serial[t] = d => t \in replacing'
          BY <2>1, <4>2
        <4>4. Serial[t] # d => linked'[Serial[t]] = linked[Serial[t]]
          BY <1>1, <2>1 DEF PublisherTyped
        <4>. QED  BY <4>1, <4>3, <4>4
      <3>. QED  BY <3>1, <3>2
    <2>. QED  BY <1>2, <2>4, <2>5, <2>7, <2>8, <2>9, <2>10, TypesSplitNext DEF IInv
  <1>. QED  BY <1>3, <1>4

LEMMA AbortReplacedSound ==
    ASSUME IInv, AbortReplaced
    PROVE  IInv'
  <1>. USE DEF AbortReplaced
  <1>1. WorldTyped /\ LinksTyped /\ PublisherTyped /\ ConnectionsTyped /\ QueueTyped
          /\ RetainedTyped
    BY TypesSplit DEF IInv
  <1>2. TypeOK'
    <2>1. WorldTyped' /\ ConnectionsTyped' /\ QueueTyped' /\ RetainedTyped'
      BY <1>1 DEF WorldTyped, ConnectionsTyped, QueueTyped, RetainedTyped, worldVars,
                  queueVars, brokerVars
    <2>2. LinksTyped' /\ PublisherTyped'
      BY <1>1 DEF LinksTyped, PublisherTyped
    <2>. QED  BY <2>1, <2>2, TypesSplitNext
  <1>3. OfTheDevice' /\ Leaving' /\ FarewellsOver' /\ Attended'
    BY DEF IInv, OfTheDevice, Leaving, FarewellsOver, Attended, worldVars
  <1>. QED  BY <1>2, <1>3 DEF IInv

LEMMA HandleConnectedSound ==
    ASSUME IInv, HandleConnected
    PROVE  IInv'
  <1>. USE DEF HandleConnected
  <1>1. WorldTyped /\ LinksTyped /\ PublisherTyped /\ ConnectionsTyped /\ QueueTyped
          /\ RetainedTyped
    BY TypesSplit DEF IInv
  <1>2. WorldTyped' /\ LinksTyped' /\ RetainedTyped'
    BY <1>1 DEF WorldTyped, LinksTyped, RetainedTyped, worldVars, linkVars, brokerVars
  <1>3. PublisherTyped'
    BY <1>1 DEF PublisherTyped, ConnectedDevices
  <1>4. ConnectionsTyped'
    BY <1>1 DEF ConnectionsTyped, brokerVars
  <1>5. QueueTyped'
    BY <1>1, BridgeSayTyped, TryPublishSound DEF QueueTyped
  <1>6. OfTheDevice' /\ Leaving' /\ FarewellsOver' /\ Attended'
    BY DEF IInv, OfTheDevice, Leaving, FarewellsOver, Attended, worldVars, linkVars
  <1>. QED  BY <1>2, <1>3, <1>4, <1>5, <1>6, TypesSplitNext DEF IInv

LEMMA DevicesChangedSound ==
    ASSUME IInv, DevicesChanged
    PROVE  IInv'
  <1>. USE DEF DevicesChanged
  <1>1. WorldTyped /\ LinksTyped /\ PublisherTyped /\ ConnectionsTyped /\ QueueTyped
          /\ RetainedTyped
    BY TypesSplit DEF IInv
  <1>2. /\ WorldTyped' /\ LinksTyped' /\ ConnectionsTyped' /\ QueueTyped'
        /\ RetainedTyped'
    BY <1>1 DEF WorldTyped, LinksTyped, ConnectionsTyped, QueueTyped, RetainedTyped,
                worldVars, linkVars, queueVars, brokerVars
  <1>3. PublisherTyped'
    BY <1>1 DEF PublisherTyped, ConnectedDevices
  <1>4. OfTheDevice' /\ Leaving' /\ FarewellsOver' /\ Attended'
    BY DEF IInv, OfTheDevice, Leaving, FarewellsOver, Attended, worldVars, linkVars
  <1>. QED  BY <1>2, <1>3, <1>4, TypesSplitNext DEF IInv

(* A farewell: the device is unlinked only if the link that said it was    *)
(* its own, and that link is over, so none is left unattended.             *)
LEMMA SessionEndedSound ==
    ASSUME IInv, SessionEnded
    PROVE  IInv'
  <1>. USE DEF SessionEnded
  <1>. DEFINE s == Head(farewells)
              d == Serial[s]
  <1>1. WorldTyped /\ LinksTyped /\ PublisherTyped /\ ConnectionsTyped /\ QueueTyped
          /\ RetainedTyped
    BY TypesSplit DEF IInv
  <1>2. /\ s \in Sessions /\ d \in Devices
        /\ farewells' \in Seq(Sessions) /\ Len(farewells') = Len(farewells) - 1
        /\ \A i \in 1..Len(farewells') : farewells'[i] = farewells[i + 1]
    BY <1>1, HeadTailProperties DEF PublisherTyped
  <1>3. Len(farewells) \in Nat /\ Len(farewells) >= 1 /\ s = farewells[1]
    BY <1>1, EmptySeq, LenProperties DEF PublisherTyped
  <1>4. WorldTyped' /\ LinksTyped' /\ ConnectionsTyped' /\ RetainedTyped'
    BY <1>1 DEF WorldTyped, LinksTyped, ConnectionsTyped, RetainedTyped, worldVars,
                linkVars, brokerVars
  <1>5. Leaving' /\ FarewellsOver'
    <2>1. \A i \in 1..Len(farewells') : i + 1 \in 1..Len(farewells)
      BY <1>2, <1>3
    <2>. QED  BY <1>2, <2>1 DEF IInv, Leaving, FarewellsOver, worldVars, linkVars
  <1>6. CASE linked[d] \notin {s, None}
    <2>1. UNCHANGED <<linked, linking, queueVars>>
      BY <1>6
    <2>2. PublisherTyped' /\ QueueTyped'
      BY <1>1, <1>2, <1>3, <2>1 DEF PublisherTyped, QueueTyped, queueVars
    <2>3. OfTheDevice' /\ Attended'
      BY <2>1 DEF IInv, OfTheDevice, Attended, worldVars, linkVars
    <2>. QED  BY <1>4, <1>5, <2>2, <2>3, TypesSplitNext DEF IInv
  <1>7. CASE linked[d] \in {s, None}
    <2>1. /\ linked' = [linked EXCEPT ![d] = None]
          /\ TryPublish(Say("availability", d, "offline"))
          /\ linking' = ConnectedDevices
          /\ UNCHANGED overtaken
      BY <1>7
    <2>2. Say("availability", d, "offline") \in Seq(Publication)
      BY <1>2, SayTyped DEF Value
    <2>3. QueueTyped'
      BY <1>1, <2>1, <2>2, TryPublishSound DEF QueueTyped
    <2>4. PublisherTyped'
      BY <1>1, <1>2, <1>3, <2>1 DEF PublisherTyped, ConnectedDevices
    <2>5. OfTheDevice'
      BY <1>1, <2>1 DEF IInv, OfTheDevice, PublisherTyped, worldVars
    <2>6. link[s].task = "over"
      BY <1>3 DEF IInv, FarewellsOver
    <2>7. Attended'
      <3>. SUFFICES ASSUME NEW t \in Sessions,
                           link[t].task \in {"spawned", "running", "leaving"}
                    PROVE  linked'[Serial[t]] = t \/ t \in aborted \cup replacing
        BY DEF Attended, linkVars
      <3>1. t # s /\ t # None
        BY <2>6
      <3>2. linked[Serial[t]] = t \/ t \in aborted \cup replacing
        BY DEF IInv, Attended
      <3>. QED  BY <1>1, <1>7, <2>1, <3>1, <3>2 DEF PublisherTyped
    <2>. QED  BY <1>4, <1>5, <2>3, <2>4, <2>5, <2>7, TypesSplitNext DEF IInv
  <1>. QED  BY <1>6, <1>7

-----------------------------------------------------------------------------
(* The broker and the sessions.                                            *)

LEMMA BrokerSound ==
    ASSUME IInv, BrokerConnects \/ Pump \/ BrokerDies \/ BrokerNotices
    PROVE  IInv'
  <1>1. WorldTyped /\ LinksTyped /\ PublisherTyped /\ ConnectionsTyped /\ QueueTyped
          /\ RetainedTyped
    BY TypesSplit DEF IInv
  <1>2. UNCHANGED <<worldVars, changed, linkVars, publisherVars, farewells>>
    BY DEF BrokerConnects, Pump, BrokerDies, BrokerNotices
  <1>3. WorldTyped' /\ LinksTyped' /\ PublisherTyped'
    BY <1>1, <1>2 DEF WorldTyped, LinksTyped, PublisherTyped, worldVars, linkVars,
                      publisherVars
  <1>4. OfTheDevice' /\ Leaving' /\ FarewellsOver' /\ Attended'
    BY <1>2 DEF IInv, OfTheDevice, Leaving, FarewellsOver, Attended, worldVars, linkVars,
                publisherVars
  <1>5. ConnectionsTyped' /\ QueueTyped' /\ RetainedTyped'
    <2>1. CASE BrokerConnects
      BY <1>1, <2>1 DEF BrokerConnects, ConnectionsTyped, QueueTyped, RetainedTyped,
                        queueVars, publisherVars
    <2>2. CASE Pump
      <3>. USE <2>2 DEF Pump
      <3>1. ConnectionsTyped'
        BY <1>1 DEF ConnectionsTyped, publisherVars
      <3>2. /\ Head(queue) \in Publication /\ queue' \in Seq(Publication)
            /\ Len(queue') = Len(queue) - 1
        BY <1>1, HeadTailProperties DEF QueueTyped
      <3>3. Len(queue) \in Nat
        BY <1>1, LenProperties DEF QueueTyped
      <3>4. QueueTyped'
        BY <1>1, <3>2, <3>3 DEF QueueTyped
      <3>5. RetainedTyped'
        BY <1>1, <3>2 DEF RetainedTyped, Publication
      <3>. QED  BY <3>1, <3>4, <3>5
    <2>3. CASE BrokerDies
      BY <1>1, <2>3 DEF BrokerDies, ConnectionsTyped, QueueTyped, RetainedTyped,
                        queueVars, publisherVars, Value
    <2>4. CASE BrokerNotices
      BY <1>1, <2>4 DEF BrokerNotices, ConnectionsTyped, QueueTyped, RetainedTyped,
                        queueVars, publisherVars
    <2>. QED  BY <2>1, <2>2, <2>3, <2>4
  <1>. QED  BY <1>3, <1>4, <1>5, TypesSplitNext DEF IInv

LEMMA SessionsSound ==
    ASSUME IInv, NEW s \in Sessions,
           Connects(s) \/ Reports(s) \/ Closes(s) \/ Unregisters(s)
    PROVE  IInv'
  <1>1. WorldTyped /\ LinksTyped /\ PublisherTyped /\ ConnectionsTyped /\ QueueTyped
          /\ RetainedTyped
    BY TypesSplit DEF IInv
  <1>2. UNCHANGED <<linkVars, publisherVars, farewells, events, queueVars, brokerVars>>
    BY DEF Connects, Reports, Closes, Unregisters
  <1>3. /\ LinksTyped' /\ PublisherTyped' /\ ConnectionsTyped' /\ QueueTyped'
        /\ RetainedTyped'
    BY <1>1, <1>2 DEF LinksTyped, PublisherTyped, ConnectionsTyped, QueueTyped,
         RetainedTyped, linkVars, publisherVars, queueVars, brokerVars
  <1>4. Attended'
    BY <1>2 DEF IInv, Attended, linkVars, publisherVars
  <1>5. WorldTyped'
    <2>1. CASE Connects(s)
      BY <1>1, <2>1 DEF Connects, WorldTyped
    <2>2. CASE Reports(s)
      BY <1>1, <2>2 DEF Reports, WorldTyped
    <2>3. CASE Closes(s)
      BY <1>1, <2>3 DEF Closes, WorldTyped
    <2>4. CASE Unregisters(s)
      BY <1>1, <2>4 DEF Unregisters, WorldTyped
    <2>. QED  BY <2>1, <2>2, <2>3, <2>4
  <1>6. OfTheDevice'
    BY <1>1, <1>2 DEF IInv, OfTheDevice, WorldTyped, Connects, Reports, Closes, Unregisters,
                      publisherVars
  <1>7. \A t \in Sessions :
            session[t] \in {"closed", "gone"} => session'[t] \in {"closed", "gone"}
    BY <1>1 DEF WorldTyped, Connects, Reports, Closes, Unregisters
  <1>8. Leaving' /\ FarewellsOver'
    <2>1. \A i \in 1..Len(farewells) : farewells[i] \in Sessions
      BY <1>1, ElementOfSeq DEF PublisherTyped
    <2>. QED  BY <1>2, <1>7, <2>1 DEF IInv, Leaving, FarewellsOver, linkVars
  <1>. QED  BY <1>3, <1>4, <1>5, <1>6, <1>8, TypesSplitNext DEF IInv

-----------------------------------------------------------------------------
(* What the broker will be left with.  A topic will show a value if that   *)
(* is the last the queue says of it, or what is retained of it while the   *)
(* queue is silent.                                                        *)

Silent(ps, t) == \A i \in 1..Len(ps) : ps[i].topic # t
SaysLast(ps, t, v) ==
    \E i \in 1..Len(ps) :
        /\ ps[i].topic = t /\ ps[i].value = v
        /\ \A j \in (i + 1)..Len(ps) : ps[j].topic # t
WillShow(t, v) == SaysLast(queue, t, v) \/ (Silent(queue, t) /\ retained[t] = v)

LEMMA SilentOffTopic ==
    ASSUME NEW ps, NEW t
    PROVE  Silent(ps, t) <=> t \notin Topics(ps)
  BY DEF Silent, Topics

LEMMA SayLast ==
    ASSUME NEW what, NEW owner, NEW value
    PROVE  /\ SaysLast(Say(what, owner, value), <<what, owner>>, value)
           /\ \A t : t # <<what, owner>> => Silent(Say(what, owner, value), t)
  <1>. DEFINE ps == Say(what, owner, value)
  <1>1. Len(ps) = 1 /\ ps[1].topic = <<what, owner>> /\ ps[1].value = value
    BY DEF Say
  <1>. HIDE DEF ps
  <1>2. SaysLast(ps, <<what, owner>>, value)
    BY <1>1 DEF SaysLast
  <1>3. \A t : t # <<what, owner>> => Silent(ps, t)
    BY <1>1 DEF Silent
  <1>. QED  BY <1>2, <1>3 DEF ps

LEMMA EmptyIsSilent == \A t : Silent(<<>>, t)
  BY DEF Silent

LEMMA Continued ==
    ASSUME NEW ps \in Seq(Publication), NEW qs \in Seq(Publication), NEW t, NEW v
    PROVE  /\ ps \o qs \in Seq(Publication)
           /\ Silent(ps, t) /\ Silent(qs, t) => Silent(ps \o qs, t)
           /\ SaysLast(qs, t, v) => SaysLast(ps \o qs, t, v)
           /\ SaysLast(ps, t, v) /\ Silent(qs, t) => SaysLast(ps \o qs, t, v)
  <1>. DEFINE all == ps \o qs
              n == Len(ps)
              m == Len(qs)
  <1>1. n \in Nat /\ m \in Nat
    BY LenProperties
  <1>2. all \in Seq(Publication) /\ Len(all) = n + m
    BY ConcatProperties
  <1>3. \A i \in 1..n + m : all[i] = IF i <= n THEN ps[i] ELSE qs[i - n]
    BY ConcatProperties
  <1>. HIDE DEF all, n, m
  <1>4. ASSUME Silent(ps, t), Silent(qs, t)
        PROVE  Silent(all, t)
    <2>1. ASSUME NEW i \in 1..n + m
          PROVE  all[i].topic # t
      <3>1. CASE i <= n
        BY <1>1, <1>3, <1>4, <3>1 DEF Silent, n
      <3>2. CASE i > n
        <4>1. i - n \in 1..m
          BY <1>1, <3>2
        <4>. QED  BY <1>1, <1>3, <1>4, <3>2, <4>1 DEF Silent, m
      <3>. QED  BY <1>1, <3>1, <3>2
    <2>. QED  BY <1>2, <2>1 DEF Silent
  <1>5. ASSUME SaysLast(qs, t, v)
        PROVE  SaysLast(all, t, v)
    <2>1. PICK i \in 1..m : /\ qs[i].topic = t /\ qs[i].value = v
                            /\ \A j \in (i + 1)..m : qs[j].topic # t
      BY <1>5 DEF SaysLast, m
    <2>2. n + i \in 1..n + m /\ all[n + i] = qs[i]
      BY <1>1, <1>3
    <2>3. ASSUME NEW j \in (n + i + 1)..n + m
          PROVE  all[j].topic # t
      <3>1. j - n \in (i + 1)..m /\ j \in 1..n + m /\ ~ (j <= n)
        BY <1>1
      <3>2. all[j] = qs[j - n]
        BY <1>3, <3>1
      <3>. QED  BY <2>1, <3>1, <3>2
    <2>. QED  BY <1>2, <2>1, <2>2, <2>3 DEF SaysLast
  <1>6. ASSUME SaysLast(ps, t, v), Silent(qs, t)
        PROVE  SaysLast(all, t, v)
    <2>1. PICK i \in 1..n : /\ ps[i].topic = t /\ ps[i].value = v
                            /\ \A j \in (i + 1)..n : ps[j].topic # t
      BY <1>6 DEF SaysLast, n
    <2>2. i \in 1..n + m /\ all[i] = ps[i]
      BY <1>1, <1>3
    <2>3. ASSUME NEW j \in (i + 1)..n + m
          PROVE  all[j].topic # t
      <3>1. CASE j <= n
        BY <1>1, <1>3, <2>1, <3>1
      <3>2. CASE j > n
        <4>1. j - n \in 1..m /\ j \in 1..n + m
          BY <1>1, <3>2
        <4>2. all[j] = qs[j - n]
          BY <1>1, <1>3, <3>2, <4>1
        <4>. QED  BY <1>6, <4>1, <4>2 DEF Silent, m
      <3>. QED  BY <1>1, <3>1, <3>2
    <2>. QED  BY <1>2, <2>1, <2>2, <2>3 DEF SaysLast
  <1>. QED  BY <1>2, <1>4, <1>5, <1>6 DEF all

(* Unless something is dropped, what is said follows what is queued.       *)
LEMMA NothingDropped ==
    ASSUME QueueTyped, NEW ps \in Seq(Publication), TryPublish(ps), ~ dropped'
    PROVE  queue' = queue \o ps /\ ~ dropped
  <1>1. /\ queue \o ps \in Seq(Publication)
        /\ ~ (Len(queue \o ps) > QueueDepth) /\ ~ dropped
    BY ConcatProperties DEF TryPublish, QueueTyped
  <1>2. Len(queue \o ps) \in Nat /\ QueueDepth \in Nat
    BY <1>1, LenProperties
  <1>3. queue' = SubSeq(queue \o ps, 1, Len(queue \o ps))
    <2>1. (IF Len(queue \o ps) < QueueDepth THEN Len(queue \o ps) ELSE QueueDepth)
              = Len(queue \o ps)
      BY <1>1, <1>2
    <2>. QED  BY <2>1 DEF TryPublish
  <1>4. SubSeq(queue \o ps, 1, Len(queue \o ps)) = queue \o ps
    BY <1>1, SubSeqFull
  <1>. QED  BY <1>1, <1>3, <1>4

LEMMA Followed ==
    ASSUME QueueTyped, NEW ps \in Seq(Publication), TryPublish(ps), ~ dropped',
           UNCHANGED retained, NEW t, NEW v
    PROVE  /\ SaysLast(ps, t, v) => WillShow(t, v)'
           /\ Silent(ps, t) /\ WillShow(t, v) => WillShow(t, v)'
  <1>1. queue' = queue \o ps /\ queue \in Seq(Publication)
    BY NothingDropped DEF QueueTyped
  <1>2. SaysLast(ps, t, v) => SaysLast(queue', t, v)
    BY <1>1, Continued
  <1>3. Silent(ps, t) /\ SaysLast(queue, t, v) => SaysLast(queue', t, v)
    BY <1>1, Continued
  <1>4. Silent(ps, t) /\ Silent(queue, t) => Silent(queue', t)
    BY <1>1, Continued
  <1>5. WillShow(t, v)' <=> SaysLast(queue', t, v) \/ (Silent(queue', t) /\ retained'[t] = v)
    BY DEF WillShow, SaysLast, Silent
  <1>. QED  BY <1>2, <1>3, <1>4, <1>5 DEF WillShow

(* What is written to a live connection is retained.                       *)
LEMMA Written ==
    ASSUME QueueTyped, RetainedTyped, Pump, conn = "up", NEW t \in Retained, NEW v,
           WillShow(t, v)
    PROVE  WillShow(t, v)'
  <1>. DEFINE h == Head(queue)
              n == Len(queue)
  <1>1. /\ queue \in Seq(Publication) /\ queue # <<>> /\ queue' = Tail(queue)
        /\ retained' = [retained EXCEPT ![h.topic] = h.value]
    BY DEF Pump, QueueTyped
  <1>2. /\ n \in Nat /\ n >= 1 /\ h = queue[1]
        /\ Len(queue') = n - 1 /\ \A i \in 1..n - 1 : queue'[i] = queue[i + 1]
    BY <1>1, HeadTailProperties, LenProperties, EmptySeq
  <1>. HIDE DEF h, n
  <1>3. WillShow(t, v)' <=> SaysLast(queue', t, v) \/ (Silent(queue', t) /\ retained'[t] = v)
    BY DEF WillShow, SaysLast, Silent
  <1>4. retained'[t] = IF h.topic = t THEN h.value ELSE retained[t]
    BY <1>1 DEF RetainedTyped
  <1>5. CASE SaysLast(queue, t, v)
    <2>1. PICK i \in 1..n : /\ queue[i].topic = t /\ queue[i].value = v
                            /\ \A j \in (i + 1)..n : queue[j].topic # t
      BY <1>5 DEF SaysLast, n
    <2>2. ASSUME NEW j \in i..n - 1
          PROVE  queue'[j].topic # t
      <3>1. j + 1 \in (i + 1)..n /\ j \in 1..n - 1
        BY <1>2
      <3>. QED  BY <1>2, <2>1, <3>1
    <2>3. CASE i = 1
      <3>1. Silent(queue', t)
        BY <1>2, <2>2, <2>3 DEF Silent
      <3>. QED  BY <1>2, <1>3, <1>4, <2>1, <2>3, <3>1
    <2>4. CASE i # 1
      <3>1. i - 1 \in 1..Len(queue') /\ queue'[i - 1] = queue[i]
        BY <1>2, <2>4
      <3>2. \A j \in (i - 1 + 1)..Len(queue') : queue'[j].topic # t
        BY <1>2, <2>2
      <3>3. SaysLast(queue', t, v)
        BY <2>1, <3>1, <3>2 DEF SaysLast
      <3>. QED  BY <1>3, <3>3
    <2>. QED  BY <2>3, <2>4
  <1>6. CASE Silent(queue, t) /\ retained[t] = v
    <2>1. \A i \in 1..n : queue[i].topic # t
      BY <1>6 DEF Silent, n
    <2>2. ASSUME NEW j \in 1..n - 1
          PROVE  queue'[j].topic # t
      <3>1. j + 1 \in 1..n
        BY <1>2
      <3>. QED  BY <1>2, <2>1, <3>1
    <2>3. Silent(queue', t) /\ h.topic # t
      BY <1>2, <2>1, <2>2 DEF Silent
    <2>. QED  BY <1>3, <1>4, <1>6, <2>3
  <1>. QED  BY <1>5, <1>6 DEF WillShow

-----------------------------------------------------------------------------
(* What the broker has been told.  While the connection is one the         *)
(* publisher has been told of, this program will be shown online, and of a *)
(* device whose link has spoken on it the last the link said; unless       *)
(* something was dropped, or a replaced link has spoken since.             *)

Reached == conn = "up" /\ events = 0 /\ ~ dropped
Speaks(s) ==
    linked[Serial[s]] = s /\ link[s].task = "running" /\ link[s].seen = generation
Said(l, what) == IF what = "availability" THEN Presence(l) ELSE l.announced

SeenConnections ==
    /\ conn = "up" => connections > 0
    /\ \A s \in Sessions : link[s].seen <= generation
Announced ==
    \A s \in Sessions :
        link[s].seen # 0 /\ identity[s] # "new" => link[s].announced = Description(s)
BridgeWillShow == Reached => WillShow(<<"availability", Bridge>>, "online")
LinksWillShow ==
    \A s \in Sessions, what \in {"availability", "discovery"} :
        Reached /\ Speaks(s) /\ <<what, Serial[s]>> \notin overtaken =>
            WillShow(<<what, Serial[s]>>, Said(link[s], what))

RInv == SeenConnections /\ Announced /\ BridgeWillShow /\ LinksWillShow

LEMMA RInitSound == Init => RInv
  <1>. SUFFICES ASSUME Init PROVE RInv
    OBVIOUS
  <1>1. conn = "down" /\ generation = 0 /\ \A s \in Sessions : link[s].seen = 0
    BY DEF Init, NoLink
  <1>. QED  BY <1>1 DEF RInv, SeenConnections, Announced, BridgeWillShow, LinksWillShow, Reached

(* Nothing is said, and no link speaks that did not, or says otherwise     *)
(* than it did.                                                            *)
LEMMA NothingSaid ==
    ASSUME RInv, UNCHANGED <<queueVars, conn, events, retained>>,
           \A s \in Sessions :
              Reached /\ Speaks(s)' => /\ Speaks(s)
                                       /\ link'[s].presence = link[s].presence
                                       /\ link'[s].announced = link[s].announced
    PROVE  BridgeWillShow' /\ LinksWillShow'
  <1>1. \A t, v : WillShow(t, v)' <=> WillShow(t, v)
    BY DEF WillShow, Silent, SaysLast, queueVars
  <1>2. Reached' <=> Reached
    BY DEF Reached, queueVars
  <1>3. BridgeWillShow'
    BY <1>1, <1>2 DEF RInv, BridgeWillShow
  <1>4. ASSUME NEW s \in Sessions, NEW what \in {"availability", "discovery"},
               Reached', Speaks(s)', <<what, Serial[s]>> \notin overtaken'
        PROVE  WillShow(<<what, Serial[s]>>, Said(link[s], what))'
    <2>1. WillShow(<<what, Serial[s]>>, Said(link[s], what))
      BY <1>2, <1>4 DEF RInv, LinksWillShow, queueVars
    <2>2. Said(link'[s], what) = Said(link[s], what)
      BY <1>2, <1>4 DEF Said, Presence
    <2>3. PICK v : v = Said(link[s], what)
      OBVIOUS
    <2>4. WillShow(<<what, Serial[s]>>, v)'
      BY <1>1, <2>1, <2>3
    <2>. QED  BY <2>2, <2>3, <2>4
  <1>. QED  BY <1>3, <1>4 DEF LinksWillShow

(* The broker is not reached: nothing is promised.                         *)
LEMMA Unreached ==
    ASSUME ~ Reached'
    PROVE  BridgeWillShow' /\ LinksWillShow'
  BY DEF BridgeWillShow, LinksWillShow

(* A link speaks: about its own device only, and last of all what it       *)
(* counts as said, or nothing that changes it.                             *)
LEMMA LinkSpeaks ==
    ASSUME IInv, RInv, NEW s \in Sessions, NEW l \in Link, NEW ps \in Seq(Publication),
           Spoken(s, l, ps), UNCHANGED <<linked, generation, brokerVars, events>>,
           \A t : t[2] # Serial[s] => Silent(ps, t),
           \A what \in {"availability", "discovery"} :
              \/ SaysLast(ps, <<what, Serial[s]>>, Said(l, what))
              \/ /\ Silent(ps, <<what, Serial[s]>>)
                 /\ link[s].task = l.task /\ link[s].seen = l.seen
                 /\ Said(l, what) = Said(link[s], what)
    PROVE  BridgeWillShow' /\ LinksWillShow'
  <1>1. /\ QueueTyped /\ LinksTyped /\ TryPublish(ps) /\ UNCHANGED <<retained, conn, connections>>
        /\ link' = [link EXCEPT ![s] = l]
    BY TypesSplit DEF IInv, Spoken, brokerVars
  <1>2. SUFFICES ASSUME Reached' PROVE BridgeWillShow' /\ LinksWillShow'
    BY Unreached
  <1>3. Reached /\ ~ dropped'
    <2>1. ~ dropped'
      BY <1>2 DEF Reached
    <2>. QED  BY <1>1, <1>2, <2>1, NothingDropped DEF Reached
  <1>4. generation # 0
    BY <1>3, TypesSplit DEF Reached, RInv, SeenConnections, IInv, ConnectionsTyped
  <1>5. BridgeWillShow'
    <2>1. <<"availability", Bridge>>[2] # Serial[s]
      OBVIOUS
    <2>2. Silent(ps, <<"availability", Bridge>>)
      BY <2>1
    <2>. QED  BY <1>1, <1>3, <2>2, Followed DEF BridgeWillShow, RInv
  <1>6. ASSUME NEW r \in Sessions, NEW what \in {"availability", "discovery"},
               Speaks(r)', <<what, Serial[r]>> \notin overtaken'
        PROVE  WillShow(<<what, Serial[r]>>, Said(link[r], what))'
    <2>. DEFINE t == <<what, Serial[r]>>
    <2>1. PICK v : v = Said(link'[r], what)
      OBVIOUS
    <2>2. /\ SaysLast(ps, t, v) => WillShow(t, v)'
          /\ Silent(ps, t) /\ WillShow(t, v) => WillShow(t, v)'
      BY <1>1, <1>3, Followed
    <2>3. SaysLast(ps, t, v) \/ (Silent(ps, t) /\ WillShow(t, v))
      <3>1. CASE r = s
        <4>1. link'[s] = l /\ linked[Serial[s]] = s /\ l.task = "running" /\ l.seen = generation
          BY <1>1, <1>6, <3>1 DEF Speaks, LinksTyped
        <4>2. CASE SaysLast(ps, t, Said(l, what))
          BY <2>1, <3>1, <4>1, <4>2
        <4>3. CASE /\ Silent(ps, t) /\ link[s].task = l.task /\ link[s].seen = l.seen
                   /\ Said(l, what) = Said(link[s], what)
          <5>1. Speaks(s)
            BY <4>1, <4>3 DEF Speaks
          <5>2. t \notin Topics(ps) /\ overtaken' = overtaken \ Topics(ps)
            BY <4>1, <4>3, SilentOffTopic DEF Spoken
          <5>3. t \notin overtaken
            BY <1>6, <5>2
          <5>. QED  BY <1>3, <2>1, <3>1, <4>1, <4>3, <5>1, <5>3 DEF RInv, LinksWillShow
        <4>. QED  BY <3>1, <4>2, <4>3
      <3>2. CASE r # s
        <4>1. link'[r] = link[r]
          BY <1>1, <3>2 DEF LinksTyped
        <4>2. Speaks(r)
          BY <1>6, <4>1 DEF Speaks
        <4>3. Silent(ps, t) /\ t \notin overtaken
          <5>1. CASE Serial[r] # Serial[s]
            <6>1. t[2] # Serial[s]
              BY <5>1
            <6>2. Silent(ps, t)
              BY <6>1
            <6>3. t \notin Topics(ps)
              BY <6>2, SilentOffTopic
            <6>4. overtaken' \in {overtaken \ Topics(ps), overtaken \cup Topics(ps), overtaken}
              BY DEF Spoken
            <6>. QED  BY <1>6, <6>2, <6>3, <6>4
          <5>2. CASE Serial[r] = Serial[s]
            <6>1. linked[Serial[s]] = r /\ r # None /\ link[r].seen # 0
              BY <1>4, <4>2, <5>2 DEF Speaks
            <6>2. overtaken' = overtaken \cup Topics(ps)
              BY <3>2, <6>1 DEF Spoken
            <6>. QED  BY <1>6, <6>2, SilentOffTopic
          <5>. QED  BY <5>1, <5>2
        <4>4. WillShow(t, Said(link[r], what))
          BY <1>3, <4>2, <4>3 DEF RInv, LinksWillShow
        <4>. QED  BY <2>1, <4>1, <4>3, <4>4
      <3>. QED  BY <3>1, <3>2
    <2>4. WillShow(t, v)'
      BY <2>2, <2>3
    <2>. QED  BY <2>1, <2>4
  <1>. QED  BY <1>5, <1>6 DEF LinksWillShow

LEMMA ThreeParts ==
    ASSUME NEW ps \in Seq(Publication), NEW qs \in Seq(Publication),
           NEW rs \in Seq(Publication), NEW t, NEW v
    PROVE  /\ ps \o qs \o rs \in Seq(Publication)
           /\ Silent(ps, t) /\ Silent(qs, t) /\ Silent(rs, t) => Silent(ps \o qs \o rs, t)
           /\ SaysLast(ps, t, v) /\ Silent(qs, t) /\ Silent(rs, t) =>
                SaysLast(ps \o qs \o rs, t, v)
           /\ SaysLast(qs, t, v) /\ Silent(rs, t) => SaysLast(ps \o qs \o rs, t, v)
  <1>1. ps \o qs \in Seq(Publication)
    BY Continued
  <1>. QED  BY <1>1, Continued

LEMMA LinkSaysOf ==
    ASSUME NEW s \in Sessions, NEW l \in Link
    PROVE  /\ \A t : t # <<"gate", Serial[s]>> => Silent(Gates(s, l), t)
           /\ \A t : t # <<"discovery", Serial[s]>> => Silent(Discovery(s, l), t)
           /\ \/ l.announced # Description(s)
                   /\ SaysLast(Discovery(s, l), <<"discovery", Serial[s]>>, Description(s))
              \/ l.announced = Description(s)
                   /\ Silent(Discovery(s, l), <<"discovery", Serial[s]>>)
  <1>1. \A t : t # <<"gate", Serial[s]>> => Silent(Gates(s, l), t)
    BY SayLast, EmptyIsSilent DEF Gates
  <1>2. \A t : t # <<"discovery", Serial[s]>> => Silent(Discovery(s, l), t)
    BY SayLast, EmptyIsSilent DEF Discovery
  <1>3. \/ l.announced # Description(s)
             /\ SaysLast(Discovery(s, l), <<"discovery", Serial[s]>>, Description(s))
        \/ l.announced = Description(s)
             /\ Silent(Discovery(s, l), <<"discovery", Serial[s]>>)
    BY SayLast, EmptyIsSilent DEF Discovery
  <1>. QED  BY <1>1, <1>2, <1>3

(* What a link keeps of the connections and of its announcement.           *)
LEMMA LinkKeeps ==
    ASSUME IInv, RInv, NEW s \in Sessions, NEW l \in Link, link' = [link EXCEPT ![s] = l],
           UNCHANGED <<generation, conn, connections>>,
           l.seen <= generation,
           \A r \in Sessions \ {s} : identity'[r] = identity[r],
           l.seen # 0 /\ identity'[s] # "new" => l.announced = Description(s)'
    PROVE  SeenConnections' /\ Announced'
  <1>1. \A r \in Sessions : link'[r] = IF r = s THEN l ELSE link[r]
    BY TypesSplit DEF IInv, LinksTyped
  <1>2. SeenConnections'
    BY <1>1 DEF RInv, SeenConnections
  <1>3. Announced'
    BY <1>1 DEF RInv, Announced, Description
  <1>. QED  BY <1>2, <1>3

LEMMA RepublishTells ==
    ASSUME IInv, RInv, NEW s \in Sessions, NEW l \in Link, Republish(s, l),
           UNCHANGED <<linked, generation, brokerVars, events, identity>>,
           l.seen = link[s].seen
    PROVE  RInv'
  <1>1. /\ LinksTyped /\ QueueTyped /\ ConnectionsTyped
    BY TypesSplit DEF IInv
  <1>2. CASE generation = 0
    <2>1. link' = [link EXCEPT ![s] = l] /\ UNCHANGED queueVars
      BY <1>2 DEF Republish
    <2>2. l.seen = 0
      BY <1>1, <1>2 DEF RInv, SeenConnections, LinksTyped, Link
    <2>3. SeenConnections' /\ Announced'
      <3>1. l.seen <= generation /\ UNCHANGED <<generation, conn, connections>>
        BY <1>2, <2>2 DEF brokerVars
      <3>. QED  BY <2>1, <2>2, <3>1, LinkKeeps
    <2>4. ~ Reached'
      BY <1>1, <1>2 DEF Reached, RInv, SeenConnections, ConnectionsTyped, brokerVars
    <2>. QED  BY <2>3, <2>4, Unreached DEF RInv
  <1>3. CASE generation # 0
    <2>. DEFINE said == [l EXCEPT !.seen = generation, !.announced = Description(s),
                                  !.gated = @ \/ frame[s] # "none"]
                now == Say("discovery", Serial[s], Description(s))
                is == Say("availability", Serial[s], Presence(l))
                gates == Gates(s, l)
                ps == now \o is \o gates
    <2>1. now \in Seq(Publication) /\ is \in Seq(Publication) /\ gates \in Seq(Publication)
      BY LinkSays
    <2>2. Spoken(s, said, ps)
      BY <1>3 DEF Republish
    <2>3. /\ said \in Link /\ said.seen = generation /\ said.announced = Description(s)
          /\ said.presence = l.presence
      BY <1>1, LinkSays DEF Link, ConnectionsTyped
    <2>4. SeenConnections' /\ Announced'
      <3>1. link' = [link EXCEPT ![s] = said] /\ UNCHANGED <<conn, connections>>
        BY <2>2 DEF Spoken, brokerVars
      <3>2. Description(s)' = Description(s)
        BY DEF Description
      <3>3. generation <= generation
        BY <1>1 DEF ConnectionsTyped
      <3>. QED  BY <2>3, <3>1, <3>2, <3>3, LinkKeeps
    <2>5. /\ Said(said, "availability") = Presence(l)
          /\ Said(said, "discovery") = Description(s)
      BY <2>3 DEF Said, Presence
    <2>6. /\ \A t : t # <<"discovery", Serial[s]>> => Silent(now, t)
          /\ \A t : t # <<"availability", Serial[s]>> => Silent(is, t)
          /\ \A t : t # <<"gate", Serial[s]>> => Silent(gates, t)
          /\ SaysLast(now, <<"discovery", Serial[s]>>, Description(s))
          /\ SaysLast(is, <<"availability", Serial[s]>>, Presence(l))
      BY SayLast, LinkSaysOf
    <2>. HIDE DEF said, now, is, gates
    <2>7. ps \in Seq(Publication)
      BY <2>1, ThreeParts
    <2>8. \A t : t[2] # Serial[s] => Silent(ps, t)
      <3>. SUFFICES ASSUME NEW t, t[2] # Serial[s] PROVE Silent(ps, t)
        OBVIOUS
      <3>1. Silent(now, t) /\ Silent(is, t) /\ Silent(gates, t)
        BY <2>6
      <3>. QED  BY <2>1, <3>1, ThreeParts
    <2>9. SaysLast(ps, <<"availability", Serial[s]>>, Presence(l))
      BY <2>1, <2>6, ThreeParts
    <2>10. SaysLast(ps, <<"discovery", Serial[s]>>, Description(s))
      BY <2>1, <2>6, ThreeParts
    <2>11. \A what \in {"availability", "discovery"} :
             SaysLast(ps, <<what, Serial[s]>>, Said(said, what))
      BY <2>5, <2>9, <2>10
    <2>. HIDE DEF ps
    <2>12. BridgeWillShow' /\ LinksWillShow'
      BY <2>2, <2>3, <2>7, <2>8, <2>11, LinkSpeaks
    <2>. QED  BY <2>4, <2>12 DEF RInv
  <1>. QED  BY <1>2, <1>3

LEMMA LinkStartsTells ==
    ASSUME IInv, RInv, NEW s \in Sessions, LinkStarts(s)
    PROVE  RInv'
  <1>. DEFINE l == [link[s] EXCEPT !.task = "running"]
  <1>1. link[s] \in Link
    BY TypesSplit DEF IInv, LinksTyped
  <1>2. l \in Link /\ l.seen = link[s].seen
    BY <1>1 DEF Link
  <1>3. Republish(s, l) /\ UNCHANGED <<linked, generation, brokerVars, events, identity>>
    BY DEF LinkStarts, publisherVars
  <1>. QED  BY <1>2, <1>3, RepublishTells

LEMMA ReconnectedTells ==
    ASSUME IInv, RInv, NEW s \in Sessions, Reconnected(s)
    PROVE  RInv'
  <1>1. link[s] \in Link
    BY TypesSplit DEF IInv, LinksTyped
  <1>2. Republish(s, link[s]) /\ UNCHANGED <<linked, generation, brokerVars, events, identity>>
    BY DEF Reconnected, publisherVars, worldVars
  <1>. QED  BY <1>1, <1>2, RepublishTells

(* A link that has not spoken on this connection, or stops speaking,       *)
(* promises nothing.                                                       *)
LEMMA Unspoken ==
    ASSUME IInv, RInv, NEW s \in Sessions, NEW l \in Link, link' = [link EXCEPT ![s] = l],
           UNCHANGED <<queueVars, linked, generation, brokerVars, events>>,
           \A r \in Sessions \ {s} : identity'[r] = identity[r],
           l.seen \in {0, link[s].seen},
           l.seen # 0 => l.announced = link[s].announced /\ identity' = identity,
           l.seen = 0 \/ l.task # "running"
    PROVE  RInv'
  <1>1. LinksTyped /\ ConnectionsTyped
    BY TypesSplit DEF IInv
  <1>2. SeenConnections' /\ Announced'
    <2>1. l.seen <= generation
      BY <1>1 DEF RInv, SeenConnections, LinksTyped, Link, ConnectionsTyped
    <2>2. l.seen # 0 /\ identity'[s] # "new" => l.announced = Description(s)'
      BY DEF RInv, Announced, Description
    <2>. QED  BY <2>1, <2>2, LinkKeeps DEF brokerVars
  <1>3. ASSUME NEW r \in Sessions, Reached, Speaks(r)'
        PROVE  Speaks(r) /\ link'[r] = link[r]
    <2>1. generation # 0
      BY <1>1, <1>3 DEF Reached, RInv, SeenConnections, ConnectionsTyped
    <2>2. r # s
      BY <1>1, <1>3, <2>1 DEF Speaks, LinksTyped
    <2>. QED  BY <1>1, <1>3, <2>2 DEF Speaks, LinksTyped
  <1>4. BridgeWillShow' /\ LinksWillShow'
    BY <1>3, NothingSaid DEF brokerVars
  <1>. QED  BY <1>2, <1>4 DEF RInv

LEMMA TelemetryArrivedTells ==
    ASSUME IInv, RInv, NEW s \in Sessions, TelemetryArrived(s)
    PROVE  RInv'
  <1>. DEFINE l == [link[s] EXCEPT !.presence = "reporting"]
              said == [l EXCEPT !.announced = Description(s), !.gated = TRUE]
              now == Discovery(s, l)
              is == Say("availability", Serial[s], "online")
              gates == Gates(s, l)
              ps == now \o is \o gates
  <1>1. link[s] \in Link /\ LinksTyped /\ QueueTyped /\ ConnectionsTyped
    BY TypesSplit DEF IInv, LinksTyped
  <1>2. /\ l \in Link /\ l.task = link[s].task /\ l.seen = link[s].seen
        /\ l.announced = link[s].announced /\ l.presence = "reporting"
    BY <1>1 DEF Link
  <1>3. UNCHANGED <<linked, generation, brokerVars, events, identity>>
    BY DEF TelemetryArrived, publisherVars
  <1>4. CASE l.seen = 0
    <2>1. link' = [link EXCEPT ![s] = l] /\ UNCHANGED queueVars
      BY <1>4 DEF TelemetryArrived
    <2>. HIDE DEF l
    <2>. QED  BY <1>2, <1>3, <1>4, <2>1, Unspoken
  <1>5. CASE l.seen # 0
    <2>1. now \in Seq(Publication) /\ is \in Seq(Publication) /\ gates \in Seq(Publication)
      BY <1>2, LinkSays
    <2>2. Spoken(s, said, ps)
      BY <1>5 DEF TelemetryArrived
    <2>3. /\ said \in Link /\ said.task = link[s].task /\ said.seen = link[s].seen
          /\ said.announced = Description(s) /\ said.presence = "reporting"
      BY <1>2, LinkSays DEF Link
    <2>4. SeenConnections' /\ Announced'
      <3>1. link' = [link EXCEPT ![s] = said] /\ UNCHANGED <<generation, conn, connections>>
        BY <1>3, <2>2 DEF Spoken, brokerVars
      <3>2. Description(s)' = Description(s)
        BY <1>3 DEF Description
      <3>3. said.seen <= generation
        BY <2>3 DEF RInv, SeenConnections
      <3>. QED  BY <1>3, <2>3, <3>1, <3>2, <3>3, LinkKeeps
    <2>5. /\ Said(said, "availability") = "online"
          /\ Said(said, "discovery") = Description(s)
          /\ Said(link[s], "discovery") = l.announced
      BY <1>2, <2>3 DEF Said, Presence
    <2>6. /\ \A t : t # <<"discovery", Serial[s]>> => Silent(now, t)
          /\ \A t : t # <<"availability", Serial[s]>> => Silent(is, t)
          /\ \A t : t # <<"gate", Serial[s]>> => Silent(gates, t)
          /\ SaysLast(is, <<"availability", Serial[s]>>, "online")
      BY <1>2, SayLast, LinkSaysOf
    <2>7. \/ SaysLast(now, <<"discovery", Serial[s]>>, Description(s))
          \/ l.announced = Description(s) /\ Silent(now, <<"discovery", Serial[s]>>)
      BY <1>2, LinkSaysOf
    <2>. HIDE DEF l, said, now, is, gates
    <2>8. ps \in Seq(Publication)
      BY <2>1, ThreeParts
    <2>9. \A t : t[2] # Serial[s] => Silent(ps, t)
      <3>. SUFFICES ASSUME NEW t, t[2] # Serial[s] PROVE Silent(ps, t)
        OBVIOUS
      <3>1. Silent(now, t) /\ Silent(is, t) /\ Silent(gates, t)
        BY <2>6
      <3>. QED  BY <2>1, <3>1, ThreeParts
    <2>10. SaysLast(ps, <<"availability", Serial[s]>>, "online")
      BY <2>1, <2>6, ThreeParts
    <2>11. \/ SaysLast(ps, <<"discovery", Serial[s]>>, Description(s))
           \/ l.announced = Description(s) /\ Silent(ps, <<"discovery", Serial[s]>>)
      <3>1. /\ Silent(is, <<"discovery", Serial[s]>>)
            /\ Silent(gates, <<"discovery", Serial[s]>>)
        BY <2>6
      <3>. QED  BY <2>1, <2>7, <3>1, ThreeParts
    <2>. HIDE DEF ps
    <2>12. \A what \in {"availability", "discovery"} :
              \/ SaysLast(ps, <<what, Serial[s]>>, Said(said, what))
              \/ /\ Silent(ps, <<what, Serial[s]>>)
                 /\ link[s].task = said.task /\ link[s].seen = said.seen
                 /\ Said(said, what) = Said(link[s], what)
      BY <2>3, <2>5, <2>10, <2>11
    <2>13. BridgeWillShow' /\ LinksWillShow'
      BY <1>3, <2>2, <2>3, <2>8, <2>9, <2>12, LinkSpeaks
    <2>. QED  BY <2>4, <2>13 DEF RInv
  <1>. QED  BY <1>4, <1>5

LEMMA IdentityArrivedTells ==
    ASSUME IInv, RInv, NEW s \in Sessions, IdentityArrived(s)
    PROVE  RInv'
  <1>. DEFINE l == link[s]
              said == [l EXCEPT !.announced = Description(s)]
              now == Discovery(s, l)
              entries == Say("config", Serial[s], "entries")
              ps == now \o entries
  <1>1. l \in Link /\ LinksTyped /\ QueueTyped /\ ConnectionsTyped /\ WorldTyped
    BY TypesSplit DEF IInv, LinksTyped
  <1>2. /\ UNCHANGED <<linked, generation, brokerVars, events>>
        /\ \A r \in Sessions \ {s} : identity'[r] = identity[r]
        /\ Description(s)' = Description(s)
    BY <1>1 DEF IdentityArrived, publisherVars, WorldTyped, Description
  <1>3. CASE l.seen = 0
    <2>1. link' = [link EXCEPT ![s] = l] /\ UNCHANGED queueVars
      BY <1>1, <1>3 DEF IdentityArrived, LinksTyped
    <2>. HIDE DEF l
    <2>. QED  BY <1>1, <1>2, <1>3, <2>1, Unspoken DEF l
  <1>4. CASE l.seen # 0
    <2>1. now \in Seq(Publication) /\ entries \in Seq(Publication)
      BY <1>1, LinkSays, SayTyped DEF Value
    <2>2. Spoken(s, said, ps)
      BY <1>4 DEF IdentityArrived
    <2>3. /\ said \in Link /\ said.task = l.task /\ said.seen = l.seen
          /\ said.announced = Description(s) /\ said.presence = l.presence
      BY <1>1, LinkSays DEF Link
    <2>4. SeenConnections' /\ Announced'
      <3>1. link' = [link EXCEPT ![s] = said] /\ UNCHANGED <<generation, conn, connections>>
        BY <1>2, <2>2 DEF Spoken, brokerVars
      <3>2. said.seen <= generation
        BY <2>3 DEF RInv, SeenConnections
      <3>. QED  BY <1>2, <2>3, <3>1, <3>2, LinkKeeps
    <2>5. /\ Said(said, "availability") = Said(l, "availability")
          /\ Said(said, "discovery") = Description(s)
          /\ Said(l, "discovery") = l.announced
      BY <2>3 DEF Said, Presence
    <2>6. /\ \A t : t # <<"discovery", Serial[s]>> => Silent(now, t)
          /\ \A t : t # <<"config", Serial[s]>> => Silent(entries, t)
      BY <1>1, SayLast, LinkSaysOf
    <2>7. \/ SaysLast(now, <<"discovery", Serial[s]>>, Description(s))
          \/ l.announced = Description(s) /\ Silent(now, <<"discovery", Serial[s]>>)
      BY <1>1, LinkSaysOf
    <2>. HIDE DEF said, now, entries
    <2>8. ps \in Seq(Publication)
      BY <2>1, Continued
    <2>9. \A t : t[2] # Serial[s] => Silent(ps, t)
      <3>. SUFFICES ASSUME NEW t, t[2] # Serial[s] PROVE Silent(ps, t)
        OBVIOUS
      <3>1. Silent(now, t) /\ Silent(entries, t)
        BY <2>6
      <3>. QED  BY <2>1, <3>1, Continued
    <2>10. Silent(ps, <<"availability", Serial[s]>>)
      <3>1. /\ Silent(now, <<"availability", Serial[s]>>)
            /\ Silent(entries, <<"availability", Serial[s]>>)
        BY <2>6
      <3>. QED  BY <2>1, <3>1, Continued
    <2>11. \/ SaysLast(ps, <<"discovery", Serial[s]>>, Description(s))
           \/ l.announced = Description(s) /\ Silent(ps, <<"discovery", Serial[s]>>)
      <3>1. Silent(entries, <<"discovery", Serial[s]>>)
        BY <2>6
      <3>. QED  BY <2>1, <2>7, <3>1, Continued
    <2>. HIDE DEF ps
    <2>12. \A what \in {"availability", "discovery"} :
              \/ SaysLast(ps, <<what, Serial[s]>>, Said(said, what))
              \/ /\ Silent(ps, <<what, Serial[s]>>)
                 /\ link[s].task = said.task /\ link[s].seen = said.seen
                 /\ Said(said, what) = Said(link[s], what)
      BY <2>3, <2>5, <2>10, <2>11
    <2>13. BridgeWillShow' /\ LinksWillShow'
      BY <1>2, <2>2, <2>3, <2>8, <2>9, <2>12, LinkSpeaks
    <2>. QED  BY <2>4, <2>13 DEF RInv
  <1>. QED  BY <1>3, <1>4

LEMMA WentQuietTells ==
    ASSUME IInv, RInv, NEW s \in Sessions, WentQuiet(s)
    PROVE  RInv'
  <1>. DEFINE l == [link[s] EXCEPT !.presence = "quiet"]
              ps == Say("availability", Serial[s], "offline")
  <1>1. link[s] \in Link /\ LinksTyped /\ ConnectionsTyped
    BY TypesSplit DEF IInv, LinksTyped
  <1>2. /\ l \in Link /\ l.task = link[s].task /\ l.seen = link[s].seen
        /\ l.announced = link[s].announced /\ l.presence = "quiet"
    BY <1>1 DEF Link
  <1>3. UNCHANGED <<linked, generation, brokerVars, events, identity>>
    BY DEF WentQuiet, publisherVars, worldVars
  <1>4. CASE l.seen = 0
    <2>1. link' = [link EXCEPT ![s] = l] /\ UNCHANGED queueVars
      BY <1>4 DEF WentQuiet
    <2>. HIDE DEF l
    <2>. QED  BY <1>2, <1>3, <1>4, <2>1, Unspoken
  <1>5. CASE l.seen # 0
    <2>1. Spoken(s, l, ps) /\ ps \in Seq(Publication)
      BY <1>2, <1>5, LinkSays DEF WentQuiet
    <2>2. /\ \A t : t # <<"availability", Serial[s]>> => Silent(ps, t)
          /\ SaysLast(ps, <<"availability", Serial[s]>>, "offline")
      BY SayLast
    <2>3. /\ Said(l, "availability") = "offline"
          /\ Said(l, "discovery") = Said(link[s], "discovery")
      BY <1>2 DEF Said, Presence
    <2>. HIDE DEF l, ps
    <2>4. SeenConnections' /\ Announced'
      <3>1. link' = [link EXCEPT ![s] = l] /\ UNCHANGED <<generation, conn, connections>>
        BY <1>3, <2>1 DEF Spoken, brokerVars
      <3>2. l.seen <= generation
        BY <1>2 DEF RInv, SeenConnections
      <3>3. l.seen # 0 /\ identity'[s] # "new" => l.announced = Description(s)'
        BY <1>2, <1>3 DEF RInv, Announced, Description
      <3>. QED  BY <1>2, <1>3, <3>1, <3>2, <3>3, LinkKeeps
    <2>5. \A t : t[2] # Serial[s] => Silent(ps, t)
      BY <2>2
    <2>6. Silent(ps, <<"discovery", Serial[s]>>)
      BY <2>2
    <2>7. \A what \in {"availability", "discovery"} :
              \/ SaysLast(ps, <<what, Serial[s]>>, Said(l, what))
              \/ /\ Silent(ps, <<what, Serial[s]>>)
                 /\ link[s].task = l.task /\ link[s].seen = l.seen
                 /\ Said(l, what) = Said(link[s], what)
      BY <1>2, <2>2, <2>3, <2>6
    <2>8. BridgeWillShow' /\ LinksWillShow'
      BY <1>2, <1>3, <2>1, <2>5, <2>7, LinkSpeaks
    <2>. QED  BY <2>4, <2>8 DEF RInv
  <1>. QED  BY <1>4, <1>5

LEMMA LinkEndsTells ==
    ASSUME IInv, RInv, NEW s \in Sessions, LinkBreaks(s) \/ Farewell(s) \/ Stops(s)
    PROVE  RInv'
  <1>. DEFINE leaving == [link[s] EXCEPT !.task = "leaving"]
  <1>1. link[s] \in Link
    BY TypesSplit DEF IInv, LinksTyped
  <1>2. /\ UNCHANGED <<queueVars, linked, generation, brokerVars, events, identity>>
    BY DEF LinkBreaks, Farewell, Stops, publisherVars, worldVars
  <1>3. CASE LinkBreaks(s)
    <2>1. /\ leaving \in Link /\ leaving.task = "leaving"
          /\ leaving.seen = link[s].seen /\ leaving.announced = link[s].announced
          /\ link' = [link EXCEPT ![s] = leaving]
      BY <1>1, <1>3 DEF Link, LinkBreaks
    <2>. HIDE DEF leaving
    <2>. QED  BY <1>2, <2>1, Unspoken
  <1>4. CASE Farewell(s) \/ Stops(s)
    <2>1. NoLink \in Link /\ NoLink.seen = 0
      BY DEF NoLink, Link
    <2>2. LinkOver \in Link /\ LinkOver.seen = 0
      BY <2>1 DEF LinkOver, Link
    <2>3. link' = [link EXCEPT ![s] = LinkOver]
      BY <1>4 DEF Farewell, Stops
    <2>. QED  BY <1>2, <2>2, <2>3, Unspoken
  <1>. QED  BY <1>3, <1>4

(* A new link has yet to speak, and the one it replaces is no longer the   *)
(* device's.                                                               *)
LEMMA LinkDeviceTells ==
    ASSUME IInv, RInv, NEW d \in Devices, LinkDevice(d)
    PROVE  RInv'
  <1>. DEFINE s == registered[d]
  <1>1. WorldTyped /\ LinksTyped /\ PublisherTyped
    BY TypesSplit DEF IInv
  <1>2. UNCHANGED <<queueVars, conn, connections, events, retained, generation, identity>>
    BY DEF LinkDevice, worldVars, brokerVars
  <1>3. CASE s = None \/ linked[d] = s \/ session[s] # "open"
    <2>1. UNCHANGED <<link, linked>>
      BY <1>3 DEF LinkDevice
    <2>2. SeenConnections' /\ Announced'
      BY <1>2, <2>1 DEF RInv, SeenConnections, Announced, Description
    <2>3. BridgeWillShow' /\ LinksWillShow'
      BY <1>2, <2>1, NothingSaid DEF Speaks
    <2>. QED  BY <2>2, <2>3 DEF RInv
  <1>4. CASE ~ (s = None \/ linked[d] = s \/ session[s] # "open")
    <2>1. /\ s \in Sessions
          /\ link' = [link EXCEPT ![s].task = "spawned"]
          /\ linked' = [linked EXCEPT ![d] = s]
      BY <1>1, <1>4 DEF LinkDevice, WorldTyped
    <2>. HIDE DEF s
    <2>2. PICK l : l = [link[s] EXCEPT !.task = "spawned"]
      OBVIOUS
    <2>3. /\ l.task = "spawned" /\ l.seen = link[s].seen /\ l.announced = link[s].announced
      BY <1>1, <2>1, <2>2 DEF LinksTyped, Link
    <2>4. \A r \in Sessions : link'[r] = IF r = s THEN l ELSE link[r]
      BY <1>1, <2>1, <2>2 DEF LinksTyped
    <2>5. SeenConnections' /\ Announced'
      BY <1>2, <2>3, <2>4 DEF RInv, SeenConnections, Announced, Description
    <2>6. ASSUME NEW r \in Sessions, Speaks(r)'
          PROVE  Speaks(r) /\ link'[r] = link[r]
      <3>1. r # s
        BY <2>3, <2>4, <2>6 DEF Speaks
      <3>2. Serial[r] # d
        BY <1>1, <2>1, <2>6, <3>1 DEF Speaks, PublisherTyped
      <3>. QED  BY <1>1, <1>2, <2>1, <2>4, <2>6, <3>1, <3>2 DEF Speaks, PublisherTyped
    <2>7. BridgeWillShow' /\ LinksWillShow'
      BY <1>2, <2>6, NothingSaid
    <2>. QED  BY <2>5, <2>7 DEF RInv
  <1>. QED  BY <1>3, <1>4

LEMMA SilentStepsTell ==
    ASSUME IInv, RInv,
           \/ AbortReplaced \/ DevicesChanged
           \/ \E s \in Sessions : Connects(s) \/ Reports(s) \/ Closes(s) \/ Unregisters(s)
    PROVE  RInv'
  <1>1. UNCHANGED <<link, linked, queueVars, conn, connections, events, retained, generation>>
    BY DEF AbortReplaced, DevicesChanged, Connects, Reports, Closes, Unregisters, linkVars,
           publisherVars, brokerVars
  <1>2. \A s \in Sessions : identity'[s] = identity[s] \/ identity'[s] = "new"
    BY TypesSplit DEF IInv, WorldTyped, AbortReplaced, DevicesChanged, Connects, Reports,
       Closes, Unregisters, worldVars
  <1>3. SeenConnections' /\ Announced'
    BY <1>1, <1>2 DEF RInv, SeenConnections, Announced, Description
  <1>4. BridgeWillShow' /\ LinksWillShow'
    BY <1>1, NothingSaid DEF Speaks
  <1>. QED  BY <1>3, <1>4 DEF RInv

(* The publisher hears of the connection and says that this program is     *)
(* online; no link has spoken on it yet.                                   *)
LEMMA HandleConnectedTells ==
    ASSUME IInv, RInv, HandleConnected
    PROVE  RInv'
  <1>. DEFINE ps == Say("availability", Bridge, "online")
  <1>1. QueueTyped /\ LinksTyped /\ ConnectionsTyped
    BY TypesSplit DEF IInv
  <1>2. /\ TryPublish(ps) /\ generation' = generation + 1
        /\ UNCHANGED <<link, linked, identity, conn, connections, retained>>
    BY DEF HandleConnected, worldVars, linkVars, brokerVars
  <1>3. generation \in Nat /\ \A s \in Sessions : link[s].seen \in Nat
    BY <1>1 DEF ConnectionsTyped, LinksTyped, Link
  <1>4. SeenConnections' /\ Announced'
    BY <1>2, <1>3 DEF RInv, SeenConnections, Announced, Description
  <1>5. BridgeWillShow'
    <2>1. ASSUME Reached'
          PROVE  WillShow(<<"availability", Bridge>>, "online")'
      <3>1. ~ dropped'
        BY <2>1 DEF Reached
      <3>2. ps \in Seq(Publication) /\ SaysLast(ps, <<"availability", Bridge>>, "online")
        BY BridgeSayTyped, SayLast
      <3>. HIDE DEF ps
      <3>. QED  BY <1>1, <1>2, <3>1, <3>2, Followed
    <2>. QED  BY <2>1 DEF BridgeWillShow
  <1>6. LinksWillShow'
    <2>1. \A s \in Sessions : link[s].seen # generation + 1
      BY <1>3 DEF RInv, SeenConnections
    <2>. QED  BY <1>2, <2>1 DEF LinksWillShow, Speaks
  <1>. QED  BY <1>4, <1>5, <1>6 DEF RInv

(* What is said of a device when it has left concerns no other.            *)
LEMMA SessionEndedTells ==
    ASSUME IInv, RInv, SessionEnded
    PROVE  RInv'
  <1>. DEFINE s == Head(farewells)
              d == Serial[s]
              ps == Say("availability", d, "offline")
  <1>1. QueueTyped /\ LinksTyped /\ ConnectionsTyped /\ PublisherTyped
    BY TypesSplit DEF IInv
  <1>2. s \in Sessions /\ d \in Devices
    BY <1>1, HeadTailProperties DEF SessionEnded, PublisherTyped
  <1>3. /\ UNCHANGED <<link, identity, generation, events, conn, connections, retained, overtaken>>
    BY DEF SessionEnded, worldVars, linkVars, brokerVars, queueVars
  <1>4. SeenConnections' /\ Announced'
    BY <1>3 DEF RInv, SeenConnections, Announced, Description
  <1>5. CASE linked[d] \notin {s, None}
    <2>1. UNCHANGED <<linked, queueVars>>
      BY <1>5 DEF SessionEnded
    <2>2. BridgeWillShow' /\ LinksWillShow'
      BY <1>3, <2>1, NothingSaid DEF Speaks
    <2>. QED  BY <1>4, <2>2 DEF RInv
  <1>6. CASE linked[d] \in {s, None}
    <2>1. linked' = [linked EXCEPT ![d] = None] /\ TryPublish(ps)
      BY <1>6 DEF SessionEnded
    <2>2. ps \in Seq(Publication) /\ \A t : t # <<"availability", d>> => Silent(ps, t)
      BY <1>2, SayTyped, SayLast DEF Value
    <2>. HIDE DEF d, ps
    <2>3. ASSUME Reached'
          PROVE  /\ WillShow(<<"availability", Bridge>>, "online")'
                 /\ LinksWillShow'
      <3>1. ~ dropped' /\ Reached
        BY <1>1, <1>3, <2>1, <2>2, <2>3, NothingDropped DEF Reached
      <3>2. <<"availability", Bridge>> # <<"availability", d>>
        BY <1>2
      <3>3. WillShow(<<"availability", Bridge>>, "online")'
        BY <1>1, <1>3, <2>1, <2>2, <3>1, <3>2, Followed DEF RInv, BridgeWillShow
      <3>4. ASSUME NEW r \in Sessions, NEW what \in {"availability", "discovery"},
                   Speaks(r)', <<what, Serial[r]>> \notin overtaken'
            PROVE  WillShow(<<what, Serial[r]>>, Said(link[r], what))'
        <4>1. Serial[r] # d
          BY <1>1, <2>1, <3>4 DEF Speaks, PublisherTyped
        <4>2. Speaks(r)
          BY <1>1, <1>2, <1>3, <2>1, <3>4, <4>1 DEF Speaks, PublisherTyped
        <4>3. Silent(ps, <<what, Serial[r]>>)
          BY <2>2, <4>1
        <4>4. PICK v : v = Said(link[r], what)
          OBVIOUS
        <4>5. WillShow(<<what, Serial[r]>>, v)
          BY <1>3, <3>1, <3>4, <4>2, <4>4 DEF RInv, LinksWillShow
        <4>6. WillShow(<<what, Serial[r]>>, v)'
          BY <1>1, <1>3, <2>1, <2>2, <3>1, <4>3, <4>5, Followed
        <4>. QED  BY <1>3, <4>4, <4>6
      <3>. QED  BY <3>3, <3>4 DEF LinksWillShow
    <2>4. BridgeWillShow' /\ LinksWillShow'
      BY <2>3, Unreached DEF BridgeWillShow
    <2>. QED  BY <1>4, <2>4 DEF RInv
  <1>. QED  BY <1>5, <1>6

LEMMA BrokerTells ==
    ASSUME IInv, RInv, BrokerConnects \/ Pump \/ BrokerDies \/ BrokerNotices
    PROVE  RInv'
  <1>1. QueueTyped /\ RetainedTyped /\ ConnectionsTyped /\ PublisherTyped
    BY TypesSplit DEF IInv
  <1>2. UNCHANGED <<link, linked, generation, identity, dropped, overtaken>>
    BY DEF BrokerConnects, Pump, BrokerDies, BrokerNotices, worldVars, linkVars,
           publisherVars, queueVars
  <1>3. SeenConnections' /\ Announced'
    <2>1. conn' = "up" => connections' > 0
      BY <1>1 DEF RInv, SeenConnections, ConnectionsTyped, BrokerConnects, Pump, BrokerDies,
                  BrokerNotices
    <2>. QED  BY <1>2, <2>1 DEF RInv, SeenConnections, Announced, Description
  <1>4. CASE Pump /\ conn = "up"
    <2>1. UNCHANGED <<events, conn>>
      BY <1>4 DEF Pump
    <2>2. Reached' <=> Reached
      BY <1>2, <2>1 DEF Reached
    <2>3. BridgeWillShow'
      <3>1. <<"availability", Bridge>> \in Retained
        BY DEF Retained
      <3>. QED  BY <1>1, <1>4, <2>2, <3>1, Written DEF RInv, BridgeWillShow
    <2>4. ASSUME NEW s \in Sessions, NEW what \in {"availability", "discovery"},
                 Reached', Speaks(s)', <<what, Serial[s]>> \notin overtaken'
          PROVE  WillShow(<<what, Serial[s]>>, Said(link[s], what))'
      <3>1. <<what, Serial[s]>> \in Retained
        BY DEF Retained
      <3>2. PICK v : v = Said(link[s], what)
        OBVIOUS
      <3>3. Speaks(s)
        BY <1>2, <2>4 DEF Speaks
      <3>4. WillShow(<<what, Serial[s]>>, v)
        BY <1>2, <2>2, <2>4, <3>2, <3>3 DEF RInv, LinksWillShow
      <3>5. WillShow(<<what, Serial[s]>>, v)'
        BY <1>1, <1>4, <3>1, <3>4, Written
      <3>. QED  BY <1>2, <3>2, <3>5
    <2>5. LinksWillShow'
      BY <2>4 DEF LinksWillShow
    <2>. QED  BY <1>3, <2>3, <2>5 DEF RInv
  <1>5. CASE ~ (Pump /\ conn = "up")
    <2>1. ~ Reached'
      BY <1>1, <1>5 DEF Reached, BrokerConnects, Pump, BrokerDies, BrokerNotices,
                        ConnectionsTyped
    <2>. QED  BY <1>3, <2>1, Unreached DEF RInv
  <1>. QED  BY <1>4, <1>5

LEMMA NextTells == IInv /\ RInv /\ [Next]_vars => RInv'
  <1>. SUFFICES ASSUME IInv, RInv, [Next]_vars PROVE RInv'
    OBVIOUS
  <1>1. ASSUME NEW s \in Sessions, LinkStep(s) \/ WentQuiet(s)
        PROVE  RInv'
    BY <1>1, LinkStartsTells, ReconnectedTells, TelemetryArrivedTells, IdentityArrivedTells,
       WentQuietTells, LinkEndsTells DEF LinkStep
  <1>2. CASE PublisherStep
    BY <1>2, LinkDeviceTells, SilentStepsTell, HandleConnectedTells, SessionEndedTells
       DEF PublisherStep
  <1>3. CASE BrokerConnects \/ Pump \/ BrokerDies \/ BrokerNotices
    BY <1>3, BrokerTells
  <1>4. ASSUME NEW s \in Sessions, Connects(s) \/ Reports(s) \/ Closes(s) \/ Unregisters(s)
        PROVE  RInv'
    BY <1>4, SilentStepsTell
  <1>5. CASE UNCHANGED vars
    <2>1. UNCHANGED <<link, linked, queueVars, conn, connections, events, retained, generation,
                      identity>>
      BY <1>5 DEF vars, worldVars, linkVars, publisherVars, brokerVars
    <2>2. SeenConnections' /\ Announced'
      BY <2>1 DEF RInv, SeenConnections, Announced, Description
    <2>3. BridgeWillShow' /\ LinksWillShow'
      BY <2>1, NothingSaid DEF Speaks
    <2>. QED  BY <2>2, <2>3 DEF RInv
  <1>. QED  BY <1>1, <1>2, <1>3, <1>4, <1>5 DEF Next

-----------------------------------------------------------------------------
(* The theorems.                                                           *)

LEMMA NextSound == IInv /\ [Next]_vars => IInv'
  <1>. SUFFICES ASSUME IInv, [Next]_vars PROVE IInv'
    OBVIOUS
  <1>1. ASSUME NEW s \in Sessions, LinkStep(s) \/ WentQuiet(s)
        PROVE  IInv'
    BY <1>1, LinkStartsSound, ReconnectedSound, TelemetryArrivedSound, IdentityArrivedSound,
       WentQuietSound, LinkBreaksSound, FarewellSound, StopsSound DEF LinkStep
  <1>2. CASE PublisherStep
    BY <1>2, LinkDeviceSound, AbortReplacedSound, HandleConnectedSound, DevicesChangedSound,
       SessionEndedSound DEF PublisherStep
  <1>3. CASE BrokerConnects \/ Pump \/ BrokerDies \/ BrokerNotices
    BY <1>3, BrokerSound
  <1>4. ASSUME NEW s \in Sessions, Connects(s) \/ Reports(s) \/ Closes(s) \/ Unregisters(s)
        PROVE  IInv'
    BY <1>4, SessionsSound
  <1>5. CASE UNCHANGED vars
    <2>1. TypeOK'
      BY <1>5 DEF vars, worldVars, linkVars, publisherVars, queueVars, brokerVars, IInv, TypeOK
    <2>2. OfTheDevice' /\ Leaving' /\ FarewellsOver' /\ Attended'
      BY <1>5 DEF vars, worldVars, linkVars, publisherVars, IInv, OfTheDevice, Leaving,
                  FarewellsOver, Attended
    <2>. QED  BY <2>1, <2>2 DEF IInv
  <1>. QED  BY <1>1, <1>2, <1>3, <1>4, <1>5 DEF Next

(* The inductive invariant holds throughout.                               *)
THEOREM PublisherInvariant == Spec => []IInv
  BY InitSound, NextSound, PTL DEF Spec

(* Every variable keeps its type; in particular the queue for the broker   *)
(* never holds more than QueueDepth publications, whatever is said, and    *)
(* no connection is handled twice or forgotten.                            *)
THEOREM TypeCorrect == Spec => []TypeOK
  <1>1. IInv => TypeOK
    BY DEF IInv
  <1>. QED  BY PublisherInvariant, <1>1, PTL

(* What was said has been retained once the queue has been written out.    *)
LEMMA SettledShows == IInv /\ RInv => RetainedIsTrue
  <1>. SUFFICES ASSUME IInv, RInv, Settled, ~ dropped
                PROVE  /\ retained[<<"availability", Bridge>>] = "online"
                       /\ \A s \in Sessions : UpToDate(s) =>
                            /\ <<"availability", Serial[s]>> \notin overtaken =>
                                 retained[<<"availability", Serial[s]>>] = Presence(link[s])
                            /\ <<"discovery", Serial[s]>> \notin overtaken =>
                                 retained[<<"discovery", Serial[s]>>] = Description(s)
    BY DEF RetainedIsTrue, LinkedShown, BridgeShown
  <1>1. Reached
    BY DEF Reached, Settled
  <1>2. \A t, v : WillShow(t, v) => retained[t] = v
    BY DEF Settled, WillShow, SaysLast
  <1>3. retained[<<"availability", Bridge>>] = "online"
    BY <1>1, <1>2 DEF RInv, BridgeWillShow
  <1>4. ASSUME NEW s \in Sessions, UpToDate(s)
        PROVE  /\ <<"availability", Serial[s]>> \notin overtaken =>
                    retained[<<"availability", Serial[s]>>] = Presence(link[s])
               /\ <<"discovery", Serial[s]>> \notin overtaken =>
                    retained[<<"discovery", Serial[s]>>] = Description(s)
    <2>1. Speaks(s)
      BY <1>4 DEF UpToDate, Speaks
    <2>2. generation # 0
      BY <1>1, TypesSplit DEF Reached, RInv, SeenConnections, IInv, ConnectionsTyped
    <2>3. link[s].announced = Description(s)
      BY <1>4, <2>2 DEF UpToDate, RInv, Announced
    <2>4. /\ <<"availability", Serial[s]>> \notin overtaken =>
               retained[<<"availability", Serial[s]>>] = Said(link[s], "availability")
          /\ <<"discovery", Serial[s]>> \notin overtaken =>
               retained[<<"discovery", Serial[s]>>] = Said(link[s], "discovery")
      BY <1>1, <1>2, <2>1 DEF RInv, LinksWillShow
    <2>. QED  BY <2>3, <2>4 DEF Said
  <1>. QED  BY <1>3, <1>4

(* Whatever connections are lost and whatever a restarted broker forgets,  *)
(* for any number of devices, sessions and connections and any length of   *)
(* the queue: once the broker has what was last said, it retains that this *)
(* program is online, and of every device whose link is up to date the     *)
(* presence and the description that are true, unless something was        *)
(* dropped or a replaced link spoke last.                                  *)
THEOREM RetainedIsAlwaysTrue == Spec => []RetainedIsTrue
  BY PublisherInvariant, RInitSound, NextTells, SettledShows, PTL DEF Spec

(* No link of a replaced session is left running, for any number of        *)
(* devices and of sessions that replace one another.                       *)
THEOREM LinksAttended == Spec => []Attended
  <1>1. IInv => Attended
    BY DEF IInv
  <1>. QED  BY PublisherInvariant, <1>1, PTL

(* A device that is linked is only reported gone by its own link, once     *)
(* that is over.                                                           *)
THEOREM FarewellsOwned == Spec => FarewellIsOwn
  <1>. DEFINE Owned == \A d \in Devices :
                linked[d] # None /\ linked'[d] = None => link[linked[d]].task = "over"
  <1>1. IInv /\ [Next]_vars => Owned \/ UNCHANGED vars
    <2>. SUFFICES ASSUME IInv, Next, NEW d \in Devices, linked[d] # None, linked'[d] = None
                  PROVE  link[linked[d]].task = "over"
      OBVIOUS
    <2>1. WorldTyped /\ PublisherTyped
      BY TypesSplit DEF IInv
    <2>2. linked' # linked
      OBVIOUS
    <2>3. (\E e \in Devices : LinkDevice(e)) \/ SessionEnded
      BY <2>2 DEF Next, LinkStep, PublisherStep, LinkStarts, Reconnected, TelemetryArrived,
           IdentityArrived, WentQuiet, LinkBreaks, Farewell, Stops, AbortReplaced,
           HandleConnected, DevicesChanged, BrokerConnects, Pump, BrokerDies, BrokerNotices,
           Connects, Reports, Closes, Unregisters, publisherVars
    <2>4. CASE \E e \in Devices : LinkDevice(e)
      <3>1. PICK e \in Devices : LinkDevice(e)
        BY <2>4
      <3>. QED  BY <2>1, <3>1 DEF LinkDevice, PublisherTyped, WorldTyped
    <2>5. CASE SessionEnded
      <3>. DEFINE s == Head(farewells)
      <3>1. s \in Sessions /\ s = farewells[1] /\ 1 \in 1..Len(farewells)
        BY <2>1, <2>5, HeadTailProperties, EmptySeq, LenProperties
           DEF SessionEnded, PublisherTyped
      <3>2. link[s].task = "over"
        BY <3>1 DEF IInv, FarewellsOver
      <3>3. linked[Serial[s]] \in {s, None} /\ linked' = [linked EXCEPT ![Serial[s]] = None]
        BY <2>2, <2>5 DEF SessionEnded
      <3>4. d = Serial[s]
        BY <2>1, <3>1, <3>3 DEF PublisherTyped
      <3>. QED  BY <3>2, <3>3, <3>4
    <2>. QED  BY <2>3, <2>4, <2>5
  <1>. QED  BY PublisherInvariant, <1>1, PTL DEF Spec, FarewellIsOwn
=============================================================================
