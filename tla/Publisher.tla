----------------------------- MODULE Publisher -----------------------------
(***************************************************************************)
(* Telling Home Assistant about the devices                                *)
(* (src/src/homeassistant/publisher.rs, src/src/homeassistant/broker.rs):  *)
(* the publisher's loop, one link task for each session it has linked, the *)
(* broker client with its bounded queue, and what the broker retains.      *)
(*                                                                         *)
(* A session is what one Registration stands for.  The registry changes in *)
(* one step with its announcement here; module Registry has the detail.    *)
(*                                                                         *)
(* Topics are abstracted to one of each kind.  Availability stands for the *)
(* status topics and the settings too, which are said whenever it is;      *)
(* discovery is the whole burst of entities, its value what it describes.  *)
(* Readings are left out: they are not retained, and take no more room in  *)
(* the queue than the availability published with every one of them.      *)
(***************************************************************************)
EXTENDS Naturals, Sequences

CONSTANTS
    Devices,
    Sessions,
    Serial,          \* the device of each session
    Views,           \* what the devices report: "frame", "identity"
    QueueDepth,      \* QUEUE_DEPTH: publications waiting for the broker
    FarewellDepth,   \* FAREWELL_DEPTH
    MaxConnections,  \* bound: broker connections
    Bridge,          \* this program, as the owner of a topic
    None

ASSUME PublisherAssumption ==
    /\ Serial \in [Sessions -> Devices]
    /\ Views \subseteq {"frame", "identity"}
    /\ QueueDepth \in Nat \ {0}
    /\ FarewellDepth \in Nat \ {0}
    /\ MaxConnections \in Nat
    /\ Bridge \notin Devices
    /\ None \notin Sessions \cup Devices
        \cup {"online", "offline", "plain", "named", "entries"}

Retained ==
    {<<"availability", Bridge>>} \cup
        ({"availability", "discovery", "config", "gate"} \X Devices)
Value == {"online", "offline", "plain", "named", "entries"}
Publication == [topic : Retained, value : Value]

(* A link task: the broker connection it last published for (0: none yet), *)
(* whether the device reports, what it announced, and whether the gates    *)
(* were published.                                                         *)
Link ==
    [task : {"none", "spawned", "running", "leaving", "over"},
     seen : 0..MaxConnections,
     presence : {"never", "reporting", "quiet"},
     announced : {"plain", "named", None}, gated : BOOLEAN]

NoLink == [task |-> "none", seen |-> 0, presence |-> "never", announced |-> None,
           gated |-> FALSE]
LinkOver == [NoLink EXCEPT !.task = "over"]

VARIABLES
    session,     \* "new", "open", "closed" (channels dropped), "gone" (registration too)
    registered,  \* the registry: the session serving each device
    changed,     \* a change of the registry the publisher has not looked at
    frame,       \* a session's telemetry: "none", "new" (its link has not seen it), "seen"
    identity,    \* the same for the device's report about itself
    link,        \* the link tasks
    aborted,     \* links whose task has been aborted
    linked,      \* Publisher.linked: the session each device is linked for
    linking,     \* link_devices: devices it has yet to look at
    replacing,   \* link_devices: the link just replaced, about to be aborted
    farewells,   \* the farewell channel
    generation,  \* Publisher.generation
    events,      \* Event::Connected that the publisher has not handled
    queue,       \* publications waiting for the broker
    dropped,     \* whether any was dropped: Publications.dropped # 0
    conn,        \* "down", "up", "dead" (lost, and the client has yet to notice)
    connections, \* broker connections made
    retained,    \* what the broker retains
    overtaken    \* history: topics a replaced link published last

worldVars == <<session, registered, frame, identity>>
linkVars == <<link, aborted>>
publisherVars == <<linked, linking, replacing, generation>>
queueVars == <<queue, dropped, overtaken>>
brokerVars == <<conn, connections, retained>>
vars == <<worldVars, changed, linkVars, publisherVars, farewells, events, queueVars, brokerVars>>

TypeOK ==
    /\ session \in [Sessions -> {"new", "open", "closed", "gone"}]
    /\ registered \in [Devices -> Sessions \cup {None}]
    /\ changed \in BOOLEAN
    /\ frame \in [Sessions -> {"none", "new", "seen"}]
    /\ identity \in [Sessions -> {"none", "new", "seen"}]
    /\ link \in [Sessions -> Link]
    /\ aborted \subseteq Sessions
    /\ linked \in [Devices -> Sessions \cup {None}]
    /\ linking \subseteq Devices
    /\ replacing \subseteq Sessions
    /\ farewells \in Seq(Sessions) /\ Len(farewells) <= FarewellDepth
    /\ generation \in 0..MaxConnections
    /\ events \in 0..MaxConnections
    /\ generation + events = connections
    /\ queue \in Seq(Publication) /\ Len(queue) <= QueueDepth
    /\ dropped \in BOOLEAN
    /\ conn \in {"down", "up", "dead"}
    /\ connections \in 0..MaxConnections
    /\ retained \in [Retained -> Value \cup {None}]
    /\ overtaken \subseteq Retained

Init ==
    /\ session = [s \in Sessions |-> "new"]
    /\ registered = [d \in Devices |-> None]
    /\ changed = FALSE
    /\ frame = [s \in Sessions |-> "none"]
    /\ identity = [s \in Sessions |-> "none"]
    /\ link = [s \in Sessions |-> NoLink]
    /\ aborted = {}
    /\ linked = [d \in Devices |-> None]
    /\ linking = {}
    /\ replacing = {}
    /\ farewells = <<>>
    /\ generation = 0
    /\ events = 0
    /\ queue = <<>>
    /\ dropped = FALSE
    /\ conn = "down"
    /\ connections = 0
    /\ retained = [t \in Retained |-> None]
    /\ overtaken = {}

-----------------------------------------------------------------------------
(* Publications::try_publish, for each of a handler's publications: one    *)
(* that finds the queue full is dropped.                                   *)
TryPublish(ps) ==
    LET wanted == queue \o ps IN
    /\ queue' = SubSeq(wanted, 1, IF Len(wanted) < QueueDepth THEN Len(wanted) ELSE QueueDepth)
    /\ dropped' = (dropped \/ Len(wanted) > QueueDepth)

Say(what, owner, value) == <<[topic |-> <<what, owner>>, value |-> value]>>

(* What link_devices goes through: the connected devices.                  *)
ConnectedDevices == {d \in Devices : registered[d] # None}

-----------------------------------------------------------------------------
(* A link.  published_for is set once seen # 0, and until then the link    *)
(* publishes nothing, and keeps no record of having done so.               *)

Presence(l) == IF l.presence = "reporting" THEN "online" ELSE "offline"
Description(s) == IF identity[s] = "none" THEN "plain" ELSE "named"

Discovery(s, l) ==
    IF l.announced = Description(s) THEN <<>>
    ELSE Say("discovery", Serial[s], Description(s))
Gates(s, l) ==
    IF frame[s] = "none" \/ l.gated THEN <<>> ELSE Say("gate", Serial[s], "online")

Topics(ps) == {ps[i].topic : i \in 1..Len(ps)}

(* The link has said ps and is l now.  Another link of its device may have *)
(* taken its place and spoken already.                                     *)
Spoken(s, l, ps) ==
    LET current == linked[Serial[s]]
    IN  /\ link' = [link EXCEPT ![s] = l]
        /\ TryPublish(ps)
        /\ overtaken' =
             IF current = s THEN overtaken \ Topics(ps)
             ELSE IF current # None /\ link[current].seen # 0 THEN overtaken \cup Topics(ps)
             ELSE overtaken

(* Mutant of Republish: what was announced counts for the new connection.  *)
RepublishChanges(s, l) ==
    IF generation = 0
    THEN link' = [link EXCEPT ![s] = l] /\ UNCHANGED queueVars
    ELSE Spoken(s,
           [l EXCEPT !.seen = generation, !.announced = Description(s),
                     !.gated = @ \/ frame[s] # "none"],
           Discovery(s, l)
             \o Say("availability", Serial[s], Presence(l))
             \o Gates(s, l))

(* Link::republish: everything again, for a new broker connection.         *)
Republish(s, l) ==
    IF generation = 0
    THEN link' = [link EXCEPT ![s] = l] /\ UNCHANGED queueVars
    ELSE Spoken(s,
           [l EXCEPT !.seen = generation, !.announced = Description(s),
                     !.gated = @ \/ frame[s] # "none"],
           Say("discovery", Serial[s], Description(s))
             \o Say("availability", Serial[s], Presence(l))
             \o Gates(s, l))

Runs(s) == link[s].task = "running"

(* The task is first polled.  A frame already there is marked seen.        *)
LinkStarts(s) ==
    /\ link[s].task = "spawned"
    /\ Republish(s, [link[s] EXCEPT !.task = "running"])
    /\ frame' = [frame EXCEPT ![s] = IF @ = "new" THEN "seen" ELSE @]
    /\ UNCHANGED <<session, registered, identity, changed, aborted, publisherVars,
                   farewells, events, brokerVars>>

(* A new broker connection.                                                *)
Reconnected(s) ==
    /\ Runs(s) /\ link[s].seen # generation
    /\ Republish(s, link[s])
    /\ UNCHANGED <<worldVars, changed, aborted, publisherVars, farewells, events, brokerVars>>

TelemetryArrived(s) ==
    /\ Runs(s) /\ frame[s] = "new"
    /\ frame' = [frame EXCEPT ![s] = "seen"]
    /\ LET l == [link[s] EXCEPT !.presence = "reporting"]
       IN  IF l.seen = 0
           THEN link' = [link EXCEPT ![s] = l] /\ UNCHANGED queueVars
           ELSE Spoken(s, [l EXCEPT !.announced = Description(s), !.gated = TRUE],
                  Discovery(s, l)
                    \o Say("availability", Serial[s], "online")
                    \o Gates(s, l))
    /\ UNCHANGED <<session, registered, identity, changed, aborted, publisherVars,
                   farewells, events, brokerVars>>

(* The device described itself: discovery if that changed, and the         *)
(* configuration entries.                                                  *)
IdentityArrived(s) ==
    /\ Runs(s) /\ identity[s] = "new"
    /\ identity' = [identity EXCEPT ![s] = "seen"]
    /\ IF link[s].seen = 0
       THEN UNCHANGED <<link, queueVars>>
       ELSE Spoken(s, [link[s] EXCEPT !.announced = Description(s)],
              Discovery(s, link[s]) \o Say("config", Serial[s], "entries"))
    /\ UNCHANGED <<session, registered, frame, changed, aborted, publisherVars,
                   farewells, events, brokerVars>>

(* Mutant of WentQuiet: absent, and nobody is told.                        *)
WentQuietSilently(s) ==
    /\ Runs(s) /\ link[s].presence = "reporting"
    /\ link' = [link EXCEPT ![s].presence = "quiet"]
    /\ UNCHANGED <<worldVars, changed, aborted, publisherVars, farewells, events,
                   queueVars, brokerVars>>

(* OFFLINE_AFTER without a frame: reported absent, once.  How long that is *)
(* is left open.                                                           *)
WentQuiet(s) ==
    /\ Runs(s) /\ link[s].presence = "reporting"
    /\ LET l == [link[s] EXCEPT !.presence = "quiet"]
       IN  IF l.seen = 0
           THEN link' = [link EXCEPT ![s] = l] /\ UNCHANGED queueVars
           ELSE Spoken(s, l, Say("availability", Serial[s], "offline"))
    /\ UNCHANGED <<worldVars, changed, aborted, publisherVars, farewells, events, brokerVars>>

(* The session's channels closed: the link says farewell to the publisher, *)
(* waiting for room, and is over.                                          *)
LinkBreaks(s) ==
    /\ Runs(s) /\ session[s] \in {"closed", "gone"}
    /\ link' = [link EXCEPT ![s].task = "leaving"]
    /\ UNCHANGED <<worldVars, changed, aborted, publisherVars, farewells, events,
                   queueVars, brokerVars>>

Farewell(s) ==
    /\ link[s].task = "leaving" /\ Len(farewells) < FarewellDepth
    /\ farewells' = Append(farewells, s)
    /\ link' = [link EXCEPT ![s] = LinkOver]
    /\ UNCHANGED <<worldVars, changed, aborted, publisherVars, events, queueVars, brokerVars>>

(* An aborted task is dropped at its next await; until then the poll it is *)
(* in goes on, and takes branches that are ready.                          *)
Stops(s) ==
    /\ s \in aborted /\ link[s].task \in {"spawned", "running", "leaving"}
    /\ link' = [link EXCEPT ![s] = LinkOver]
    /\ UNCHANGED <<worldVars, changed, aborted, publisherVars, farewells, events,
                   queueVars, brokerVars>>

LinkStep(s) ==
    \/ LinkStarts(s) \/ Reconnected(s) \/ TelemetryArrived(s) \/ IdentityArrived(s)
    \/ LinkBreaks(s) \/ Farewell(s) \/ Stops(s)

-----------------------------------------------------------------------------
(* The publisher's loop.  link_devices runs inside three of its branches.  *)

Free == linking = {} /\ replacing = {}

(* Mutants of LinkDevice: the serial alone is compared; the link replaced  *)
(* is left running.                                                        *)
LinkDeviceBySerial(d) ==
    /\ d \in linking /\ replacing = {}
    /\ linking' = linking \ {d}
    /\ LET s == registered[d] IN
       IF s = None \/ linked[d] # None \/ session[s] # "open"
       THEN UNCHANGED <<link, linked, replacing>>
       ELSE /\ link' = [link EXCEPT ![s].task = "spawned"]
            /\ linked' = [linked EXCEPT ![d] = s]
            /\ UNCHANGED replacing
    /\ UNCHANGED <<worldVars, changed, aborted, generation, farewells, events, queueVars, brokerVars>>
LinkDeviceBeside(d) ==
    /\ d \in linking /\ replacing = {}
    /\ linking' = linking \ {d}
    /\ LET s == registered[d] IN
       IF s = None \/ linked[d] = s \/ session[s] # "open"
       THEN UNCHANGED <<link, linked>>
       ELSE /\ link' = [link EXCEPT ![s].task = "spawned"]
            /\ linked' = [linked EXCEPT ![d] = s]
    /\ UNCHANGED <<worldVars, changed, aborted, replacing, generation, farewells, events,
                   queueVars, brokerVars>>

(* One device of link_devices: the session serving it now is linked unless *)
(* it is already, or its request channel has closed.                       *)
LinkDevice(d) ==
    /\ d \in linking /\ replacing = {}
    /\ linking' = linking \ {d}
    /\ LET s == registered[d] IN
       IF s = None \/ linked[d] = s \/ session[s] # "open"
       THEN UNCHANGED <<link, linked, replacing>>
       ELSE /\ link' = [link EXCEPT ![s].task = "spawned"]
            /\ linked' = [linked EXCEPT ![d] = s]
            /\ replacing' = {linked[d]} \ {None}
    /\ UNCHANGED <<worldVars, changed, aborted, generation, farewells, events, queueVars, brokerVars>>

(* The link it replaced is aborted, after the new one was spawned.         *)
AbortReplaced ==
    /\ replacing # {}
    /\ aborted' = aborted \cup replacing
    /\ replacing' = {}
    /\ UNCHANGED <<worldVars, changed, link, linked, linking, generation, farewells, events,
                   queueVars, brokerVars>>

(* Event::Connected.                                                       *)
HandleConnected ==
    /\ Free /\ events > 0
    /\ events' = events - 1
    /\ TryPublish(Say("availability", Bridge, "online"))
    /\ generation' = generation + 1
    /\ linking' = ConnectedDevices
    /\ UNCHANGED <<worldVars, changed, linkVars, linked, replacing, farewells, overtaken, brokerVars>>

DevicesChanged ==
    /\ Free /\ changed
    /\ changed' = FALSE
    /\ linking' = ConnectedDevices
    /\ UNCHANGED <<worldVars, linkVars, linked, replacing, generation, farewells, events,
                   queueVars, brokerVars>>

(* Mutant of SessionEnded: whose farewell it is does not matter.           *)
AnySessionEnded ==
    /\ Free /\ farewells # <<>>
    /\ farewells' = Tail(farewells)
    /\ LET d == Serial[Head(farewells)] IN
       /\ linked' = [linked EXCEPT ![d] = None]
       /\ TryPublish(Say("availability", d, "offline"))
       /\ linking' = ConnectedDevices
    /\ UNCHANGED <<worldVars, changed, linkVars, replacing, generation, events, overtaken, brokerVars>>

(* session_ended: a farewell, unless the device is linked for another.     *)
SessionEnded ==
    /\ Free /\ farewells # <<>>
    /\ farewells' = Tail(farewells)
    /\ LET s == Head(farewells)
           d == Serial[s]
       IN  IF linked[d] \notin {s, None}
           THEN UNCHANGED <<linked, linking, queueVars>>
           ELSE /\ linked' = [linked EXCEPT ![d] = None]
                /\ TryPublish(Say("availability", d, "offline"))
                /\ linking' = ConnectedDevices
                /\ UNCHANGED overtaken
    /\ UNCHANGED <<worldVars, changed, linkVars, replacing, generation, events, brokerVars>>

PublisherStep ==
    \/ \E d \in Devices : LinkDevice(d)
    \/ AbortReplaced \/ HandleConnected \/ DevicesChanged \/ SessionEnded

-----------------------------------------------------------------------------
(* The broker client and the broker.                                       *)

(* Connected, subscribed; the publisher is told before anything is pumped. *)
BrokerConnects ==
    /\ conn = "down" /\ connections < MaxConnections
    /\ conn' = "up"
    /\ connections' = connections + 1
    /\ events' = events + 1
    /\ UNCHANGED <<worldVars, changed, linkVars, publisherVars, farewells, queueVars, retained>>

(* One publication is written.  A connection that is dead takes it too.    *)
Pump ==
    /\ conn \in {"up", "dead"} /\ queue # <<>>
    /\ queue' = Tail(queue)
    /\ retained' =
         IF conn = "up"
         THEN [retained EXCEPT ![Head(queue).topic] = Head(queue).value]
         ELSE retained
    /\ UNCHANGED <<worldVars, changed, linkVars, publisherVars, farewells, events, dropped,
                   overtaken, conn, connections>>

(* The connection is lost: the broker publishes the will, or restarts and  *)
(* has forgotten everything.                                               *)
BrokerDies ==
    /\ conn = "up" /\ connections < MaxConnections
    /\ conn' = "dead"
    /\ \/ retained' = [retained EXCEPT ![<<"availability", Bridge>>] = "offline"]
       \/ retained' = [t \in Retained |-> None]
    /\ UNCHANGED <<worldVars, changed, linkVars, publisherVars, farewells, events, queueVars,
                   connections>>

BrokerNotices ==
    /\ conn = "dead"
    /\ conn' = "down"
    /\ UNCHANGED <<worldVars, changed, linkVars, publisherVars, farewells, events, queueVars,
                   connections, retained>>

-----------------------------------------------------------------------------
(* The sessions.                                                           *)

(* A device connects, or connects again before its old session has ended.  *)
Connects(s) ==
    /\ session[s] = "new"
    /\ session' = [session EXCEPT ![s] = "open"]
    /\ registered' = [registered EXCEPT ![Serial[s]] = s]
    /\ changed' = TRUE
    /\ UNCHANGED <<frame, identity, linkVars, publisherVars, farewells, events, queueVars, brokerVars>>

Reports(s) ==
    /\ session[s] = "open"
    /\ \/ "frame" \in Views /\ frame' = [frame EXCEPT ![s] = "new"] /\ UNCHANGED identity
       \/ /\ "identity" \in Views /\ identity[s] = "none"
          /\ identity' = [identity EXCEPT ![s] = "new"]
          /\ UNCHANGED frame
    /\ UNCHANGED <<session, registered, changed, linkVars, publisherVars, farewells, events,
                   queueVars, brokerVars>>

(* A session ends: its channels are dropped, then its registration.        *)
Closes(s) ==
    /\ session[s] = "open"
    /\ session' = [session EXCEPT ![s] = "closed"]
    /\ UNCHANGED <<registered, frame, identity, changed, linkVars, publisherVars, farewells,
                   events, queueVars, brokerVars>>

Unregisters(s) ==
    /\ session[s] = "closed"
    /\ session' = [session EXCEPT ![s] = "gone"]
    /\ LET own == registered[Serial[s]] = s IN
       /\ registered' = IF own THEN [registered EXCEPT ![Serial[s]] = None] ELSE registered
       /\ changed' = (changed \/ own)
    /\ UNCHANGED <<frame, identity, linkVars, publisherVars, farewells, events, queueVars, brokerVars>>

Next ==
    \/ \E s \in Sessions :
         \/ LinkStep(s) \/ WentQuiet(s)
         \/ Connects(s) \/ Reports(s) \/ Closes(s) \/ Unregisters(s)
    \/ PublisherStep
    \/ BrokerConnects \/ Pump \/ BrokerDies \/ BrokerNotices

Spec == Init /\ [][Next]_vars

(* The publisher, the links and the client are tasks, polled while they    *)
(* have something to do; a frame may always come before the quiet is long  *)
(* enough; the client tries for ever, and the broker comes back.           *)
FairSpec ==
    /\ Spec
    /\ \A s \in Sessions :
         WF_vars(LinkStep(s)) /\ WF_vars(frame[s] # "new" /\ WentQuiet(s))
    /\ WF_vars(PublisherStep)
    /\ WF_vars(BrokerConnects) /\ WF_vars(Pump) /\ WF_vars(BrokerNotices)

-----------------------------------------------------------------------------
(* A link that still works is the one its device is linked for, or has     *)
(* been stopped or is about to be: no link is left publishing for a        *)
(* session that was replaced.                                              *)
Attended ==
    \A s \in Sessions :
        link[s].task \in {"spawned", "running", "leaving"} =>
            linked[Serial[s]] = s \/ s \in aborted \cup replacing

(* A device is reported gone, and unlinked, only by its own link's         *)
(* farewell: one that comes minutes late from a replaced session does not  *)
(* take a live dashboard down.                                             *)
FarewellIsOwn ==
    [][\A d \in Devices :
         linked[d] # None /\ linked'[d] = None => link[linked[d]].task = "over"]_vars

(* The publisher, the client and the broker have nothing more to do.       *)
Settled == conn = "up" /\ queue = <<>> /\ events = 0 /\ ~ changed /\ Free /\ farewells = <<>>

UpToDate(s) ==
    /\ session[s] = "open" /\ linked[Serial[s]] = s
    /\ link[s].task = "running" /\ link[s].seen = generation
    /\ frame[s] # "new" /\ identity[s] # "new"

(* What the broker retains of a linked device is what its link last said,  *)
(* on every topic but those a replaced link published last: it may, for it *)
(* is aborted after its successor starts.                                  *)
LinkedShown ==
    \A s \in Sessions :
        Settled /\ UpToDate(s) /\ ~ dropped =>
            LET shown(what, value) ==
                  LET t == <<what, Serial[s]>> IN t \notin overtaken => retained[t] = value
            IN  shown("availability", Presence(link[s])) /\ shown("discovery", Description(s))

(* A session that serves a device gets a link, also when it has replaced   *)
(* another behind the same serial.                                         *)
ServedIsLinked ==
    \A s \in Sessions :
        session[s] = "open" /\ registered[Serial[s]] = s ~>
            linked[Serial[s]] = s \/ session[s] # "open" \/ registered[Serial[s]] # s

(* A device that has gone quiet is shown offline, through whatever broker  *)
(* connections are lost meanwhile, unless it reports again, is linked      *)
(* anew or leaves, or a publication was dropped or overtaken.              *)
SilenceShown ==
    \A s \in Sessions :
        link[s].task = "running" /\ link[s].presence = "quiet" ~>
            \/ retained[<<"availability", Serial[s]>>] = "offline"
            \/ link[s].presence = "reporting" \/ link[s].task # "running"
            \/ dropped \/ <<"availability", Serial[s]>> \in overtaken

(* This program is shown online, once the broker has what it said last.    *)
BridgeShown == Settled /\ ~ dropped => retained[<<"availability", Bridge>>] = "online"

(* Whatever was lost with a connection, and whatever a restarted broker    *)
(* forgot, has been said again (Link::republish, and Connected in          *)
(* Publisher::handle).  With dropped it may not have been: it is queued    *)
(* like everything else, after what the links queued through the outage.   *)
RetainedIsTrue == LinkedShown /\ BridgeShown

(* What a device has that the broker should retain is retained, on every   *)
(* connection: a gate its link has published, the configuration it has     *)
(* reported, and that it has left, when it has.                            *)
EverythingRestored ==
    Settled /\ ~ dropped =>
        /\ \A s \in Sessions : UpToDate(s) =>
             /\ frame[s] = "seen" => retained[<<"gate", Serial[s]>>] = "online"
             /\ identity[s] = "seen" => retained[<<"config", Serial[s]>>] = "entries"
        /\ \A d \in Devices : linked[d] = None /\ registered[d] = None =>
             retained[<<"availability", d>>] # "online"
=============================================================================
