--------------------------- MODULE Announcements ---------------------------
(***************************************************************************)
(* What a device's link tells Home Assistant, topic by topic               *)
(* (src/src/homeassistant/publisher.rs): the entities it announces and     *)
(* those it withdraws, the settings and the gates, over the runs of the    *)
(* program, its configurations and the device's sessions.  The broker      *)
(* keeps what is retained from one to the next.  What gets lost on the way *)
(* to the broker is module Publisher's.                                    *)
(***************************************************************************)
EXTENDS Entities

CONSTANTS
    Configurations,  \* what the program may be run with: slots, permitted
    Frames,          \* what telemetry reports: packs, and whether a meter is connected
    Watched,         \* the settings read back: values of each register
    Nothing          \* no frame, no announcement, nothing said

ASSUME AnnouncementsAssumption ==
    /\ Configurations \subseteq [slots : Nat, permitted : [writes : BOOLEAN, powerPlus : BOOLEAN]]
    /\ Frames \subseteq [packs : Nat, meter : BOOLEAN]
    /\ Nothing \notin Nat \cup Frames

VARIABLES
    configuration,  \* PublisherOptions of the current run
    published,      \* Link.published_for: whether the broker was reached
    announced,      \* Link.announced: the catalogue's pack count, or Nothing
    telemetry,      \* the session's last frame, or Nothing
    settings,       \* the session's settings cache: register -> value
    gates,          \* Link.gates: entity -> what was last said
    discovery,      \* broker: the discovery topics with a message
    states,         \* broker: the settings topics and the fields they carry
    available       \* broker: what each entity's own availability topic says

caches == <<telemetry, settings>>
broker == <<discovery, states, available>>
announcementsVars == <<configuration, published, announced, caches, gates, broker>>

Unread == -1
SettingsTopics ==
    {Shared("settings")} \cup {Field("settings", SettingKey(r)) : r \in DOMAIN Watched}

(* The catalogues, and what is asked of them.                              *)
PackCounts == {1} \cup {f.packs : f \in Frames}
Catalogues == Configurations \X PackCounts
EntitiesOf == [c \in Catalogues |-> Entities(c[1].slots, c[1].permitted, c[2])]
TopicsOf == [c \in Catalogues |-> {DiscoveryTopic(e) : e \in EntitiesOf[c]}]
GatedOf == [c \in Catalogues |-> {e \in EntitiesOf[c] : e.gate # NoGate}]
FieldsOf == [c \in Catalogues |-> {e.key : e \in EntitiesOf[c]}]
FromSettingsOf == [c \in Catalogues |-> {e \in EntitiesOf[c] : e.source = "settings"}]
UnsharedOf ==
    [c \in Catalogues |-> {e.key : e \in {f \in FromSettingsOf[c] : PublishedAlone(f)}}]
EverythingTopics == {DiscoveryTopic(e) : e \in Everything}

Gated == {WithdrawMeterReading, ReadingKey(19)} \cup {SettingKey(SlotBase + 3 + SlotStride * s) : s \in 0..8}

AnnouncementsTypeOK ==
    /\ configuration \in Configurations
    /\ published \in BOOLEAN
    /\ announced \in PackCounts \cup {Nothing}
    /\ telemetry \in Frames \cup {Nothing}
    /\ settings \in [DOMAIN Watched -> UNION {Watched[r] : r \in DOMAIN Watched} \cup {Unread}]
    /\ gates \in [Gated -> {"online", "offline", Nothing}]
    /\ discovery \subseteq EverythingTopics \cup Retired
    /\ DOMAIN states = SettingsTopics
    /\ available \in [Gated -> {"online", "offline", Nothing}]

FreshLink ==
    /\ announced' = Nothing
    /\ telemetry' = Nothing
    /\ settings' = [r \in DOMAIN Watched |-> Unread]
    /\ gates' = [k \in Gated |-> Nothing]

AnnouncementsInit ==
    /\ configuration \in Configurations
    /\ published = FALSE
    /\ announced = Nothing
    /\ telemetry = Nothing
    /\ settings = [r \in DOMAIN Watched |-> Unread]
    /\ gates = [k \in Gated |-> Nothing]
    /\ discovery \in {{}, Retired}  \* an earlier version may have left what it announced
    /\ states = [t \in SettingsTopics |-> {}]
    /\ available = [k \in Gated |-> Nothing]

-----------------------------------------------------------------------------
(* Link::packs: what the device reports, and one until it has.             *)
Packs(frame) == IF frame = Nothing THEN 1 ELSE frame.packs

(* Link::withdraw: what is not in the new catalogue of what was announced, *)
(* and, the first time, of whatever any run can have announced.            *)
Withdrawn(previous, keeping) ==
    (IF previous = Nothing THEN EverythingTopics \cup Retired
     ELSE TopicsOf[<<configuration, previous>>]) \ keeping

(* Link::announce, of the last announcement and the frame.                 *)
Announce(previous, frame) ==
    LET packs == Packs(frame)
        keeping == TopicsOf[<<configuration, packs>>]
    IN  IF previous = packs
        THEN announced' = previous /\ UNCHANGED discovery
        ELSE /\ announced' = packs
             /\ discovery' = (discovery \ Withdrawn(previous, keeping)) \cup keeping

(* Link::publish_settings and publish_unshared_settings: an object with    *)
(* nothing in it is not published.                                         *)
PublishSettingsShared(cached, packs) ==  \* mutant: without publish_unshared_settings
    LET carried == {<<SettingKey(r), cached[r]>> : r \in
                       {q \in DOMAIN Watched :
                           cached[q] # Unread /\ SettingKey(q) \in FieldsOf[<<configuration, packs>>]}}
    IN  states' = [states EXCEPT ![Shared("settings")] = IF carried = {} THEN @ ELSE carried]
PublishSettings(cached, packs) ==
    LET fields == FieldsOf[<<configuration, packs>>]
        unshared == UnsharedOf[<<configuration, packs>>]
        carried == {<<SettingKey(r), cached[r]>> : r \in
                       {q \in DOMAIN Watched : cached[q] # Unread /\ SettingKey(q) \in fields}}
        carriedOn(topic) ==
            IF topic = Shared("settings") THEN carried
            ELSE {c \in carried : c[1] = topic[2] /\ c[1] \in unshared}
    IN  states' = [t \in SettingsTopics |->
                      IF carriedOn(t) = {} THEN states[t] ELSE carriedOn(t)]

(* Link::publish_gates: what each value that arrived decides, where it is  *)
(* not what was last said.                                                 *)
Word(open) == IF open THEN "online" ELSE "offline"
Decides(entity, cached, frame) ==
    LET gate == entity.gate IN
    IF gate.by = "setting"
    THEN IF gate.key[2] \in DOMAIN Watched /\ cached[gate.key[2]] # Unread
         THEN Word(cached[gate.key[2]] \notin gate.inert)
         ELSE Nothing
    ELSE IF frame = Nothing THEN Nothing ELSE Word(frame.meter)

Said(key, word) == word # Nothing /\ gates[key] # word

PublishGates(cached, frame, packs) ==
    LET gated == GatedOf[<<configuration, packs>>]
        word == [e \in gated |-> Decides(e, cached, frame)]
        said == {e \in gated : Said(e.key, word[e])}
        saying == [k \in {e.key : e \in said} |->
                      word[CHOOSE e \in said : e.key = k]]
    IN  /\ gates' = saying @@ gates
        /\ available' = saying @@ available

-----------------------------------------------------------------------------
(* Another run of the program, and another session of the device: the link *)
(* begins with nothing, and tells a broker it finds reached right away.    *)
RunStarts ==
    /\ configuration' \in Configurations
    /\ published' = FALSE
    /\ FreshLink
    /\ UNCHANGED broker

SessionStarts ==
    /\ published' = FALSE
    /\ FreshLink
    /\ UNCHANGED <<configuration, broker>>

(* Link::republish: what was announced is forgotten and said again.        *)
Republishes ==
    /\ published' = TRUE
    /\ Announce(Nothing, telemetry)
    /\ PublishSettings(settings, Packs(telemetry))
    /\ PublishGates(settings, telemetry, Packs(telemetry))
    /\ UNCHANGED <<configuration, caches>>

(* Link::settings_changed: nothing is said before the broker was reached.  *)
SettingsChanged ==
    \E r \in DOMAIN Watched : \E value \in Watched[r] :
        /\ settings' = [settings EXCEPT ![r] = value]
        /\ IF published
           THEN PublishSettings(settings', announced) /\ PublishGates(settings', telemetry, announced)
           ELSE UNCHANGED <<states, gates, available>>
        /\ UNCHANGED <<configuration, published, announced, telemetry, discovery>>

(* Link::telemetry_arrived.                                                *)
TelemetryArrives ==
    \E frame \in Frames :
        /\ telemetry' = frame
        /\ IF published
           THEN Announce(announced, frame) /\ PublishGates(settings, frame, Packs(frame))
           ELSE UNCHANGED <<announced, discovery, gates, available>>
        /\ UNCHANGED <<configuration, published, settings, states>>

AnnouncementsNext == RunStarts \/ SessionStarts \/ Republishes \/ SettingsChanged \/ TelemetryArrives

AnnouncementsSpec == AnnouncementsInit /\ [][AnnouncementsNext]_announcementsVars

-----------------------------------------------------------------------------
(* Once a link has announced its device, the broker has exactly the        *)
(* catalogue of this run: nothing of another configuration, of a pack that *)
(* went, or of an earlier version is left, and nothing is missing          *)
(* (Link::withdraw, Catalogue::everything, RETIRED).                       *)
NothingLeftBehind ==
    announced # Nothing => discovery = TopicsOf[<<configuration, announced>>]

(* Every control the broker shows is one whose commands this program       *)
(* carries out: each value the control can send is understood and accepted *)
(* (Entity::for_setting and Discovery::describe_commands, against          *)
(* Change::one).  And nothing is carried out that no control is shown for, *)
(* but settings of the slots beyond those configured: not the factory      *)
(* reset, nor what the configuration took away (Change::action,            *)
(* Permitted::allows).                                                     *)
HonouredControls == [c \in Configurations |-> HonouredTopics(c.permitted)]
HonouredKeys == [c \in Configurations |-> KeysHonoured(c.permitted)]
ControlsAreHonoured ==
    announced # Nothing =>
        /\ ControlsAmong(discovery) \subseteq HonouredControls[configuration]
        /\ HonouredKeys[configuration] \ SlotsBeyond(configuration.slots)
               \subseteq {t[2] : t \in ControlsAmong(discovery)}

(* An announced entity reads its setting from a topic that carries it, as  *)
(* the session last read it back: shared or alone, whichever this run's    *)
(* shape of the entity makes it (topic_for, Indexed::of, publish_settings, *)
(* publish_unshared_settings).                                             *)
SettingsAreShown ==
    announced # Nothing =>
        \A e \in FromSettingsOf[<<configuration, announced>>] :
            e.key[2] \in DOMAIN Watched /\ settings[e.key[2]] # Unread =>
                <<e.key, settings[e.key[2]]>> \in states[TopicFor(e)]
=============================================================================
