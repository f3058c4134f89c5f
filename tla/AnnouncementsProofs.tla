----------------------- MODULE AnnouncementsProofs -----------------------
(* What Announcements guarantees for every configuration, whatever battery *)
(* packs are reported and whichever settings are read back: the broker has *)
(* the entities of this run and no others, and each setting on the topic   *)
(* its entity reads.                                                       *)
EXTENDS Announcements, SequenceTheorems, TLAPS

USE AnnouncementsAssumption

-----------------------------------------------------------------------------
(* The settings that are read back.                                        *)

LEMMA ToSetConcat ==
    ASSUME NEW S, NEW s \in Seq(S), NEW t \in Seq(S)
    PROVE  ToSet(s \o t) = ToSet(s) \cup ToSet(t)
  <1>1. /\ DOMAIN s = 1..Len(s) /\ DOMAIN t = 1..Len(t)
        /\ Len(s) \in Nat /\ Len(t) \in Nat
    BY LenProperties
  <1>2. /\ s \o t \in Seq(S) /\ Len(s \o t) = Len(s) + Len(t)
        /\ \A i \in 1..Len(s) + Len(t) :
             (s \o t)[i] = IF i <= Len(s) THEN s[i] ELSE t[i - Len(s)]
    BY ConcatProperties
  <1>3. DOMAIN (s \o t) = 1..Len(s) + Len(t)
    BY <1>2, LenProperties
  <1>4. ASSUME NEW i \in DOMAIN (s \o t)
        PROVE  (s \o t)[i] \in ToSet(s) \cup ToSet(t)
    <2>1. CASE i <= Len(s)
      <3>1. i \in DOMAIN s /\ (s \o t)[i] = s[i]
        BY <1>1, <1>2, <1>3, <2>1
      <3>. QED  BY <3>1 DEF ToSet
    <2>2. CASE ~ (i <= Len(s))
      <3>1. i - Len(s) \in DOMAIN t
        BY <1>1, <1>3, <2>2
      <3>2. (s \o t)[i] = t[i - Len(s)]
        BY <1>2, <1>3, <2>2
      <3>. QED  BY <3>1, <3>2 DEF ToSet
    <2>. QED  BY <2>1, <2>2
  <1>5. ASSUME NEW i \in DOMAIN s
        PROVE  s[i] \in ToSet(s \o t)
    <2>1. i \in DOMAIN (s \o t) /\ (s \o t)[i] = s[i]
      BY <1>1, <1>2, <1>3
    <2>. QED  BY <2>1 DEF ToSet
  <1>6. ASSUME NEW i \in DOMAIN t
        PROVE  t[i] \in ToSet(s \o t)
    <2>1. Len(s) + i \in DOMAIN (s \o t) /\ ~ (Len(s) + i <= Len(s)) /\ Len(s) + i - Len(s) = i
      BY <1>1, <1>3
    <2>2. (s \o t)[Len(s) + i] = t[i]
      BY <1>2, <1>3, <2>1
    <2>. QED  BY <2>1, <2>2 DEF ToSet
  <1>. QED  BY <1>4, <1>5, <1>6 DEF ToSet

(* However many slots are configured, the settings are those there are     *)
(* without any and those of the first slots.                               *)
Clamped(slots) == IF slots < SlotCount THEN slots ELSE SlotCount

LEMMA SettingsOf ==
    ASSUME NEW slots \in Nat
    PROVE  ToSet(ResyncSet(slots)) =
               ToSet(HoldingRegisters)
                   \cup {InSlots(i) : i \in 1..Clamped(slots) * SlotSize}
  <1>. DEFINE n == Clamped(slots) * SlotSize
              behind == [i \in 1..n |-> InSlots(i)]
              S == ToSet(HoldingRegisters) \cup {InSlots(i) : i \in 1..n}
  <1>1. n \in Nat
    BY DEF Clamped, SlotCount, SlotSize, SlotStride
  <1>2. HoldingRegisters \in Seq(S)
    <2>. DEFINE T == {HoldingRegisters[i] : i \in 1..11}
    <2>1. HoldingRegisters \in Seq(T)
      BY DEF HoldingRegisters
    <2>. HIDE DEF T
    <2>2. /\ Len(HoldingRegisters) \in Nat
          /\ HoldingRegisters \in [1..Len(HoldingRegisters) -> T]
          /\ DOMAIN HoldingRegisters = 1..Len(HoldingRegisters)
      BY <2>1, LenProperties
    <2>3. \A i \in 1..Len(HoldingRegisters) : HoldingRegisters[i] \in S
      BY <2>2 DEF ToSet
    <2>4. HoldingRegisters \in [1..Len(HoldingRegisters) -> S]
      BY <2>2, <2>3
    <2>. QED  BY <2>2, <2>4, SeqDef
  <1>3. behind \in Seq(S)
    <2>1. behind \in [1..n -> S]
      OBVIOUS
    <2>. QED  BY <1>1, <2>1, SeqDef
  <1>4. ToSet(behind) = {InSlots(i) : i \in 1..n}
    BY DEF ToSet
  <1>5. ResyncSet(slots) = HoldingRegisters \o behind
    BY DEF ResyncSet, ResyncSetOf, Clamped
  <1>. HIDE DEF S, behind
  <1>6. ToSet(HoldingRegisters \o behind) = ToSet(HoldingRegisters) \cup ToSet(behind)
    BY <1>2, <1>3, ToSetConcat
  <1>. QED  BY <1>4, <1>5, <1>6

LEMMA SettingsGrow ==
    ASSUME NEW slots \in Nat
    PROVE  /\ ToSet(HoldingRegisters) \subseteq ToSet(ResyncSet(slots))
           /\ ToSet(ResyncSet(slots)) \subseteq ToSet(ResyncSet(SlotCount))
  <1>1. Clamped(slots) * SlotSize <= Clamped(SlotCount) * SlotSize
    BY DEF Clamped, SlotCount, SlotSize, SlotStride
  <1>2. Clamped(slots) * SlotSize \in Nat /\ Clamped(SlotCount) * SlotSize \in Nat
    BY DEF Clamped, SlotCount, SlotSize, SlotStride
  <1>3. 1..Clamped(slots) * SlotSize \subseteq 1..Clamped(SlotCount) * SlotSize
    BY <1>1, <1>2
  <1>4. SlotCount \in Nat
    BY DEF SlotCount
  <1>. QED  BY <1>3, <1>4, SettingsOf

-----------------------------------------------------------------------------
(* The catalogue.                                                          *)

LEMMA GatedEntity ==
    ASSUME NEW k, NEW a, NEW b, NEW src, NEW g
    PROVE  [Entity(k, a, b, src) EXCEPT !.gate = g] =
               [key |-> k, component |-> a, shape |-> b, source |-> src,
                presence |-> "device", gate |-> g]
  BY DEF Entity

(* What a setting's entity keeps, whatever it is turned into.              *)
LEMMA ForSettingIs ==
    ASSUME NEW s
    PROVE  \E a, b, g :
              ForSetting(s) = [key |-> SettingKey(s.register), component |-> a, shape |-> b,
                               source |-> "settings", presence |-> "device", gate |-> g]
  <1>. DEFINE shown == ShownAs(s.domain)
  <1>1. ForSetting(s) = [Entity(SettingKey(s.register), shown[1], shown[2], "settings")
                            EXCEPT !.gate = GateOf(s)]
    BY DEF ForSetting
  <1>2. PICK a, b, g : a = shown[1] /\ b = shown[2] /\ g = GateOf(s)
    OBVIOUS
  <1>3. ForSetting(s) = [key |-> SettingKey(s.register), component |-> a, shape |-> b,
                         source |-> "settings", presence |-> "device", gate |-> g]
    BY <1>1, <1>2, GatedEntity
  <1>. QED  BY <1>3

LEMMA ControlKey ==
    ASSUME NEW s, NEW p
    PROVE  Control(s, p).key = SettingKey(s.register)
  <1>1. PICK a, b, g :
           ForSetting(s) = [key |-> SettingKey(s.register), component |-> a, shape |-> b,
                            source |-> "settings", presence |-> "device", gate |-> g]
    BY ForSettingIs
  <1>. DEFINE e == ForSetting(s)
              fed == IF e.key \in Reported THEN [e EXCEPT !.source = "telemetry"] ELSE e
  <1>2. PICK src : fed = [key |-> SettingKey(s.register), component |-> a, shape |-> b,
                          source |-> src, presence |-> "device", gate |-> g]
    <2>1. [e EXCEPT !.source = "telemetry"] =
              [key |-> SettingKey(s.register), component |-> a, shape |-> b,
               source |-> "telemetry", presence |-> "device", gate |-> g]
      BY <1>1
    <2>2. CASE e.key \in Reported
      BY <2>1, <2>2
    <2>3. CASE e.key \notin Reported
      BY <1>1, <2>3
    <2>. QED  BY <2>2, <2>3
  <1>. HIDE DEF fed
  <1>3. IntoReadOnly(fed).key = SettingKey(s.register) /\ fed.key = SettingKey(s.register)
    BY <1>2 DEF IntoReadOnly
  <1>4. Control(s, p) \in {fed, IntoReadOnly(fed)}
    BY DEF Control, fed
  <1>. QED  BY <1>3, <1>4

LEMMA ForReadingIs ==
    ASSUME NEW i
    PROVE  /\ ForReading(i).key = ReadingKey(i.register)
           /\ ForReading(i).source = "telemetry"
  <1>. DEFINE signal == ReadingKey(i.register) \in {MeterConnected, OffGridActive}
              a == IF signal THEN "binary_sensor" ELSE "sensor"
              b == IF signal THEN Plain("signal") ELSE Plain("reading")
              g == IF i.register = 19 THEN ReadingIsSet(MeterConnected) ELSE NoGate
  <1>1. ForReading(i) = [Entity(ReadingKey(i.register), a, b, "telemetry") EXCEPT !.gate = g]
    BY DEF ForReading
  <1>. HIDE DEF a, b, g
  <1>2. ForReading(i) = [key |-> ReadingKey(i.register), component |-> a, shape |-> b,
                         source |-> "telemetry", presence |-> "device", gate |-> g]
    BY <1>1, GatedEntity
  <1>. QED  BY <1>2

(* A reading under the name of a setting is one of the two charge limits,  *)
(* which are settings whatever slots are configured.                       *)
LEMMA NamesMeet ==
    ASSUME NEW slots \in Nat, NEW p, NEW q, NEW r \in Readings,
           r.key \in {c.key : c \in Controls(SlotCount, q)}
    PROVE  r.key \in {c.key : c \in Controls(slots, p)}
  <1>1. PICK i \in InputRegisters : r.key = ReadingKey(i.register)
    BY ForReadingIs DEF Readings
  <1>2. PICK s : r.key = SettingKey(s.register)
    BY ControlKey DEF Controls
  <1>3. r.key \in {SettingKey(250), SettingKey(251)}
    BY <1>1, <1>2 DEF ReadingKey, SettingKey
  <1>4. /\ HoldingRegisters[1].register = 250 /\ HoldingRegisters[2].register = 251
        /\ 1 \in DOMAIN HoldingRegisters /\ 2 \in DOMAIN HoldingRegisters
    BY DEF HoldingRegisters, Setting
  <1>5. HoldingRegisters[1] \in ToSet(ResyncSet(slots)) /\ HoldingRegisters[2] \in ToSet(ResyncSet(slots))
    BY <1>4, SettingsGrow DEF ToSet
  <1>6. /\ Control(HoldingRegisters[1], p).key = SettingKey(250)
        /\ Control(HoldingRegisters[2], p).key = SettingKey(251)
    BY <1>4, ControlKey
  <1>. QED  BY <1>3, <1>5, <1>6 DEF Controls

Permissions == [writes : BOOLEAN, powerPlus : BOOLEAN]

(* Catalogue::everything has the topics of every configuration: of any     *)
(* number of slots, whatever may be written, and any number of packs.      *)
LEMMA EverythingCovers ==
    ASSUME NEW slots \in Nat, NEW p \in Permissions, NEW packs \in Nat,
           NEW e \in Entities(slots, p, packs)
    PROVE  DiscoveryTopic(e) \in EverythingTopics
  <1>. DEFINE all == [writes |-> TRUE, powerPlus |-> TRUE]
              none == [writes |-> FALSE, powerPlus |-> TRUE]
  <1>1. SUFFICES e \in Everything
    BY DEF EverythingTopics
  <1>2. CASE e \in FixedEntities
    BY <1>2 DEF Everything, Entities
  <1>3. CASE p.writes /\ e \in Actions
    BY <1>3 DEF Everything, Entities
  <1>4. CASE e \in Controls(slots, p)
    <2>1. PICK s \in ToSet(ResyncSet(SlotCount)) : e = Control(s, p)
      BY <1>4, SettingsGrow DEF Controls
    <2>2. Control(s, p) \in {Control(s, all), Control(s, none)}
      BY DEF Control, Allows
    <2>3. e \in Controls(SlotCount, all) \cup Controls(SlotCount, none)
      BY <2>1, <2>2 DEF Controls
    <2>. QED  BY <2>3 DEF Everything, Entities
  <1>5. CASE /\ e \in Readings
             /\ BatteryPack(e.key) <= packs
             /\ e.key \notin {c.key : c \in Controls(slots, p)}
    <2>1. e.key \notin {c.key : c \in Controls(SlotCount, all)}
      BY <1>5, NamesMeet
    <2>2. BatteryPack(e.key) <= BatteryPacks
      BY DEF BatteryPack, BatteryPacks
    <2>. QED  BY <1>5, <2>1, <2>2 DEF Everything, Entities
  <1>. QED  BY <1>2, <1>3, <1>4, <1>5 DEF Entities

-----------------------------------------------------------------------------
(* What is asked of the catalogues.                                        *)

LEMMA OfCatalogue ==
    ASSUME NEW c \in Configurations, NEW n \in PackCounts
    PROVE  /\ EntitiesOf[<<c, n>>] = Entities(c.slots, c.permitted, n)
           /\ TopicsOf[<<c, n>>] = {DiscoveryTopic(e) : e \in EntitiesOf[<<c, n>>]}
           /\ FieldsOf[<<c, n>>] = {e.key : e \in EntitiesOf[<<c, n>>]}
           /\ FromSettingsOf[<<c, n>>] = {e \in EntitiesOf[<<c, n>>] : e.source = "settings"}
           /\ UnsharedOf[<<c, n>>] =
                  {e.key : e \in {f \in FromSettingsOf[<<c, n>>] : PublishedAlone(f)}}
  <1>1. <<c, n>> \in Catalogues /\ <<c, n>>[1] = c /\ <<c, n>>[2] = n
    BY DEF Catalogues
  <1>2. EntitiesOf[<<c, n>>] = Entities(c.slots, c.permitted, n)
    BY <1>1 DEF EntitiesOf
  <1>3. TopicsOf[<<c, n>>] = {DiscoveryTopic(e) : e \in EntitiesOf[<<c, n>>]}
    BY <1>1 DEF TopicsOf
  <1>4. FieldsOf[<<c, n>>] = {e.key : e \in EntitiesOf[<<c, n>>]}
    BY <1>1 DEF FieldsOf
  <1>5. FromSettingsOf[<<c, n>>] = {e \in EntitiesOf[<<c, n>>] : e.source = "settings"}
    BY <1>1 DEF FromSettingsOf
  <1>6. UnsharedOf[<<c, n>>] =
            {e.key : e \in {f \in FromSettingsOf[<<c, n>>] : PublishedAlone(f)}}
    BY <1>1 DEF UnsharedOf
  <1>. QED  BY <1>2, <1>3, <1>4, <1>5, <1>6

LEMMA PacksCounted ==
    /\ PackCounts \subseteq Nat
    /\ \A f \in Frames \cup {Nothing} : Packs(f) \in PackCounts
    /\ Nothing \notin PackCounts
  BY DEF PackCounts, Packs

LEMMA TopicsCovered ==
    ASSUME NEW c \in Configurations, NEW n \in PackCounts
    PROVE  TopicsOf[<<c, n>>] \subseteq EverythingTopics
  <1>1. c.slots \in Nat /\ c.permitted \in Permissions /\ n \in Nat
    BY PacksCounted DEF Permissions
  <1>2. TopicsOf[<<c, n>>] = {DiscoveryTopic(e) : e \in Entities(c.slots, c.permitted, n)}
    BY OfCatalogue
  <1>. QED  BY <1>1, <1>2, EverythingCovers

(* The entities fed by the settings are the same whatever packs there are, *)
(* and each is named after its setting.                                    *)
LEMMA FixedSources ==
    /\ \A e \in FixedEntities : e.source # "settings"
    /\ \A e \in Actions : e.source # "settings"
  <1>1. \A k, a, b, src : Entity(k, a, b, src).source = src
    BY DEF Entity
  <1>2. ASSUME NEW e \in FixedEntities
        PROVE  e.source # "settings"
    <2>. DEFINE connected == [Entity(<<"status", "connected">>, "binary_sensor", Plain("signal"),
                                     "status") EXCEPT !.presence = "bridge"]
                updated == [Sensor("status", "last_update") EXCEPT !.presence = "bridge"]
                version == [Sensor("status", "bridge_version") EXCEPT !.presence = "bridge"]
    <2>1. connected.source = "status" /\ updated.source = "status" /\ version.source = "status"
      BY DEF Entity, Sensor
    <2>2. \/ e = connected \/ e = updated \/ e = version
          \/ e \in { Sensor("status", "firmware_version"),
                     Sensor("config", "wifi_signal"), Sensor("config", "data_interval"),
                     Sensor("config", "serial_number"),
                     Sensor("config", "accessory_list"), Sensor("config", "accessory_list_rf"),
                     Sensor("telemetry", "cell_spread"), Sensor("telemetry", "resting_voltage"),
                     Entity(<<"telemetry", "soc_credible">>, "binary_sensor", Plain("signal"),
                            "telemetry") }
      BY DEF FixedEntities
    <2>. HIDE DEF connected, updated, version
    <2>3. /\ \A n : Sensor("status", n).source # "settings"
          /\ \A n : Sensor("config", n).source # "settings"
          /\ \A n : Sensor("telemetry", n).source # "settings"
          /\ \A k, a, b : Entity(k, a, b, "telemetry").source # "settings"
      BY <1>1 DEF Sensor
    <2>. QED  BY <2>1, <2>2, <2>3
  <1>3. ASSUME NEW e \in Actions
        PROVE  e.source # "settings"
    <2>. DEFINE withdraw == [Entity(WithdrawMeterReading, "button", Plain("action"), "none")
                                EXCEPT !.gate = ReadingIsSet(MeterConnected)]
    <2>1. withdraw.source = "none"
      BY DEF Entity
    <2>2. \/ e = withdraw
          \/ e \in { Entity(Restart, "button", Plain("action"), "config"),
                     Entity(MeterReading, "number", NumericShape(-20000, 20000), "none"),
                     Entity(PairLora, "button", Plain("action"), "none") }
      BY DEF Actions
    <2>. HIDE DEF withdraw
    <2>3. /\ \A k, a, b : Entity(k, a, b, "config").source # "settings"
          /\ \A k, a, b : Entity(k, a, b, "none").source # "settings"
      BY <1>1
    <2>. QED  BY <2>1, <2>2, <2>3
  <1>. QED  BY <1>2, <1>3

LEMMA FromSettings ==
    ASSUME NEW c \in Configurations, NEW n \in PackCounts
    PROVE  /\ FromSettingsOf[<<c, n>>] =
                  {e \in Controls(c.slots, c.permitted) : e.source = "settings"}
           /\ \A e \in FromSettingsOf[<<c, n>>] :
                /\ e.key = SettingKey(e.key[2]) /\ e.key \in FieldsOf[<<c, n>>]
                /\ e.source = "settings"
  <1>1. FromSettingsOf[<<c, n>>] =
            {e \in Entities(c.slots, c.permitted, n) : e.source = "settings"}
    BY OfCatalogue
  <1>2. \A e \in Readings : e.source = "telemetry"
    BY ForReadingIs DEF Readings
  <1>3. FromSettingsOf[<<c, n>>] =
            {e \in Controls(c.slots, c.permitted) : e.source = "settings"}
    BY <1>1, <1>2, FixedSources DEF Entities
  <1>4. \A e \in Controls(c.slots, c.permitted) : e.key = SettingKey(e.key[2])
    BY ControlKey DEF Controls, SettingKey
  <1>5. \A e \in FromSettingsOf[<<c, n>>] : e.key \in FieldsOf[<<c, n>>]
    BY OfCatalogue
  <1>. QED  BY <1>3, <1>4, <1>5

-----------------------------------------------------------------------------
(* The inductive invariant.  A link has announced its device once it was   *)
(* told of the broker, and not before; whatever is on the broker, some     *)
(* configuration or an earlier version put there, so that what a link      *)
(* withdraws the first time is enough.                                     *)

Known == EverythingTopics \cup Retired

LinkInv ==
    /\ configuration \in Configurations
    /\ announced \in PackCounts \cup {Nothing}
    /\ telemetry \in Frames \cup {Nothing}
    /\ published \in BOOLEAN
    /\ published <=> announced # Nothing
    /\ DOMAIN settings = DOMAIN Watched
    /\ discovery \subseteq Known

AInv == LinkInv /\ NothingLeftBehind /\ SettingsAreShown

LEMMA StartSound == AnnouncementsInit => AInv
  BY DEF AnnouncementsInit, AInv, LinkInv, NothingLeftBehind, SettingsAreShown, Known

(* What is announced replaces what there was.                              *)
LEMMA Replaced ==
    ASSUME LinkInv, NothingLeftBehind, NEW previous \in {announced, Nothing},
           NEW frame \in Frames \cup {Nothing}, Announce(previous, frame)
    PROVE  /\ announced' = Packs(frame) /\ announced' \in PackCounts
           /\ discovery' = TopicsOf[<<configuration, announced'>>]
           /\ discovery' \subseteq Known
  <1>. DEFINE packs == Packs(frame)
              keeping == TopicsOf[<<configuration, packs>>]
  <1>1. packs \in PackCounts /\ packs # Nothing
    BY PacksCounted
  <1>2. keeping \subseteq Known
    BY <1>1, TopicsCovered DEF LinkInv, Known
  <1>3. CASE previous = packs
    <2>1. announced' = previous /\ discovery' = discovery
      BY <1>3 DEF Announce
    <2>2. announced = packs
      BY <1>1, <1>3
    <2>3. discovery = keeping
      BY <1>1, <2>2 DEF NothingLeftBehind
    <2>. QED  BY <1>1, <1>2, <1>3, <2>1, <2>3
  <1>4. CASE previous # packs
    <2>1. announced' = packs /\ discovery' = (discovery \ Withdrawn(previous, keeping)) \cup keeping
      BY <1>4 DEF Announce
    <2>2. discovery \ Withdrawn(previous, keeping) \subseteq keeping
      <3>1. CASE previous = Nothing
        BY <3>1 DEF Withdrawn, LinkInv, Known
      <3>2. CASE previous # Nothing
        <4>1. discovery = TopicsOf[<<configuration, previous>>]
          BY <3>2 DEF NothingLeftBehind
        <4>. HIDE DEF keeping
        <4>. QED  BY <3>2, <4>1 DEF Withdrawn
      <3>. QED  BY <3>1, <3>2
    <2>. HIDE DEF keeping
    <2>3. discovery' = keeping
      BY <2>1, <2>2
    <2>. QED  BY <1>1, <1>2, <2>1, <2>3 DEF keeping
  <1>. QED  BY <1>3, <1>4

(* The settings read back are on the topics their entities read.           *)
Carries(cached, packs, told) ==
    \A e \in FromSettingsOf[<<configuration, packs>>] :
        e.key[2] \in DOMAIN Watched /\ cached[e.key[2]] # Unread =>
            <<e.key, cached[e.key[2]]>> \in told[TopicFor(e)]

LEMMA Carried ==
    ASSUME configuration \in Configurations, NEW packs \in PackCounts, NEW cached,
           PublishSettings(cached, packs)
    PROVE  Carries(cached, packs, states')
  <1>. DEFINE fields == FieldsOf[<<configuration, packs>>]
              unshared == UnsharedOf[<<configuration, packs>>]
              carried == {<<SettingKey(r), cached[r]>> : r \in
                             {q \in DOMAIN Watched : cached[q] # Unread /\ SettingKey(q) \in fields}}
              carriedOn(topic) ==
                  IF topic = Shared("settings") THEN carried
                  ELSE {c \in carried : c[1] = topic[2] /\ c[1] \in unshared}
  <1>1. states' = [t \in SettingsTopics |-> IF carriedOn(t) = {} THEN states[t] ELSE carriedOn(t)]
    BY DEF PublishSettings
  <1>. SUFFICES ASSUME NEW e \in FromSettingsOf[<<configuration, packs>>],
                       e.key[2] \in DOMAIN Watched, cached[e.key[2]] # Unread
                PROVE  <<e.key, cached[e.key[2]]>> \in states'[TopicFor(e)]
    BY DEF Carries
  <1>2. PICK r : r = e.key[2]
    OBVIOUS
  <1>3. e.key = SettingKey(r) /\ e.key \in fields /\ e.source = "settings"
    BY <1>2, FromSettings
  <1>4. PICK c : c = <<e.key, cached[r]>>
    OBVIOUS
  <1>5. c \in carried /\ c[1] = e.key
    BY <1>2, <1>3, <1>4
  <1>6. CASE PublishedAlone(e)
    <2>1. TopicFor(e) = Field("settings", e.key)
      BY <1>3, <1>6 DEF TopicFor
    <2>2. e.key \in unshared
      BY <1>6, OfCatalogue
    <2>3. /\ Field("settings", e.key) # Shared("settings")
          /\ Field("settings", e.key)[2] = e.key
          /\ Field("settings", e.key) \in SettingsTopics
      BY <1>2, <1>3 DEF Field, Shared, SettingKey, SettingsTopics
    <2>. HIDE DEF carried, unshared
    <2>4. c \in carriedOn(TopicFor(e))
      BY <1>5, <2>1, <2>2, <2>3
    <2>. HIDE DEF carriedOn
    <2>5. c \in states'[TopicFor(e)]
      BY <1>1, <2>1, <2>3, <2>4
    <2>. QED  BY <1>2, <1>4, <2>5
  <1>7. CASE ~ PublishedAlone(e)
    <2>1. TopicFor(e) = Shared("settings")
      BY <1>3, <1>7 DEF TopicFor
    <2>2. Shared("settings") \in SettingsTopics
      BY DEF SettingsTopics
    <2>. HIDE DEF carried, unshared
    <2>3. c \in carriedOn(TopicFor(e))
      BY <1>5, <2>1
    <2>. HIDE DEF carriedOn
    <2>4. c \in states'[TopicFor(e)]
      BY <1>1, <2>1, <2>2, <2>3
    <2>. QED  BY <1>2, <1>4, <2>4
  <1>. QED  BY <1>6, <1>7

LEMMA StepSound == AInv /\ [AnnouncementsNext]_announcementsVars => AInv'
  <1>. SUFFICES ASSUME AInv, [AnnouncementsNext]_announcementsVars PROVE AInv'
    OBVIOUS
  <1>. USE DEF AInv
  <1>1. SettingsAreShown <=> (announced # Nothing => Carries(settings, announced, states))
    BY DEF SettingsAreShown, Carries
  <1>2. SettingsAreShown' <=>
            (announced' # Nothing =>
                \A e \in FromSettingsOf[<<configuration', announced'>>] :
                    e.key[2] \in DOMAIN Watched /\ settings'[e.key[2]] # Unread =>
                        <<e.key, settings'[e.key[2]]>> \in states'[TopicFor(e)])
    BY DEF SettingsAreShown
  <1>3. CASE RunStarts \/ SessionStarts
    BY <1>3 DEF RunStarts, SessionStarts, FreshLink, broker, LinkInv, NothingLeftBehind,
                SettingsAreShown
  <1>4. CASE Republishes
    <2>. USE <1>4 DEF Republishes, caches
    <2>1. /\ announced' = Packs(telemetry) /\ announced' \in PackCounts
          /\ discovery' = TopicsOf[<<configuration, announced'>>]
          /\ discovery' \subseteq Known
      BY Replaced DEF LinkInv
    <2>2. announced' # Nothing
      BY <2>1, PacksCounted
    <2>3. LinkInv' /\ NothingLeftBehind'
      BY <2>1, <2>2 DEF LinkInv, NothingLeftBehind
    <2>4. Carries(settings, announced', states')
      BY <2>1, Carried DEF LinkInv
    <2>5. SettingsAreShown'
      BY <1>2, <2>4 DEF Carries
    <2>. QED  BY <2>3, <2>5
  <1>5. CASE SettingsChanged
    <2>1. PICK r \in DOMAIN Watched : \E value \in Watched[r] :
             /\ settings' = [settings EXCEPT ![r] = value]
             /\ IF published
                THEN /\ PublishSettings(settings', announced)
                     /\ PublishGates(settings', telemetry, announced)
                ELSE UNCHANGED <<states, gates, available>>
             /\ UNCHANGED <<configuration, published, announced, telemetry, discovery>>
      BY <1>5 DEF SettingsChanged
    <2>2. LinkInv' /\ NothingLeftBehind'
      BY <2>1 DEF LinkInv, NothingLeftBehind
    <2>3. SettingsAreShown'
      <3>1. CASE announced = Nothing
        BY <1>2, <2>1, <3>1
      <3>2. CASE announced # Nothing
        <4>1. published /\ announced \in PackCounts
          BY <3>2 DEF LinkInv
        <4>2. PICK cached : cached = settings'
          OBVIOUS
        <4>3. Carries(cached, announced, states')
          BY <2>1, <4>1, <4>2, Carried DEF LinkInv
        <4>. QED  BY <1>2, <2>1, <4>2, <4>3 DEF Carries
      <3>. QED  BY <3>1, <3>2
    <2>. QED  BY <2>2, <2>3
  <1>6. CASE TelemetryArrives
    <2>1. PICK frame \in Frames :
             /\ telemetry' = frame
             /\ IF published
                THEN /\ Announce(announced, frame)
                     /\ PublishGates(settings, frame, Packs(frame))
                ELSE UNCHANGED <<announced, discovery, gates, available>>
             /\ UNCHANGED <<configuration, published, settings, states>>
      BY <1>6 DEF TelemetryArrives
    <2>2. CASE ~ published
      BY <1>2, <2>1, <2>2 DEF LinkInv, NothingLeftBehind
    <2>3. CASE published
      <3>1. /\ announced' = Packs(frame) /\ announced' \in PackCounts
            /\ discovery' = TopicsOf[<<configuration, announced'>>]
            /\ discovery' \subseteq Known
        BY <2>1, <2>3, Replaced
      <3>2. announced' # Nothing /\ announced # Nothing /\ announced \in PackCounts
        BY <2>3, <3>1, PacksCounted DEF LinkInv
      <3>3. LinkInv' /\ NothingLeftBehind'
        BY <2>1, <3>1, <3>2 DEF LinkInv, NothingLeftBehind
      <3>4. FromSettingsOf[<<configuration, announced'>>] = FromSettingsOf[<<configuration, announced>>]
        BY <3>1, <3>2, FromSettings DEF LinkInv
      <3>5. SettingsAreShown'
        BY <1>1, <1>2, <2>1, <3>2, <3>4 DEF Carries
      <3>. QED  BY <3>3, <3>5
    <2>. QED  BY <2>2, <2>3
  <1>7. CASE UNCHANGED announcementsVars
    BY <1>7 DEF announcementsVars, caches, broker, LinkInv, NothingLeftBehind, SettingsAreShown
  <1>. QED  BY <1>3, <1>4, <1>5, <1>6, <1>7 DEF AnnouncementsNext

-----------------------------------------------------------------------------
(* The theorems.                                                           *)

(* The inductive invariant holds throughout.                               *)
THEOREM AnnouncementsInvariant == AnnouncementsSpec => []AInv
  BY StartSound, StepSound, PTL DEF AnnouncementsSpec

(* Through any runs with any configurations, any sessions and packs that   *)
(* come and go: a link that has announced its device has left the broker   *)
(* with the entities of this run and no others.                            *)
THEOREM NothingIsLeftBehind == AnnouncementsSpec => []NothingLeftBehind
  BY AnnouncementsInvariant, PTL DEF AInv

(* And each setting that was read back is on the topic that its entity     *)
(* reads in this run.                                                      *)
THEOREM SettingsAreAlwaysShown == AnnouncementsSpec => []SettingsAreShown
  BY AnnouncementsInvariant, PTL DEF AInv

(* Whatever the broker has of earlier runs, of packs and of sessions: if   *)
(* each catalogue of this program shows the controls that it honours, so   *)
(* does the broker.  TLC evaluates the hypothesis for every configuration  *)
(* the program accepts (MCPublisher's EveryCatalogueIsHonoured).           *)
THEOREM ControlsAreAlwaysHonoured ==
    ASSUME \A c \in Configurations :
               CataloguesAreHonoured(c.permitted, {c.slots}, PackCounts)
    PROVE  AnnouncementsSpec => []ControlsAreHonoured
  <1>1. AInv => ControlsAreHonoured
    <2>1. SUFFICES ASSUME AInv, announced # Nothing
                   PROVE  /\ ControlsAmong(discovery) \subseteq HonouredControls[configuration]
                          /\ HonouredKeys[configuration] \ SlotsBeyond(configuration.slots)
                                 \subseteq {t[2] : t \in ControlsAmong(discovery)}
      BY DEF ControlsAreHonoured
    <2>2. configuration \in Configurations /\ announced \in PackCounts
      BY <2>1 DEF AInv, LinkInv
    <2>3. discovery = {DiscoveryTopic(e) :
                          e \in Entities(configuration.slots, configuration.permitted, announced)}
      BY <2>1, <2>2, OfCatalogue DEF AInv, NothingLeftBehind
    <2>4. CataloguesAreHonoured(configuration.permitted, {configuration.slots}, PackCounts)
      BY <2>2
    <2>5. /\ HonouredControls[configuration] = HonouredTopics(configuration.permitted)
          /\ HonouredKeys[configuration] = KeysHonoured(configuration.permitted)
      BY <2>2 DEF HonouredControls, HonouredKeys
    <2>6. /\ ControlsAmong(discovery) \subseteq HonouredTopics(configuration.permitted)
          /\ KeysHonoured(configuration.permitted) \ SlotsBeyond(configuration.slots)
                 \subseteq {t[2] : t \in ControlsAmong(discovery)}
      BY <2>2, <2>3, <2>4, Zenon DEF CataloguesAreHonoured
    <2>. QED  BY <2>5, <2>6
  <1>. QED  BY <1>1, AnnouncementsInvariant, PTL
=============================================================================
