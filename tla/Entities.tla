------------------------------ MODULE Entities ------------------------------
(***************************************************************************)
(* What Home Assistant is offered of one device                            *)
(* (src/src/homeassistant/entity.rs, discovery.rs, topics.rs): the entity  *)
(* each setting and each reading becomes, the catalogue of them, the       *)
(* topics an entity reads and the values its control offers; and what a    *)
(* command payload is understood as (src/src/homeassistant/command.rs).    *)
(*                                                                         *)
(* A name is a pair: the register for a setting or a reading, the word for *)
(* what is neither.  Labels, units and classes are left out.               *)
(***************************************************************************)
EXTENDS Registers

(* BATTERY_PACKS: packs the register map has readings for.                 *)
BatteryPacks == 4

SettingKey(register) == <<"setting", register>>
PowerPlus == SettingKey(325)

(* The charge limits are in both address spaces, under one name.           *)
ReadingKey(register) ==
    IF register \in {90, 91} THEN SettingKey(register + 160) ELSE <<"reading", register>>

MeterConnected == ReadingKey(6)
OffGridActive == ReadingKey(18)
MeterReading == <<"control", "supplied_meter_reading">>
WithdrawMeterReading == <<"control", "withdraw_meter_reading">>
PairLora == <<"control", "pair_lora_accessory">>
Restart == <<"config", "restart">>
FactoryReset == <<"config", "factory_reset">>

(* Permitted: what may be written from the broker.                         *)
Allows(permitted, key) == permitted.writes /\ (permitted.powerPlus \/ key # PowerPlus)

-----------------------------------------------------------------------------
(* Entities                                                                *)

NoGate == [by |-> "nothing"]
SettingIsNot(setting, values) == [by |-> "setting", key |-> setting, inert |-> values]
ReadingIsSet(reading) == [by |-> "reading", key |-> reading]

Entity(key, component, shape, source) ==
    [key |-> key, component |-> component, shape |-> shape, source |-> source,
     presence |-> "device", gate |-> NoGate]

NumericShape(min, max) == [is |-> "numeric", min |-> min, max |-> max]
Plain(shape) == [is |-> shape]
Choice(labels) == [is |-> "choice", labels |-> labels]

OutputPowerIgnoredIn == {1, 2}  \* battery_first, smart_self_use

(* How a setting of each shape is shown, and what it is shown beside.      *)
ShownAs(d) ==
    CASE d.kind = "range"    -> <<"number", NumericShape(d.min, d.max)>>
      [] d.kind = "flag"     -> <<"switch", Plain("toggle")>>
      [] d.kind = "time"     -> <<"text", Plain("time")>>
      [] d.kind = "weekdays" -> <<"text", Plain("weekdays")>>
      [] d.kind = "enum"     -> <<"select", Choice(d.labels)>>
GateOf(setting) ==
    IF setting.supersededBy = 0 THEN NoGate
    ELSE SettingIsNot(SettingKey(setting.supersededBy), OutputPowerIgnoredIn)

(* Entity::for_setting, with the shape the driver gives a domain.          *)
ForSettingWide(setting) ==  \* mutant: a number may be anything the register holds
    LET shown == IF setting.domain.kind = "range" THEN <<"number", NumericShape(0, 65535)>>
                 ELSE ShownAs(setting.domain)
    IN  Entity(SettingKey(setting.register), shown[1], shown[2], "settings")
ForSetting(setting) ==
    LET shown == ShownAs(setting.domain)
    IN  [Entity(SettingKey(setting.register), shown[1], shown[2], "settings") EXCEPT
            !.gate = GateOf(setting)]

(* Readings nobody could read: of unknown meaning, halves of the firmware  *)
(* version, pieces of the serial number.                                   *)
Unpublished(input) ==
    input.register \in {20, 81, 114} \cup {119, 120} \/ input.kind = "text"

(* Entity::for_reading, of a reading that is published.                    *)
ForReading(input) ==
    LET key == ReadingKey(input.register)
        signal == key \in {MeterConnected, OffGridActive}
    IN  [Entity(key, IF signal THEN "binary_sensor" ELSE "sensor",
                IF signal THEN Plain("signal") ELSE Plain("reading"), "telemetry") EXCEPT
            !.gate = IF input.register = 19 THEN ReadingIsSet(MeterConnected) ELSE NoGate]

(* Entity::battery_pack: by the readings' names, 0 for none.               *)
BatteryPack(key) ==
    CASE key \in {ReadingKey(29), ReadingKey(30)} -> 1
      [] key \in {ReadingKey(41), ReadingKey(42)} -> 2
      [] key \in {ReadingKey(53), ReadingKey(54)} -> 3
      [] key \in {ReadingKey(65), ReadingKey(66)} -> 4
      [] OTHER -> 0

Sensor(kind, name) == Entity(<<kind, name>>, "sensor", Plain("reading"), kind)
LastUpdate == <<"status", "last_update">>
FirmwareVersion == <<"status", "firmware_version">>

(* What there is of every device: connected .. accessory_list, cell_spread *)
(* .. soc_credible.                                                        *)
FixedEntities ==
    { [Entity(<<"status", "connected">>, "binary_sensor", Plain("signal"), "status")
          EXCEPT !.presence = "bridge"],
      [Sensor("status", "last_update") EXCEPT !.presence = "bridge"],
      [Sensor("status", "bridge_version") EXCEPT !.presence = "bridge"],
      Sensor("status", "firmware_version"),
      Sensor("config", "wifi_signal"), Sensor("config", "data_interval"),
      Sensor("config", "serial_number"),
      Sensor("config", "accessory_list"), Sensor("config", "accessory_list_rf"),
      Sensor("telemetry", "cell_spread"), Sensor("telemetry", "resting_voltage"),
      Entity(<<"telemetry", "soc_credible">>, "binary_sensor", Plain("signal"), "telemetry") }

(* The actions, there only while writes are permitted: restart,            *)
(* meter_reading, withdraw_meter_reading, pair_lora_accessory.             *)
Actions ==
    { Entity(Restart, "button", Plain("action"), "config"),
      Entity(MeterReading, "number", NumericShape(-20000, 20000), "none"),
      [Entity(WithdrawMeterReading, "button", Plain("action"), "none")
          EXCEPT !.gate = ReadingIsSet(MeterConnected)],
      Entity(PairLora, "button", Plain("action"), "none") }

IsWritable(entity) ==
    entity.shape.is \in {"numeric", "toggle", "choice", "time", "weekdays", "action"}

IntoReadOnly(entity) ==
    IF IsWritable(entity)
    THEN [entity EXCEPT !.component = "sensor", !.shape = Plain("reading")]
    ELSE entity

PublishedAlone(entity) ==
    entity.shape.is \in {"time", "weekdays"} \/ entity.key \in {LastUpdate, FirmwareVersion}

-----------------------------------------------------------------------------
(* The catalogue                                                           *)

Settings(slots) == {SettingKey(s.register) : s \in ToSet(ResyncSet(slots))}

(* Catalogue::entities: a setting that is reported as well reads from      *)
(* telemetry, and one that may not be written is a sensor.                 *)
Reported == {ReadingKey(i.register) : i \in InputRegisters}
Control(setting, permitted) ==
    LET e == ForSetting(setting)
        fed == IF e.key \in Reported THEN [e EXCEPT !.source = "telemetry"] ELSE e
    IN  IF Allows(permitted, e.key) THEN fed ELSE IntoReadOnly(fed)
Controls(slots, permitted) == {Control(s, permitted) : s \in ToSet(ResyncSet(slots))}
Readings == {ForReading(i) : i \in {j \in InputRegisters : ~Unpublished(j)}}

Entities(slots, permitted, packs) ==
    LET controls == Controls(slots, permitted) IN
    {r \in Readings : BatteryPack(r.key) <= packs /\ r.key \notin {s.key : s \in controls}}
        \cup controls \cup FixedEntities \cup (IF permitted.writes THEN Actions ELSE {})

DiscoveryTopic(entity) == <<entity.component, entity.key>>

(* Catalogue::RETIRED: what an earlier version announced.                  *)
Retired == {<<"sensor", <<"retired", "sw_version_part_1">>>>,
            <<"sensor", <<"retired", "sw_version_part_2">>>>}

(* Catalogue::everything: whatever any configuration can have announced.   *)
EverythingWritable ==  \* mutant: with the defaults alone
    Entities(SlotCount, [writes |-> TRUE, powerPlus |-> TRUE], BatteryPacks)
Everything ==
    Entities(SlotCount, [writes |-> TRUE, powerPlus |-> TRUE], BatteryPacks)
        \cup Entities(SlotCount, [writes |-> FALSE, powerPlus |-> TRUE], BatteryPacks)

-----------------------------------------------------------------------------
(* Discovery: what an entity reads, depends on and sends                   *)

Shared(source) == <<source, <<"every", "field">>>>
Field(source, key) == <<source, key>>

(* Topics::topic_for, but for an action, whose state describe_state takes  *)
(* out of the message.                                                     *)
TopicFor(entity) ==
    IF PublishedAlone(entity) THEN Field(entity.source, entity.key) ELSE Shared(entity.source)

(* A JSON value: a flag, an integer of 32 bits, a text by what it says, or *)
(* "other" than these.                                                     *)
JsonNumber(n) == [json |-> "number", n |-> n]
JsonText(says, value) == [json |-> "text", says |-> says, value |-> value]

(* Discovery::describe_commands and describe_state: what pressing, setting *)
(* or choosing can send, at the bounds.                                    *)
Offered(entity) ==
    CASE entity.shape.is = "toggle"   -> {JsonNumber(0), JsonNumber(1)}
      [] entity.shape.is = "action"   -> {JsonNumber(1)}
      [] entity.shape.is = "numeric"  -> {JsonNumber(entity.shape.min), JsonNumber(entity.shape.max)}
      [] entity.shape.is = "choice"   ->
             {JsonText("label", l) : l \in 0..(entity.shape.labels - 1)}
      [] entity.shape.is = "time"     -> {JsonText("time", t) : t \in {<<0, 0>>, <<23, 59>>}}
      [] entity.shape.is = "weekdays" -> {JsonText("days", d) : d \in {{}, {1}, 1..7}}
      [] OTHER -> {}

-----------------------------------------------------------------------------
(* Commands                                                                *)

NotParsed == -1

(* Shape::parse: the register value a text composes to.                    *)
ParseText(domain, text) ==
    CASE domain.kind = "enum" /\ text.says = "label" /\ text.value < domain.labels -> text.value
      [] domain.kind = "time" /\ text.says = "time"
             /\ text.value[1] * 256 + text.value[2] <= 65535 ->
             text.value[1] * 256 + text.value[2]
      [] domain.kind = "weekdays" /\ text.says = "days" ->
             FoldSet(LAMBDA day, mask : mask + 2 ^ (day - 1), 0, text.value)
      [] OTHER -> NotParsed

(* raw_value.                                                              *)
RawValue(domain, value) ==
    CASE value.json = "bool" /\ domain.kind = "flag" -> IF value.b THEN 1 ELSE 0
      [] value.json = "text" -> ParseText(domain, value)
      [] value.json = "number" /\ domain.kind = "flag" /\ value.n \in 0..1 -> value.n
      [] value.json = "number" /\ domain.kind = "range" /\ value.n \in Register -> value.n
      [] OTHER -> NotParsed

Refused == [is |-> "refused"]

(* Change::action: the config-space actions.                              *)
ActionOf(key, permitted) ==
    IF key # FactoryReset /\ Allows(permitted, key)
    THEN [is |-> "action", key |-> key]
    ELSE Refused

(* Change::meter_reading: a button's value is not looked at.               *)
MeterReadingOf(key, value, permitted) ==
    CASE ~Allows(permitted, key) -> Refused
      [] key = WithdrawMeterReading -> [is |-> "meter", watts |-> 0, valid |-> FALSE]
      [] key = MeterReading /\ value.json = "number" ->
             [is |-> "meter", watts |-> value.n, valid |-> TRUE]
      [] OTHER -> Refused

SettingOf(key, value, permitted) ==
    LET setting == LookupSetting(key[2])
        raw == RawValue(setting.domain, value)
    IN  IF Allows(permitted, key) /\ raw # NotParsed /\ Accepts(setting.domain, raw)
        THEN [is |-> "set", key |-> key, value |-> raw]
        ELSE Refused

(* Change::one: what a field asks for.  The settings are found by name in  *)
(* the map of every slot, however many are configured.                     *)
One(key, value, permitted) ==
    CASE key \in {Restart, FactoryReset} -> ActionOf(key, permitted)
      [] key \in {MeterReading, WithdrawMeterReading} -> MeterReadingOf(key, value, permitted)
      [] key = PairLora ->
             IF Allows(permitted, key) THEN [is |-> "action", key |-> key] ELSE Refused
      [] key \in Settings(SlotCount) -> SettingOf(key, value, permitted)
      [] OTHER -> Refused

(* Change::from_payload: all of a payload's fields, or none.               *)
FromPayload(payload, permitted) ==
    LET asked == {One(key, payload[key], permitted) : key \in DOMAIN payload} IN
    IF asked = {} \/ Refused \in asked THEN Refused ELSE [is |-> "changes", changes |-> asked]

Honoured(key, value, permitted) ==
    FromPayload([k \in {key} |-> value], permitted) # Refused

-----------------------------------------------------------------------------
(* What is shown against what is carried out                               *)

ControlComponents == {"number", "switch", "select", "text", "button"}
ControlsAmong(topics) == {t \in topics : t[1] \in ControlComponents}

(* The controls all of whose values are carried out, what can be asked for *)
(* at all, and the settings of the slots that are not shown.               *)
HonouredTopics(permitted) ==
    {DiscoveryTopic(e) : e \in
        {f \in Everything :
            Offered(f) # {} /\ \A value \in Offered(f) : Honoured(f.key, value, permitted)}}
KeysHonoured(permitted) ==
    {key \in {e.key : e \in Everything} \cup {FactoryReset} :
        \E n \in {0, 1, 70} : Honoured(key, JsonNumber(n), permitted)}
SlotsBeyond(slots) == Settings(SlotCount) \ Settings(slots)

(* Every such catalogue shows controls that are honoured, and all of them. *)
CataloguesAreHonoured(permitted, slotCounts, packCounts) ==
    LET honoured == HonouredTopics(permitted)
        keys == KeysHonoured(permitted)
    IN  \A slots \in slotCounts, packs \in packCounts :
            LET shown == {DiscoveryTopic(e) : e \in Entities(slots, permitted, packs)} IN
            /\ ControlsAmong(shown) \subseteq honoured
            /\ keys \ SlotsBeyond(slots) \subseteq {t[2] : t \in ControlsAmong(shown)}
=============================================================================
