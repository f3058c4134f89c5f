-------------------------------- MODULE Mqtt --------------------------------
(***************************************************************************)
(* MQTT 3.1.1 packets as src/src/mqtt.rs writes and reads them.  A packet   *)
(* on the wire is a sequence of octets.  A string is its octets; that a    *)
(* string is UTF-8 is reduced to its not containing the octet 255.         *)
(***************************************************************************)
EXTENDS Naturals, Sequences, SequencesExt, FiniteSetsExt

Octet == 0..255
None == <<>>  \* Option::None, of a will, a user name or a password, each in a sequence

Flag(b, weight) == IF b THEN weight ELSE 0
Bit(octet, weight) == (octet \div weight) % 2 = 1

-----------------------------------------------------------------------------
(* Writer                                                                  *)

U16(n) == <<n \div 256, n % 256>>

Bytes(value) == U16(IF Len(value) < 65536 THEN Len(value) ELSE 65535) \o value

(* The remaining length, seven bits to an octet, the lowest first.         *)
VarintDigits(n) == Min({d \in 1..4 : n < 128 ^ d})
Varint(n) ==
    [i \in 1..VarintDigits(n) |->
        ((n \div 128 ^ (i - 1)) % 128) + Flag(i < VarintDigits(n), 128)]

(* ConnectFlags::of, PublishFlags::of.                                     *)
ConnectFlags(c) ==
    Flag(c.username # None, 128) + Flag(c.password # None, 64) + Flag(c.clean_session, 2)
        + IF c.will = None THEN 0
          ELSE 4 + 8 * c.will[1].qos + Flag(c.will[1].retain, 32)

PublishFlags(p) == 2 * p.qos + Flag(p.retain, 1) + Flag(p.dup, 8)

MqttName == <<77, 81, 84, 84>>

ConnectBody(c) ==
    Bytes(MqttName) \o <<c.protocol_level, ConnectFlags(c)>> \o U16(c.keepalive)
        \o Bytes(c.client_id)
        \o (IF c.will = None THEN <<>> ELSE Bytes(c.will[1].topic) \o Bytes(c.will[1].payload))
        \o (IF c.username = None THEN <<>> ELSE Bytes(c.username[1]))
        \o (IF c.password = None THEN <<>> ELSE Bytes(c.password[1]))

PublishBody(p) ==
    Bytes(p.topic) \o (IF p.qos = 0 THEN <<>> ELSE U16(p.packet_id)) \o p.payload

SubscribeBody(s) ==
    U16(s.packet_id) \o FlattenSeq([i \in 1..Len(s.filters) |->
                                       Append(Bytes(s.filters[i].filter), s.filters[i].qos)])

(* The first octet and the body: Packet::encode.                           *)
FirstOctet(p) ==
    CASE p.kind = "CONNECT" -> 16 []  p.kind = "CONNACK" -> 32
      [] p.kind = "PUBLISH" -> 48 + PublishFlags(p)
      [] p.kind = "PUBACK" -> 64  []  p.kind = "SUBSCRIBE" -> 130
      [] p.kind = "SUBACK" -> 144 []  p.kind = "PINGREQ" -> 192
      [] p.kind = "PINGRESP" -> 208 [] p.kind = "DISCONNECT" -> 224
Body(p) ==
    CASE p.kind = "CONNECT" -> ConnectBody(p)
      [] p.kind = "CONNACK" -> <<Flag(p.session_present, 1), p.code>>
      [] p.kind = "PUBLISH" -> PublishBody(p)
      [] p.kind = "PUBACK" -> U16(p.packet_id)
      [] p.kind = "SUBSCRIBE" -> SubscribeBody(p)
      [] p.kind = "SUBACK" -> U16(p.packet_id) \o p.granted
      [] OTHER -> <<>>

Encode(p) == <<FirstOctet(p)>> \o Varint(Len(Body(p))) \o Body(p)

-----------------------------------------------------------------------------
(* Reader.  A reading has what was read, where the next one starts, and why *)
(* the body is refused, if it is.                                          *)

Reading(value, next) == [value |-> value, next |-> next, why |-> "none"]
Refusal(why) == [value |-> <<>>, next |-> 0, why |-> why]

Word(body, at) == 256 * body[at] + body[at + 1]

ReadU8(body, at) ==
    IF at <= Len(body) THEN Reading(body[at], at + 1) ELSE Refusal("truncated")
ReadU16(body, at) ==
    IF at < Len(body) THEN Reading(Word(body, at), at + 2) ELSE Refusal("truncated")
ReadBytes(body, at) ==
    IF at < Len(body) /\ at + 1 + Word(body, at) <= Len(body)
    THEN Reading(SubSeq(body, at + 2, at + 1 + Word(body, at)), at + 2 + Word(body, at))
    ELSE Refusal("truncated")
ReadString(body, at) ==
    LET raw == ReadBytes(body, at) IN
    IF Contains(raw.value, 255) THEN Refusal("not utf-8") ELSE raw

(* Fields one after another, to the first that is refused.  "qos2" stands  *)
(* where a quality of service is looked at that is none.                   *)
ReadField(body, at, field) ==
    CASE field = "u8" -> ReadU8(body, at)
      [] field = "u16" -> ReadU16(body, at)
      [] field = "bytes" -> ReadBytes(body, at)
      [] field = "string" -> ReadString(body, at)
      [] field = "qos2" -> Refusal("unsupported qos")
ReadFields(body, at, fields) ==
    FoldLeft(LAMBDA r, field : IF r.why # "none" THEN r
                               ELSE [ReadField(body, r.next, field) EXCEPT !.value = Append(r.value, @)],
             Reading(<<>>, at), fields)

Where(there, fields) == IF there THEN fields ELSE <<>>

(* Connect::decode: what every CONNECT begins with, then what its flags    *)
(* say is there.                                                           *)
WillQos(flags) == (flags \div 8) % 4
FieldsThere(flags) ==
    Where(Bit(flags, 4), <<"string", "bytes">> \o Where(WillQos(flags) > 1, <<"qos2">>))
        \o Where(Bit(flags, 128), <<"string">>) \o Where(Bit(flags, 64), <<"bytes">>)

ConnectOf(level, flags, keepalive, id, tail) ==
    [kind |-> "CONNECT", protocol_level |-> level, client_id |-> id,
     keepalive |-> keepalive, clean_session |-> Bit(flags, 2),
     will |-> Where(Bit(flags, 4), <<[topic |-> tail[1], payload |-> tail[2],
                                      qos |-> WillQos(flags), retain |-> Bit(flags, 32)]>>),
     username |-> Where(Bit(flags, 128), <<tail[IF Bit(flags, 4) THEN 3 ELSE 1]>>),
     password |-> Where(Bit(flags, 64), <<Last(tail)>>)]

ConnectTail(head, tail) ==
    IF tail.why # "none" THEN tail
    ELSE Reading(ConnectOf(head[2], head[3], head[4], head[5], tail.value), tail.next)
ConnectHead(body, head) ==
    IF head.why # "none" THEN head
    ELSE ConnectTail(head.value, ReadFields(body, head.next, FieldsThere(head.value[3])))
DecodeConnect(body) ==
    ConnectHead(body, ReadFields(body, 1, <<"string", "u8", "u8", "u16", "string">>))

(* Publish::decode.                                                        *)
PublishOf(body, flags, qos, head) ==
    IF head.why # "none" THEN head
    ELSE Reading(
        [kind |-> "PUBLISH", topic |-> head.value[1], qos |-> qos,
         retain |-> Bit(flags, 1), dup |-> Bit(flags, 8),
         packet_id |-> IF qos = 1 THEN head.value[2] ELSE 0,
         payload |-> SubSeq(body, head.next, Len(body))],
        head.next)
DecodePublish(body, flags) ==
    LET qos == (flags \div 2) % 4 IN
    PublishOf(body, flags, qos,
        ReadFields(body, 1, Where(qos > 1, <<"qos2">>) \o <<"string">> \o Where(qos = 1, <<"u16">>)))

(* Subscribe::decode: filters to the end of the body.                      *)
Filters(body) ==
    LET from[at \in 1..(Len(body) + 1)] ==
            IF at > Len(body) THEN Reading(<<>>, at)
            ELSE LET pair == ReadFields(body, at, <<"string", "u8">>) IN
                 IF pair.why # "none" THEN pair
                 ELSE [from[pair.next] EXCEPT
                          !.value = <<[filter |-> pair.value[1], qos |-> pair.value[2]]>> \o @]
    IN from[3]
SubscribeOf(id, all) ==
    IF all.why # "none" THEN all
    ELSE Reading([kind |-> "SUBSCRIBE", packet_id |-> id, filters |-> all.value], all.next)
DecodeSubscribe(body) ==
    IF Len(body) < 2 THEN Refusal("truncated") ELSE SubscribeOf(Word(body, 1), Filters(body))

(* Packet::decode, the body by its type.                                   *)
DecodeBody(type, flags, body) ==
    CASE type = 1 -> DecodeConnect(body)
      [] type = 2 -> IF Len(body) < 2 THEN Refusal("truncated")
                     ELSE Reading([kind |-> "CONNACK", session_present |-> Bit(body[1], 1),
                                   code |-> body[2]], 3)
      [] type = 3 -> DecodePublish(body, flags)
      [] type \in {4, 9} /\ Len(body) < 2 -> Refusal("truncated")
      [] type = 4 -> Reading([kind |-> "PUBACK", packet_id |-> Word(body, 1)], 3)
      [] type = 8 -> DecodeSubscribe(body)
      [] type = 9 -> Reading([kind |-> "SUBACK", packet_id |-> Word(body, 1),
                              granted |-> SubSeq(body, 3, Len(body))], 3)
      [] type = 12 -> Reading([kind |-> "PINGREQ"], 1)
      [] type = 13 -> Reading([kind |-> "PINGRESP"], 1)
      [] type = 14 -> Reading([kind |-> "DISCONNECT"], 1)
      [] OTHER -> Refusal("unsupported type")

(* Reader::varint from at: a value, "more", or "malformed".                *)
ReadVarint(buf, at) ==
    LET ends == {i \in at..(at + 3) : i <= Len(buf) /\ buf[i] < 128}
        last == Min(ends)
    IN IF ends # {}
       THEN Reading(MapThenSumSet(LAMBDA i : (buf[i] % 128) * 128 ^ (i - at), at..last), last + 1)
       ELSE Refusal(IF Len(buf) < at + 3 THEN "more" ELSE "malformed")

(* Packet::decode: next is where the packet after it starts.               *)
EndingAt(total, read) == IF read.why = "none" THEN [read EXCEPT !.next = total + 1] ELSE read
Framed(buf, remaining) ==
    LET total == remaining.next - 1 + remaining.value IN
    IF remaining.why # "none" THEN remaining
    ELSE IF Len(buf) < total THEN Refusal("more")
    ELSE EndingAt(total, DecodeBody(buf[1] \div 16, buf[1] % 16, SubSeq(buf, remaining.next, total)))
Decode(buf) == IF buf = <<>> THEN Refusal("more") ELSE Framed(buf, ReadVarint(buf, 2))

(* Packet::decode_from_device.                                             *)
ServerKinds == {"CONNACK", "SUBACK", "PINGRESP"}
FromDevice(read) ==
    IF read.why = "none" /\ read.value.kind \in ServerKinds
    THEN Refusal("unsupported type") ELSE read
DecodeFromDevice(buf) == FromDevice(Decode(buf))
=============================================================================
