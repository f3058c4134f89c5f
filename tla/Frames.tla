-------------------------------- MODULE Frames --------------------------------
(***************************************************************************)
(* The frames of the seventh protocol generation, octet by octet           *)
(* (src/src/growatt/header.rs, src/src/growatt/v7/frame.rs and             *)
(* classify.rs): header, device id, body, the obfuscation and the CRC, and *)
(* what a frame is trying to do.                                           *)
(***************************************************************************)
EXTENDS Integers, Sequences, SequencesExt

CONSTANT DeviceId  \* the device's identifier: printable ASCII, at most DeviceIdLen octets

Octet == 0..255
Word(n) == <<n \div 256, n % 256>>

HeaderLen == 8
DeviceIdLen == 30
BodyOffset == HeaderLen + DeviceIdLen
CrcLen == 2
MinFrameLen == BodyOffset + CrcLen
Version == 7
DefaultTransactionId == 1

(* read_u16: -1 is None.  Offsets count from zero.                         *)
ReadWord(octets, offset) ==
    IF offset + 2 <= Len(octets) THEN octets[offset + 1] * 256 + octets[offset + 2] ELSE -1

OctetAt(octets, offset) == IF offset < Len(octets) THEN octets[offset + 1] ELSE -1

(* slice::get of len octets at offset: a range past the end is None.       *)
Present(octets, offset, len) == offset + len <= Len(octets)
Slice(octets, offset, len) == SubSeq(octets, offset + 1, offset + len)

-----------------------------------------------------------------------------
(* Header                                                                  *)

HeaderOctets(type, length) ==
    Word(DefaultTransactionId) \o Word(Version) \o Word(length) \o <<type[1], type[2]>>

PeekVersion(wire) == ReadWord(wire, 2)
PeekLength(wire) == ReadWord(wire, 4)
LengthMatches(wire) == PeekLength(wire) + HeaderLen = Len(wire)

-----------------------------------------------------------------------------
(* MessageType: the address and the function of a frame.                   *)

Telemetry == <<1, 4>>
SettingsSnapshot == <<1, 3>>
ReadSingleRegister == <<1, 5>>
WriteSingleRegister == <<1, 6>>
WriteRegisterRange == <<1, 16>>
BufferedTelemetry == <<1, 80>>
ConfigWrite == <<254, 24>>
ConfigRead == <<1, 25>>
IdentityReport == <<254, 25>>
AccessoryTelemetry == <<111, 100>>

Recognised ==
    {Telemetry, SettingsSnapshot, ReadSingleRegister, WriteSingleRegister, WriteRegisterRange,
     BufferedTelemetry, ConfigWrite, ConfigRead, IdentityReport, AccessoryTelemetry}

(* MessageType::from_parts: a config write has any address.                *)
MessageType(plain) ==
    LET parts == <<plain[7], plain[8]>> IN
    IF parts[2] = 24 THEN ConfigWrite
    ELSE IF parts \in Recognised THEN parts ELSE <<"unrecognised">>

-----------------------------------------------------------------------------
(* Obfuscation and integrity                                               *)

ObfuscationKey == <<71, 114, 111, 119, 97, 116, 116>>

(* Exclusive or: of the two bits of each weight, one is set.               *)
OneOf(a, b, weight) == ((a \div weight) + (b \div weight)) % 2
XorTable ==
    [a \in Octet |-> [b \in Octet |->
        128 * OneOf(a, b, 128) + 64 * OneOf(a, b, 64) + 32 * OneOf(a, b, 32)
            + 16 * OneOf(a, b, 16) + 8 * OneOf(a, b, 8) + 4 * OneOf(a, b, 4)
            + 2 * OneOf(a, b, 2) + OneOf(a, b, 1)]]
OctetXor(a, b) == XorTable[a][b]

(* transform: its own inverse.  The header is left in clear.               *)
Transform(octets) ==
    [i \in DOMAIN octets |->
        IF i <= HeaderLen THEN octets[i]
        ELSE OctetXor(octets[i], ObfuscationKey[((i - 1 - HeaderLen) % Len(ObfuscationKey)) + 1])]

(* CRC-16/MODBUS, the external crate's: the remainder after each octet, as *)
(* its high and its low octet.  The polynomial's bits are the two of       *)
(* weight 128 and 32 of the high octet, and the last of the low one.       *)
Polynomial == <<160, 1>>
Half(n) == n \div 2
Odd(n) == n % 2
HighOf(crc) == Half(crc[1])
LowOf(crc) == Half(crc[2]) + 128 * Odd(crc[1])
Halved(crc) == <<HighOf(crc), LowOf(crc)>>
Folded(crc) == <<OctetXor(HighOf(crc), Polynomial[1]), OctetXor(LowOf(crc), Polynomial[2])>>
Shifted(crc) == IF Odd(crc[2]) = 1 THEN Folded(crc) ELSE Halved(crc)
Shifted8(crc) == Shifted(Shifted(Shifted(Shifted(Shifted(Shifted(Shifted(Shifted(crc))))))))
CrcTable == [high \in Octet |-> [low \in Octet |-> Shifted8(<<high, low>>)]]
Remainders(octets) ==
    LET after[i \in 0..Len(octets)] ==
            IF i = 0 THEN <<255, 255>>
            ELSE LET crc == after[i - 1] IN CrcTable[crc[1]][OctetXor(crc[2], octets[i])]
    IN  after
Checksum(octets) == Remainders(octets)[Len(octets)]

-----------------------------------------------------------------------------
(* Frame                                                                   *)

(* Frame::new, as far as the last octet before the CRC.                    *)
Frame(type, body) ==
    HeaderOctets(type, DeviceIdLen + Len(body) + CrcLen)
        \o DeviceId \o [i \in 1..(DeviceIdLen - Len(DeviceId)) |-> 0] \o body

ToWire(plain) == LET wire == Transform(plain) IN wire \o Checksum(wire)

Body(plain) == SubSeq(plain, BodyOffset + 1, Len(plain))

(* device_id_from: up to the first zero, at least one octet, all printable. *)
HasDeviceId(plain) ==
    LET field == Slice(plain, HeaderLen, DeviceIdLen)
        printable(octet) == octet \in 33..126
    IN  /\ field[1] # 0
        /\ \A i \in 1..DeviceIdLen :
             (\A j \in 1..i : field[j] # 0) => printable(field[i])

NotAFrame == <<>>

(* Frame::parse.                                                           *)
Parse(wire) ==
    IF \/ Len(wire) < MinFrameLen
       \/ PeekVersion(wire) # Version
       \/ ~LengthMatches(wire)
    THEN NotAFrame
    ELSE LET covered == SubSeq(wire, 1, Len(wire) - CrcLen)
             plain == Transform(covered)
         IN  IF /\ Checksum(covered) = SubSeq(wire, Len(wire) - CrcLen + 1, Len(wire))
                /\ HasDeviceId(plain)
             THEN plain ELSE NotAFrame

-----------------------------------------------------------------------------
(* Frame::intent                                                           *)

Intent(kind, first, last) == [kind |-> kind, first |-> first, last |-> last]
NoIntent == Intent("unrecognised", -1, -1)
Unless(register, intent) == IF register = -1 THEN NoIntent ELSE intent

FrameIntent(plain, toDevice) ==
    LET type == MessageType(plain)
        body == Body(plain)
        at(offset) == ReadWord(body, offset)
        written == IF toDevice THEN "write-settings" ELSE "write-ack"
        read == IF toDevice THEN "read-request" ELSE "read-response"
        configAt == IF toDevice THEN 2 ELSE 3
    IN  CASE type \in {Telemetry, BufferedTelemetry, AccessoryTelemetry} -> Intent("telemetry", -1, -1)
          [] type = SettingsSnapshot -> Intent("snapshot", -1, -1)
          [] type = IdentityReport -> Intent("identity", -1, -1)
          [] type = ConfigRead ->
                 Unless(at(configAt), Intent(read, at(configAt), at(configAt)))
          [] type = ConfigWrite -> Unless(at(4), Intent("write-config", at(4), at(4)))
          [] type = ReadSingleRegister -> Unless(at(0), Intent(read, at(0), at(0)))
          [] type = WriteSingleRegister -> Unless(at(0), Intent(written, at(0), at(0)))
          [] type = WriteRegisterRange ->
                 Unless(at(0), Unless(at(2), Intent(written, at(0), at(2))))
          [] type = <<"unrecognised">> -> NoIntent
=============================================================================
