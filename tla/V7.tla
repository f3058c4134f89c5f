---------------------------------- MODULE V7 ----------------------------------
(***************************************************************************)
(* What the program can ask of a device of the seventh generation, how     *)
(* each is put into a frame and what must be read back afterwards          *)
(* (src/src/growatt/commands.rs, src/src/growatt/v7/encode.rs, meter.rs    *)
(* and lora.rs), and what a frame of the device's is read as               *)
(* (src/src/growatt/report.rs, v7/decode.rs, identity.rs).                 *)
(* A text is a sequence of octets.                                         *)
(***************************************************************************)
EXTENDS Registers, Frames

CONSTANT SnapshotStartOffset  \* 583; smaller in an instance, past the start of the body

None == -1

(* EncodeError: nothing comes of the command.                              *)
Inexpressible == [kind |-> "inexpressible"]

-----------------------------------------------------------------------------
(* Command                                                                 *)

CompanionOfDefaultOutputPower == 321
DefaultOutputPower == 322
PowerPlus == 325
PairRegister == 320
MeterRegister == 309

(* WritableConfig: the clock, restart, factory reset, accessories, routed  *)
(* Modbus, and the three that move the device to another server.           *)
WritableConfig == {31, 32, 35, 122, 143, 19, 18, 17}
Retargets == {19, 18, 17}
Actions == {32, 35}

WriteSingle(register, value) ==
    [kind |-> "write-single", register |-> register, value |-> value]
WriteRange(start, values) == [kind |-> "write-range", start |-> start, values |-> values]
ReadSingle(register) == [kind |-> "read-single", register |-> register]
Trigger(register, value) == [kind |-> "trigger", register |-> register, value |-> value]
WriteConfig(register, value) ==
    [kind |-> "write-config", register |-> register, value |-> value]
ReadConfig(registers) == [kind |-> "read-config", registers |-> registers]

(* WritableRegister::lookup and validate.                                  *)
MayHold(register, value) ==
    IsSetting(register) /\ Accepts(LookupSetting(register).domain, value)

Write(register, value) ==
    IF MayHold(register, value) THEN WriteSingle(register, value) ELSE Inexpressible

SetDefaultOutputPower(watts) ==
    IF MayHold(DefaultOutputPower, watts)
    THEN WriteRange(CompanionOfDefaultOutputPower, <<0, watts>>) ELSE Inexpressible

(* Command::set.                                                           *)
SetUnvalidated(register, value) == WriteSingle(register, value)  \* mutant
Set(register, value) ==
    IF register = DefaultOutputPower THEN SetDefaultOutputPower(value) ELSE Write(register, value)

(* meter::command: the magnitude goes up or down, and a figure beyond a    *)
(* register cannot be said.                                                *)
MeterReading(watts, valid) ==
    LET magnitude == IF watts < 0 THEN -watts ELSE watts IN
    IF magnitude > 65535 THEN Inexpressible
    ELSE WriteRange(MeterRegister,
             IF ~valid THEN <<0, 0, 0, 0>>
             ELSE IF watts < 0 THEN <<0, magnitude, 0, 1>> ELSE <<0, 0, magnitude, 1>>)

PairLora == Trigger(PairRegister, 1)

WriteConfigField(register, value) ==
    IF register \in WritableConfig /\ value # <<>> THEN WriteConfig(register, value)
    ELSE Inexpressible

(* commands::translate: the driver's command for what is asked.            *)
Translate(asked) ==
    CASE asked.kind = "set" -> Set(asked.register, asked.value)
      [] asked.kind = "read" -> ReadSingle(asked.register)
      [] asked.kind = "read-config" -> ReadConfig(asked.registers)
      [] asked.kind = "write-config" -> WriteConfigField(asked.register, asked.text)
      [] asked.kind = "meter" -> MeterReading(asked.watts, asked.valid)
      [] asked.kind = "pair-lora" -> PairLora
      [] asked.kind = "accessories" -> WriteConfig(AccessoryList, asked.text)

CommandType(command) ==
    CASE command.kind \in {"write-single", "trigger"} -> WriteSingleRegister
      [] command.kind = "write-range" -> WriteRegisterRange
      [] command.kind = "read-single" -> ReadSingleRegister
      [] command.kind = "write-config" -> ConfigWrite
      [] command.kind = "read-config" -> ConfigRead

IsAcknowledged(command) == command.kind \in {"write-range", "write-single", "trigger"}

(* Command::registers_to_verify: <<register, value or None>>.              *)
OfSettings(command) ==
    LET among[i \in 0..Len(command.values)] ==
            IF i = 0 THEN <<>>
            ELSE among[i - 1] \o IF IsSetting(command.start + i - 1)
                                 THEN << <<command.start + i - 1, command.values[i]>> >> ELSE <<>>
    IN  among
VerifyWritten(command) ==  \* as the mutant has it: only what was written
    CASE command.kind = "write-single" -> << <<command.register, command.value>> >>
      [] command.kind = "write-range" -> OfSettings(command)[Len(command.values)]
      [] OTHER -> <<>>
RegistersToVerify(command) ==
    LET written == VerifyWritten(command)
        touches(register) == \E i \in DOMAIN written : written[i][1] = register
    IN  IF touches(PowerPlus) /\ ~touches(DefaultOutputPower)
        THEN Append(written, <<DefaultOutputPower, None>>) ELSE written

Words(values) == [i \in 1..2 * Len(values) |-> Word(values[(i + 1) \div 2])[2 - (i % 2)]]

(* Command::body.  A range names its last register; a config write is one  *)
(* entry, whose length counts the register, the value's length, the value. *)
CommandBody(command) ==
    CASE command.kind \in {"write-single", "trigger"} ->
             Word(command.register) \o Word(command.value)
      [] command.kind = "write-range" ->
             Word(command.start) \o Word(command.start + Len(command.values) - 1)
                 \o Words(command.values)
      [] command.kind = "read-single" -> Word(command.register) \o Word(command.register)
      [] command.kind = "read-config" ->
             Word(Len(command.registers)) \o Words(command.registers)
      [] command.kind = "write-config" ->
             Word(1) \o Word(Len(command.value) + 4) \o Word(command.register)
                 \o Word(Len(command.value)) \o command.value

ToFrame(command) == Frame(CommandType(command), CommandBody(command))

(* Command::to_frame: what a frame's length cannot say is refused.         *)
Expressible(command) ==
    command # Inexpressible /\ DeviceIdLen + Len(CommandBody(command)) + CrcLen <= 65535

-----------------------------------------------------------------------------
(* Answers                                                                 *)

(* ReadResponse: the register twice, then its value.                       *)
ReadAnswer(body) ==
    IF ReadWord(body, 4) # -1 /\ ReadWord(body, 0) = ReadWord(body, 2)
    THEN [kind |-> "read-answer", register |-> ReadWord(body, 0), value |-> ReadWord(body, 4)]
    ELSE Inexpressible

(* WriteAck: a single write's body says its status and the value held, a   *)
(* range's the status alone.  A single write may be answered under the     *)
(* read code, and is told from a read by being five octets long.           *)
SingleAck(body) ==
    [kind |-> "write-ack", first |-> ReadWord(body, 0), last |-> ReadWord(body, 0),
     accepted |-> OctetAt(body, 2) = 0]
RangeAck(body) ==
    [kind |-> "write-ack", first |-> ReadWord(body, 0), last |-> ReadWord(body, 2),
     accepted |-> OctetAt(body, 4) = 0]
SingleAckLen == 5

(* ConfigWrite: the entries, at as many octets as each says it takes.      *)
ConfigEntries(body) ==
    LET entry[place \in (1..ReadWord(body, 0)) \X (2..Len(body))] ==
            LET i == place[1]
                at == place[2]
                valueLen == ReadWord(body, at + 4)
                entryLen == ReadWord(body, at)
            IN  IF valueLen = -1 \/ ~Present(body, at + 6, valueLen) THEN <<Inexpressible>>
                ELSE <<[register |-> ReadWord(body, at + 2), value |-> Slice(body, at + 6, valueLen)]>>
                     \o IF i = ReadWord(body, 0) THEN <<>>
                        ELSE entry[<<i + 1, at + 2 + (IF entryLen > valueLen + 4 THEN entryLen
                                                      ELSE valueLen + 4)>>]
    IN  IF ReadWord(body, 0) <= 0 THEN <<>> ELSE entry[<<1, 2>>]

(* Identity: entry after entry, each where the one before it ends, as many *)
(* as are declared and present.                                            *)
Preamble == 3
IdentityFields(body) ==
    LET after[i \in 0..ReadWord(body, 0)] ==
            IF i = 0 THEN [at |-> Preamble, entries |-> <<>>]
            ELSE LET at == after[i - 1].at
                     valueLen == ReadWord(body, at + 2)
                 IN  IF valueLen = -1 \/ ~Present(body, at + 4, valueLen) THEN after[i - 1]
                     ELSE [at |-> at + 4 + valueLen,
                           entries |-> Append(after[i - 1].entries,
                                              [register |-> ReadWord(body, at),
                                               value |-> Slice(body, at + 4, valueLen)])]
    IN  IF Len(body) < Preamble THEN <<>> ELSE after[ReadWord(body, 0)].entries

(* Identity::apply: fields newly said replace or join those held.          *)
Apply(held, fields) ==
    LET said(r) == {i \in DOMAIN fields : fields[i].register = r}
        last(r) == CHOOSE i \in said(r) : \A j \in said(r) : j <= i
    IN  [r \in DOMAIN held \cup {fields[i].register : i \in DOMAIN fields} |->
            IF said(r) = {} THEN held[r] ELSE fields[last(r)].value]

(* SettingsSnapshot: offsets from the start of the frame.  Registers of    *)
(* the map that the frame carries.                                         *)
SnapshotEndOffset == SnapshotStartOffset + 2
SnapshotBlockOffset == SnapshotStartOffset + 4
SnapshotWhole(plain) ==  \* mutant: the range declared is taken for the range carried
    LET first == ReadWord(plain, SnapshotStartOffset)
        last == ReadWord(plain, SnapshotEndOffset)
        at(r) == ReadWord(plain, SnapshotBlockOffset + 2 * (r - first))
    IN  [kind |-> "snapshot", values |-> [r \in {s \in first..last : IsSetting(s)} |-> at(r)]]
Snapshot(plain) ==
    LET first == ReadWord(plain, SnapshotStartOffset)
        last == ReadWord(plain, SnapshotEndOffset)
        at(r) == ReadWord(plain, SnapshotBlockOffset + 2 * (r - first))
    IN  IF last = -1 \/ first > last THEN Inexpressible
        ELSE [kind |-> "snapshot",
              values |-> [r \in {s \in first..last : IsSetting(s) /\ at(s) # -1} |-> at(r)]]

(* Telemetry: what InputBlock reads; a text is up to its first zero.       *)
RecordMarkerOffset == 74
UpToZero(octets) ==
    SubSeq(octets, 1, Cardinality({i \in DOMAIN octets : \A j \in 1..i : octets[j] # 0}))
ReadInput(plain, input) ==
    LET at == InputOffset(input.register) IN
    CASE input.kind = "text" ->
             IF ~Present(plain, at, 4) THEN <<>>
             ELSE UpToZero(Slice(plain, at, 4))
      [] input.kind = "float32" ->
             IF ReadWord(plain, at + 2) = -1 THEN None
             ELSE ReadWord(plain, at) * 65536 + ReadWord(plain, at + 2)
      [] OTHER -> ReadWord(plain, at)

(* Telemetry::from_frame: a text that is not ASCII refuses the frame.      *)
TelemetryReport(plain) ==
    IF /\ Len(plain) > RecordMarkerOffset
       /\ \A input \in InputRegisters :
            input.kind = "text" => \A i \in DOMAIN ReadInput(plain, input) :
                                       ReadInput(plain, input)[i] \in 33..126
    THEN [kind |-> "telemetry",
          readings |-> [input \in {i \in InputRegisters :
                                     Present(plain, InputOffset(i.register), 2 * i.registers)}
                        |-> ReadInput(plain, input)]]
    ELSE Inexpressible

(* report::report: what the session is told of a frame.                    *)
ReportedRead(body) ==
    IF ReadAnswer(body) # Inexpressible THEN ReadAnswer(body)
    ELSE IF Len(body) = SingleAckLen THEN SingleAck(body) ELSE Inexpressible
ReportedReadOnly(body) == ReadAnswer(body)  \* for a mutant
ReportStrict(plain) ==  \* mutant: a write answered under the read code is not understood
    LET type == MessageType(plain) IN
    IF type = ReadSingleRegister THEN ReportedReadOnly(Body(plain))
    ELSE IF type = WriteRegisterRange THEN RangeAck(Body(plain)) ELSE Inexpressible
Report(plain) ==
    LET type == MessageType(plain)
        body == Body(plain)
    IN  CASE type = ReadSingleRegister -> ReportedRead(body)
          [] type = WriteSingleRegister /\ Len(body) >= 5 -> SingleAck(body)
          [] type = WriteRegisterRange /\ Len(body) >= 5 -> RangeAck(body)
          [] type \in {IdentityReport, ConfigRead} ->
                 [kind |-> "identity", fields |-> IdentityFields(body)]
          [] type = SettingsSnapshot -> Snapshot(plain)
          [] type \in {Telemetry, BufferedTelemetry} -> TelemetryReport(plain)
          [] type = AccessoryTelemetry -> [kind |-> "accessory"]
          [] OTHER -> Inexpressible
=============================================================================
