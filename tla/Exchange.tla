------------------------------- MODULE Exchange -------------------------------
(***************************************************************************)
(* One request at a time from the HTTP API or the broker to the device and *)
(* back: what each entrance checks (src/src/control.rs,                    *)
(* src/src/homeassistant/command.rs), the session's handling of it         *)
(* (handle_control, transmit and prepare of src/src/server/session.rs),    *)
(* the frames of V7, and the session's view of the device's settings and   *)
(* fields.  Session models how requests and reads overlap; this module     *)
(* what they say.                                                          *)
(*                                                                         *)
(* The device is external: a register stores what it is written, within    *)
(* the limit of its power, and a frame may be damaged on its way.          *)
(***************************************************************************)
EXTENDS V7

CONSTANTS
    Requests,      \* what callers ask: [via, asked]
    Held,          \* the device's holding registers, and what each first holds
    Texts,         \* the datalogger's own fields, and the text each first has
    DamagedAt,     \* the octets of a frame that may be damaged
    MaxRequests,   \* bound: requests
    MaxReports,    \* bound: reports the device makes of itself
    MaxDamage      \* bound: frames damaged

(* A request of each kind, as the two entrances take it: a register and a  *)
(* value of 16 bits, a text of octets, at least one field to read.         *)
Askable(asked) ==
    \/ asked.kind = "set" /\ asked.register \in Register /\ asked.value \in Register
    \/ asked.kind = "read" /\ asked.register \in Register
    \/ asked.kind = "read-config" /\ asked.registers \in Seq(Register) /\ asked.registers # <<>>
    \/ asked.kind = "write-config" /\ asked.register \in Register /\ asked.text \in Seq(Octet)
    \/ asked.kind = "accessories" /\ asked.text \in Seq(Octet)
    \/ asked.kind = "meter" /\ asked.watts \in Int /\ asked.valid \in BOOLEAN
    \/ asked.kind = "pair-lora"

(* The most output power a device allows that holds this.                  *)
PowerLimit(held) == IF held[PowerPlus] = 1 THEN 1000 ELSE 800

ASSUME ExchangeAssumption ==
    /\ DeviceId \in Seq(33..126) /\ Len(DeviceId) \in 1..DeviceIdLen
    /\ SnapshotStartOffset \in BodyOffset..583
    /\ \A request \in Requests : Askable(request.asked)
    /\ DamagedAt \subseteq Nat \ {0}
    /\ DOMAIN Held \subseteq Register /\ {DefaultOutputPower, PowerPlus} \subseteq DOMAIN Held
    /\ Held \in [DOMAIN Held -> Register] /\ Held[DefaultOutputPower] <= PowerLimit(Held)
    /\ DOMAIN Texts \subseteq Register /\ IsFiniteSet(DOMAIN Texts)
    /\ Texts \in [DOMAIN Texts -> Seq(Octet)]
    /\ \A r \in DOMAIN Texts : Len(Texts[r]) \in Register

VARIABLES
    up,        \* whether the device's session is alive
    settings,  \* Session.settings: the settings learned
    identity,  \* Session.identity: the fields learned
    command,   \* the command on its way or being answered; None
    toRead,    \* the registers to read back
    answer,    \* how the last request was answered: an HTTP status, or 0 while it is not
    wire,      \* the frame under way: to whom, its octets, whether damaged
    holding,   \* the device's holding registers
    fields,    \* the datalogger's own fields
    said,      \* history: the text the device last reported of each field
    counts     \* requests, reports and damaged frames so far

sessionVars == <<up, settings, identity, command, toRead, answer>>
vars == <<sessionVars, wire, holding, fields, said, counts>>

Idle == [to |-> "nobody"]
Carry(to, octets) == [to |-> to, octets |-> octets, damaged |-> FALSE]
Nothing == [r \in {} |-> 0]

Init ==
    /\ up = TRUE /\ settings = Nothing /\ identity = Nothing
    /\ command = Inexpressible /\ toRead = <<>> /\ answer = 0
    /\ wire = Idle
    /\ holding = Held /\ fields = Texts
    /\ said = Nothing
    /\ counts = [requests |-> 0, reports |-> 0, damaged |-> 0]

-----------------------------------------------------------------------------
(* What an entrance lets through.                                          *)

(* Api::write takes any register by its number, and any value;             *)
(* Api::write_config no action and nothing that retargets the device;      *)
(* Change::one what the setting accepts; both a reading of 32 bits.  A set *)
(* of fields to read is refused where it goes past the last, a single one  *)
(* is not.                                                                 *)
Admits(request) ==
    LET asked == request.asked IN
    CASE asked.kind = "set" ->
             request.via = "http" \/ MayHold(asked.register, asked.value)
      [] asked.kind = "write-config" ->
             /\ request.via = "http"
             /\ asked.register \in WritableConfig \ (Retargets \cup Actions)
      [] asked.kind = "read-config" ->
             Len(asked.registers) > 1 =>
                 \A i \in DOMAIN asked.registers : asked.registers[i] <= ConfigRegisterLast
      [] asked.kind = "meter" -> asked.watts \in -2147483647..2147483647
      [] OTHER -> TRUE

(* An Apply has something to read back; the rest is only sent.             *)
Applies(asked) == asked.kind \in {"set", "read"}

-----------------------------------------------------------------------------
(* The entrance refuses.                                                   *)
Refuse(request) ==
    /\ up /\ wire = Idle /\ toRead = <<>>
    /\ counts.requests < MaxRequests
    /\ ~Admits(request)
    /\ answer' = 400
    /\ counts' = [counts EXCEPT !.requests = @ + 1]
    /\ UNCHANGED <<up, settings, identity, command, toRead, wire, holding, fields, said>>

(* handle_control, of what can be said: it goes out, and what it may have  *)
(* changed is read back next.                                              *)
Carries(request) ==
    LET asked == Translate(request.asked) IN
    /\ up /\ wire = Idle /\ toRead = <<>>
    /\ counts.requests < MaxRequests
    /\ Admits(request) /\ Expressible(asked)
    /\ command' = asked
    /\ toRead' = IF request.asked.kind = "read"
                 THEN << <<request.asked.register, None>> >>
                 ELSE RegistersToVerify(asked)
    /\ answer' = IF Applies(request.asked) THEN 0 ELSE 200
    /\ wire' = Carry("device", ToWire(ToFrame(asked)))
    /\ counts' = [counts EXCEPT !.requests = @ + 1]
    /\ UNCHANGED <<up, settings, identity, holding, fields, said>>

(* handle_control, of what cannot: the refusal ends the session.  A Send   *)
(* is answered before that, an Apply is not.                               *)
Fails(request) ==
    /\ up /\ wire = Idle /\ toRead = <<>>
    /\ counts.requests < MaxRequests
    /\ Admits(request) /\ ~Expressible(Translate(request.asked))
    /\ up' = FALSE
    /\ answer' = IF Applies(request.asked) THEN 503 ELSE 400
    /\ counts' = [counts EXCEPT !.requests = @ + 1]
    /\ UNCHANGED <<settings, identity, command, toRead, wire, holding, fields, said>>

(* The device connects again; what the session had learned is gone.        *)
Reconnect ==
    /\ ~up
    /\ up' = TRUE
    /\ settings' = Nothing /\ identity' = Nothing /\ said' = Nothing
    /\ UNCHANGED <<command, toRead, answer, wire, holding, fields, counts>>

(* Session.awaiting: the read at the head is on its way.                   *)
Waiting == toRead # <<>> /\ command = ReadSingle(Head(toRead)[1])

(* start_next_read and send_pending_read.                                  *)
ReadBack ==
    /\ up /\ wire = Idle /\ toRead # <<>> /\ ~Waiting
    /\ command' = ReadSingle(Head(toRead)[1])
    /\ wire' = Carry("device", ToWire(ToFrame(ReadSingle(Head(toRead)[1]))))
    /\ UNCHANGED <<up, settings, identity, toRead, answer, holding, fields, said, counts>>

-----------------------------------------------------------------------------
(* The device                                                              *)

(* What it holds after a write of registers: its output power within its   *)
(* limit.                                                                  *)
Stores(written) ==
    LET stored == [r \in DOMAIN holding |->
                      IF r \in DOMAIN written THEN written[r] ELSE holding[r]]
    IN  [stored EXCEPT ![DefaultOutputPower] = IF @ > PowerLimit(stored) THEN PowerLimit(stored) ELSE @]

(* What it holds after a frame.                                            *)
Effect(plain) ==
    LET at(offset) == ReadWord(Body(plain), offset)
    IN  CASE MessageType(plain) = WriteSingleRegister -> Stores([r \in {at(0)} |-> at(2)])
          [] MessageType(plain) = WriteRegisterRange ->
                 Stores([r \in at(0)..at(2) |-> at(4 + 2 * (r - at(0)))])
          [] OTHER -> holding

(* The fields after it: a config write sets a field the datalogger has.    *)
Assigned(plain) ==
    IF MessageType(plain) # ConfigWrite THEN fields
    ELSE LET entry == Head(ConfigEntries(Body(plain))) IN
         [r \in DOMAIN fields |-> IF r = entry.register THEN entry.value ELSE fields[r]]

(* Entries of the datalogger's: an answer to a read, or a report of what   *)
(* it reports unasked.  A field it does not have is empty.                 *)
TextOf(register) == IF register \in DOMAIN fields THEN fields[register] ELSE <<>>
Entry(register) == Word(register) \o Word(Len(TextOf(register))) \o TextOf(register)
Entries(registers) ==
    Word(Len(registers)) \o <<0>> \o FlattenSeq([i \in DOMAIN registers |-> Entry(registers[i])])

(* What is longer than its header could say is not sent.                   *)
Sayable(plain) == Len(plain) - HeaderLen + CrcLen <= 65535

(* What it may answer: a single write under either code, a read of fields  *)
(* with all of them or the first, a config write with nothing.             *)
Answers(plain) ==
    LET body == Body(plain)
        at(offset) == ReadWord(body, offset)
        single == Word(at(0)) \o <<0>> \o Word(at(2))
        wanted == [i \in 1..at(0) |-> at(2 * i)]
        value == IF at(0) \in DOMAIN holding THEN holding[at(0)] ELSE 0
        answers ==
            CASE MessageType(plain) = WriteSingleRegister ->
                   {Frame(WriteSingleRegister, single), Frame(ReadSingleRegister, single)}
              [] MessageType(plain) = WriteRegisterRange ->
                   {Frame(WriteRegisterRange, Word(at(0)) \o Word(at(2)) \o <<0>>)}
              [] MessageType(plain) = ReadSingleRegister ->
                   {Frame(ReadSingleRegister, Word(at(0)) \o Word(at(0)) \o Word(value))}
              [] MessageType(plain) = ConfigRead ->
                   {Frame(ConfigRead, Entries(wanted)), Frame(ConfigRead, Entries(<<Head(wanted)>>))}
              [] OTHER -> {}
    IN  {reply \in answers : Sayable(reply)}

(* The texts a frame of the device's carries.                              *)
Saying(registers) ==
    [r \in DOMAIN said \cup Range(registers) |->
        IF r \in Range(registers) THEN TextOf(r) ELSE said[r]]

Replies(plain) ==
    /\ holding' = Effect(plain) /\ fields' = Assigned(plain)
    /\ \/ Answers(plain) = {} /\ wire' = Idle /\ UNCHANGED said
       \/ \E reply \in Answers(plain) :
            /\ wire' = Carry("server", ToWire(reply))
            /\ said' = IF MessageType(reply) = ConfigRead
                       THEN Saying([i \in 1..ReadWord(Body(reply), 0) |->
                                       ReadWord(Body(plain), 2 * i)])
                       ELSE said

(* It takes a frame; one it cannot read it drops.                          *)
DeviceTakes ==
    /\ wire.to = "device"
    /\ LET plain == Parse(wire.octets) IN
       IF plain = NotAFrame THEN wire' = Idle /\ UNCHANGED <<holding, fields, said>>
       ELSE Replies(plain)
    /\ UNCHANGED <<sessionVars, counts>>

(* It reports its fields, its settings or its readings, unasked.           *)
(* A snapshot declares a register more than it carries.                    *)
SnapshotOf(first, last) ==
    [i \in 1..(SnapshotStartOffset - BodyOffset) |-> 0] \o Word(first) \o Word(last)
        \o Words([i \in 1..(last - first) |->
               IF first + i - 1 \in DOMAIN holding THEN holding[first + i - 1] ELSE 0])

Volunteered == SetToSeq(DOMAIN fields \cap ConfigReported)

Reports ==
    /\ up /\ wire = Idle
    /\ counts.reports < MaxReports
    /\ counts' = [counts EXCEPT !.reports = @ + 1]
    /\ \/ /\ Sayable(Frame(IdentityReport, Entries(Volunteered)))
          /\ wire' = Carry("server", ToWire(Frame(IdentityReport, Entries(Volunteered))))
          /\ said' = Saying(Volunteered)
       \/ /\ wire' = Carry("server", ToWire(Frame(SettingsSnapshot, SnapshotOf(320, 327))))
          /\ UNCHANGED said
       \/ /\ wire' = Carry("server", ToWire(Frame(BufferedTelemetry, [i \in 1..60 |-> 0])))
          /\ UNCHANGED said
    /\ UNCHANGED <<sessionVars, holding, fields>>

-----------------------------------------------------------------------------
(* A frame is damaged on its way: one of its octets changes.               *)
Damage(i) ==
    /\ wire # Idle /\ ~wire.damaged /\ i <= Len(wire.octets)
    /\ counts.damaged < MaxDamage
    /\ wire' = [wire EXCEPT !.octets[i] = (@ + 1) % 256, !.damaged = TRUE]
    /\ counts' = [counts EXCEPT !.damaged = @ + 1]
    /\ UNCHANGED <<sessionVars, holding, fields, said>>

(* The session takes a frame: Session::handle_publish as far as            *)
(* accept_read, accept_snapshot, accept_identity.  A frame that cannot be  *)
(* read is passed over, and what it would have answered times out.         *)
Hears(report) ==
    LET answered == report.kind = "read-answer" /\ Waiting /\ report.register = Head(toRead)[1] IN
    /\ settings' = CASE report.kind = "read-answer" ->
                            [r \in DOMAIN settings \cup {report.register} |->
                                IF r = report.register THEN report.value ELSE settings[r]]
                     [] report.kind = "snapshot" ->
                            [r \in DOMAIN settings \cup DOMAIN report.values |->
                                IF r \in DOMAIN report.values THEN report.values[r] ELSE settings[r]]
                     [] OTHER -> settings
    /\ identity' = IF report.kind = "identity" THEN Apply(identity, report.fields) ELSE identity
    /\ command' = IF answered \/ report.kind \in {"write-ack", "identity"} THEN Inexpressible
                  ELSE command
    /\ toRead' = IF answered THEN Tail(toRead) ELSE toRead
    /\ answer' = IF answered /\ answer = 0
                 THEN IF Head(toRead)[2] \in {None, report.value} THEN 200 ELSE 409
                 ELSE answer

ServerTakes ==
    /\ wire.to = "server"
    /\ wire' = Idle
    /\ LET plain == Parse(wire.octets) IN
       IF plain = NotAFrame THEN UNCHANGED <<settings, identity, command, toRead, answer>>
       ELSE Hears(Report(plain))
    /\ UNCHANGED <<up, holding, fields, said, counts>>

(* Nothing comes: the read is given up, its caller told.                   *)
GiveUp ==
    /\ up /\ wire = Idle /\ Waiting
    /\ toRead' = Tail(toRead)
    /\ answer' = IF answer = 0 THEN 504 ELSE answer
    /\ command' = Inexpressible
    /\ UNCHANGED <<up, settings, identity, wire, holding, fields, said, counts>>

Next ==
    \/ \E request \in Requests : Refuse(request) \/ Carries(request) \/ Fails(request)
    \/ Reconnect
    \/ ReadBack
    \/ DeviceTakes
    \/ Reports
    \/ \E i \in DamagedAt : Damage(i)
    \/ ServerTakes
    \/ GiveUp

Spec == Init /\ [][Next]_vars

-----------------------------------------------------------------------------
(* Types                                                                   *)

TypeOK ==
    /\ up \in BOOLEAN
    /\ DOMAIN settings \subseteq Register
    /\ \A r \in DOMAIN settings : settings[r] \in Register
    /\ DOMAIN identity \subseteq Register /\ DOMAIN fields = DOMAIN Texts
    /\ \A i \in DOMAIN toRead : toRead[i] \in Register \X (Register \cup {None})
    /\ answer \in {0, 200, 400, 409, 503, 504}
    /\ wire.to \in {"nobody", "device", "server"}
    /\ wire # Idle => wire.octets \in Seq(Octet) /\ wire.damaged \in BOOLEAN
    /\ DOMAIN holding = DOMAIN Held
    /\ \A r \in DOMAIN holding : holding[r] \in Register

-----------------------------------------------------------------------------
(* Properties                                                              *)

(* Once a request and the reads after it are done and no frame was lost,   *)
(* every setting of the map the session has learned is what the device     *)
(* holds, also the one a write changed without naming it                   *)
(* (registers_to_verify); and the fields it holds are the ones the device  *)
(* last reported, each with its newest text, whole reports and answers     *)
(* mixed (Identity::apply).  A register outside the map, read by its       *)
(* number, is kept as it was read.                                         *)
ViewIsTrue ==
    up /\ wire = Idle /\ counts.damaged = 0 =>
        /\ toRead = <<>> =>
             \A r \in DOMAIN settings \cap DOMAIN holding :
                 IsSetting(r) => settings[r] = holding[r]
        /\ identity = said

(* No frame with a damaged octet is taken for a frame, whichever octet it  *)
(* is (Frame::parse).                                                      *)
DamageIsNoticed ==
    wire # Idle /\ wire.damaged => Parse(wire.octets) = NotAFrame

(* Whatever a caller asks, the device's settings stay within what their    *)
(* map accepts, and no register outside the map is written but the         *)
(* companion of the output power, with zero, the supplied meter's four     *)
(* and the pairing trigger (WritableRegister, Command).                    *)
OnlyAllowedWrites ==
    \A r \in DOMAIN holding :
        holding[r] # Held[r] =>
            IF IsSetting(r) THEN MayHold(r, holding[r])
            ELSE \/ r \in MeterRegister..(MeterRegister + 3) \cup {PairRegister}
                 \/ r = CompanionOfDefaultOutputPower /\ holding[r] = 0

(* The registers a command covers.                                         *)
Covers(asked) ==
    CASE asked.kind \in {"write-single", "trigger", "read-single"} -> <<asked.register, asked.register>>
      [] asked.kind = "write-range" -> <<asked.start, asked.start + Len(asked.values) - 1>>
      [] asked.kind = "read-config" -> <<asked.registers[1], asked.registers[1]>>
      [] asked.kind = "write-config" -> <<asked.register, asked.register>>

(* A config write carries the one entry asked for (ConfigWrite::from_frame), *)
(* and what the relay's policy makes of a frame is the registers the       *)
(* command covers, on the way down, and the same registers in the answer, so that  *)
(* an answer can be attributed to its command (Frame::intent, against      *)
(* Command::body and the layouts of the answers).                          *)
IntentFitsCommand ==
    command # Inexpressible /\ wire # Idle /\ counts.damaged = 0 =>
        LET intent == FrameIntent(Parse(wire.octets), wire.to = "device") IN
        /\ intent.first # -1 => <<intent.first, intent.last>> = Covers(command)
        /\ wire.to = "device" /\ command.kind = "write-config" =>
             ConfigEntries(Body(Parse(wire.octets)))
                 = << [register |-> command.register, value |-> command.value] >>

(* An acknowledged write is answered by something read as an               *)
(* acknowledgement of its registers, under whichever code the device       *)
(* answers, and a read by the value of its register (report::report).      *)
AnswersAreUnderstood ==
    wire.to = "server" /\ command # Inexpressible /\ counts.damaged = 0 =>
        LET report == Report(Parse(wire.octets)) IN
        /\ IsAcknowledged(command) =>
             /\ report.kind = "write-ack"
             /\ <<report.first, report.last>> = Covers(command) /\ report.accepted
        /\ command.kind = "read-single" =>
             report.kind = "read-answer" /\ report.register = command.register

(* Damaged or not, a frame is taken for what it says and nothing else.     *)
FramesAreUnderstood == DamageIsNoticed /\ IntentFitsCommand /\ AnswersAreUnderstood
=============================================================================
