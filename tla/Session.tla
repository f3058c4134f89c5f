------------------------------ MODULE Session ------------------------------
(***************************************************************************)
(* The register traffic of one device session (src/src/server/session.rs): *)
(* the select loop of Session::run, the single queue of settings reads,    *)
(* the hold a register write puts on reads, the control requests that feed *)
(* both, and the device at the other end of the MQTT stream.               *)
(*                                                                         *)
(* A session without a cloud relay (--cloud-relay is off by default).  The *)
(* registry that replaces sessions is in module Registry.                  *)
(*                                                                         *)
(* Time is counted in ticks.  A timer that is not set is None; a running   *)
(* one holds the ticks left, and 0 means it has expired and waits for the  *)
(* loop.  The loop may be slow: a tick never waits for an expired timer.   *)
(***************************************************************************)
EXTENDS Naturals, Sequences, FiniteSets

CONSTANTS
    Registers,       \* holding registers of the device
    Values,          \* values a register can hold and the encoder accepts
    PowerPlus,       \* the flag register whose write also moves ...
    OutputPower,     \* ... this one (default_output_power)
    ResyncOrder,     \* the registers the startup read-back asks for, in order
    Callers,         \* control API requests: each caller makes at most one
    Requests,        \* what a caller may ask for
    QueueDepth,      \* QUEUE_DEPTH: requests a session will hold
    ReadTimeout,     \* READ_REPLY_TIMEOUT, in ticks
    AckTimeout,      \* ACK_REPLY_TIMEOUT, in ticks
    MaxReports,      \* bound: frames the device volunteers
    None             \* no value, no timer, nobody

(* What a request can ask.  "set" goes through Action::Apply, "refresh" is *)
(* Action::Refresh, and the last two go through Action::Send: "meter" is a *)
(* register write the device acknowledges (a supplied meter reading, the   *)
(* LoRa pairing trigger), "config" is a configuration command it does not. *)
(* The value None stands for one the driver refuses to express.            *)
Request ==
    [op : {"set"}, reg : Registers, val : Values \cup {None}]
        \cup [op : {"refresh"}, reg : Registers]
        \cup [op : {"meter", "config"}, val : {TRUE, None}]

(* A register queued to be read, and why: Session's PendingRead.           *)
PendingRead ==
    [reg : Registers, purpose : {"resync", "verify"},
     requested : Values \cup {None}, reply : Callers \cup {None}]

(* reads, awaiting, pending_read and read_deadline.                        *)
Deadline(limit) == 0..limit \cup {None}
ReadQueue ==
    [reads : Seq(PendingRead), awaiting : PendingRead \cup {None},
     pending : Registers \cup {None}, deadline : Deadline(ReadTimeout)]

ASSUME SessionAssumption ==
    /\ {PowerPlus, OutputPower} \subseteq Registers
    /\ PowerPlus # OutputPower
    /\ None \notin Registers \cup Values \cup Callers \cup Requests \cup Nat \cup PendingRead
    /\ ResyncOrder \in Seq(Registers)
    /\ Requests \subseteq Request
    /\ QueueDepth \in Nat \ {0}
    /\ AckTimeout \in Nat \ {0}
    /\ ReadTimeout \in Nat \ {0}
    /\ MaxReports \in Nat

(* Register reads and acknowledged writes.  The time push and the          *)
(* configuration commands share the stream and draw nothing that touches   *)
(* the register traffic, so they are not put on it here.                   *)
ToDevice ==
    [kind : {"read"}, reg : Registers] \cup [kind : {"write"}, by : Callers]

(* "seen" is history: the writes the device had carried out when it looked *)
(* the value up.  The session never reads it.  "by" in an acknowledgement  *)
(* is history too: the real frame names registers, not requests.           *)
FromDevice ==
    [kind : {"answer"}, reg : Registers, val : Values, seen : SUBSET Callers]
        \cup [kind : {"ack"}, by : Callers]
        \cup [kind : {"snapshot"}, vals : [Registers -> Values]]
        \cup [kind : {"report"}]

VARIABLES
    phase,       \* "accepted", "connected" (CONNECT seen), "subscribed", "ended"
    result,      \* what Session::run returned: None, "ok" or the SessionError
    timePush,    \* time_push_due is set
    q,           \* reads, awaiting, pending_read and read_deadline
    ack,         \* awaiting_ack: ticks before an unacknowledged write is let go
    settings,    \* the settings learned so far
    mailbox,     \* the requests channel
    request,     \* what each caller asked
    outcome,     \* what each caller was told
    toDevice, fromDevice,   \* the two directions of the stream
    device,      \* what the device really holds
    reports,     \* frames the device has volunteered so far
    applied,     \* history: writes the device has carried out
    unacked,     \* history: writes sent, neither acknowledged nor timed out
    stale,       \* history: writes confirmed with a value read before them
    lost         \* history: registers with a read that was never answered in time

sessionVars == <<phase, result, timePush, q, ack, settings>>
callerVars == <<mailbox, request, outcome>>
deviceVars == <<device, reports, applied>>
historyVars == <<unacked, stale, lost>>
vars == <<sessionVars, callerVars, toDevice, fromDevice, deviceVars, historyVars>>

Outcomes ==
    {"idle", "waiting", "confirmed", "conflict", "timedOut", "sent", "notSent",
     "ended", "busy", "gaveUp"}

TypeOK ==
    /\ phase \in {"accepted", "connected", "subscribed", "ended"}
    /\ result \in {None, "ok", "encode", "stream"}
    /\ timePush \in BOOLEAN
    /\ q \in ReadQueue
    /\ ack \in Deadline(AckTimeout)
    /\ settings \in [Registers -> Values \cup {None}]
    /\ mailbox \in Seq(Callers) /\ Len(mailbox) <= QueueDepth
    /\ request \in [Callers -> Requests \cup {None}]
    /\ outcome \in [Callers -> Outcomes]
    /\ toDevice \in Seq(ToDevice)
    /\ fromDevice \in Seq(FromDevice)
    /\ device \in [Registers -> Values]
    /\ reports \in 0..MaxReports
    /\ applied \subseteq Callers
    /\ unacked \subseteq Callers
    /\ stale \subseteq Callers
    /\ lost \subseteq Registers

Init ==
    /\ phase = "accepted"
    /\ result = None
    /\ timePush = FALSE
    /\ q = [reads |-> <<>>, awaiting |-> None, pending |-> None, deadline |-> None]
    /\ ack = None
    /\ settings = [r \in Registers |-> None]
    /\ mailbox = <<>>
    /\ request = [c \in Callers |-> None]
    /\ outcome = [c \in Callers |-> "idle"]
    /\ toDevice = <<>>
    /\ fromDevice = <<>>
    /\ device \in [Registers -> Values]
    /\ reports = 0
    /\ applied = {}
    /\ unacked = {}
    /\ stale = {}
    /\ lost = {}

-----------------------------------------------------------------------------
(* The driver's part in a command: Commands::prepare.                      *)

(* The driver expresses the command at all.                                *)
Expressible(req) == req.op = "refresh" \/ req.val # None

(* A register write the device acknowledges, as against a config command.  *)
Acknowledged(req) == req.op \in {"set", "meter"}

(* Mutant of Verify: the register the power-plus flag moves is not read.   *)
VerifyWithoutOutputPower(req) == <<[reg |-> req.reg, requested |-> req.val]>>

(* The registers to read back after a write, each with the value asked for *)
(* where there is one: Command::registers_to_verify.                       *)
Verify(req) ==
    <<[reg |-> req.reg, requested |-> req.val]>> \o
        IF req.reg = PowerPlus
        THEN <<[reg |-> OutputPower, requested |-> None]>>
        ELSE <<>>

-----------------------------------------------------------------------------
(* The read queue, as functions from its state to its next state.          *)

Read(r, purpose, requested, reply) ==
    [reg |-> r, purpose |-> purpose, requested |-> requested, reply |-> reply]

(* Mutant of StartNextRead: the deadline is not armed.                     *)
StartNextReadUntimed(s) ==
    IF s.reads = <<>>
    THEN [s EXCEPT !.awaiting = None, !.deadline = None]
    ELSE [reads |-> Tail(s.reads), awaiting |-> Head(s.reads),
          pending |-> Head(s.reads).reg, deadline |-> None]

StartNextRead(s) ==
    IF s.reads = <<>>
    THEN [s EXCEPT !.awaiting = None, !.deadline = None]
    ELSE [reads |-> Tail(s.reads), awaiting |-> Head(s.reads),
          pending |-> Head(s.reads).reg, deadline |-> ReadTimeout]

EnqueueVerification(s, r, requested, reply) ==
    LET queued == [s EXCEPT !.reads = <<Read(r, "verify", requested, reply)>> \o @]
    IN  IF s.awaiting = None THEN StartNextRead(queued) ELSE queued

(* One request, one answer: the reply goes with the first register.        *)
EnqueueAll(s, verify, c) ==
    LET first == EnqueueVerification(s, verify[1].reg, verify[1].requested, c)
    IN  IF Len(verify) = 1 THEN first
        ELSE EnqueueVerification(first, verify[2].reg, verify[2].requested, None)

(* Mutants of StandDown: the read in flight is dropped rather than put     *)
(* back, or its deadline is left running.                                  *)
StandDownDropsRead(s) ==
    [reads |-> s.reads, awaiting |-> None, pending |-> None, deadline |-> None]
StandDownKeepsDeadline(s) ==
    [reads |-> (IF s.awaiting = None THEN <<>> ELSE <<s.awaiting>>) \o s.reads,
     awaiting |-> None, pending |-> None, deadline |-> s.deadline]

(* A write goes out alone: the read in flight goes back to the head.       *)
StandDown(s) ==
    [reads |-> (IF s.awaiting = None THEN <<>> ELSE <<s.awaiting>>) \o s.reads,
     awaiting |-> None, pending |-> None, deadline |-> None]

BeginResync(s) ==
    StartNextRead([s EXCEPT !.reads =
        @ \o [i \in 1..Len(ResyncOrder) |-> Read(ResyncOrder[i], "resync", None, None)]])

(* Mutant of SendPendingRead: the hold is not looked at.                   *)
SendPendingReadAtOnce(s, a, sentBefore) ==
    /\ ack' = a
    /\ IF s.pending # None
       THEN /\ q' = [s EXCEPT !.pending = None]
            /\ toDevice' = sentBefore \o <<[kind |-> "read", reg |-> s.pending]>>
       ELSE /\ q' = s
            /\ toDevice' = sentBefore

(* Every handler ends in send_pending_read: the read decided on goes out,  *)
(* unless a write holds it.  s and a are the queue and the hold it finds.  *)
SendPendingRead(s, a, sentBefore) ==
    /\ ack' = a
    /\ IF a = None /\ s.pending # None
       THEN /\ q' = [s EXCEPT !.pending = None]
            /\ toDevice' = sentBefore \o <<[kind |-> "read", reg |-> s.pending]>>
       ELSE /\ q' = s
            /\ toDevice' = sentBefore

-----------------------------------------------------------------------------
(* Answering a caller.                                                     *)

Waiting(c) == c # None /\ outcome[c] = "waiting"

(* The oneshot reply: nothing happens when the caller has given up.        *)
Tell(c, what) ==
    outcome' = IF Waiting(c) THEN [outcome EXCEPT ![c] = what] ELSE outcome

(* Who waits on a read, if there is one and somebody does.                 *)
Holder(read) == IF read = None THEN None ELSE read.reply

-----------------------------------------------------------------------------
(* The loop.  tokio::select! is biased: a branch runs only when no branch  *)
(* before it is ready.                                                     *)

Running == phase \in {"connected", "subscribed"}
NoTimer == q.deadline # 0 /\ ack # 0
NoRequest == mailbox = <<>>

(* The session returns why: its channels close, and everyone still waiting *)
(* learns that it ended, but for the one caller told something else.       *)
EndSession(why, told, what) ==
    /\ phase' = "ended"
    /\ result' = why
    /\ timePush' = FALSE
    /\ q' = [reads |-> <<>>, awaiting |-> None, pending |-> None, deadline |-> None]
    /\ ack' = None
    /\ mailbox' = <<>>
    /\ outcome' = [c \in Callers |->
                     CASE outcome[c] # "waiting" -> outcome[c]
                       [] c = told               -> what
                       [] OTHER                  -> "ended"]
    /\ toDevice' = <<>>
    /\ fromDevice' = <<>>
    /\ settings' = [r \in Registers |-> None]
    /\ unacked' = {} /\ lost' = {}
    /\ UNCHANGED <<request, deviceVars, stale>>

(* CONNECT from a device the allowlist admits: CONNACK, registration with  *)
(* the control API, and the time push is scheduled.                        *)
Connect ==
    /\ phase = "accepted"
    /\ phase' = "connected"
    /\ timePush' = TRUE
    /\ UNCHANGED <<result, q, ack, settings, callerVars, toDevice, fromDevice,
                   deviceVars, historyVars>>

(* CONNECT from a device that is not on the allowlist: refused, and over.  *)
ConnectRefused == phase = "accepted" /\ EndSession("ok", None, "ended")

(* A newer session has taken the device: this one ends.                    *)
Replaced == Running /\ EndSession("ok", None, "ended")

(* DISCONNECT, the socket closed, or 630 s of silence when the loop reads; *)
(* a failed write in whichever handler is sending.                         *)
PeerGone ==
    /\ phase # "ended"
    /\ \/ NoTimer /\ NoRequest /\ EndSession("ok", None, "ended")
       \/ EndSession("stream", None, "ended")

(* The loop's timers.                                                      *)
TimePushDue ==
    /\ Running /\ timePush
    /\ timePush' = FALSE
    /\ UNCHANGED <<phase, result, q, ack, settings, callerVars, toDevice, fromDevice,
                   deviceVars, historyVars>>

(* Mutant of ReadTimedOut: the read is skipped, the next is not started.   *)
ReadTimedOutStalls ==
    /\ Running /\ q.deadline = 0
    /\ Tell(Holder(q.awaiting), "timedOut")
    /\ SendPendingRead([q EXCEPT !.awaiting = None, !.deadline = None], ack, toDevice)
    /\ lost' = IF q.awaiting = None THEN lost ELSE lost \cup {q.awaiting.reg}
    /\ UNCHANGED <<phase, result, timePush, settings, mailbox, request, fromDevice,
                   deviceVars, unacked, stale>>

(* An unanswered read is skipped, and whoever waits on it is told.         *)
ReadTimedOut ==
    /\ Running /\ q.deadline = 0
    /\ Tell(Holder(q.awaiting), "timedOut")
    /\ SendPendingRead(StartNextRead(q), ack, toDevice)
    /\ lost' = IF q.awaiting = None THEN lost ELSE lost \cup {q.awaiting.reg}
    /\ UNCHANGED <<phase, result, timePush, settings, mailbox, request, fromDevice,
                   deviceVars, unacked, stale>>

(* An unacknowledged write stops holding reads.                            *)
AckTimedOut ==
    /\ Running /\ ack = 0 /\ q.deadline # 0
    /\ SendPendingRead(q, None, toDevice)
    /\ unacked' = {}
    /\ UNCHANGED <<phase, result, timePush, settings, callerVars, fromDevice,
                   deviceVars, stale, lost>>

-----------------------------------------------------------------------------
(* Control requests: handle_control, with the transmit it calls.           *)

NextRequest(c) == Running /\ NoTimer /\ mailbox # <<>> /\ c = Head(mailbox)

Write(c) == Append(toDevice, [kind |-> "write", by |-> c])

(* Action::Refresh.                                                        *)
HandleRefresh(c) ==
    /\ NextRequest(c) /\ request[c].op = "refresh"
    /\ mailbox' = Tail(mailbox)
    /\ SendPendingRead(EnqueueVerification(q, request[c].reg, None, c), ack, toDevice)
    /\ UNCHANGED <<phase, result, timePush, settings, request, outcome, fromDevice,
                   deviceVars, historyVars>>

(* Action::Apply: the write goes out alone, then its read-backs queue up.  *)
HandleApply(c) ==
    /\ NextRequest(c) /\ request[c].op = "set" /\ Expressible(request[c])
    /\ mailbox' = Tail(mailbox)
    /\ SendPendingRead(EnqueueAll(StandDown(q), Verify(request[c]), c),
                       AckTimeout, Write(c))
    /\ unacked' = unacked \cup {c}
    /\ UNCHANGED <<phase, result, timePush, settings, request, outcome, fromDevice,
                   deviceVars, stale, lost>>

(* Action::Send: answered as soon as it is out.                            *)
HandleSend(c) ==
    /\ NextRequest(c) /\ request[c].op \in {"meter", "config"} /\ Expressible(request[c])
    /\ mailbox' = Tail(mailbox)
    /\ Tell(c, "sent")
    /\ IF Acknowledged(request[c])
       THEN /\ SendPendingRead(StandDown(q), AckTimeout, Write(c))
            /\ unacked' = unacked \cup {c}
       ELSE /\ SendPendingRead(q, ack, toDevice)
            /\ UNCHANGED unacked
    /\ UNCHANGED <<phase, result, timePush, settings, request, fromDevice,
                   deviceVars, stale, lost>>

(* A command that cannot be sent: the driver will not express it, or the   *)
(* stream fails under a Send.  Either way the error ends the session.      *)
TransmitFails(c) ==
    /\ NextRequest(c) /\ request[c].op # "refresh"
    /\ LET told == IF request[c].op = "set" THEN None ELSE c
       IN  EndSession(IF Expressible(request[c]) THEN "stream" ELSE "encode",
                      told, "notSent")

-----------------------------------------------------------------------------
(* Packets from the device: handle_packet and the Sink that frames call.   *)

NextPacket(kind) ==
    /\ Running /\ NoTimer /\ NoRequest
    /\ fromDevice # <<>> /\ Head(fromDevice).kind = kind

(* SUBSCRIBE: SUBACK, then the startup read-back begins.  A read already   *)
(* in flight is overwritten and its reply with it.                         *)
Subscribe ==
    /\ phase = "connected" /\ NoTimer /\ NoRequest
    /\ phase' = "subscribed"
    /\ Tell(Holder(q.awaiting), "ended")
    /\ SendPendingRead(BeginResync(q), ack, toDevice)
    /\ UNCHANGED <<result, timePush, settings, mailbox, request, fromDevice,
                   deviceVars, historyVars>>

(* settle: what a caller is told of the value read.                        *)
Settled(read, val) ==
    IF read.requested \in {None, val} THEN "confirmed" ELSE "conflict"

(* read_answer.  The value is kept in any case; only an answer for the     *)
(* register awaited settles the read and starts the next.                  *)
AcceptRead ==
    /\ NextPacket("answer")
    /\ LET m == Head(fromDevice)
           expected == q.awaiting # None /\ q.awaiting.reg = m.reg
       IN  /\ settings' = [settings EXCEPT ![m.reg] = m.val]
           /\ IF expected
              THEN /\ Tell(q.awaiting.reply, Settled(q.awaiting, m.val))
                   /\ stale' = stale \cup
                        {c \in Callers \ m.seen :
                            c = q.awaiting.reply /\ request[c].op = "set"}
                   /\ SendPendingRead(StartNextRead(q), ack, toDevice)
              ELSE /\ SendPendingRead(q, ack, toDevice)
                   /\ UNCHANGED <<outcome, stale>>
    /\ fromDevice' = Tail(fromDevice)
    /\ UNCHANGED <<phase, result, timePush, mailbox, request, deviceVars, unacked, lost>>

(* write_ack: whatever it acknowledges, the hold is lifted.                *)
WriteAck ==
    /\ NextPacket("ack")
    /\ SendPendingRead(q, None, toDevice)
    /\ unacked' = unacked \ {Head(fromDevice).by}
    /\ fromDevice' = Tail(fromDevice)
    /\ UNCHANGED <<phase, result, timePush, settings, callerVars, deviceVars, stale, lost>>

(* The hourly settings snapshot.                                           *)
AcceptSnapshot ==
    /\ NextPacket("snapshot")
    /\ settings' = Head(fromDevice).vals
    /\ SendPendingRead(q, ack, toDevice)
    /\ fromDevice' = Tail(fromDevice)
    /\ UNCHANGED <<phase, result, timePush, callerVars, deviceVars, historyVars>>

(* Telemetry, identity, accessory readings and frames nobody can read:     *)
(* nothing of them reaches the register traffic.                           *)
AcceptReport ==
    /\ NextPacket("report")
    /\ SendPendingRead(q, ack, toDevice)
    /\ fromDevice' = Tail(fromDevice)
    /\ UNCHANGED <<phase, result, timePush, settings, callerVars, deviceVars, historyVars>>

-----------------------------------------------------------------------------
(* Callers of the control API: SessionHandle::carry_out.                   *)

(* try_send: a full mailbox, and the mailbox of a session that has ended,  *)
(* both answer Busy.                                                       *)
Submit(c) ==
    /\ phase # "accepted" /\ outcome[c] = "idle"
    /\ \E req \in Requests : request' = [request EXCEPT ![c] = req]
    /\ IF phase = "ended" \/ Len(mailbox) >= QueueDepth
       THEN outcome' = [outcome EXCEPT ![c] = "busy"] /\ UNCHANGED mailbox
       ELSE outcome' = [outcome EXCEPT ![c] = "waiting"] /\ mailbox' = Append(mailbox, c)
    /\ UNCHANGED <<sessionVars, toDevice, fromDevice, deviceVars, historyVars>>

(* REQUEST_TIMEOUT, or the HTTP client went away.  The request stands.     *)
GiveUp(c) ==
    /\ outcome[c] = "waiting"
    /\ outcome' = [outcome EXCEPT ![c] = "gaveUp"]
    /\ UNCHANGED <<sessionVars, mailbox, request, toDevice, fromDevice, deviceVars, historyVars>>

-----------------------------------------------------------------------------
(* The device (external): it takes frames in order, may stay silent, may   *)
(* clamp or refuse a value, and may lose an acknowledgement.               *)

Says(m) == fromDevice' \in {fromDevice, Append(fromDevice, m)}

DeviceReads ==
    /\ toDevice # <<>> /\ Head(toDevice).kind = "read"
    /\ LET r == Head(toDevice).reg
       IN  \/ /\ fromDevice' = Append(fromDevice, [kind |-> "answer", reg |-> r,
                                                   val |-> device[r], seen |-> applied])
              /\ UNCHANGED lost
           \/ lost' = lost \cup {r} /\ UNCHANGED fromDevice
    /\ toDevice' = Tail(toDevice)
    /\ UNCHANGED <<sessionVars, callerVars, deviceVars, unacked, stale>>

DeviceWrites ==
    /\ toDevice # <<>> /\ Head(toDevice).kind = "write"
    /\ LET c == Head(toDevice).by
           changed == IF request[c].op # "set" THEN {}
                      ELSE {request[c].reg} \cup
                           (IF request[c].reg = PowerPlus THEN {OutputPower} ELSE {})
       IN  /\ device' \in {d \in [Registers -> Values] :
                             \A r \in Registers \ changed : d[r] = device[r]}
           /\ applied' = applied \cup {c}
           /\ Says([kind |-> "ack", by |-> c])
    /\ toDevice' = Tail(toDevice)
    /\ UNCHANGED <<sessionVars, callerVars, reports, historyVars>>

DeviceVolunteers ==
    /\ Running /\ reports < MaxReports
    /\ reports' = reports + 1
    /\ \/ fromDevice' = Append(fromDevice, [kind |-> "snapshot", vals |-> device])
       \/ fromDevice' = Append(fromDevice, [kind |-> "report"])
    /\ UNCHANGED <<sessionVars, callerVars, toDevice, device, applied, historyVars>>

(* One tick for every running timer.                                       *)
Tick ==
    LET Down(t) == IF t \in {None, 0} THEN t ELSE t - 1
    IN  /\ ~ {q.deadline, ack} \subseteq {None, 0}
        /\ q' = [q EXCEPT !.deadline = Down(@)]
        /\ ack' = Down(ack)
        /\ UNCHANGED <<phase, result, timePush, settings, callerVars, toDevice, fromDevice,
                       deviceVars, historyVars>>

-----------------------------------------------------------------------------
Timer == TimePushDue \/ ReadTimedOut \/ AckTimedOut

Control ==
    \E c \in Callers : HandleRefresh(c) \/ HandleApply(c) \/ HandleSend(c) \/ TransmitFails(c)

Packet == AcceptRead \/ WriteAck \/ AcceptSnapshot \/ AcceptReport

Device == DeviceReads \/ DeviceWrites

Next ==
    \/ Connect \/ ConnectRefused \/ Subscribe \/ Replaced \/ PeerGone
    \/ Timer \/ Control \/ Packet
    \/ \E c \in Callers : Submit(c) \/ GiveUp(c)
    \/ Device \/ DeviceVolunteers \/ Tick

Spec == Init /\ [][Next]_vars

(* The loop is a task of its own, so what is ready is handled; time passes. *)
(* Neither a caller nor the device has to do anything.                      *)
FairSpec ==
    /\ Spec
    /\ WF_vars(Timer) /\ WF_vars(Control) /\ WF_vars(Packet) /\ WF_vars(Tick)

-----------------------------------------------------------------------------
(* A read is awaited exactly while its deadline runs, so no read can wait  *)
(* for ever; a read decided on but not sent is held by a write, and is the *)
(* one awaited if any is.  Session keeps awaiting, pending_read,           *)
(* read_deadline and awaiting_ack in four fields that six handlers set.    *)
Coherent(s) ==
    /\ s.awaiting # None <=> s.deadline # None
    /\ s.pending # None /\ s.awaiting # None => s.pending = s.awaiting.reg

QueueCoherent == Coherent(q) /\ (q.pending # None => ack # None)

(* A queued read has a read ahead of it whose answer or timeout will start *)
(* it: the queue never stands still with something in it.  (True while no  *)
(* acknowledged command goes through Action::Send: see ReadsDrain.)        *)
Started(s) == s.reads # <<>> => s.awaiting # None

NoReadStranded == Started(q)

(* Where the reply of caller c is held.                                    *)
Holders(c) ==
    {<<"mailbox", i>> : i \in {j \in 1..Len(mailbox) : mailbox[j] = c}} \cup
    {<<"reads", i>> : i \in {j \in 1..Len(q.reads) : q.reads[j].reply = c}} \cup
    {<<"awaiting", 0>> : x \in {y \in {q.awaiting} : y # None /\ y.reply = c}}

(* The oneshot sender of a waiting caller is in exactly one place: the     *)
(* mailbox, the read queue or the read awaited.  Standing a read down,     *)
(* requeueing and skipping never drop or copy it.                          *)
NoReplyLost == \A c \in Callers : outcome[c] = "waiting" => Cardinality(Holders(c)) = 1

Quiescent ==
    /\ phase = "subscribed" /\ mailbox = <<>> /\ ack = None
    /\ q.reads = <<>> /\ q.awaiting = None /\ q.pending = None
    /\ toDevice = <<>> /\ fromDevice = <<>>

(* Once the traffic has died down, the settings the session publishes are  *)
(* what the device holds, for every register none of whose reads was lost: *)
(* overlapping writes, stood-down reads, stray answers and the side effect *)
(* of the power-plus flag leave no stale value behind.                     *)
QuiescentCache ==
    Quiescent => \A r \in Registers \ lost : settings[r] = device[r]

(* Every caller is answered by the session itself, whatever the device     *)
(* does or does not answer: REQUEST_TIMEOUT is never what saves it.        *)
EveryRequestAnswered ==
    \A c \in Callers : outcome[c] = "waiting" ~> outcome[c] # "waiting"

(* Queued reads, the startup read-back and those stood down for a write    *)
(* ("it will be reissued"), all get their turn.                            *)
ReadsDrain == q.reads # <<>> ~> q.reads = <<>>

(* No read is sent while a write of this program is unacknowledged.  (So   *)
(* for one write outstanding; of two, whichever is acknowledged first      *)
(* lifts the hold for both.)                                               *)
ReadsGoAlone ==
    [][toDevice' # toDevice /\ Len(toDevice') > Len(toDevice)
         /\ toDevice'[Len(toDevice')].kind = "read" => unacked' = {}]_vars

(* What a write's caller is told the device stored was read after it.      *)
ReadBackIsFresh == stale = {}
=============================================================================
