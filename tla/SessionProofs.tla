--------------------------- MODULE SessionProofs ---------------------------
(* What Session guarantees for every choice of its constants: its types,   *)
(* the coherence of its read queue, where the replies are and, for the     *)
(* sessions the theorems name, that no queued read is stranded, that reads *)
(* go alone and that the settings end up as the device's.                  *)
EXTENDS Session, SequenceTheorems, FiniteSetTheorems, TLAPS

-----------------------------------------------------------------------------
(* The read queue.                                                         *)

USE SessionAssumption DEF Deadline

(* A read made of typed parts is a PendingRead.                            *)
LEMMA ReadType ==
    ASSUME NEW r \in Registers, NEW purpose \in {"resync", "verify"},
           NEW requested \in Values \cup {None}, NEW reply \in Callers \cup {None}
    PROVE  Read(r, purpose, requested, reply) \in PendingRead
  BY DEF Read, PendingRead

(* start_next_read keeps the queue typed and coherent, and leaves it       *)
(* started: it is what every handler that empties awaiting has to call.    *)
LEMMA StartNextReadSound ==
    ASSUME NEW s \in ReadQueue
    PROVE  /\ StartNextRead(s) \in ReadQueue
           /\ Coherent(StartNextRead(s))
           /\ Started(StartNextRead(s))
  <1>1. CASE s.reads = <<>>
    BY <1>1 DEF StartNextRead, ReadQueue, Coherent, Started
  <1>2. CASE s.reads # <<>>
    <2>1. Head(s.reads) \in PendingRead /\ Tail(s.reads) \in Seq(PendingRead)
      BY <1>2, HeadTailProperties DEF ReadQueue
    <2>2. Head(s.reads).reg \in Registers /\ ReadTimeout \in 0..ReadTimeout
      BY <2>1 DEF PendingRead
    <2>. QED  BY <1>2, <2>1, <2>2 DEF StartNextRead, ReadQueue, Coherent, Started
  <1>. QED  BY <1>1, <1>2

(* enqueue_verification keeps the queue typed, coherent and started.       *)
LEMMA EnqueueVerificationSound ==
    ASSUME NEW s \in ReadQueue, NEW r \in Registers,
           NEW requested \in Values \cup {None}, NEW reply \in Callers \cup {None},
           Coherent(s)
    PROVE  /\ EnqueueVerification(s, r, requested, reply) \in ReadQueue
           /\ Coherent(EnqueueVerification(s, r, requested, reply))
           /\ Started(EnqueueVerification(s, r, requested, reply))
  <1>. DEFINE queued == [s EXCEPT !.reads =
                           <<Read(r, "verify", requested, reply)>> \o s.reads]
  <1>1. <<Read(r, "verify", requested, reply)>> \in Seq(PendingRead)
    BY ReadType
  <1>2. <<Read(r, "verify", requested, reply)>> \o s.reads \in Seq(PendingRead)
    BY <1>1, ConcatProperties DEF ReadQueue
  <1>3. queued \in ReadQueue
    BY <1>2 DEF ReadQueue
  <1>4. CASE s.awaiting = None
    BY <1>3, <1>4, StartNextReadSound DEF EnqueueVerification
  <1>5. CASE s.awaiting # None
    BY <1>3, <1>5 DEF EnqueueVerification, Coherent, Started, ReadQueue
  <1>. QED  BY <1>4, <1>5

(* Standing a read down keeps the queue typed and coherent, with nothing   *)
(* awaited and nothing to send.                                            *)
LEMMA StandDownSound ==
    ASSUME NEW s \in ReadQueue
    PROVE  /\ StandDown(s) \in ReadQueue
           /\ Coherent(StandDown(s))
           /\ StandDown(s).pending = None
  <1>1. (IF s.awaiting = None THEN <<>> ELSE <<s.awaiting>>) \in Seq(PendingRead)
    BY DEF ReadQueue
  <1>2. (IF s.awaiting = None THEN <<>> ELSE <<s.awaiting>>) \o s.reads
            \in Seq(PendingRead)
    BY <1>1, ConcatProperties DEF ReadQueue
  <1>. QED  BY <1>2 DEF StandDown, ReadQueue, Coherent

(* Queueing the read-backs of a write keeps the queue typed and coherent   *)
(* and starts it, whatever it was before.                                  *)
LEMMA EnqueueAllSound ==
    ASSUME NEW s \in ReadQueue, NEW req, NEW c \in Callers, Coherent(s),
           req.reg \in Registers, req.val \in Values
    PROVE  /\ EnqueueAll(s, Verify(req), c) \in ReadQueue
           /\ Coherent(EnqueueAll(s, Verify(req), c))
           /\ Started(EnqueueAll(s, Verify(req), c))
  <1>. DEFINE first == EnqueueVerification(s, req.reg, req.val, c)
  <1>1. first \in ReadQueue /\ Coherent(first) /\ Started(first)
    BY EnqueueVerificationSound
  <1>2. CASE req.reg = PowerPlus
    <2>1. EnqueueAll(s, Verify(req), c) =
            EnqueueVerification(first, OutputPower, None, None)
      BY <1>2 DEF EnqueueAll, Verify
    <2>. QED  BY <1>1, <2>1, EnqueueVerificationSound
  <1>3. CASE req.reg # PowerPlus
    <2>1. EnqueueAll(s, Verify(req), c) = first
      BY <1>3 DEF EnqueueAll, Verify
    <2>. QED  BY <1>1, <2>1
  <1>. QED  BY <1>2, <1>3

(* The startup read-back leaves the queue typed, coherent and started.     *)
LEMMA BeginResyncSound ==
    ASSUME NEW s \in ReadQueue
    PROVE  /\ BeginResync(s) \in ReadQueue
           /\ Coherent(BeginResync(s))
           /\ Started(BeginResync(s))
  <1>. DEFINE resync == [i \in 1..Len(ResyncOrder) |->
                           Read(ResyncOrder[i], "resync", None, None)]
              queued == [s EXCEPT !.reads = s.reads \o resync]
  <1>1. resync \in [1..Len(ResyncOrder) -> PendingRead]
    BY ReadType
  <1>2. resync \in Seq(PendingRead)
    BY <1>1, Len(ResyncOrder) \in Nat, SeqDef
  <1>3. queued \in ReadQueue
    BY <1>2, ConcatProperties DEF ReadQueue
  <1>. QED  BY <1>3, StartNextReadSound DEF BeginResync

(* send_pending_read, on a coherent queue, sends a typed frame or holds    *)
(* the read, and what it leaves pending is held by a write.                *)
LEMMA SendPendingReadSound ==
    ASSUME NEW s \in ReadQueue, NEW a \in Deadline(AckTimeout),
           NEW sentBefore \in Seq(ToDevice), Coherent(s),
           SendPendingRead(s, a, sentBefore)
    PROVE  /\ q' \in ReadQueue
           /\ ack' \in Deadline(AckTimeout)
           /\ toDevice' \in Seq(ToDevice)
           /\ QueueCoherent'
           /\ Started(s) => Started(q')
  <1>1. CASE a = None /\ s.pending # None
    <2>1. s.pending \in Registers
      BY <1>1 DEF ReadQueue
    <2>2. [kind |-> "read", reg |-> s.pending] \in ToDevice
      BY <2>1 DEF ToDevice
    <2>3. <<[kind |-> "read", reg |-> s.pending]>> \in Seq(ToDevice)
      BY <2>2
    <2>4. toDevice' \in Seq(ToDevice)
      BY <1>1, <2>3, ConcatProperties DEF SendPendingRead
    <2>. QED
      BY <1>1, <2>4 DEF SendPendingRead, ReadQueue, Coherent, QueueCoherent, Started
  <1>2. CASE ~ (a = None /\ s.pending # None)
    BY <1>2 DEF SendPendingRead, Coherent, QueueCoherent
  <1>. QED  BY <1>1, <1>2

-----------------------------------------------------------------------------
(* The inductive invariant.  Coherence needs the types, and the handlers   *)
(* need to know that whoever is in the mailbox has asked something.        *)
Asked == \A i \in 1..Len(mailbox) : request[mailbox[i]] \in Requests

IInv == TypeOK /\ QueueCoherent /\ Asked

(* Nothing queued, nothing in the mailbox and nothing on the stream.       *)
LEMMA EmptySequences ==
    /\ <<>> \in Seq(Callers) /\ Len(<<>>) <= QueueDepth
    /\ <<>> \in Seq(ToDevice) /\ <<>> \in Seq(FromDevice) /\ <<>> \in Seq(PendingRead)
  <1>1. Len(<<>>) = 0 /\ QueueDepth \in Nat
    OBVIOUS
  <1>2. /\ <<>> \in Seq(Callers)
        /\ <<>> \in Seq(ToDevice) /\ <<>> \in Seq(FromDevice) /\ <<>> \in Seq(PendingRead)
    OBVIOUS
  <1>. QED  BY <1>1, <1>2

(* The initial queue is empty, and so coherent and started.                *)
LEMMA InitSound == Init => IInv /\ NoReadStranded
  <1>. SUFFICES ASSUME Init PROVE IInv /\ NoReadStranded
    OBVIOUS
  <1>1. /\ phase \in {"accepted", "connected", "subscribed", "ended"}
        /\ result \in {None, "ok", "encode", "stream"}
        /\ timePush \in BOOLEAN /\ ack \in Deadline(AckTimeout)
    BY DEF Init
  <1>2. q \in ReadQueue
    BY EmptySequences DEF Init, ReadQueue
  <1>3. /\ settings \in [Registers -> Values \cup {None}]
        /\ request \in [Callers -> Requests \cup {None}]
        /\ outcome \in [Callers -> Outcomes]
    BY DEF Init, Outcomes
  <1>4. /\ mailbox \in Seq(Callers) /\ Len(mailbox) <= QueueDepth
        /\ toDevice \in Seq(ToDevice) /\ fromDevice \in Seq(FromDevice)
    BY EmptySequences, Zenon DEF Init
  <1>5. device \in [Registers -> Values] /\ reports \in 0..MaxReports
    BY DEF Init
  <1>6. /\ applied \subseteq Callers /\ unacked \subseteq Callers
        /\ stale \subseteq Callers /\ lost \subseteq Registers
    BY DEF Init
  <1>7. TypeOK
    BY <1>1, <1>2, <1>3, <1>4, <1>5, <1>6, Zenon DEF TypeOK
  <1>8. QueueCoherent /\ NoReadStranded
    BY DEF Init, QueueCoherent, Coherent, NoReadStranded, Started
  <1>9. Asked
    BY DEF Init, Asked
  <1>. QED  BY <1>7, <1>8, <1>9 DEF IInv

(* Ending a session empties its queue.                                     *)
LEMMA EndSessionSound ==
    ASSUME IInv, NEW why \in {"ok", "encode", "stream"}, NEW told,
           NEW what \in {"ended", "notSent"}, EndSession(why, told, what)
    PROVE  IInv' /\ NoReadStranded'
  <1>1. q' \in ReadQueue
    BY EmptySequences DEF EndSession, ReadQueue
  <1>2. QueueCoherent' /\ NoReadStranded'
    BY DEF EndSession, QueueCoherent, Coherent, NoReadStranded, Started
  <1>3. outcome' \in [Callers -> Outcomes]
    BY DEF EndSession, IInv, TypeOK, Outcomes
  <1>4. /\ phase' \in {"accepted", "connected", "subscribed", "ended"}
        /\ result' \in {None, "ok", "encode", "stream"}
        /\ timePush' \in BOOLEAN /\ ack' \in Deadline(AckTimeout)
        /\ settings' \in [Registers -> Values \cup {None}]
    BY DEF EndSession
  <1>5. /\ mailbox' \in Seq(Callers) /\ Len(mailbox') <= QueueDepth
        /\ toDevice' \in Seq(ToDevice) /\ fromDevice' \in Seq(FromDevice)
    BY EmptySequences, Zenon DEF EndSession
  <1>6. /\ request' \in [Callers -> Requests \cup {None}]
        /\ device' \in [Registers -> Values] /\ reports' \in 0..MaxReports
        /\ applied' \subseteq Callers /\ unacked' \subseteq Callers
        /\ stale' \subseteq Callers /\ lost' \subseteq Registers
    BY DEF EndSession, deviceVars, IInv, TypeOK
  <1>7. TypeOK'
    BY <1>1, <1>3, <1>4, <1>5, <1>6, Zenon DEF TypeOK
  <1>8. Asked'
    BY DEF EndSession, Asked
  <1>. QED  BY <1>2, <1>7, <1>8 DEF IInv

(* The request at the head of the mailbox is one that was made, and        *)
(* taking it leaves only requests that were made.                          *)
LEMMA NextRequestSound ==
    ASSUME IInv, NEW c \in Callers, NextRequest(c),
           mailbox' = Tail(mailbox), request' = request
    PROVE  /\ request[c] \in Requests
           /\ mailbox' \in Seq(Callers) /\ Len(mailbox') <= QueueDepth
           /\ Asked'
  <1>1. mailbox \in Seq(Callers) /\ mailbox # <<>> /\ Len(mailbox) \in Nat
    BY LenProperties DEF IInv, TypeOK, NextRequest
  <1>2. request[mailbox[1]] \in Requests
    BY <1>1, EmptySeq DEF IInv, Asked
  <1>3. c = mailbox[1]
    BY <1>1 DEF NextRequest
  <1>4. /\ Tail(mailbox) \in Seq(Callers)
        /\ Len(Tail(mailbox)) = Len(mailbox) - 1
        /\ \A i \in 1..Len(Tail(mailbox)) : Tail(mailbox)[i] = mailbox[i + 1]
    BY <1>1, HeadTailProperties
  <1>5. Asked'
    BY <1>1, <1>4 DEF IInv, Asked
  <1>. QED  BY <1>1, <1>2, <1>3, <1>4, <1>5 DEF IInv, TypeOK

(* The frame at the head of the stream is typed, and so is the rest.       *)
LEMMA NextPacketSound ==
    ASSUME IInv, NEW kind, NextPacket(kind)
    PROVE  /\ Head(fromDevice) \in FromDevice
           /\ Head(fromDevice).kind = kind
           /\ Tail(fromDevice) \in Seq(FromDevice)
  BY HeadTailProperties DEF IInv, TypeOK, NextPacket

-----------------------------------------------------------------------------
(* The steps of the loop.  Each handler ends in send_pending_read, so each *)
(* proof shows that the queue it hands over is sound and that the rest of  *)
(* the state stays typed.                                                  *)

(* TypeOK without the queue, the hold and the stream to the device.        *)
RestOK ==
    /\ phase \in {"accepted", "connected", "subscribed", "ended"}
    /\ result \in {None, "ok", "encode", "stream"}
    /\ timePush \in BOOLEAN
    /\ settings \in [Registers -> Values \cup {None}]
    /\ mailbox \in Seq(Callers) /\ Len(mailbox) <= QueueDepth
    /\ request \in [Callers -> Requests \cup {None}]
    /\ outcome \in [Callers -> Outcomes]
    /\ fromDevice \in Seq(FromDevice)
    /\ device \in [Registers -> Values]
    /\ reports \in 0..MaxReports
    /\ applied \subseteq Callers
    /\ unacked \subseteq Callers
    /\ stale \subseteq Callers
    /\ lost \subseteq Registers

(* The session only writes, refreshes and configures: no acknowledged      *)
(* command goes through Action::Send.                                      *)
SettingsOnly == \A req \in Requests : req.op # "meter"

(* What every step keeps.                                                  *)
Kept == IInv' /\ (SettingsOnly /\ NoReadStranded => NoReadStranded')

(* What the invariant says, part by part, and what makes it hold again.    *)
LEMMA TypesSplit ==
    /\ IInv => /\ RestOK /\ q \in ReadQueue /\ ack \in Deadline(AckTimeout)
               /\ toDevice \in Seq(ToDevice)
               /\ Coherent(q) /\ QueueCoherent /\ Asked
    /\ /\ RestOK' /\ q' \in ReadQueue /\ ack' \in Deadline(AckTimeout)
       /\ toDevice' \in Seq(ToDevice) /\ QueueCoherent' /\ Asked'
       => IInv'
  BY Zenon DEF IInv, TypeOK, RestOK, QueueCoherent

(* A handler that hands a sound queue to send_pending_read is sound.       *)
LEMMA HandlerSound ==
    ASSUME IInv, NEW s \in ReadQueue, NEW a \in Deadline(AckTimeout),
           NEW sentBefore \in Seq(ToDevice), Coherent(s),
           SendPendingRead(s, a, sentBefore),
           SettingsOnly /\ NoReadStranded => Started(s),
           RestOK', Asked'
    PROVE  Kept
  <1>1. /\ q' \in ReadQueue /\ ack' \in Deadline(AckTimeout)
        /\ toDevice' \in Seq(ToDevice) /\ QueueCoherent'
        /\ Started(s) => Started(q')
    BY SendPendingReadSound
  <1>2. IInv'
    BY <1>1, TypesSplit
  <1>. QED  BY <1>1, <1>2 DEF Kept, NoReadStranded

(* A step that leaves the queue, the hold and the stream alone is sound.   *)
LEMMA BystanderSound ==
    ASSUME IInv, q' = q, ack' = ack, toDevice' \in Seq(ToDevice), RestOK', Asked'
    PROVE  Kept
  BY TypesSplit DEF Kept, NoReadStranded, QueueCoherent, Coherent

(* Telling a caller something keeps the outcomes typed.                    *)
LEMMA TellSound ==
    ASSUME IInv, NEW c, NEW what \in Outcomes, Tell(c, what)
    PROVE  outcome' \in [Callers -> Outcomes]
  BY DEF IInv, TypeOK, Tell

(* CONNECT.                                                                *)
LEMMA ConnectSound == IInv /\ Connect => Kept
  <1>. SUFFICES ASSUME IInv, Connect PROVE Kept
    OBVIOUS
  <1>1. RestOK' /\ Asked'
    BY TypesSplit DEF Connect, RestOK, Asked, callerVars, deviceVars, historyVars
  <1>2. q' = q /\ ack' = ack /\ toDevice' \in Seq(ToDevice)
    BY TypesSplit DEF Connect
  <1>. QED  BY <1>1, <1>2, BystanderSound

(* Every way for the session to end.                                       *)
LEMMA EndingSound == IInv /\ (ConnectRefused \/ Replaced \/ PeerGone) => Kept
  <1>. SUFFICES ASSUME IInv, ConnectRefused \/ Replaced \/ PeerGone PROVE Kept
    OBVIOUS
  <1>1. EndSession("ok", None, "ended") \/ EndSession("stream", None, "ended")
    BY DEF ConnectRefused, Replaced, PeerGone
  <1>. QED  BY <1>1, EndSessionSound DEF Kept

(* A command that cannot be sent ends the session too.                     *)
LEMMA TransmitFailsSound ==
    ASSUME IInv, NEW c \in Callers, TransmitFails(c)
    PROVE  Kept
  <1>1. PICK why \in {"ok", "encode", "stream"}, told \in Callers \cup {None} :
            EndSession(why, told, "notSent")
    BY DEF TransmitFails
  <1>. QED  BY <1>1, EndSessionSound DEF Kept

(* SUBSCRIBE starts the startup read-back.                                 *)
LEMMA SubscribeSound == IInv /\ Subscribe => Kept
  <1>. SUFFICES ASSUME IInv, Subscribe PROVE Kept
    OBVIOUS
  <1>1. outcome' \in [Callers -> Outcomes]
    BY TellSound DEF Subscribe, Outcomes
  <1>2. RestOK' /\ Asked'
    BY <1>1, TypesSplit DEF Subscribe, RestOK, Asked, deviceVars, historyVars
  <1>3. /\ BeginResync(q) \in ReadQueue /\ Coherent(BeginResync(q))
        /\ Started(BeginResync(q))
    BY TypesSplit, BeginResyncSound
  <1>4. SendPendingRead(BeginResync(q), ack, toDevice)
    BY DEF Subscribe
  <1>. QED  BY <1>2, <1>3, <1>4, TypesSplit, HandlerSound

(* The timers.                                                             *)
LEMMA TimerSound == IInv /\ Timer => Kept
  <1>. SUFFICES ASSUME IInv, Timer PROVE Kept
    OBVIOUS
  <1>1. CASE TimePushDue
    <2>1. RestOK' /\ Asked'
      BY <1>1, TypesSplit
      DEF TimePushDue, RestOK, Asked, callerVars, deviceVars, historyVars
    <2>. QED  BY <1>1, <2>1, TypesSplit, BystanderSound DEF TimePushDue
  <1>2. CASE ReadTimedOut
    <2>1. outcome' \in [Callers -> Outcomes]
      BY <1>2, TellSound DEF ReadTimedOut, Outcomes
    <2>2. lost' \subseteq Registers
      BY <1>2, TypesSplit DEF ReadTimedOut, ReadQueue, PendingRead, RestOK
    <2>3. RestOK' /\ Asked'
      BY <1>2, <2>1, <2>2, TypesSplit DEF ReadTimedOut, RestOK, Asked, deviceVars
    <2>4. SendPendingRead(StartNextRead(q), ack, toDevice)
      BY <1>2 DEF ReadTimedOut
    <2>. QED  BY <2>3, <2>4, TypesSplit, StartNextReadSound, HandlerSound
  <1>3. CASE AckTimedOut
    <2>1. RestOK' /\ Asked'
      BY <1>3, TypesSplit DEF AckTimedOut, RestOK, Asked, callerVars, deviceVars
    <2>2. SendPendingRead(q, None, toDevice)
      BY <1>3 DEF AckTimedOut
    <2>. QED  BY <2>1, <2>2, TypesSplit, HandlerSound DEF NoReadStranded
  <1>. QED  BY <1>1, <1>2, <1>3 DEF Timer

(* The write frame is typed.                                               *)
LEMMA WriteSound ==
    ASSUME IInv, NEW c \in Callers
    PROVE  Write(c) \in Seq(ToDevice)
  <1>1. [kind |-> "write", by |-> c] \in ToDevice
    BY DEF ToDevice
  <1>. QED  BY <1>1, TypesSplit DEF Write

(* Action::Refresh.                                                        *)
LEMMA RefreshSound ==
    ASSUME IInv, NEW c \in Callers, HandleRefresh(c)
    PROVE  Kept
  <1>. DEFINE s == EnqueueVerification(q, request[c].reg, None, c)
  <1>1. /\ request[c] \in Requests
        /\ mailbox' \in Seq(Callers) /\ Len(mailbox') <= QueueDepth
        /\ Asked'
    BY NextRequestSound DEF HandleRefresh
  <1>2. request[c].reg \in Registers
    BY <1>1 DEF HandleRefresh, Request
  <1>3. s \in ReadQueue /\ Coherent(s) /\ Started(s)
    BY <1>2, TypesSplit, EnqueueVerificationSound
  <1>4. RestOK'
    BY <1>1, TypesSplit DEF HandleRefresh, RestOK, deviceVars, historyVars
  <1>5. SendPendingRead(s, ack, toDevice)
    BY DEF HandleRefresh
  <1>. QED  BY <1>1, <1>3, <1>4, <1>5, TypesSplit, HandlerSound

(* Action::Apply.  Standing the read down empties awaiting; queueing the   *)
(* read-backs of the write starts the queue again.                         *)
LEMMA ApplySound ==
    ASSUME IInv, NEW c \in Callers, HandleApply(c)
    PROVE  Kept
  <1>. DEFINE s == EnqueueAll(StandDown(q), Verify(request[c]), c)
  <1>1. /\ request[c] \in Requests
        /\ mailbox' \in Seq(Callers) /\ Len(mailbox') <= QueueDepth
        /\ Asked'
    BY NextRequestSound DEF HandleApply
  <1>2. request[c].reg \in Registers /\ request[c].val \in Values
    BY <1>1 DEF HandleApply, Expressible, Request
  <1>3. StandDown(q) \in ReadQueue /\ Coherent(StandDown(q))
    BY TypesSplit, StandDownSound
  <1>4. s \in ReadQueue /\ Coherent(s) /\ Started(s)
    BY <1>2, <1>3, EnqueueAllSound
  <1>5. RestOK'
    BY <1>1, TypesSplit DEF HandleApply, RestOK, deviceVars
  <1>6. SendPendingRead(s, AckTimeout, Write(c)) /\ AckTimeout \in Deadline(AckTimeout)
    BY DEF HandleApply
  <1>. QED  BY <1>1, <1>4, <1>5, <1>6, WriteSound, HandlerSound

(* Action::Send.  Only here can a read be stood down and nothing started   *)
(* in its place, which is why NoReadStranded needs SettingsOnly.           *)
LEMMA SendSound ==
    ASSUME IInv, NEW c \in Callers, HandleSend(c)
    PROVE  Kept
  <1>1. /\ request[c] \in Requests
        /\ mailbox' \in Seq(Callers) /\ Len(mailbox') <= QueueDepth
        /\ Asked'
    BY NextRequestSound DEF HandleSend
  <1>2. outcome' \in [Callers -> Outcomes]
    BY TellSound DEF HandleSend, Outcomes
  <1>3. RestOK'
    BY <1>1, <1>2, TypesSplit DEF HandleSend, RestOK, deviceVars
  <1>4. CASE Acknowledged(request[c])
    <2>1. request[c].op = "meter"
      BY <1>4 DEF HandleSend, Acknowledged
    <2>2. ~ SettingsOnly
      BY <1>1, <2>1 DEF SettingsOnly
    <2>3. StandDown(q) \in ReadQueue /\ Coherent(StandDown(q))
      BY TypesSplit, StandDownSound
    <2>4. SendPendingRead(StandDown(q), AckTimeout, Write(c))
          /\ AckTimeout \in Deadline(AckTimeout)
      BY <1>4 DEF HandleSend
    <2>. QED  BY <1>1, <1>3, <2>2, <2>3, <2>4, WriteSound, HandlerSound
  <1>5. CASE ~ Acknowledged(request[c])
    <2>1. SendPendingRead(q, ack, toDevice)
      BY <1>5 DEF HandleSend
    <2>. QED  BY <1>1, <1>3, <2>1, TypesSplit, HandlerSound DEF NoReadStranded
  <1>. QED  BY <1>4, <1>5

(* An answer settles the read awaited and starts the next, or is only kept.*)
LEMMA AcceptReadSound == IInv /\ AcceptRead => Kept
  <1>. SUFFICES ASSUME IInv, AcceptRead PROVE Kept
    OBVIOUS
  <1>. DEFINE m == Head(fromDevice)
              expected == q.awaiting # None /\ q.awaiting.reg = m.reg
  <1>1. m \in FromDevice /\ m.kind = "answer" /\ Tail(fromDevice) \in Seq(FromDevice)
    BY NextPacketSound DEF AcceptRead
  <1>2. m.reg \in Registers /\ m.val \in Values
    BY <1>1 DEF FromDevice
  <1>3. settings' \in [Registers -> Values \cup {None}]
    BY <1>2, TypesSplit DEF AcceptRead, RestOK
  <1>4. outcome' \in [Callers -> Outcomes]
    <2>1. CASE expected
      <3>1. Tell(q.awaiting.reply, Settled(q.awaiting, m.val))
        BY <2>1 DEF AcceptRead
      <3>2. Settled(q.awaiting, m.val) \in Outcomes
        BY DEF Settled, Outcomes
      <3>. QED  BY <3>1, <3>2, TellSound
    <2>2. CASE ~ expected
      BY <2>2, TypesSplit DEF AcceptRead, RestOK
    <2>. QED  BY <2>1, <2>2
  <1>5. stale' \subseteq Callers
    BY TypesSplit DEF AcceptRead, RestOK
  <1>6. RestOK' /\ Asked'
    BY <1>1, <1>3, <1>4, <1>5, TypesSplit DEF AcceptRead, RestOK, Asked, deviceVars
  <1>7. CASE expected
    <2>1. SendPendingRead(StartNextRead(q), ack, toDevice)
      BY <1>7 DEF AcceptRead
    <2>. QED  BY <1>6, <2>1, TypesSplit, StartNextReadSound, HandlerSound
  <1>8. CASE ~ expected
    <2>1. SendPendingRead(q, ack, toDevice)
      BY <1>8 DEF AcceptRead
    <2>. QED  BY <1>6, <2>1, TypesSplit, HandlerSound DEF NoReadStranded
  <1>. QED  BY <1>7, <1>8

(* An acknowledgement only lifts the hold.                                 *)
LEMMA WriteAckSound == IInv /\ WriteAck => Kept
  <1>. SUFFICES ASSUME IInv, WriteAck PROVE Kept
    OBVIOUS
  <1>1. Tail(fromDevice) \in Seq(FromDevice)
    BY NextPacketSound DEF WriteAck
  <1>2. RestOK' /\ Asked'
    BY <1>1, TypesSplit DEF WriteAck, RestOK, Asked, callerVars, deviceVars
  <1>3. SendPendingRead(q, None, toDevice)
    BY DEF WriteAck
  <1>. QED  BY <1>2, <1>3, TypesSplit, HandlerSound DEF NoReadStranded

(* A snapshot replaces the settings.                                       *)
LEMMA AcceptSnapshotSound == IInv /\ AcceptSnapshot => Kept
  <1>. SUFFICES ASSUME IInv, AcceptSnapshot PROVE Kept
    OBVIOUS
  <1>1. /\ Head(fromDevice) \in FromDevice /\ Head(fromDevice).kind = "snapshot"
        /\ Tail(fromDevice) \in Seq(FromDevice)
    BY NextPacketSound DEF AcceptSnapshot
  <1>2. Head(fromDevice).vals \in [Registers -> Values]
    BY <1>1 DEF FromDevice
  <1>3. settings' \in [Registers -> Values \cup {None}]
    BY <1>2 DEF AcceptSnapshot
  <1>4. RestOK' /\ Asked'
    BY <1>1, <1>3, TypesSplit
    DEF AcceptSnapshot, RestOK, Asked, callerVars, deviceVars, historyVars
  <1>5. SendPendingRead(q, ack, toDevice)
    BY DEF AcceptSnapshot
  <1>. QED  BY <1>4, <1>5, TypesSplit, HandlerSound DEF NoReadStranded

(* A report touches nothing here.                                          *)
LEMMA AcceptReportSound == IInv /\ AcceptReport => Kept
  <1>. SUFFICES ASSUME IInv, AcceptReport PROVE Kept
    OBVIOUS
  <1>1. Tail(fromDevice) \in Seq(FromDevice)
    BY NextPacketSound DEF AcceptReport
  <1>2. RestOK' /\ Asked'
    BY <1>1, TypesSplit
    DEF AcceptReport, RestOK, Asked, callerVars, deviceVars, historyVars
  <1>3. SendPendingRead(q, ack, toDevice)
    BY DEF AcceptReport
  <1>. QED  BY <1>2, <1>3, TypesSplit, HandlerSound DEF NoReadStranded

-----------------------------------------------------------------------------
(* The steps around the loop.                                              *)

(* A caller submits: at most QueueDepth requests, each one asked.          *)
LEMMA SubmitSound ==
    ASSUME IInv, NEW c \in Callers, Submit(c)
    PROVE  Kept
  <1>1. PICK req \in Requests : request' = [request EXCEPT ![c] = req]
    BY DEF Submit
  <1>2. request' \in [Callers -> Requests \cup {None}] /\ request'[c] \in Requests
        /\ \A d \in Callers : request[d] \in Requests => request'[d] \in Requests
    BY <1>1, TypesSplit DEF RestOK
  <1>3. mailbox \in Seq(Callers) /\ Len(mailbox) \in Nat /\ Len(mailbox) <= QueueDepth
    BY TypesSplit, LenProperties DEF RestOK
  <1>4. \A i \in 1..Len(mailbox) : mailbox[i] \in Callers
    BY <1>3, ElementOfSeq
  <1>5. outcome' \in [Callers -> Outcomes]
    BY TypesSplit DEF Submit, RestOK, Outcomes
  <1>6. CASE mailbox' = Append(mailbox, c) /\ Len(mailbox) < QueueDepth
    <2>1. /\ mailbox' \in Seq(Callers) /\ Len(mailbox') = Len(mailbox) + 1
          /\ \A i \in 1..Len(mailbox) : mailbox'[i] = mailbox[i]
          /\ mailbox'[Len(mailbox) + 1] = c
      BY <1>3, <1>6
    <2>2. Asked'
      <3>. SUFFICES ASSUME NEW i \in 1..Len(mailbox')
                    PROVE  request'[mailbox'[i]] \in Requests
        BY DEF Asked
      <3>1. CASE i = Len(mailbox) + 1
        BY <1>2, <2>1, <3>1
      <3>2. CASE i # Len(mailbox) + 1
        <4>1. i \in 1..Len(mailbox)
          BY <1>3, <2>1, <3>2
        <4>. QED  BY <1>2, <1>4, <2>1, <4>1, TypesSplit DEF Asked
      <3>. QED  BY <3>1, <3>2
    <2>3. RestOK'
      BY <1>2, <1>3, <1>5, <1>6, <2>1, TypesSplit
      DEF Submit, RestOK, sessionVars, deviceVars, historyVars
    <2>. QED  BY <2>2, <2>3, TypesSplit, BystanderSound DEF Submit, sessionVars
  <1>7. CASE mailbox' = mailbox
    <2>1. Asked'
      BY <1>2, <1>3, <1>4, <1>7, TypesSplit DEF Asked
    <2>2. RestOK'
      BY <1>2, <1>3, <1>5, <1>7, TypesSplit
      DEF Submit, RestOK, sessionVars, deviceVars, historyVars
    <2>. QED  BY <2>1, <2>2, TypesSplit, BystanderSound DEF Submit, sessionVars
  <1>8. \/ mailbox' = mailbox
        \/ mailbox' = Append(mailbox, c) /\ Len(mailbox) < QueueDepth
    BY <1>3 DEF Submit
  <1>. QED  BY <1>6, <1>7, <1>8

(* A caller gives up.                                                      *)
LEMMA GiveUpSound ==
    ASSUME IInv, NEW c \in Callers, GiveUp(c)
    PROVE  Kept
  <1>1. outcome' \in [Callers -> Outcomes]
    BY TypesSplit DEF GiveUp, RestOK, Outcomes
  <1>2. RestOK' /\ Asked'
    BY <1>1, TypesSplit
    DEF GiveUp, RestOK, Asked, sessionVars, deviceVars, historyVars
  <1>. QED  BY <1>2, TypesSplit, BystanderSound DEF GiveUp, sessionVars

(* A frame of the device leaves the stream typed.                          *)
LEMMA FrameSound ==
    ASSUME IInv, NEW m \in FromDevice
    PROVE  Append(fromDevice, m) \in Seq(FromDevice)
  BY TypesSplit DEF RestOK

(* The device answers, carries out a write, or volunteers a frame.         *)
LEMMA DeviceSound == IInv /\ (Device \/ DeviceVolunteers) => Kept
  <1>. SUFFICES ASSUME IInv, Device \/ DeviceVolunteers PROVE Kept
    OBVIOUS
  <1>1. CASE DeviceReads
    <2>1. Head(toDevice) \in ToDevice /\ Tail(toDevice) \in Seq(ToDevice)
      BY <1>1, TypesSplit, HeadTailProperties DEF DeviceReads
    <2>2. Head(toDevice).reg \in Registers
      BY <1>1, <2>1 DEF DeviceReads, ToDevice
    <2>3. [kind |-> "answer", reg |-> Head(toDevice).reg,
           val |-> device[Head(toDevice).reg], seen |-> applied] \in FromDevice
      BY <2>2, TypesSplit DEF FromDevice, RestOK
    <2>4. fromDevice' \in Seq(FromDevice) /\ lost' \subseteq Registers
      <3>1. Append(fromDevice, [kind |-> "answer", reg |-> Head(toDevice).reg,
                val |-> device[Head(toDevice).reg], seen |-> applied]) \in Seq(FromDevice)
        BY <2>3, FrameSound
      <3>2. \/ /\ fromDevice' = Append(fromDevice,
                       [kind |-> "answer", reg |-> Head(toDevice).reg,
                        val |-> device[Head(toDevice).reg], seen |-> applied])
               /\ lost' = lost
            \/ fromDevice' = fromDevice /\ lost' = lost \cup {Head(toDevice).reg}
        BY <1>1, Zenon DEF DeviceReads
      <3>. QED  BY <2>2, <3>1, <3>2, TypesSplit DEF RestOK
    <2>5. RestOK' /\ Asked'
      BY <1>1, <2>4, TypesSplit
      DEF DeviceReads, RestOK, Asked, sessionVars, callerVars, deviceVars
    <2>. QED  BY <1>1, <2>1, <2>5, BystanderSound DEF DeviceReads, sessionVars
  <1>2. CASE DeviceWrites
    <2>1. Head(toDevice) \in ToDevice /\ Tail(toDevice) \in Seq(ToDevice)
      BY <1>2, TypesSplit, HeadTailProperties DEF DeviceWrites
    <2>2. Head(toDevice).by \in Callers
      BY <1>2, <2>1 DEF DeviceWrites, ToDevice
    <2>3. [kind |-> "ack", by |-> Head(toDevice).by] \in FromDevice
      BY <2>2 DEF FromDevice
    <2>4. fromDevice' \in Seq(FromDevice)
      <3>1. Append(fromDevice, [kind |-> "ack", by |-> Head(toDevice).by])
                \in Seq(FromDevice)
        BY <2>3, FrameSound
      <3>2. \/ fromDevice' = fromDevice
            \/ fromDevice' = Append(fromDevice, [kind |-> "ack", by |-> Head(toDevice).by])
        BY <1>2, Zenon DEF DeviceWrites, Says
      <3>. QED  BY <3>1, <3>2, TypesSplit DEF RestOK
    <2>5. device' \in [Registers -> Values] /\ applied' \subseteq Callers
      BY <1>2, <2>2, TypesSplit DEF DeviceWrites, RestOK
    <2>6. RestOK' /\ Asked'
      BY <1>2, <2>4, <2>5, TypesSplit
      DEF DeviceWrites, RestOK, Asked, sessionVars, callerVars, historyVars
    <2>. QED  BY <1>2, <2>1, <2>6, BystanderSound DEF DeviceWrites, sessionVars
  <1>3. CASE DeviceVolunteers
    <2>1. [kind |-> "snapshot", vals |-> device] \in FromDevice
          /\ [kind |-> "report"] \in FromDevice
      BY TypesSplit DEF FromDevice, RestOK
    <2>2. fromDevice' \in Seq(FromDevice)
      BY <1>3, <2>1, FrameSound DEF DeviceVolunteers
    <2>3. reports' \in 0..MaxReports
      BY <1>3, TypesSplit DEF DeviceVolunteers, RestOK
    <2>4. RestOK' /\ Asked'
      BY <1>3, <2>2, <2>3, TypesSplit
      DEF DeviceVolunteers, RestOK, Asked, sessionVars, callerVars, historyVars
    <2>. QED  BY <1>3, <2>4, TypesSplit, BystanderSound DEF DeviceVolunteers, sessionVars
  <1>. QED  BY <1>1, <1>2, <1>3 DEF Device

(* A tick leaves a running timer running and an unset one unset.           *)
LEMMA TickSound == IInv /\ Tick => Kept
  <1>. SUFFICES ASSUME IInv, Tick PROVE Kept
    OBVIOUS
  <1>. DEFINE Down(t) == IF t \in {None, 0} THEN t ELSE t - 1
  <1>1. q' = [q EXCEPT !.deadline = Down(q.deadline)] /\ ack' = Down(ack)
    BY DEF Tick
  <1>2. /\ Down(q.deadline) \in Deadline(ReadTimeout)
        /\ Down(q.deadline) = None <=> q.deadline = None
    BY TypesSplit DEF ReadQueue
  <1>3. Down(ack) \in Deadline(AckTimeout) /\ (Down(ack) = None <=> ack = None)
    BY TypesSplit
  <1>4. q' \in ReadQueue /\ q'.reads = q.reads /\ q'.awaiting = q.awaiting
        /\ q'.pending = q.pending /\ q'.deadline = Down(q.deadline)
    BY <1>1, <1>2, TypesSplit DEF ReadQueue
  <1>5. QueueCoherent' /\ (NoReadStranded => NoReadStranded')
    BY <1>1, <1>2, <1>3, <1>4, TypesSplit
    DEF QueueCoherent, Coherent, NoReadStranded, Started
  <1>6. RestOK' /\ Asked' /\ toDevice' \in Seq(ToDevice)
    BY TypesSplit DEF Tick, RestOK, Asked, callerVars, deviceVars, historyVars
  <1>. QED  BY <1>1, <1>3, <1>4, <1>5, <1>6, TypesSplit DEF Kept

-----------------------------------------------------------------------------
(* The theorems.                                                           *)

(* Every step of the specification keeps the invariant.                    *)
LEMMA NextSound == IInv /\ [Next]_vars => Kept
  <1>. SUFFICES ASSUME IInv, [Next]_vars PROVE Kept
    OBVIOUS
  <1>1. CASE Connect \/ Subscribe
    BY <1>1, ConnectSound, SubscribeSound
  <1>2. CASE ConnectRefused \/ Replaced \/ PeerGone
    BY <1>2, EndingSound
  <1>3. CASE Timer
    BY <1>3, TimerSound
  <1>4. CASE Control
    BY <1>4, RefreshSound, ApplySound, SendSound, TransmitFailsSound DEF Control
  <1>5. CASE Packet
    BY <1>5, AcceptReadSound, WriteAckSound, AcceptSnapshotSound, AcceptReportSound
    DEF Packet
  <1>6. CASE \E c \in Callers : Submit(c) \/ GiveUp(c)
    BY <1>6, SubmitSound, GiveUpSound
  <1>7. CASE Device \/ DeviceVolunteers
    BY <1>7, DeviceSound
  <1>8. CASE Tick
    BY <1>8, TickSound
  <1>9. CASE UNCHANGED vars
    <2>1. RestOK' /\ Asked'
      BY <1>9, TypesSplit
      DEF vars, RestOK, Asked, sessionVars, callerVars, deviceVars, historyVars
    <2>. QED  BY <1>9, <2>1, TypesSplit, BystanderSound DEF vars, sessionVars
  <1>. QED  BY <1>1, <1>2, <1>3, <1>4, <1>5, <1>6, <1>7, <1>8, <1>9 DEF Next

(* The inductive invariant holds throughout.                               *)
THEOREM SessionInvariant == Spec => []IInv
  <1>1. IInv /\ [Next]_vars => IInv'
    BY NextSound DEF Kept
  <1>. QED  BY InitSound, <1>1, PTL DEF Spec

(* Every variable keeps its type; in particular the mailbox never holds    *)
(* more than QueueDepth requests.                                          *)
THEOREM TypeCorrect == Spec => []TypeOK
  <1>1. IInv => TypeOK
    BY DEF IInv
  <1>. QED  BY SessionInvariant, <1>1, PTL

(* No read waits without a deadline, and none is decided on and forgotten  *)
(* unless a write in flight holds it: QueueCoherent, for every number of   *)
(* callers and registers, every mix of requests and every device.          *)
THEOREM QueueAlwaysCoherent == Spec => []QueueCoherent
  <1>1. IInv => QueueCoherent
    BY DEF IInv
  <1>. QED  BY SessionInvariant, <1>1, PTL

(* A session that is never sent an acknowledged command through            *)
(* Action::Send strands no read.                                           *)
THEOREM SettingsNeverStrand ==
    ASSUME SettingsOnly
    PROVE  Spec => []NoReadStranded
  <1>1. NoReadStranded /\ IInv /\ [Next]_vars => NoReadStranded'
    BY NextSound DEF Kept
  <1>. QED  BY InitSound, SessionInvariant, <1>1, PTL DEF Spec

-----------------------------------------------------------------------------
(* Where the replies are.  Who waits on the reads of a queue, and that     *)
(* nobody waits on two of them.                                            *)

RepliesOf(reads) == {reads[i].reply : i \in 1..Len(reads)} \ {None}

Apart(reads) ==
    \A i, j \in 1..Len(reads) :
        reads[i].reply = reads[j].reply /\ reads[i].reply # None => i = j

Awaited(s) == IF s.awaiting = None THEN {} ELSE {s.awaiting.reply} \ {None}

Replies(s) == RepliesOf(s.reads) \cup Awaited(s)

OnceEach(s) == Apart(s.reads) /\ Awaited(s) \cap RepliesOf(s.reads) = {}

(* Taking the first read off takes its reply with it, and no other.        *)
LEMMA TailReplies ==
    ASSUME NEW reads \in Seq(PendingRead), reads # <<>>, Apart(reads)
    PROVE  /\ Apart(Tail(reads))
           /\ RepliesOf(reads) = RepliesOf(Tail(reads)) \cup ({Head(reads).reply} \ {None})
           /\ Head(reads).reply \notin RepliesOf(Tail(reads))
  <1>1. /\ Len(reads) \in Nat /\ Len(reads) >= 1 /\ Head(reads) = reads[1]
        /\ Len(Tail(reads)) = Len(reads) - 1
        /\ \A i \in 1..Len(Tail(reads)) : Tail(reads)[i] = reads[i + 1]
    BY LenProperties, HeadTailProperties, EmptySeq
  <1>2. PICK n \in Nat : n = Len(Tail(reads)) /\ Len(reads) = n + 1
    <2>1. PICK k \in Nat : k = Len(reads) /\ k >= 1
      BY <1>1
    <2>2. k - 1 \in Nat /\ (k - 1) + 1 = k
      BY <2>1
    <2>. QED  BY <1>1, <2>1, <2>2
  <1>3. \A i \in 1..n : Tail(reads)[i] = reads[i + 1] /\ i + 1 \in 1..(n + 1) /\ i + 1 # 1
    BY <1>1, <1>2
  <1>4. Apart(Tail(reads))
    <2>1. ASSUME NEW i \in 1..n, NEW j \in 1..n, Tail(reads)[i].reply = Tail(reads)[j].reply,
                 Tail(reads)[i].reply # None
          PROVE  i = j
      <3>1. i + 1 = j + 1
        BY <1>2, <1>3, <2>1 DEF Apart
      <3>. QED  BY <3>1
    <2>. QED  BY <1>2, <2>1 DEF Apart
  <1>5. \A i \in 1..(n + 1) : i = 1 \/ (i - 1 \in 1..n /\ reads[i] = Tail(reads)[i - 1])
    <2>1. ASSUME NEW i \in 1..(n + 1), i # 1
          PROVE  i - 1 \in 1..n /\ reads[i] = Tail(reads)[i - 1]
      <3>1. i - 1 \in 1..n /\ (i - 1) + 1 = i
        BY <2>1
      <3>. QED  BY <1>3, <3>1
    <2>. QED  BY <2>1
  <1>6. RepliesOf(reads) = RepliesOf(Tail(reads)) \cup ({Head(reads).reply} \ {None})
    <2>1. ASSUME NEW x, x # None, NEW i \in 1..(n + 1), reads[i].reply = x
          PROVE  x = Head(reads).reply \/ \E j \in 1..n : Tail(reads)[j].reply = x
      BY <1>1, <1>5, <2>1
    <2>2. ASSUME NEW x, x # None, NEW j \in 1..n, Tail(reads)[j].reply = x
          PROVE  \E i \in 1..(n + 1) : reads[i].reply = x
      BY <1>3, <2>2
    <2>3. 1 \in 1..(n + 1)
      OBVIOUS
    <2>. QED  BY <1>1, <1>2, <2>1, <2>2, <2>3 DEF RepliesOf
  <1>7. Head(reads).reply \notin RepliesOf(Tail(reads))
    <2>1. ASSUME NEW j \in 1..n, Tail(reads)[j].reply = Head(reads).reply,
                 Head(reads).reply # None
          PROVE  FALSE
      <3>1. 1 \in 1..(n + 1)
        OBVIOUS
      <3>4. reads[1].reply = reads[j + 1].reply /\ j + 1 \in 1..(n + 1)
        BY <1>1, <1>3, <2>1, Zenon
      <3>2. j + 1 = 1
        BY <1>1, <1>2, <2>1, <3>1, <3>4 DEF Apart
      <3>. QED  BY <1>3, <3>2
    <2>. QED  BY <1>2, <2>1 DEF RepliesOf
  <1>. QED  BY <1>4, <1>6, <1>7

(* Putting a read in front adds its reply.                                 *)
LEMMA ConsReplies ==
    ASSUME NEW reads \in Seq(PendingRead), NEW x \in PendingRead, Apart(reads),
           x.reply \notin RepliesOf(reads)
    PROVE  /\ Apart(<<x>> \o reads)
           /\ RepliesOf(<<x>> \o reads) = RepliesOf(reads) \cup ({x.reply} \ {None})
  <1>. DEFINE more == <<x>> \o reads
  <1>1. PICK n \in Nat : n = Len(reads)
    BY LenProperties
  <1>2. more \in Seq(PendingRead) /\ Len(more) = n + 1
    BY <1>1, ConcatProperties
  <1>3. more[1] = x /\ \A i \in 1..n : more[i + 1] = reads[i]
    BY <1>1, ConcatProperties
  <1>4. more # <<>> /\ Tail(more) = reads /\ Head(more) = x
    BY <1>2, <1>3
  <1>. HIDE DEF more
  <1>5. \A i \in 1..(n + 1) : i = 1 \/ (i - 1 \in 1..n /\ more[i] = reads[i - 1])
    <2>1. ASSUME NEW i \in 1..(n + 1), i # 1
          PROVE  i - 1 \in 1..n /\ more[i] = reads[i - 1]
      <3>1. i - 1 \in 1..n /\ (i - 1) + 1 = i
        BY <2>1
      <3>. QED  BY <1>3, <3>1
    <2>. QED  BY <2>1
  <1>6. \A i \in 1..n : reads[i].reply # None => reads[i].reply # x.reply
    BY <1>1 DEF RepliesOf
  <1>7. Apart(more)
    <2>1. ASSUME NEW i \in 1..(n + 1), NEW j \in 1..(n + 1), more[i].reply = more[j].reply,
                 more[i].reply # None
          PROVE  i = j
      <3>1. CASE i = 1 /\ j = 1
        BY <3>1
      <3>2. CASE i = 1 /\ j # 1
        BY <1>3, <1>5, <1>6, <2>1, <3>2
      <3>3. CASE i # 1 /\ j = 1
        BY <1>3, <1>5, <1>6, <2>1, <3>3
      <3>4. CASE i # 1 /\ j # 1
        <4>1. i - 1 \in 1..n /\ j - 1 \in 1..n /\ reads[i - 1].reply = reads[j - 1].reply
              /\ reads[i - 1].reply # None
          BY <1>5, <2>1, <3>4
        <4>2. i - 1 = j - 1
          BY <1>1, <4>1 DEF Apart
        <4>. QED  BY <4>2
      <3>. QED  BY <3>1, <3>2, <3>3, <3>4
    <2>. QED  BY <1>2, <2>1 DEF Apart
  <1>8. RepliesOf(more) = RepliesOf(reads) \cup ({x.reply} \ {None})
    BY <1>2, <1>4, <1>7, TailReplies
  <1>. QED  BY <1>7, <1>8 DEF more

(* Reads nobody waits on, at the end, change nothing.                      *)
LEMMA UnaskedReplies ==
    ASSUME NEW reads \in Seq(PendingRead), NEW more \in Seq(PendingRead), Apart(reads),
           \A i \in 1..Len(more) : more[i].reply = None
    PROVE  Apart(reads \o more) /\ RepliesOf(reads \o more) = RepliesOf(reads)
  <1>1. PICK m \in Nat, n \in Nat : m = Len(reads) /\ n = Len(more)
    BY LenProperties
  <1>. DEFINE all == reads \o more
  <1>2. /\ Len(all) = m + n
        /\ \A i \in 1..(m + n) : all[i] = IF i <= m THEN reads[i] ELSE more[i - m]
    BY <1>1, ConcatProperties
  <1>. HIDE DEF all
  <1>3. \A i \in 1..(m + n) : i \in 1..m \/ i - m \in 1..n
    OBVIOUS
  <1>4. \A i \in 1..(m + n) : all[i].reply # None => i \in 1..m /\ all[i] = reads[i]
    BY <1>1, <1>2, <1>3
  <1>5. \A i \in 1..m : i \in 1..(m + n) /\ all[i] = reads[i]
    BY <1>2
  <1>6. Apart(all)
    BY <1>1, <1>2, <1>4 DEF Apart
  <1>7. RepliesOf(all) = RepliesOf(reads)
    BY <1>1, <1>2, <1>4, <1>5 DEF RepliesOf
  <1>. QED  BY <1>6, <1>7 DEF all

-----------------------------------------------------------------------------
(* What the queue's operations do to the replies.                          *)

(* start_next_read: the replies queued are kept, one of them now awaited.  *)
LEMMA StartNextReadReplies ==
    ASSUME NEW s \in ReadQueue, Apart(s.reads)
    PROVE  /\ OnceEach(StartNextRead(s))
           /\ Replies(StartNextRead(s)) = RepliesOf(s.reads)
  <1>1. s.reads \in Seq(PendingRead)
    BY DEF ReadQueue
  <1>2. CASE s.reads = <<>>
    BY <1>2 DEF StartNextRead, ReadQueue, OnceEach, Replies, Awaited
  <1>3. CASE s.reads # <<>>
    <2>1. Head(s.reads) \in PendingRead
      BY <1>1, <1>3, HeadTailProperties
    <2>2. Head(s.reads) # None
      BY <2>1
    <2>3. /\ StartNextRead(s).reads = Tail(s.reads)
          /\ StartNextRead(s).awaiting = Head(s.reads)
      BY <1>3 DEF StartNextRead
    <2>4. Awaited(StartNextRead(s)) = {Head(s.reads).reply} \ {None}
      BY <2>2, <2>3 DEF Awaited
    <2>. QED  BY <1>1, <1>3, <2>3, <2>4, TailReplies DEF OnceEach, Replies
  <1>. QED  BY <1>2, <1>3

(* enqueue_verification: its reply is added.                               *)
LEMMA EnqueueVerificationReplies ==
    ASSUME NEW s \in ReadQueue, NEW r \in Registers,
           NEW requested \in Values \cup {None}, NEW reply \in Callers \cup {None},
           OnceEach(s), reply \notin Replies(s)
    PROVE  /\ OnceEach(EnqueueVerification(s, r, requested, reply))
           /\ Replies(EnqueueVerification(s, r, requested, reply)) =
                  Replies(s) \cup ({reply} \ {None})
  <1>. DEFINE x == Read(r, "verify", requested, reply)
              queued == [s EXCEPT !.reads = <<x>> \o s.reads]
  <1>1. x \in PendingRead /\ x.reply = reply
    BY ReadType DEF Read
  <1>2. s.reads \in Seq(PendingRead)
    BY DEF ReadQueue
  <1>3. /\ Apart(<<x>> \o s.reads)
        /\ RepliesOf(<<x>> \o s.reads) = RepliesOf(s.reads) \cup ({reply} \ {None})
    BY <1>1, <1>2, ConsReplies DEF OnceEach, Replies
  <1>4. <<x>> \in Seq(PendingRead)
    BY <1>1
  <1>5. <<x>> \o s.reads \in Seq(PendingRead)
    BY <1>2, <1>4, ConcatProperties
  <1>6. /\ queued \in ReadQueue /\ queued.reads = <<x>> \o s.reads
        /\ queued.awaiting = s.awaiting
    BY <1>5 DEF ReadQueue
  <1>7. Awaited(queued) = Awaited(s)
    BY <1>6 DEF Awaited
  <1>8. EnqueueVerification(s, r, requested, reply) =
            IF s.awaiting = None THEN StartNextRead(queued) ELSE queued
    BY DEF EnqueueVerification
  <1>. HIDE DEF queued, x
  <1>9. CASE s.awaiting = None
    <2>1. Awaited(s) = {}
      BY <1>9 DEF Awaited
    <2>. QED  BY <1>3, <1>6, <1>8, <1>9, <2>1, StartNextReadReplies DEF Replies
  <1>10. CASE s.awaiting # None
    <2>1. EnqueueVerification(s, r, requested, reply) = queued
      BY <1>8, <1>10
    <2>2. reply # None => reply \notin Awaited(s)
      BY DEF Replies
    <2>3. OnceEach(queued)
      BY <1>3, <1>6, <1>7, <2>2 DEF OnceEach
    <2>4. Replies(queued) = Replies(s) \cup ({reply} \ {None})
      BY <1>3, <1>6, <1>7 DEF Replies
    <2>. QED  BY <2>1, <2>3, <2>4
  <1>. QED  BY <1>9, <1>10

(* Standing a read down takes its reply back into the queue.               *)
LEMMA StandDownReplies ==
    ASSUME NEW s \in ReadQueue, OnceEach(s)
    PROVE  OnceEach(StandDown(s)) /\ Replies(StandDown(s)) = Replies(s)
  <1>1. s.reads \in Seq(PendingRead)
    BY DEF ReadQueue
  <1>2. StandDown(s).awaiting = None /\ Awaited(StandDown(s)) = {}
    BY DEF StandDown, Awaited
  <1>3. CASE s.awaiting = None
    <2>1. StandDown(s).reads = s.reads
      BY <1>1, <1>3, ConcatEmptySeq DEF StandDown
    <2>. QED  BY <1>2, <1>3, <2>1 DEF OnceEach, Replies, Awaited
  <1>4. CASE s.awaiting # None
    <2>1. StandDown(s).reads = <<s.awaiting>> \o s.reads /\ s.awaiting \in PendingRead
      BY <1>4 DEF StandDown, ReadQueue
    <2>2. s.awaiting.reply \notin RepliesOf(s.reads)
      BY <1>4 DEF OnceEach, Awaited, RepliesOf
    <2>. QED  BY <1>1, <1>2, <1>4, <2>1, <2>2, ConsReplies DEF OnceEach, Replies, Awaited
  <1>. QED  BY <1>3, <1>4

(* Queueing the read-backs of a write adds its caller, once.               *)
LEMMA EnqueueAllReplies ==
    ASSUME NEW s \in ReadQueue, NEW req, NEW c \in Callers, Coherent(s), OnceEach(s),
           c \notin Replies(s), req.reg \in Registers, req.val \in Values
    PROVE  /\ OnceEach(EnqueueAll(s, Verify(req), c))
           /\ Replies(EnqueueAll(s, Verify(req), c)) = Replies(s) \cup {c}
  <1>. DEFINE first == EnqueueVerification(s, req.reg, req.val, c)
  <1>1. first \in ReadQueue /\ OnceEach(first) /\ Replies(first) = Replies(s) \cup {c}
    BY EnqueueVerificationSound, EnqueueVerificationReplies
  <1>2. None \notin Replies(first)
    BY DEF Replies, RepliesOf, Awaited
  <1>3. CASE req.reg = PowerPlus
    <2>1. EnqueueAll(s, Verify(req), c) =
            EnqueueVerification(first, OutputPower, None, None)
      BY <1>3 DEF EnqueueAll, Verify
    <2>. QED  BY <1>1, <1>2, <2>1, EnqueueVerificationReplies
  <1>4. CASE req.reg # PowerPlus
    <2>1. EnqueueAll(s, Verify(req), c) = first
      BY <1>4 DEF EnqueueAll, Verify
    <2>. QED  BY <1>1, <2>1
  <1>. QED  BY <1>3, <1>4

(* The startup read-back keeps the replies queued.                         *)
LEMMA BeginResyncReplies ==
    ASSUME NEW s \in ReadQueue, Apart(s.reads)
    PROVE  OnceEach(BeginResync(s)) /\ Replies(BeginResync(s)) = RepliesOf(s.reads)
  <1>. DEFINE resync == [i \in 1..Len(ResyncOrder) |->
                           Read(ResyncOrder[i], "resync", None, None)]
              queued == [s EXCEPT !.reads = s.reads \o resync]
  <1>1. resync \in [1..Len(ResyncOrder) -> PendingRead]
    BY ReadType
  <1>2. resync \in Seq(PendingRead) /\ Len(resync) = Len(ResyncOrder)
    BY <1>1, Len(ResyncOrder) \in Nat, SeqDef
  <1>3. \A i \in 1..Len(resync) : resync[i].reply = None
    BY <1>2 DEF Read
  <1>4. s.reads \in Seq(PendingRead)
    BY DEF ReadQueue
  <1>. HIDE DEF resync
  <1>5. queued \in ReadQueue /\ queued.reads = s.reads \o resync
    BY <1>2, ConcatProperties DEF ReadQueue
  <1>6. Apart(queued.reads) /\ RepliesOf(queued.reads) = RepliesOf(s.reads)
    BY <1>2, <1>3, <1>4, <1>5, UnaskedReplies
  <1>. QED  BY <1>5, <1>6, StartNextReadReplies DEF BeginResync, resync

-----------------------------------------------------------------------------
(* Who is in the mailbox.                                                  *)

MailOf(box) == {box[i] : i \in 1..Len(box)}

Once(box) == \A i, j \in 1..Len(box) : box[i] = box[j] => i = j

LEMMA TailMail ==
    ASSUME NEW box \in Seq(Callers), box # <<>>, Once(box)
    PROVE  /\ Once(Tail(box)) /\ Head(box) \in MailOf(box)
           /\ MailOf(Tail(box)) = MailOf(box) \ {Head(box)}
  <1>1. /\ Len(box) \in Nat /\ Len(box) >= 1 /\ Head(box) = box[1]
        /\ Len(Tail(box)) = Len(box) - 1
        /\ \A i \in 1..Len(Tail(box)) : Tail(box)[i] = box[i + 1]
    BY LenProperties, HeadTailProperties, EmptySeq
  <1>2. PICK n \in Nat : n = Len(Tail(box)) /\ Len(box) = n + 1
    <2>1. PICK k \in Nat : k = Len(box) /\ k >= 1
      BY <1>1
    <2>2. k - 1 \in Nat /\ (k - 1) + 1 = k
      BY <2>1
    <2>. QED  BY <1>1, <2>1, <2>2
  <1>3. /\ \A i \in 1..n : Tail(box)[i] = box[i + 1] /\ i + 1 \in 1..(n + 1) /\ i + 1 # 1
        /\ 1 \in 1..(n + 1)
    BY <1>1, <1>2
  <1>4. \A i \in 1..(n + 1) : i = 1 \/ (i - 1 \in 1..n /\ box[i] = Tail(box)[i - 1])
    <2>1. ASSUME NEW i \in 1..(n + 1), i # 1
          PROVE  i - 1 \in 1..n /\ box[i] = Tail(box)[i - 1]
      <3>1. i - 1 \in 1..n /\ (i - 1) + 1 = i
        BY <2>1
      <3>. QED  BY <1>3, <3>1
    <2>. QED  BY <2>1
  <1>5. Once(Tail(box))
    <2>1. ASSUME NEW i \in 1..n, NEW j \in 1..n, Tail(box)[i] = Tail(box)[j]
          PROVE  i = j
      <3>1. i + 1 = j + 1
        BY <1>2, <1>3, <2>1 DEF Once
      <3>. QED  BY <3>1
    <2>. QED  BY <1>2, <2>1 DEF Once
  <1>6. Head(box) \in MailOf(box)
    BY <1>1, <1>2, <1>3 DEF MailOf
  <1>7. ASSUME NEW x \in MailOf(box), x # Head(box)
        PROVE  x \in MailOf(Tail(box))
    <2>1. PICK i \in 1..(n + 1) : x = box[i]
      BY <1>2 DEF MailOf
    <2>2. i - 1 \in 1..n /\ x = Tail(box)[i - 1]
      BY <1>1, <1>4, <1>7, <2>1
    <2>. QED  BY <1>2, <2>2 DEF MailOf
  <1>8. ASSUME NEW x \in MailOf(Tail(box))
        PROVE  x \in MailOf(box) /\ x # Head(box)
    <2>1. PICK i \in 1..n : x = Tail(box)[i]
      BY <1>2 DEF MailOf
    <2>2. x = box[i + 1] /\ i + 1 \in 1..(n + 1) /\ i + 1 # 1
      BY <1>3, <2>1
    <2>3. box[i + 1] # box[1]
      BY <1>2, <1>3, <2>2 DEF Once
    <2>. QED  BY <1>1, <1>2, <2>2, <2>3 DEF MailOf
  <1>. QED  BY <1>5, <1>6, <1>7, <1>8

LEMMA AppendMail ==
    ASSUME NEW box \in Seq(Callers), NEW c \in Callers, Once(box), c \notin MailOf(box)
    PROVE  Once(Append(box, c)) /\ MailOf(Append(box, c)) = MailOf(box) \cup {c}
  <1>. DEFINE more == Append(box, c)
  <1>1. PICK n \in Nat : n = Len(box)
    BY LenProperties
  <1>2. /\ Len(more) = n + 1 /\ more[n + 1] = c
        /\ \A i \in 1..n : more[i] = box[i]
    BY <1>1, AppendProperties
  <1>. HIDE DEF more
  <1>3. /\ \A i \in 1..(n + 1) : i = n + 1 \/ (i \in 1..n /\ more[i] = box[i])
        /\ \A i \in 1..n : i \in 1..(n + 1) /\ more[i] = box[i] /\ box[i] # c
        /\ n + 1 \in 1..(n + 1)
    BY <1>1, <1>2 DEF MailOf
  <1>4. Once(more)
    <2>1. ASSUME NEW i \in 1..(n + 1), NEW j \in 1..(n + 1), more[i] = more[j]
          PROVE  i = j
      <3>1. CASE i \in 1..n /\ j \in 1..n
        BY <1>1, <1>3, <2>1, <3>1 DEF Once
      <3>2. CASE i = n + 1 \/ j = n + 1
        BY <1>2, <1>3, <2>1, <3>2
      <3>. QED  BY <1>3, <3>1, <3>2
    <2>. QED  BY <1>2, <2>1 DEF Once
  <1>5. MailOf(more) = MailOf(box) \cup {c}
    BY <1>1, <1>2, <1>3 DEF MailOf
  <1>. QED  BY <1>4, <1>5 DEF more

-----------------------------------------------------------------------------
(* The reply of whoever waits is in the mailbox, queued with a read or     *)
(* awaited with it; nobody is in two of these places, or in one of them    *)
(* twice, and nobody is in one who has not asked.                          *)
EachHeld ==
    /\ Once(mailbox) /\ OnceEach(q) /\ MailOf(mailbox) \cap Replies(q) = {}
    /\ \A c \in Callers : outcome[c] = "idle" => c \notin MailOf(mailbox) \cup Replies(q)
    /\ \A c \in Callers : outcome[c] = "waiting" => c \in MailOf(mailbox) \cup Replies(q)

LEMMA InitHolds == Init => EachHeld
  BY DEF Init, EachHeld, Once, OnceEach, MailOf, Replies, RepliesOf, Awaited, Apart

(* Only a caller waits, and is somewhere.                                  *)
LEMMA HoldersAreCallers ==
    ASSUME IInv PROVE Replies(q) \subseteq Callers /\ MailOf(mailbox) \subseteq Callers
  <1>1. q \in ReadQueue /\ mailbox \in Seq(Callers)
    BY TypesSplit DEF RestOK
  <1>2. q.reads \in Seq(PendingRead) /\ q.awaiting \in PendingRead \cup {None}
    BY <1>1 DEF ReadQueue
  <1>3. \A i \in 1..Len(q.reads) : q.reads[i] \in PendingRead
    BY <1>2, ElementOfSeq
  <1>4. RepliesOf(q.reads) \subseteq Callers
    BY <1>3 DEF RepliesOf, PendingRead
  <1>5. Awaited(q) \subseteq Callers
    BY <1>2 DEF Awaited, PendingRead
  <1>6. MailOf(mailbox) \subseteq Callers
    BY <1>1, ElementOfSeq DEF MailOf
  <1>. QED  BY <1>4, <1>5, <1>6 DEF Replies

(* Telling takes nobody back among those that wait or have not asked.      *)
LEMMA TellHolds ==
    ASSUME IInv, NEW c \in Callers \cup {None}, NEW what, what \notin {"waiting", "idle"},
           Tell(c, what)
    PROVE  /\ \A d \in Callers : outcome'[d] \in {"waiting", "idle"} => outcome'[d] = outcome[d]
           /\ c \in Callers => outcome'[c] # "waiting"
  <1>1. outcome \in [Callers -> Outcomes]
    BY TypesSplit DEF RestOK
  <1>. QED  BY <1>1 DEF Tell, Waiting

(* A handler that ends in send_pending_read, that keeps everyone apart,    *)
(* and that has told whoever is in no place any more.                      *)
LEMMA HandlerHolds ==
    ASSUME IInv, EachHeld, NEW s \in ReadQueue, NEW a, NEW sentBefore,
           SendPendingRead(s, a, sentBefore), OnceEach(s),
           Once(mailbox'), MailOf(mailbox') \cap Replies(s) = {},
           MailOf(mailbox') \cup Replies(s) \subseteq MailOf(mailbox) \cup Replies(q),
           \A d \in Callers : outcome'[d] \in {"waiting", "idle"} => outcome'[d] = outcome[d],
           \A d \in MailOf(mailbox) \cup Replies(q) :
               d \in MailOf(mailbox') \cup Replies(s) \/ outcome'[d] # "waiting"
    PROVE  EachHeld'
  <1>1. q'.reads = s.reads /\ q'.awaiting = s.awaiting
    BY DEF SendPendingRead, ReadQueue
  <1>2. Replies(q') = Replies(s) /\ OnceEach(q')
    BY <1>1 DEF Replies, Awaited, OnceEach
  <1>3. OnceEach(q)' <=> OnceEach(q')
    BY DEF OnceEach, Awaited, RepliesOf, Apart
  <1>4. Replies(q)' = Replies(q')
    BY DEF Replies, Awaited, RepliesOf
  <1>5. Once(mailbox)' /\ MailOf(mailbox)' = MailOf(mailbox')
    BY DEF Once, MailOf
  <1>. HIDE DEF EachHeld
  <1>6. \A c \in Callers : outcome'[c] = "idle" => c \notin MailOf(mailbox') \cup Replies(s)
    BY DEF EachHeld
  <1>7. \A c \in Callers : outcome'[c] = "waiting" => c \in MailOf(mailbox') \cup Replies(s)
    BY DEF EachHeld
  <1>. QED  BY <1>2, <1>3, <1>4, <1>5, <1>6, <1>7 DEF EachHeld

(* The same, where nobody moves and nobody but those told is told.         *)
LEMMA NobodyMoves ==
    ASSUME IInv, EachHeld, q'.reads = q.reads, q'.awaiting = q.awaiting,
           mailbox' = mailbox,
           \A d \in Callers : outcome'[d] \in {"waiting", "idle"} => outcome'[d] = outcome[d]
    PROVE  EachHeld'
  <1>1. Replies(q)' = Replies(q) /\ (OnceEach(q)' <=> OnceEach(q))
    BY DEF Replies, Awaited, RepliesOf, OnceEach, Apart
  <1>2. Once(mailbox)' /\ MailOf(mailbox)' = MailOf(mailbox)
    BY DEF EachHeld, Once, MailOf
  <1>. QED  BY <1>1, <1>2 DEF EachHeld

(* A session that ends has told everyone.                                  *)
LEMMA EndSessionHolds ==
    ASSUME IInv, EachHeld, NEW why, NEW told, NEW what, what # "waiting", what # "idle",
           EndSession(why, told, what)
    PROVE  EachHeld'
  <1>1. /\ mailbox' = <<>> /\ q'.reads = <<>> /\ q'.awaiting = None
        /\ \A d \in Callers : outcome'[d] # "waiting"
    BY DEF EndSession
  <1>. QED
    BY <1>1 DEF EachHeld, Once, OnceEach, MailOf, Replies, RepliesOf, Awaited, Apart

(* The request taken up is its caller's only one.                          *)
LEMMA NextRequestHolds ==
    ASSUME IInv, EachHeld, NEW c \in Callers, NextRequest(c), mailbox' = Tail(mailbox)
    PROVE  /\ Once(mailbox') /\ MailOf(mailbox') = MailOf(mailbox) \ {c}
           /\ c \in MailOf(mailbox) /\ c \notin Replies(q)
  <1>1. mailbox \in Seq(Callers) /\ mailbox # <<>> /\ c = Head(mailbox)
    BY TypesSplit DEF RestOK, NextRequest
  <1>. QED  BY <1>1, TailMail DEF EachHeld

(* Starting the next read leaves out whoever waited on the one awaited,    *)
(* which is why every handler that does so tells them first.               *)
LEMMA LeftOut ==
    ASSUME IInv, EachHeld, NEW what, what \notin {"waiting", "idle"},
           Tell(Holder(q.awaiting), what), mailbox' = mailbox,
           NEW s \in ReadQueue, NEW a, NEW sentBefore, SendPendingRead(s, a, sentBefore),
           OnceEach(s), Replies(s) = RepliesOf(q.reads)
    PROVE  EachHeld'
  <1>1. Holder(q.awaiting) \in Callers \cup {None}
    BY TypesSplit DEF ReadQueue, Holder, PendingRead
  <1>2. /\ \A d \in Callers : outcome'[d] \in {"waiting", "idle"} => outcome'[d] = outcome[d]
        /\ Holder(q.awaiting) \in Callers => outcome'[Holder(q.awaiting)] # "waiting"
    BY <1>1, TellHolds
  <1>3. Awaited(q) \subseteq {Holder(q.awaiting)} /\ Awaited(q) \subseteq Callers
    BY HoldersAreCallers DEF Awaited, Holder, Replies
  <1>4. Once(mailbox') /\ MailOf(mailbox') = MailOf(mailbox)
    BY DEF EachHeld
  <1>5. MailOf(mailbox) \cap Replies(q) = {} /\ Replies(q) = RepliesOf(q.reads) \cup Awaited(q)
    BY DEF EachHeld, Replies
  <1>6. \A d \in MailOf(mailbox) \cup Replies(q) :
            d \in MailOf(mailbox') \cup Replies(s) \/ outcome'[d] # "waiting"
    BY <1>2, <1>3, <1>4, <1>5
  <1>7. /\ MailOf(mailbox') \cap Replies(s) = {}
        /\ MailOf(mailbox') \cup Replies(s) \subseteq MailOf(mailbox) \cup Replies(q)
    BY <1>4, <1>5
  <1>. QED  BY <1>2, <1>4, <1>6, <1>7, HandlerHolds

(* A handler that leaves the queue as it is and moves nobody.              *)
LEMMA SendsOnly ==
    ASSUME IInv, EachHeld, NEW a, NEW sentBefore, SendPendingRead(q, a, sentBefore),
           mailbox' = mailbox, outcome' = outcome
    PROVE  EachHeld'
  <1>1. q'.reads = q.reads /\ q'.awaiting = q.awaiting
    BY TypesSplit DEF SendPendingRead, ReadQueue
  <1>. QED  BY <1>1, NobodyMoves

(* The handlers that start the next read.                                  *)
LEMMA StartingHolds ==
    ASSUME IInv, EachHeld, Subscribe \/ ReadTimedOut \/ AcceptRead PROVE EachHeld'
  <1>1. q \in ReadQueue /\ Apart(q.reads)
    BY TypesSplit DEF EachHeld, OnceEach
  <1>2. CASE Subscribe
    BY <1>1, <1>2, BeginResyncSound, BeginResyncReplies, LeftOut DEF Subscribe
  <1>3. CASE ReadTimedOut
    BY <1>1, <1>3, StartNextReadSound, StartNextReadReplies, LeftOut DEF ReadTimedOut, callerVars
  <1>4. CASE AcceptRead
    <2>. DEFINE m == Head(fromDevice)
                expected == q.awaiting # None /\ q.awaiting.reg = m.reg
    <2>1. CASE expected
      <3>1. Tell(Holder(q.awaiting), Settled(q.awaiting, m.val))
        BY <1>4, <2>1 DEF AcceptRead, Holder
      <3>2. Settled(q.awaiting, m.val) \notin {"waiting", "idle"}
        BY DEF Settled
      <3>3. SendPendingRead(StartNextRead(q), ack, toDevice) /\ mailbox' = mailbox
        BY <1>4, <2>1 DEF AcceptRead
      <3>. QED  BY <1>1, <3>1, <3>2, <3>3, StartNextReadSound, StartNextReadReplies, LeftOut
    <2>2. CASE ~ expected
      <3>1. SendPendingRead(q, ack, toDevice) /\ mailbox' = mailbox /\ outcome' = outcome
        BY <1>4, <2>2 DEF AcceptRead
      <3>. QED  BY <3>1, SendsOnly
    <2>. QED  BY <2>1, <2>2
  <1>. QED  BY <1>2, <1>3, <1>4

(* Control requests: the caller's reply leaves the mailbox, and is queued  *)
(* with a read or used.                                                    *)
LEMMA ControlHolds ==
    ASSUME IInv, EachHeld, NEW c \in Callers,
           HandleRefresh(c) \/ HandleApply(c) \/ HandleSend(c) \/ TransmitFails(c)
    PROVE  EachHeld'
  <1>1. /\ q \in ReadQueue /\ Coherent(q) /\ OnceEach(q)
        /\ MailOf(mailbox) \cap Replies(q) = {}
    BY TypesSplit DEF EachHeld
  <1>2. CASE HandleRefresh(c)
    <2>. DEFINE s == EnqueueVerification(q, request[c].reg, None, c)
    <2>1. /\ NextRequest(c) /\ mailbox' = Tail(mailbox) /\ outcome' = outcome
          /\ request' = request /\ SendPendingRead(s, ack, toDevice)
      BY <1>2 DEF HandleRefresh
    <2>2. /\ Once(mailbox') /\ MailOf(mailbox') = MailOf(mailbox) \ {c}
          /\ c \in MailOf(mailbox) /\ c \notin Replies(q)
      BY <2>1, NextRequestHolds
    <2>3. request[c].reg \in Registers
      BY <1>2, <2>1, NextRequestSound DEF HandleRefresh, Request
    <2>4. s \in ReadQueue /\ OnceEach(s) /\ Replies(s) = Replies(q) \cup {c}
      BY <1>1, <2>2, <2>3, EnqueueVerificationSound, EnqueueVerificationReplies
    <2>5. /\ MailOf(mailbox') \cap Replies(s) = {}
          /\ MailOf(mailbox') \cup Replies(s) = MailOf(mailbox) \cup Replies(q)
      BY <1>1, <2>2, <2>4
    <2>. QED  BY <2>1, <2>2, <2>4, <2>5, HandlerHolds
  <1>3. CASE HandleApply(c)
    <2>. DEFINE s == EnqueueAll(StandDown(q), Verify(request[c]), c)
    <2>1. /\ NextRequest(c) /\ mailbox' = Tail(mailbox) /\ outcome' = outcome
          /\ request' = request /\ SendPendingRead(s, AckTimeout, Write(c))
      BY <1>3 DEF HandleApply
    <2>2. /\ Once(mailbox') /\ MailOf(mailbox') = MailOf(mailbox) \ {c}
          /\ c \in MailOf(mailbox) /\ c \notin Replies(q)
      BY <2>1, NextRequestHolds
    <2>3. request[c].reg \in Registers /\ request[c].val \in Values
      BY <1>3, <2>1, NextRequestSound DEF HandleApply, Expressible, Request
    <2>4. /\ StandDown(q) \in ReadQueue /\ Coherent(StandDown(q))
          /\ OnceEach(StandDown(q)) /\ Replies(StandDown(q)) = Replies(q)
      BY <1>1, StandDownSound, StandDownReplies
    <2>5. s \in ReadQueue /\ OnceEach(s) /\ Replies(s) = Replies(q) \cup {c}
      BY <2>2, <2>3, <2>4, EnqueueAllSound, EnqueueAllReplies
    <2>6. /\ MailOf(mailbox') \cap Replies(s) = {}
          /\ MailOf(mailbox') \cup Replies(s) = MailOf(mailbox) \cup Replies(q)
      BY <1>1, <2>2, <2>5
    <2>. QED  BY <2>1, <2>2, <2>5, <2>6, HandlerHolds
  <1>4. CASE HandleSend(c)
    <2>1. NextRequest(c) /\ mailbox' = Tail(mailbox) /\ Tell(c, "sent")
      BY <1>4 DEF HandleSend
    <2>2. /\ Once(mailbox') /\ MailOf(mailbox') = MailOf(mailbox) \ {c}
          /\ c \in MailOf(mailbox) /\ c \notin Replies(q)
      BY <2>1, NextRequestHolds
    <2>3. /\ \A d \in Callers : outcome'[d] \in {"waiting", "idle"} => outcome'[d] = outcome[d]
          /\ outcome'[c] # "waiting"
      BY <2>1, TellHolds
    <2>4. PICK s \in ReadQueue, a \in {ack, AckTimeout}, sentBefore \in {toDevice, Write(c)} :
              SendPendingRead(s, a, sentBefore) /\ OnceEach(s) /\ Replies(s) = Replies(q)
      <3>1. CASE Acknowledged(request[c])
        <4>1. SendPendingRead(StandDown(q), AckTimeout, Write(c))
          BY <1>4, <3>1 DEF HandleSend
        <4>. QED  BY <1>1, <4>1, StandDownSound, StandDownReplies
      <3>2. CASE ~ Acknowledged(request[c])
        <4>1. SendPendingRead(q, ack, toDevice)
          BY <1>4, <3>2 DEF HandleSend
        <4>. QED  BY <1>1, <4>1
      <3>. QED  BY <3>1, <3>2
    <2>5. /\ MailOf(mailbox') \cap Replies(s) = {}
          /\ MailOf(mailbox') \cup Replies(s) \subseteq MailOf(mailbox) \cup Replies(q)
          /\ \A d \in MailOf(mailbox) \cup Replies(q) :
                 d \in MailOf(mailbox') \cup Replies(s) \/ outcome'[d] # "waiting"
      BY <1>1, <2>2, <2>3, <2>4
    <2>. QED  BY <2>2, <2>3, <2>4, <2>5, HandlerHolds
  <1>5. CASE TransmitFails(c)
    BY <1>5, EndSessionHolds DEF TransmitFails
  <1>. QED  BY <1>2, <1>3, <1>4, <1>5

(* A caller asks once, and has been in no place before.                    *)
LEMMA SubmitHolds ==
    ASSUME IInv, EachHeld, NEW c \in Callers, Submit(c) PROVE EachHeld'
  <1>1. /\ q' = q /\ outcome[c] = "idle" /\ outcome \in [Callers -> Outcomes]
        /\ mailbox \in Seq(Callers) /\ c \notin MailOf(mailbox) \cup Replies(q)
    BY TypesSplit DEF Submit, sessionVars, RestOK, EachHeld
  <1>2. CASE outcome' = [outcome EXCEPT ![c] = "busy"] /\ mailbox' = mailbox
    <2>1. \A d \in Callers : outcome'[d] \in {"waiting", "idle"} => outcome'[d] = outcome[d]
      BY <1>1, <1>2
    <2>. QED  BY <1>1, <1>2, <2>1, NobodyMoves
  <1>3. CASE outcome' = [outcome EXCEPT ![c] = "waiting"] /\ mailbox' = Append(mailbox, c)
    <2>1. Once(mailbox') /\ MailOf(mailbox') = MailOf(mailbox) \cup {c}
      BY <1>1, <1>3, AppendMail DEF EachHeld
    <2>2. Once(mailbox)' /\ MailOf(mailbox)' = MailOf(mailbox')
      BY <2>1 DEF Once, MailOf
    <2>4. Replies(q)' = Replies(q) /\ (OnceEach(q)' <=> OnceEach(q))
      BY <1>1 DEF OnceEach, Replies, RepliesOf, Awaited, Apart
    <2>3. \A d \in Callers : outcome'[d] = IF d = c THEN "waiting" ELSE outcome[d]
      BY <1>1, <1>3
    <2>. QED  BY <1>1, <2>1, <2>2, <2>3, <2>4 DEF EachHeld
  <1>. QED  BY <1>2, <1>3 DEF Submit

(* Every step of the specification keeps everyone in one place.            *)
LEMMA NextHolds == IInv /\ EachHeld /\ [Next]_vars => EachHeld'
  <1>. SUFFICES ASSUME IInv, EachHeld, [Next]_vars PROVE EachHeld'
    OBVIOUS
  <1>1. CASE Subscribe \/ ReadTimedOut \/ AcceptRead
    BY <1>1, StartingHolds
  <1>2. CASE ConnectRefused \/ Replaced \/ PeerGone
    BY <1>2, EndSessionHolds DEF ConnectRefused, Replaced, PeerGone
  <1>3. CASE AckTimedOut \/ WriteAck \/ AcceptSnapshot \/ AcceptReport
    <2>1. mailbox' = mailbox /\ outcome' = outcome
      BY <1>3 DEF AckTimedOut, WriteAck, AcceptSnapshot, AcceptReport, callerVars
    <2>2. SendPendingRead(q, None, toDevice) \/ SendPendingRead(q, ack, toDevice)
      BY <1>3 DEF AckTimedOut, WriteAck, AcceptSnapshot, AcceptReport
    <2>. QED  BY <2>1, <2>2, SendsOnly
  <1>4. CASE Control
    BY <1>4, ControlHolds DEF Control
  <1>5. ASSUME NEW c \in Callers, Submit(c) PROVE EachHeld'
    BY <1>5, SubmitHolds
  <1>6. ASSUME NEW c \in Callers, GiveUp(c) PROVE EachHeld'
    <2>1. outcome \in [Callers -> Outcomes]
      BY TypesSplit DEF RestOK
    <2>2. \A d \in Callers : outcome'[d] \in {"waiting", "idle"} => outcome'[d] = outcome[d]
      BY <1>6, <2>1 DEF GiveUp
    <2>. QED  BY <1>6, <2>2, NobodyMoves DEF GiveUp, sessionVars
  <1>7. CASE Connect \/ TimePushDue \/ Tick
    <2>1. mailbox' = mailbox /\ outcome' = outcome
      BY <1>7 DEF Connect, TimePushDue, Tick, callerVars
    <2>2. q'.reads = q.reads /\ q'.awaiting = q.awaiting
      BY <1>7, TypesSplit DEF Connect, TimePushDue, Tick, ReadQueue
    <2>. QED  BY <2>1, <2>2, NobodyMoves
  <1>8. CASE Device \/ DeviceVolunteers \/ UNCHANGED vars
    <2>1. q' = q /\ mailbox' = mailbox /\ outcome' = outcome
      BY <1>8 DEF Device, DeviceReads, DeviceWrites, DeviceVolunteers, vars, sessionVars, callerVars
    <2>. QED  BY <2>1, NobodyMoves
  <1>. QED
    BY <1>1, <1>2, <1>3, <1>4, <1>5, <1>6, <1>7, <1>8 DEF Next, Timer, Packet

(* The places of NoReplyLost, counted.                                     *)
LEMMA OnePlace ==
    ASSUME IInv, EachHeld, NEW c \in Callers, outcome[c] = "waiting"
    PROVE  Cardinality(Holders(c)) = 1
  <1>. DEFINE inMail == {j \in 1..Len(mailbox) : mailbox[j] = c}
              inReads == {j \in 1..Len(q.reads) : q.reads[j].reply = c}
              awaited == {y \in {q.awaiting} : y # None /\ y.reply = c}
  <1>1. /\ \A i, j \in inMail : i = j
        /\ inMail # {} <=> c \in MailOf(mailbox)
    BY DEF EachHeld, Once, MailOf
  <1>2. /\ \A i, j \in inReads : i = j
        /\ inReads # {} <=> c \in RepliesOf(q.reads)
    BY DEF EachHeld, OnceEach, Apart, RepliesOf
  <1>3. awaited # {} <=> c \in Awaited(q)
    BY DEF Awaited
  <1>4. \/ c \in MailOf(mailbox) /\ c \notin RepliesOf(q.reads) /\ c \notin Awaited(q)
        \/ c \notin MailOf(mailbox) /\ c \in RepliesOf(q.reads) /\ c \notin Awaited(q)
        \/ c \notin MailOf(mailbox) /\ c \notin RepliesOf(q.reads) /\ c \in Awaited(q)
    BY DEF EachHeld, OnceEach, Replies
  <1>5. Holders(c) = {<<"mailbox", i>> : i \in inMail} \cup {<<"reads", i>> : i \in inReads}
                        \cup {<<"awaiting", 0>> : x \in awaited}
    BY DEF Holders
  <1>. HIDE DEF inMail, inReads, awaited
  <1>6. \E place : Holders(c) = {place}
    <2>1. CASE inMail # {} /\ inReads = {} /\ awaited = {}
      <3>1. PICK i \in inMail : inMail = {i}
        BY <1>1, <2>1
      <3>2. Holders(c) = {<<"mailbox", i>>}
        BY <1>5, <2>1, <3>1
      <3>. QED  BY <3>2
    <2>2. CASE inMail = {} /\ inReads # {} /\ awaited = {}
      <3>1. PICK i \in inReads : inReads = {i}
        BY <1>2, <2>2
      <3>2. Holders(c) = {<<"reads", i>>}
        BY <1>5, <2>2, <3>1
      <3>. QED  BY <3>2
    <2>3. CASE inMail = {} /\ inReads = {} /\ awaited # {}
      <3>1. Holders(c) = {<<"awaiting", 0>>}
        BY <1>5, <2>3
      <3>. QED  BY <3>1
    <2>. QED  BY <1>1, <1>2, <1>3, <1>4, <2>1, <2>2, <2>3
  <1>. QED  BY <1>6, FS_Singleton

(* Whoever waits on a session has their reply in exactly one place, for    *)
(* any number of callers, every mix of requests and every device: standing *)
(* a read down, requeueing it, skipping it, the startup read-back and the  *)
(* end of the session neither drop nor copy one (Session::run).            *)
THEOREM NoReplyEverLost == Spec => []NoReplyLost
  <1>1. IInv /\ EachHeld => NoReplyLost
    BY OnePlace DEF NoReplyLost
  <1>. QED  BY <1>1, InitHolds, NextHolds, SessionInvariant, PTL DEF Spec

-----------------------------------------------------------------------------
(* Reads beside a write.  The hold on reads says that some write is in     *)
(* flight, not which, so one acknowledgement lifts it for two writes: what *)
(* it promises, it promises as long as one caller has asked for a write,   *)
(* whatever the others ask.                                                *)

Writers == {c \in Callers : request[c] # None /\ Acknowledged(request[c])}

OneWriter == \A c, d \in Writers : c = d

ToAllowed(W) == {f \in ToDevice : f.kind = "write" => f.by \in W}
FromAllowed(W) == {f \in FromDevice : f.kind = "ack" => f.by \in W}

(* Frames about writes are about those asked for; and of one writer, the   *)
(* hold stands while the write is unacknowledged.                          *)
WritesHeld ==
    /\ \A c \in Callers : outcome[c] = "idle" => request[c] = None
    /\ unacked \subseteq Writers
    /\ toDevice \in Seq(ToAllowed(Writers)) /\ fromDevice \in Seq(FromAllowed(Writers))
    /\ OneWriter => (unacked # {} => ack # None)

(* A read goes out.                                                        *)
SendsRead ==
    /\ toDevice' # toDevice /\ Len(toDevice') > Len(toDevice)
    /\ toDevice'[Len(toDevice')].kind = "read"

(* What every step does.                                                   *)
GoesAlone == WritesHeld' /\ (SendsRead => ack' = None)

LEMMA InitAlone == Init => WritesHeld
  <1>. SUFFICES ASSUME Init PROVE WritesHeld
    OBVIOUS
  <1>1. <<>> \in Seq(ToAllowed(Writers)) /\ <<>> \in Seq(FromAllowed(Writers))
    OBVIOUS
  <1>. QED  BY <1>1 DEF Init, WritesHeld

(* What send_pending_read sends: at most one read, and only without a hold.*)
LEMMA SendsAlone ==
    ASSUME IInv, WritesHeld, NEW s \in ReadQueue, NEW a, NEW before,
           SendPendingRead(s, a, before),
           before = toDevice \/ \E c \in Writers : before = Write(c)
    PROVE  /\ toDevice' \in Seq(ToAllowed(Writers)) /\ ack' = a
           /\ SendsRead => ack' = None
  <1>1. toDevice \in Seq(ToAllowed(Writers)) /\ toDevice \in Seq(ToDevice)
    BY TypesSplit DEF WritesHeld
  <1>2. before \in Seq(ToAllowed(Writers))
    <2>1. CASE before = toDevice
      BY <1>1, <2>1
    <2>2. ASSUME NEW c \in Writers, before = Write(c) PROVE before \in Seq(ToAllowed(Writers))
      <3>1. [kind |-> "write", by |-> c] \in ToAllowed(Writers)
        BY DEF ToAllowed, ToDevice, Writers
      <3>. QED  BY <1>1, <2>2, <3>1, AppendProperties DEF Write
    <2>. QED  BY <2>1, <2>2
  <1>3. CASE a = None /\ s.pending # None
    <2>1. [kind |-> "read", reg |-> s.pending] \in ToAllowed(Writers)
      BY <1>3 DEF ToAllowed, ToDevice, ReadQueue
    <2>2. <<[kind |-> "read", reg |-> s.pending]>> \in Seq(ToAllowed(Writers))
      BY <2>1
    <2>3. toDevice' = before \o <<[kind |-> "read", reg |-> s.pending]>> /\ ack' = None /\ a = None
      BY <1>3 DEF SendPendingRead
    <2>4. toDevice' \in Seq(ToAllowed(Writers))
      BY <1>2, <2>2, <2>3, ConcatProperties
    <2>. QED  BY <2>3, <2>4
  <1>4. CASE ~ (a = None /\ s.pending # None)
    <2>1. toDevice' = before /\ ack' = a
      BY <1>4 DEF SendPendingRead
    <2>2. CASE before = toDevice
      BY <1>2, <2>1, <2>2 DEF SendsRead
    <2>3. ASSUME NEW c \in Writers, before = Write(c) PROVE ~ SendsRead
      <3>1. Len(before) = Len(toDevice) + 1
            /\ before[Len(toDevice) + 1] = [kind |-> "write", by |-> c]
        <4>1. [kind |-> "write", by |-> c] \in ToDevice
          BY DEF ToDevice, Writers
        <4>. QED  BY <1>1, <2>3, <4>1, AppendProperties DEF Write
      <3>2. toDevice'[Len(toDevice')].kind = "write"
        BY <2>1, <3>1
      <3>. QED  BY <3>2 DEF SendsRead
    <2>. QED  BY <1>2, <2>1, <2>2, <2>3
  <1>. QED  BY <1>3, <1>4

(* A handler that keeps who asked what, and has the hold stand for what it *)
(* leaves unacknowledged.                                                  *)
LEMMA HandlerAlone ==
    ASSUME IInv, WritesHeld, NEW s \in ReadQueue, NEW a, NEW before,
           SendPendingRead(s, a, before),
           before = toDevice \/ \E c \in Writers : before = Write(c),
           request' = request, fromDevice' \in Seq(FromAllowed(Writers)),
           \A c \in Callers : outcome'[c] = "idle" => outcome[c] = "idle",
           unacked' \subseteq Writers,
           OneWriter => (unacked' # {} => a # None)
    PROVE  GoesAlone
  <1>1. /\ toDevice' \in Seq(ToAllowed(Writers)) /\ ack' = a
        /\ SendsRead => ack' = None
    BY SendsAlone
  <1>2. Writers' = Writers /\ OneWriter' = OneWriter
    BY DEF Writers, OneWriter
  <1>3. ToAllowed(Writers)' = ToAllowed(Writers) /\ FromAllowed(Writers)' = FromAllowed(Writers)
    BY <1>2 DEF ToAllowed, FromAllowed
  <1>4. \A c \in Callers : outcome'[c] = "idle" => request'[c] = None
    BY DEF WritesHeld
  <1>. QED  BY <1>1, <1>2, <1>3, <1>4 DEF GoesAlone, WritesHeld

(* A step that sends nothing and leaves the hold alone.                    *)
LEMMA BystanderAlone ==
    ASSUME IInv, WritesHeld, ack' = ack, unacked' \subseteq unacked,
           Writers \subseteq Writers',
           toDevice' \in Seq(ToAllowed(Writers)), ~ SendsRead,
           fromDevice' \in Seq(FromAllowed(Writers)),
           \A c \in Callers : outcome'[c] = "idle" => request'[c] = None
    PROVE  GoesAlone
  <1>1. ToAllowed(Writers) \subseteq ToAllowed(Writers') /\ FromAllowed(Writers) \subseteq FromAllowed(Writers')
    BY DEF ToAllowed, FromAllowed
  <1>2. ToAllowed(Writers') = ToAllowed(Writers)' /\ FromAllowed(Writers') = FromAllowed(Writers)'
    BY DEF ToAllowed, FromAllowed
  <1>3. toDevice' \in Seq(ToAllowed(Writers))' /\ fromDevice' \in Seq(FromAllowed(Writers))'
    BY <1>1, <1>2, SeqMonotonic
  <1>4. OneWriter' => OneWriter
    BY DEF OneWriter
  <1>. QED  BY <1>3, <1>4 DEF GoesAlone, WritesHeld

(* The frame at the head of the stream is about a write asked for.         *)
LEMMA NextFrameAlone ==
    ASSUME WritesHeld, NEW kind, NextPacket(kind), fromDevice' = Tail(fromDevice)
    PROVE  /\ fromDevice' \in Seq(FromAllowed(Writers))
           /\ kind = "ack" => Head(fromDevice).by \in Writers
  <1>1. Head(fromDevice) \in FromAllowed(Writers) /\ Tail(fromDevice) \in Seq(FromAllowed(Writers))
    BY HeadTailProperties DEF WritesHeld, NextPacket
  <1>. QED  BY <1>1 DEF NextPacket, FromAllowed

(* The handlers that write nothing.                                        *)
LEMMA ReadersAlone ==
    ASSUME IInv, WritesHeld,
           Subscribe \/ ReadTimedOut \/ AckTimedOut \/ AcceptRead \/ WriteAck
               \/ AcceptSnapshot \/ AcceptReport
    PROVE  GoesAlone
  <1>1. /\ q \in ReadQueue /\ outcome \in [Callers -> Outcomes]
        /\ fromDevice \in Seq(FromAllowed(Writers)) /\ unacked \subseteq Writers
        /\ OneWriter => (unacked # {} => ack # None)
    BY TypesSplit DEF RestOK, WritesHeld
  <1>2. ASSUME NEW c, NEW what \in Outcomes \ {"idle"}, Tell(c, what)
        PROVE  \A d \in Callers : outcome'[d] = "idle" => outcome[d] = "idle"
    BY <1>1, <1>2 DEF Tell
  <1>3. CASE Subscribe
    <2>1. \A d \in Callers : outcome'[d] = "idle" => outcome[d] = "idle"
      BY <1>2, <1>3 DEF Subscribe, Outcomes
    <2>2. /\ SendPendingRead(BeginResync(q), ack, toDevice) /\ request' = request
          /\ fromDevice' = fromDevice /\ unacked' = unacked
      BY <1>3 DEF Subscribe, historyVars
    <2>. QED  BY <1>1, <2>1, <2>2, BeginResyncSound, HandlerAlone
  <1>4. CASE ReadTimedOut
    <2>1. \A d \in Callers : outcome'[d] = "idle" => outcome[d] = "idle"
      BY <1>2, <1>4 DEF ReadTimedOut, Outcomes
    <2>2. /\ SendPendingRead(StartNextRead(q), ack, toDevice) /\ request' = request
          /\ fromDevice' = fromDevice /\ unacked' = unacked
      BY <1>4 DEF ReadTimedOut
    <2>. QED  BY <1>1, <2>1, <2>2, StartNextReadSound, HandlerAlone
  <1>5. CASE AckTimedOut
    <2>1. /\ SendPendingRead(q, None, toDevice) /\ request' = request /\ outcome' = outcome
          /\ fromDevice' = fromDevice /\ unacked' = {}
      BY <1>5 DEF AckTimedOut, callerVars
    <2>. QED  BY <1>1, <2>1, HandlerAlone
  <1>6. CASE AcceptRead
    <2>1. /\ request' = request /\ unacked' = unacked
          /\ fromDevice' \in Seq(FromAllowed(Writers))
      BY <1>6, NextFrameAlone DEF AcceptRead
    <2>2. \A d \in Callers : outcome'[d] = "idle" => outcome[d] = "idle"
      <3>1. outcome' = outcome \/ Tell(q.awaiting.reply, Settled(q.awaiting, Head(fromDevice).val))
        BY <1>6 DEF AcceptRead
      <3>2. Settled(q.awaiting, Head(fromDevice).val) \in Outcomes \ {"idle"}
        BY DEF Settled, Outcomes
      <3>. QED  BY <1>2, <3>1, <3>2
    <2>3. PICK s \in ReadQueue : SendPendingRead(s, ack, toDevice)
      <3>1. SendPendingRead(StartNextRead(q), ack, toDevice) \/ SendPendingRead(q, ack, toDevice)
        BY <1>6 DEF AcceptRead
      <3>. QED  BY <1>1, <3>1, StartNextReadSound
    <2>. QED  BY <1>1, <2>1, <2>2, <2>3, HandlerAlone
  <1>7. CASE WriteAck
    <2>1. /\ SendPendingRead(q, None, toDevice) /\ request' = request /\ outcome' = outcome
          /\ unacked' = unacked \ {Head(fromDevice).by}
          /\ fromDevice' \in Seq(FromAllowed(Writers)) /\ Head(fromDevice).by \in Writers
      BY <1>7, NextFrameAlone DEF WriteAck, callerVars
    <2>2. OneWriter => unacked' = {}
      BY <1>1, <2>1 DEF OneWriter
    <2>. QED  BY <1>1, <2>1, <2>2, HandlerAlone
  <1>8. CASE AcceptSnapshot \/ AcceptReport
    <2>1. /\ SendPendingRead(q, ack, toDevice) /\ request' = request /\ outcome' = outcome
          /\ unacked' = unacked /\ fromDevice' \in Seq(FromAllowed(Writers))
      BY <1>8, NextFrameAlone DEF AcceptSnapshot, AcceptReport, callerVars, historyVars
    <2>. QED  BY <1>1, <2>1, HandlerAlone
  <1>. QED  BY <1>3, <1>4, <1>5, <1>6, <1>7, <1>8

(* Control requests.  Only a writer writes, and the hold starts with it.   *)
LEMMA ControlAlone ==
    ASSUME IInv, WritesHeld, NEW c \in Callers,
           HandleRefresh(c) \/ HandleApply(c) \/ HandleSend(c)
    PROVE  GoesAlone
  <1>1. /\ q \in ReadQueue /\ Coherent(q) /\ outcome \in [Callers -> Outcomes]
        /\ fromDevice \in Seq(FromAllowed(Writers)) /\ unacked \subseteq Writers
        /\ OneWriter => (unacked # {} => ack # None)
    BY TypesSplit DEF RestOK, WritesHeld
  <1>2. /\ NextRequest(c) /\ mailbox' = Tail(mailbox) /\ request' = request
        /\ fromDevice' = fromDevice
    BY DEF HandleRefresh, HandleApply, HandleSend
  <1>3. request[c] \in Requests /\ request[c] # None
    BY <1>2, NextRequestSound
  <1>4. CASE HandleRefresh(c)
    <2>1. request[c].reg \in Registers
      BY <1>3, <1>4 DEF HandleRefresh, Request
    <2>2. /\ SendPendingRead(EnqueueVerification(q, request[c].reg, None, c), ack, toDevice)
          /\ outcome' = outcome /\ unacked' = unacked
      BY <1>4 DEF HandleRefresh, historyVars
    <2>. QED  BY <1>1, <1>2, <2>1, <2>2, EnqueueVerificationSound, HandlerAlone
  <1>5. CASE HandleApply(c)
    <2>1. request[c].reg \in Registers /\ request[c].val \in Values
      BY <1>3, <1>5 DEF HandleApply, Expressible, Request
    <2>2. c \in Writers
      BY <1>3, <1>5 DEF HandleApply, Writers, Acknowledged
    <2>3. /\ SendPendingRead(EnqueueAll(StandDown(q), Verify(request[c]), c), AckTimeout, Write(c))
          /\ outcome' = outcome /\ unacked' = unacked \cup {c}
      BY <1>5 DEF HandleApply
    <2>. QED  BY <1>1, <1>2, <2>1, <2>2, <2>3, StandDownSound, EnqueueAllSound, HandlerAlone
  <1>6. CASE HandleSend(c)
    <2>1. \A d \in Callers : outcome'[d] = "idle" => outcome[d] = "idle"
      BY <1>1, <1>6 DEF HandleSend, Tell
    <2>2. CASE Acknowledged(request[c])
      <3>1. c \in Writers
        BY <1>3, <2>2 DEF Writers
      <3>2. SendPendingRead(StandDown(q), AckTimeout, Write(c)) /\ unacked' = unacked \cup {c}
        BY <1>6, <2>2 DEF HandleSend
      <3>. QED  BY <1>1, <1>2, <2>1, <3>1, <3>2, StandDownSound, HandlerAlone
    <2>3. CASE ~ Acknowledged(request[c])
      <3>1. SendPendingRead(q, ack, toDevice) /\ unacked' = unacked
        BY <1>6, <2>3 DEF HandleSend
      <3>. QED  BY <1>1, <1>2, <2>1, <3>1, HandlerAlone
    <2>. QED  BY <2>2, <2>3
  <1>. QED  BY <1>4, <1>5, <1>6

(* The end of the session takes both streams and the hold with it.         *)
LEMMA EndSessionAlone ==
    ASSUME IInv, WritesHeld, NEW why, NEW told, NEW what, what # "idle",
           EndSession(why, told, what)
    PROVE  GoesAlone
  <1>1. /\ toDevice' = <<>> /\ fromDevice' = <<>> /\ unacked' = {} /\ ack' = None
        /\ request' = request
        /\ \A c \in Callers : outcome'[c] = "idle" => outcome[c] = "idle"
    BY DEF EndSession
  <1>2. \A c \in Callers : outcome'[c] = "idle" => request'[c] = None
    BY <1>1 DEF WritesHeld
  <1>3. /\ <<>> \in Seq(ToAllowed(Writers))' /\ <<>> \in Seq(FromAllowed(Writers))'
    OBVIOUS
  <1>. QED  BY <1>1, <1>2, <1>3 DEF GoesAlone, WritesHeld

(* The device takes a frame off, and answers about what it took.           *)
LEMMA DeviceAlone ==
    ASSUME IInv, WritesHeld, Device \/ DeviceVolunteers PROVE GoesAlone
  <1>1. /\ toDevice \in Seq(ToAllowed(Writers)) /\ fromDevice \in Seq(FromAllowed(Writers))
        /\ \A c \in Callers : outcome[c] = "idle" => request[c] = None
    BY DEF WritesHeld
  <1>2. /\ ack' = ack /\ unacked' = unacked /\ request' = request /\ outcome' = outcome
    BY DEF Device, DeviceReads, DeviceWrites, DeviceVolunteers, sessionVars, callerVars, historyVars
  <1>3. Writers \subseteq Writers'
    BY <1>2 DEF Writers
  <1>4. toDevice' \in Seq(ToAllowed(Writers)) /\ ~ SendsRead
    <2>1. CASE Device
      <3>1. toDevice # <<>> /\ toDevice' = Tail(toDevice)
        BY <2>1 DEF Device, DeviceReads, DeviceWrites
      <3>2. /\ Tail(toDevice) \in Seq(ToAllowed(Writers))
            /\ Len(Tail(toDevice)) = Len(toDevice) - 1 /\ Len(toDevice) \in Nat
        BY <1>1, <3>1, HeadTailProperties, LenProperties
      <3>3. ~ (Len(toDevice') > Len(toDevice))
        BY <3>1, <3>2
      <3>. QED  BY <3>1, <3>2, <3>3 DEF SendsRead
    <2>2. CASE DeviceVolunteers
      <3>1. toDevice' = toDevice
        BY <2>2 DEF DeviceVolunteers
      <3>. QED  BY <1>1, <3>1 DEF SendsRead
    <2>. QED  BY <2>1, <2>2
  <1>5. fromDevice' \in Seq(FromAllowed(Writers))
    <2>1. ASSUME NEW m \in FromDevice, m.kind # "ack" \/ m.by \in Writers
          PROVE  Append(fromDevice, m) \in Seq(FromAllowed(Writers))
      <3>1. m \in FromAllowed(Writers)
        BY <2>1 DEF FromAllowed
      <3>. QED  BY <1>1, <3>1, AppendProperties
    <2>2. CASE DeviceReads
      <3>. DEFINE m == [kind |-> "answer", reg |-> Head(toDevice).reg,
                        val |-> device[Head(toDevice).reg], seen |-> applied]
      <3>1. Head(toDevice).reg \in Registers
        BY <2>2, TypesSplit, HeadTailProperties DEF DeviceReads, ToDevice
      <3>2. m \in FromDevice /\ m.kind # "ack"
        BY <3>1, TypesSplit DEF FromDevice, RestOK
      <3>3. fromDevice' = fromDevice \/ fromDevice' = Append(fromDevice, m)
        BY <2>2, Zenon DEF DeviceReads
      <3>. QED  BY <1>1, <2>1, <3>2, <3>3
    <2>3. CASE DeviceWrites
      <3>. DEFINE m == [kind |-> "ack", by |-> Head(toDevice).by]
      <3>1. Head(toDevice).by \in Writers
        BY <1>1, <2>3, HeadTailProperties DEF DeviceWrites, ToAllowed
      <3>2. m \in FromDevice /\ m.by \in Writers
        BY <3>1 DEF FromDevice, Writers
      <3>3. fromDevice' = fromDevice \/ fromDevice' = Append(fromDevice, m)
        BY <2>3, Zenon DEF DeviceWrites, Says
      <3>. QED  BY <1>1, <2>1, <3>2, <3>3
    <2>4. CASE DeviceVolunteers
      <3>1. /\ [kind |-> "snapshot", vals |-> device] \in FromDevice
            /\ [kind |-> "report"] \in FromDevice
        BY TypesSplit DEF FromDevice, RestOK
      <3>2. \/ fromDevice' = Append(fromDevice, [kind |-> "snapshot", vals |-> device])
            \/ fromDevice' = Append(fromDevice, [kind |-> "report"])
        BY <2>4 DEF DeviceVolunteers
      <3>. QED  BY <2>1, <3>1, <3>2
    <2>. QED  BY <2>2, <2>3, <2>4 DEF Device
  <1>6. \A c \in Callers : outcome'[c] = "idle" => request'[c] = None
    BY <1>1, <1>2
  <1>. QED  BY <1>2, <1>3, <1>4, <1>5, <1>6, BystanderAlone

(* Every step.                                                             *)
LEMMA NextAlone == IInv /\ WritesHeld /\ [Next]_vars => GoesAlone
  <1>. SUFFICES ASSUME IInv, WritesHeld, [Next]_vars PROVE GoesAlone
    OBVIOUS
  <1>1. /\ toDevice \in Seq(ToAllowed(Writers)) /\ fromDevice \in Seq(FromAllowed(Writers))
        /\ \A c \in Callers : outcome[c] = "idle" => request[c] = None
        /\ request \in [Callers -> Requests \cup {None}] /\ outcome \in [Callers -> Outcomes]
    BY TypesSplit DEF WritesHeld, RestOK
  <1>2. CASE Subscribe \/ ReadTimedOut \/ AckTimedOut \/ Packet
    BY <1>2, ReadersAlone DEF Packet
  <1>3. CASE ConnectRefused \/ Replaced \/ PeerGone
    BY <1>3, EndSessionAlone DEF ConnectRefused, Replaced, PeerGone
  <1>4. CASE Control
    BY <1>4, ControlAlone, EndSessionAlone DEF Control, TransmitFails
  <1>5. CASE Device \/ DeviceVolunteers
    BY <1>5, DeviceAlone
  <1>6. CASE Connect \/ TimePushDue \/ Tick \/ UNCHANGED vars
    <2>1. /\ toDevice' = toDevice /\ fromDevice' = fromDevice /\ request' = request
          /\ outcome' = outcome /\ unacked' = unacked
      BY <1>6 DEF Connect, TimePushDue, Tick, vars, callerVars, historyVars
    <2>2. ack' = ack \/ ((ack' = None) = (ack = None))
      BY <1>6, TypesSplit DEF Connect, TimePushDue, Tick, vars, sessionVars
    <2>3. /\ Writers' = Writers /\ OneWriter' = OneWriter
          /\ ToAllowed(Writers)' = ToAllowed(Writers)
          /\ FromAllowed(Writers)' = FromAllowed(Writers)
      BY <2>1 DEF Writers, OneWriter, ToAllowed, FromAllowed
    <2>. QED  BY <2>1, <2>2, <2>3 DEF GoesAlone, WritesHeld, SendsRead
  <1>7. ASSUME NEW c \in Callers, GiveUp(c) PROVE GoesAlone
    <2>1. /\ ack' = ack /\ toDevice' = toDevice /\ fromDevice' = fromDevice
          /\ request' = request /\ unacked' = unacked
          /\ outcome' = [outcome EXCEPT ![c] = "gaveUp"]
      BY <1>7 DEF GiveUp, sessionVars, historyVars
    <2>2. Writers \subseteq Writers' /\ \A d \in Callers : outcome'[d] = "idle" => outcome[d] = "idle"
      BY <1>1, <2>1 DEF Writers
    <2>. QED  BY <1>1, <2>1, <2>2, BystanderAlone DEF SendsRead
  <1>8. ASSUME NEW c \in Callers, Submit(c) PROVE GoesAlone
    <2>1. /\ ack' = ack /\ toDevice' = toDevice /\ fromDevice' = fromDevice /\ unacked' = unacked
          /\ outcome[c] = "idle"
          /\ \E w \in {"busy", "waiting"} : outcome' = [outcome EXCEPT ![c] = w]
          /\ \E req \in Requests : request' = [request EXCEPT ![c] = req]
      BY <1>8 DEF Submit, sessionVars, historyVars
    <2>2. \A d \in Callers : d # c => request'[d] = request[d] /\ outcome'[d] = outcome[d]
      BY <1>1, <2>1
    <2>3. outcome'[c] # "idle" /\ c \notin Writers
      BY <1>1, <2>1 DEF Writers
    <2>4. Writers \subseteq Writers'
      BY <2>2, <2>3 DEF Writers
    <2>. QED  BY <1>1, <2>1, <2>2, <2>3, <2>4, BystanderAlone DEF SendsRead
  <1>. QED  BY <1>2, <1>3, <1>4, <1>5, <1>6, <1>7, <1>8 DEF Next, Timer, Device

(* No read goes out beside a write of this program that is neither         *)
(* acknowledged nor let go of, as long as one caller at most has asked for *)
(* a write, for any number of others that refresh, configure or give up    *)
(* (transmit's hold, send_pending_read).                                   *)
THEOREM ReadsAloneBesideOneWriter ==
    Spec => [][SendsRead /\ OneWriter' => unacked' = {}]_vars
  <1>1. IInv /\ WritesHeld /\ [Next]_vars
            => WritesHeld' /\ [SendsRead /\ OneWriter' => unacked' = {}]_vars
    <2>1. GoesAlone => WritesHeld' /\ (SendsRead /\ OneWriter' => unacked' = {})
      BY DEF GoesAlone, WritesHeld
    <2>. QED  BY <2>1, NextAlone
  <1>. QED  BY <1>1, InitAlone, SessionInvariant, PTL DEF Spec

(* The property the runs check, of a session with one caller.              *)
THEOREM ReadsAlwaysGoAlone ==
    ASSUME \A c, d \in Callers : c = d PROVE Spec => ReadsGoAlone
  <1>1. OneWriter'
    BY DEF OneWriter, Writers
  <1>2. [SendsRead /\ OneWriter' => unacked' = {}]_vars =>
            [toDevice' # toDevice /\ Len(toDevice') > Len(toDevice)
                /\ toDevice'[Len(toDevice')].kind = "read" => unacked' = {}]_vars
    BY <1>1 DEF SendsRead
  <1>. QED  BY <1>2, ReadsAloneBesideOneWriter, PTL DEF ReadsGoAlone

-----------------------------------------------------------------------------
(* The settings of a session with one caller.  What is on its way of one   *)
(* register: reads to the device, answers from it, and whether the write   *)
(* of the one caller still has to change it.                               *)

(* A stream with one frame more at its end, and with its first frame gone. *)
Longer(stream, m, more) ==
    /\ Len(stream) \in Nat
    /\ Len(more) = Len(stream) + 1 /\ more[Len(stream) + 1] = m
    /\ \A i \in 1..Len(stream) : more[i] = stream[i]

Shorter(stream, rest) ==
    /\ Len(rest) \in Nat /\ Len(stream) = Len(rest) + 1
    /\ \A i \in 1..Len(rest) : rest[i] = stream[i + 1]

(* Sending a frame makes a stream longer, written either way.              *)
LEMMA OneMore ==
    ASSUME NEW S, NEW stream \in Seq(S), NEW m \in S
    PROVE  /\ Longer(stream, m, Append(stream, m))
           /\ Longer(stream, m, stream \o <<m>>)
  <1>1. Longer(stream, m, Append(stream, m))
    BY DEF Longer
  <1>2. <<m>> \in Seq(S) /\ Len(<<m>>) = 1 /\ <<m>>[1] = m /\ Len(stream) \in Nat
    OBVIOUS
  <1>3. /\ Len(stream \o <<m>>) = Len(stream) + Len(<<m>>)
        /\ \A i \in 1..Len(stream) + Len(<<m>>) : (stream \o <<m>>)[i] =
              IF i <= Len(stream) THEN stream[i] ELSE <<m>>[i - Len(stream)]
    BY <1>2, ConcatProperties
  <1>4. Longer(stream, m, stream \o <<m>>)
    BY <1>2, <1>3 DEF Longer
  <1>. QED  BY <1>1, <1>4

(* Taking a frame makes a stream shorter.                                  *)
LEMMA OneLess ==
    ASSUME NEW S, NEW stream \in Seq(S), stream # <<>>
    PROVE  Shorter(stream, Tail(stream)) /\ Head(stream) = stream[1]
  <1>1. /\ Tail(stream) \in Seq(S) /\ Len(Tail(stream)) = Len(stream) - 1
        /\ \A i \in 1..Len(Tail(stream)) : Tail(stream)[i] = stream[i + 1]
    BY HeadTailProperties
  <1>2. Len(Tail(stream)) \in Nat /\ Len(stream) \in Nat
    BY <1>1
  <1>. QED  BY <1>1, <1>2 DEF Shorter

Alters(asked, c, r) ==
    /\ asked[c].op = "set"
    /\ asked[c].reg = r \/ (asked[c].reg = PowerPlus /\ r = OutputPower)
Changes(asked, m, r) == m.kind = "write" /\ Alters(asked, m.by, r)

Asking(to, r) == {i \in 1..Len(to) : to[i].kind = "read" /\ to[i].reg = r}
Answering(from, r) == {i \in 1..Len(from) : from[i].kind = "answer" /\ from[i].reg = r}
Free(to, from, r) == Asking(to, r) = {} /\ Answering(from, r) = {}
Single(to, from, r) ==
    /\ Asking(to, r) = {} \/ Answering(from, r) = {}
    /\ \A i, j \in Asking(to, r) : i = j
    /\ \A i, j \in Answering(from, r) : i = j

ChangeComing(asked, to, r) == \E i \in 1..Len(to) : Changes(asked, to[i], r)

(* A read of the register will be answered after every change to it.       *)
AnswerComing(asked, to, r) ==
    \E i \in Asking(to, r) : \A j \in i..Len(to) : ~ Changes(asked, to[j], r)

Agrees(m, real, r) ==
    /\ m.kind = "answer" /\ m.reg = r => m.val = real
    /\ m.kind = "snapshot" => m.vals[r] = real
Tells(m, r) == (m.kind = "answer" /\ m.reg = r) \/ m.kind = "snapshot"

(* The last word on the register, on the stream or already held, is right. *)
Settling(from, held, real, r) ==
    \E i \in 0..Len(from) :
        /\ IF i = 0 THEN held = real ELSE Tells(from[i], r)
        /\ \A j \in 1..Len(from) : j >= i => Agrees(from[j], real, r)

(* A frame to the device: another read of the register, or none.           *)
LEMMA MoreAsked ==
    ASSUME NEW to, NEW m, NEW more, NEW r, Longer(to, m, more)
    PROVE  /\ ~ (m.kind = "read" /\ m.reg = r) => Asking(more, r) = Asking(to, r)
           /\ m.kind = "read" /\ m.reg = r =>
                Asking(more, r) = Asking(to, r) \cup {Len(to) + 1}
  <1>1. /\ 1..Len(more) = 1..Len(to) \cup {Len(to) + 1}
        /\ more[Len(to) + 1] = m /\ \A i \in 1..Len(to) : more[i] = to[i]
    BY DEF Longer
  <1>. QED  BY <1>1 DEF Asking

(* A frame sent that changes nothing leaves every answer to come where it  *)
(* is; a read sent is one more.                                            *)
LEMMA MoreSent ==
    ASSUME NEW asked, NEW to, NEW m, NEW more, NEW r, Longer(to, m, more)
    PROVE  /\ m.kind = "read" /\ m.reg = r => AnswerComing(asked, more, r)
           /\ ~ Changes(asked, m, r) /\ ~ ChangeComing(asked, to, r) =>
                ~ ChangeComing(asked, more, r)
           /\ ~ Changes(asked, m, r) /\ AnswerComing(asked, to, r) =>
                AnswerComing(asked, more, r)
  <1>1. /\ 1..Len(more) = 1..Len(to) \cup {Len(to) + 1} /\ Len(to) \in Nat
        /\ more[Len(to) + 1] = m /\ \A i \in 1..Len(to) : more[i] = to[i]
    BY DEF Longer
  <1>3. m.kind = "read" /\ m.reg = r =>
            Asking(more, r) = Asking(to, r) \cup {Len(to) + 1}
    BY MoreAsked
  <1>4. m.kind = "read" /\ m.reg = r => AnswerComing(asked, more, r)
    <2>. SUFFICES ASSUME m.kind = "read", m.reg = r PROVE AnswerComing(asked, more, r)
      OBVIOUS
    <2>1. Len(to) + 1 \in Asking(more, r)
      BY <1>3
    <2>2. \A j \in Len(to) + 1..Len(more) : more[j] = m
      BY <1>1 DEF Longer
    <2>3. ~ Changes(asked, m, r)
      BY DEF Changes
    <2>. QED  BY <2>1, <2>2, <2>3 DEF AnswerComing
  <1>5. ~ Changes(asked, m, r) /\ ~ ChangeComing(asked, to, r) =>
            ~ ChangeComing(asked, more, r)
    BY <1>1 DEF ChangeComing
  <1>6. ASSUME ~ Changes(asked, m, r), AnswerComing(asked, to, r)
        PROVE  AnswerComing(asked, more, r)
    <2>1. PICK i \in Asking(to, r) : \A j \in i..Len(to) : ~ Changes(asked, to[j], r)
      BY <1>6 DEF AnswerComing
    <2>2. i \in Asking(more, r) /\ i \in 1..Len(to)
      BY <1>1, <2>1 DEF Asking
    <2>3. ASSUME NEW j \in i..Len(more) PROVE ~ Changes(asked, more[j], r)
      <3>1. j \in i..Len(to) \/ j = Len(to) + 1
        BY <2>2 DEF Longer
      <3>2. j \in i..Len(to) => more[j] = to[j]
        BY <1>1, <2>2
      <3>. QED  BY <1>1, <1>6, <2>1, <3>1, <3>2
    <2>. QED  BY <2>2, <2>3 DEF AnswerComing
  <1>. QED  BY <1>4, <1>5, <1>6

(* The device takes a frame: a read of the register is gone from those to  *)
(* be answered.                                                            *)
LEMMA LessAsked ==
    ASSUME NEW to, NEW rest, NEW r, Shorter(to, rest)
    PROVE  /\ Asking(to, r) = {} => Asking(rest, r) = {}
           /\ (\A i, j \in Asking(to, r) : i = j) => \A i, j \in Asking(rest, r) : i = j
           /\ (\A i, j \in Asking(to, r) : i = j) /\ to[1].kind = "read" /\ to[1].reg = r =>
                Asking(rest, r) = {}
           /\ to[1].kind = "read" /\ to[1].reg = r => Asking(to, r) # {}
  <1>1. /\ Len(rest) \in Nat /\ Len(to) = Len(rest) + 1
        /\ \A i \in 1..Len(rest) : rest[i] = to[i + 1] /\ i + 1 \in 1..Len(to)
    BY DEF Shorter
  <1>2. \A i \in Asking(rest, r) : i \in Nat /\ i # 0 /\ i + 1 \in Asking(to, r)
    BY <1>1 DEF Asking
  <1>3. to[1].kind = "read" /\ to[1].reg = r => 1 \in Asking(to, r)
    BY <1>1 DEF Asking
  <1>. QED  BY <1>2, <1>3

(* Answering the read that was to settle the register is the only way to   *)
(* have fewer answers to come.                                             *)
LEMMA LessSent ==
    ASSUME NEW asked, NEW to, NEW rest, NEW r, Shorter(to, rest)
    PROVE  /\ ~ ChangeComing(asked, to, r) =>
                ~ ChangeComing(asked, rest, r) /\ ~ Changes(asked, to[1], r)
           /\ AnswerComing(asked, to, r) =>
                \/ AnswerComing(asked, rest, r)
                \/ /\ to[1].kind = "read" /\ to[1].reg = r
                   /\ ~ ChangeComing(asked, rest, r)
  <1>1. /\ Len(rest) \in Nat /\ Len(to) = Len(rest) + 1
        /\ \A i \in 1..Len(rest) : rest[i] = to[i + 1] /\ i + 1 \in 1..Len(to)
    BY DEF Shorter
  <1>2. ~ ChangeComing(asked, to, r) =>
            ~ ChangeComing(asked, rest, r) /\ ~ Changes(asked, to[1], r)
    <2>1. 1 \in 1..Len(to)
      BY <1>1
    <2>2. SUFFICES ASSUME ~ ChangeComing(asked, to, r)
                   PROVE  /\ ~ Changes(asked, to[1], r)
                          /\ \A i \in 1..Len(rest) : ~ Changes(asked, rest[i], r)
      BY DEF ChangeComing
    <2>3. \A j \in 1..Len(to) : ~ Changes(asked, to[j], r)
      BY <2>2 DEF ChangeComing
    <2>4. ASSUME NEW i \in 1..Len(rest) PROVE ~ Changes(asked, rest[i], r)
      <3>1. rest[i] = to[i + 1] /\ i + 1 \in 1..Len(to)
        BY <1>1, <2>4
      <3>. QED  BY <2>3, <3>1
    <2>. QED  BY <2>1, <2>3, <2>4
  <1>3. ASSUME AnswerComing(asked, to, r)
        PROVE  \/ AnswerComing(asked, rest, r)
               \/ /\ to[1].kind = "read" /\ to[1].reg = r
                  /\ ~ ChangeComing(asked, rest, r)
    <2>1. PICK i \in Asking(to, r) : \A j \in i..Len(to) : ~ Changes(asked, to[j], r)
      BY <1>3 DEF AnswerComing
    <2>2. i \in 1..Len(to) /\ to[i].kind = "read" /\ to[i].reg = r
      BY <2>1 DEF Asking
    <2>3. CASE i = 1
      BY <1>1, <2>1, <2>2, <2>3 DEF ChangeComing
    <2>4. CASE i # 1
      <3>1. i - 1 \in 1..Len(rest) /\ rest[i - 1] = to[i]
        BY <1>1, <2>2, <2>4
      <3>2. i - 1 \in Asking(rest, r)
        BY <2>2, <3>1 DEF Asking
      <3>3. \A j \in (i - 1)..Len(rest) : j \in 1..Len(rest) /\ j + 1 \in i..Len(to)
        BY <1>1, <2>2, <3>1
      <3>4. \A j \in (i - 1)..Len(rest) : ~ Changes(asked, rest[j], r)
        BY <1>1, <2>1, <3>3
      <3>. QED  BY <3>2, <3>4 DEF AnswerComing
    <2>. QED  BY <2>3, <2>4
  <1>. QED  BY <1>2, <1>3

(* A frame from the device: another answer for the register, or none.      *)
LEMMA MoreAnswered ==
    ASSUME NEW from, NEW m, NEW more, NEW r, Longer(from, m, more)
    PROVE  /\ ~ (m.kind = "answer" /\ m.reg = r) => Answering(more, r) = Answering(from, r)
           /\ m.kind = "answer" /\ m.reg = r =>
                Answering(more, r) = Answering(from, r) \cup {Len(from) + 1}
  <1>1. /\ 1..Len(more) = 1..Len(from) \cup {Len(from) + 1}
        /\ more[Len(from) + 1] = m /\ \A i \in 1..Len(from) : more[i] = from[i]
    BY DEF Longer
  <1>. QED  BY <1>1 DEF Answering

(* A frame that says what the device holds leaves the last word right, and *)
(* one about the register makes it so.                                     *)
LEMMA MoreHeard ==
    ASSUME NEW from, NEW m, NEW more, NEW held, NEW real, NEW r,
           Longer(from, m, more), Agrees(m, real, r)
    PROVE  /\ Settling(from, held, real, r) => Settling(more, held, real, r)
           /\ Tells(m, r) => Settling(more, held, real, r)
  <1>1. /\ 1..Len(more) = 1..Len(from) \cup {Len(from) + 1} /\ Len(from) \in Nat
        /\ more[Len(from) + 1] = m /\ \A i \in 1..Len(from) : more[i] = from[i]
        /\ Len(more) = Len(from) + 1
    BY DEF Longer
  <1>2. ASSUME Settling(from, held, real, r) PROVE Settling(more, held, real, r)
    <2>1. PICK i \in 0..Len(from) :
              /\ IF i = 0 THEN held = real ELSE Tells(from[i], r)
              /\ \A j \in 1..Len(from) : j >= i => Agrees(from[j], real, r)
      BY <1>2 DEF Settling
    <2>2. i \in 0..Len(more) /\ (i # 0 => more[i] = from[i])
      BY <1>1
    <2>3. \A j \in 1..Len(more) : j >= i => Agrees(more[j], real, r)
      BY <1>1, <2>1
    <2>. QED  BY <2>1, <2>2, <2>3 DEF Settling
  <1>3. ASSUME Tells(m, r) PROVE Settling(more, held, real, r)
    <2>1. Len(from) + 1 \in 0..Len(more) /\ Len(from) + 1 # 0
          /\ \A j \in 1..Len(more) : j >= Len(from) + 1 => j = Len(from) + 1
      BY <1>1
    <2>. QED  BY <1>1, <1>3, <2>1 DEF Settling
  <1>. QED  BY <1>2, <1>3

(* The session takes a frame.                                              *)
LEMMA LessAnswered ==
    ASSUME NEW from, NEW rest, NEW r, Shorter(from, rest)
    PROVE  /\ Answering(from, r) = {} => Answering(rest, r) = {}
           /\ (\A i, j \in Answering(from, r) : i = j) =>
                \A i, j \in Answering(rest, r) : i = j
           /\ (\A i, j \in Answering(from, r) : i = j)
                /\ from[1].kind = "answer" /\ from[1].reg = r => Answering(rest, r) = {}
           /\ from[1].kind = "answer" /\ from[1].reg = r => Answering(from, r) # {}
  <1>1. /\ Len(rest) \in Nat /\ Len(from) = Len(rest) + 1
        /\ \A i \in 1..Len(rest) : rest[i] = from[i + 1] /\ i + 1 \in 1..Len(from)
    BY DEF Shorter
  <1>2. \A i \in Answering(rest, r) : i \in Nat /\ i # 0 /\ i + 1 \in Answering(from, r)
    BY <1>1 DEF Answering
  <1>3. from[1].kind = "answer" /\ from[1].reg = r => 1 \in Answering(from, r)
    BY <1>1 DEF Answering
  <1>. QED  BY <1>2, <1>3

(* The last word stays right when it is taken and kept.                    *)
LEMMA LessHeard ==
    ASSUME NEW from, NEW rest, NEW held, NEW kept, NEW real, NEW r, Shorter(from, rest),
           Tells(from[1], r) /\ Agrees(from[1], real, r) => kept = real,
           ~ Tells(from[1], r) => kept = held,
           Settling(from, held, real, r)
    PROVE  Settling(rest, kept, real, r)
  <1>1. /\ Len(rest) \in Nat /\ Len(from) = Len(rest) + 1
        /\ \A i \in 1..Len(rest) : rest[i] = from[i + 1] /\ i + 1 \in 1..Len(from)
    BY DEF Shorter
  <1>2. PICK i \in 0..Len(from) :
            /\ IF i = 0 THEN held = real ELSE Tells(from[i], r)
            /\ \A j \in 1..Len(from) : j >= i => Agrees(from[j], real, r)
    BY DEF Settling
  <1>3. \A j \in 1..Len(rest) : j + 1 >= i => Agrees(rest[j], real, r)
    BY <1>1, <1>2
  <1>4. CASE i \in {0, 1}
    <2>1. Agrees(from[1], real, r)
      BY <1>1, <1>2, <1>4
    <2>2. kept = real
      BY <1>2, <1>4, <2>1
    <2>3. \A j \in 1..Len(rest) : Agrees(rest[j], real, r)
      BY <1>1, <1>3, <1>4
    <2>. QED  BY <1>1, <2>2, <2>3 DEF Settling
  <1>5. CASE i \notin {0, 1}
    <2>1. i - 1 \in 1..Len(rest) /\ rest[i - 1] = from[i] /\ i - 1 \in 0..Len(rest) /\ i - 1 # 0
      BY <1>1, <1>2, <1>5
    <2>2. Tells(rest[i - 1], r)
      BY <1>2, <1>5, <2>1
    <2>3. \A j \in 1..Len(rest) : j >= i - 1 => Agrees(rest[j], real, r)
      BY <1>1, <1>3, <2>1
    <2>. QED  BY <2>1, <2>2, <2>3 DEF Settling
  <1>. QED  BY <1>4, <1>5

-----------------------------------------------------------------------------
(* The reads of a register that are still to be sent.                      *)
Queued(reads, r) == \E i \in 1..Len(reads) : reads[i].reg = r
QueuedTwice(reads, r) ==
    \E i, j \in 1..Len(reads) : i # j /\ reads[i].reg = r /\ reads[j].reg = r
Unsent(s, r) == s.pending = r \/ Queued(s.reads, r)
UnsentTwice(s, r) == (s.pending = r /\ Queued(s.reads, r)) \/ QueuedTwice(s.reads, r)

(* One read in front of, or behind, those queued.                          *)
LEMMA InFront ==
    ASSUME NEW read \in PendingRead, NEW reads \in Seq(PendingRead), NEW r
    PROVE  /\ Queued(reads, r) => Queued(<<read>> \o reads, r)
           /\ QueuedTwice(reads, r) => QueuedTwice(<<read>> \o reads, r)
           /\ read.reg = r => Queued(<<read>> \o reads, r)
           /\ read.reg = r /\ Queued(reads, r) => QueuedTwice(<<read>> \o reads, r)
           /\ <<read>> \o reads \in Seq(PendingRead) /\ <<read>> \o reads # <<>>
           /\ Head(<<read>> \o reads) = read /\ Tail(<<read>> \o reads) = reads
  <1>. DEFINE more == <<read>> \o reads
  <1>1. <<read>> \in Seq(PendingRead) /\ Len(<<read>>) = 1 /\ <<read>>[1] = read
        /\ Len(reads) \in Nat
    OBVIOUS
  <1>2. /\ more \in Seq(PendingRead) /\ Len(more) = 1 + Len(reads)
        /\ \A i \in 1..1 + Len(reads) :
              more[i] = IF i <= 1 THEN <<read>>[i] ELSE reads[i - 1]
    BY <1>1, ConcatProperties
  <1>3. /\ more[1] = read /\ 1 \in 1..Len(more)
        /\ \A i \in 1..Len(reads) : i + 1 \in 1..Len(more) /\ more[i + 1] = reads[i] /\ i + 1 # 1
    BY <1>1, <1>2
  <1>4. \A i, j \in 1..Len(reads) : i # j => i + 1 # j + 1
    BY <1>1
  <1>5. more # <<>>
    BY <1>1, <1>2
  <1>6. Head(more) = read /\ Tail(more) = reads
    <2>1. /\ Tail(more) \in Seq(PendingRead) /\ Len(Tail(more)) = Len(reads)
          /\ \A i \in 1..Len(Tail(more)) : Tail(more)[i] = more[i + 1]
      BY <1>1, <1>2, <1>5, HeadTailProperties
    <2>2. Tail(more) = reads
      BY <1>3, <2>1, SeqEqual
    <2>3. Head(more) = read
      BY <1>2, <1>3, <1>5
    <2>. QED  BY <2>2, <2>3
  <1>7. (Queued(reads, r) => Queued(more, r)) /\ (read.reg = r => Queued(more, r))
    BY <1>3 DEF Queued
  <1>8. /\ QueuedTwice(reads, r) => QueuedTwice(more, r)
        /\ read.reg = r /\ Queued(reads, r) => QueuedTwice(more, r)
    BY <1>3, <1>4 DEF Queued, QueuedTwice
  <1>. QED  BY <1>2, <1>5, <1>6, <1>7, <1>8

(* Reads behind those queued.                                              *)
LEMMA Behind ==
    ASSUME NEW reads \in Seq(PendingRead), NEW others \in Seq(PendingRead), NEW r
    PROVE  /\ Queued(others, r) => Queued(reads \o others, r)
           /\ Queued(reads, r) => Queued(reads \o others, r)
           /\ QueuedTwice(reads, r) => QueuedTwice(reads \o others, r)
           /\ Queued(reads, r) /\ Queued(others, r) => QueuedTwice(reads \o others, r)
  <1>. DEFINE more == reads \o others
  <1>1. /\ Len(reads) \in Nat /\ Len(others) \in Nat /\ Len(more) = Len(reads) + Len(others)
        /\ \A i \in 1..Len(reads) + Len(others) :
              more[i] = IF i <= Len(reads) THEN reads[i] ELSE others[i - Len(reads)]
    BY ConcatProperties
  <1>2. \A i \in 1..Len(reads) : i \in 1..Len(more) /\ more[i] = reads[i] /\ i <= Len(reads)
    BY <1>1
  <1>3. \A i \in 1..Len(others) : /\ Len(reads) + i \in 1..Len(more)
                                  /\ more[Len(reads) + i] = others[i]
                                  /\ ~ (Len(reads) + i <= Len(reads))
    <2>. TAKE i \in 1..Len(others)
    <2>1. Len(reads) + i \in 1..Len(reads) + Len(others) /\ ~ (Len(reads) + i <= Len(reads))
          /\ (Len(reads) + i) - Len(reads) = i
      BY <1>1
    <2>. QED  BY <1>1, <2>1
  <1>4. /\ Queued(others, r) => Queued(more, r)
        /\ Queued(reads, r) => Queued(more, r)
    BY <1>2, <1>3 DEF Queued
  <1>5. QueuedTwice(reads, r) => QueuedTwice(more, r)
    BY <1>2 DEF QueuedTwice
  <1>6. ASSUME Queued(reads, r), Queued(others, r) PROVE QueuedTwice(more, r)
    <2>1. PICK i \in 1..Len(reads) : reads[i].reg = r
      BY <1>6 DEF Queued
    <2>2. PICK j \in 1..Len(others) : others[j].reg = r
      BY <1>6 DEF Queued
    <2>. DEFINE k == Len(reads) + j
    <2>3. i # k /\ i \in 1..Len(more) /\ k \in 1..Len(more)
      BY <1>2, <1>3
    <2>4. more[i].reg = r /\ more[k].reg = r
      BY <1>2, <1>3, <2>1, <2>2
    <2>. HIDE DEF k, more
    <2>. QED  BY <2>3, <2>4 DEF QueuedTwice
  <1>. QED  BY <1>4, <1>5, <1>6

(* start_next_read takes none of the reads queued away.                    *)
LEMMA StartNextReadKeeps ==
    ASSUME NEW s \in ReadQueue, NEW r
    PROVE  /\ Queued(s.reads, r) => Unsent(StartNextRead(s), r)
           /\ QueuedTwice(s.reads, r) => UnsentTwice(StartNextRead(s), r)
  <1>. DEFINE next == StartNextRead(s)
  <1>1. s.reads \in Seq(PendingRead) /\ Len(s.reads) \in Nat
    BY DEF ReadQueue
  <1>2. CASE s.reads = <<>>
    BY <1>1, <1>2 DEF Queued, QueuedTwice
  <1>3. CASE s.reads # <<>>
    <2>1. /\ Len(next.reads) \in Nat /\ Len(s.reads) = Len(next.reads) + 1
          /\ \A i \in 1..Len(next.reads) : next.reads[i] = s.reads[i + 1]
          /\ next.pending = s.reads[1].reg
      BY <1>1, <1>3, OneLess DEF StartNextRead, Shorter
    <2>2. \A i \in 1..Len(s.reads) : i # 1 => /\ i - 1 \in 1..Len(next.reads)
                                             /\ next.reads[i - 1] = s.reads[i]
      <3>. TAKE i \in 1..Len(s.reads)
      <3>. HAVE i # 1
      <3>1. i - 1 \in 1..Len(next.reads) /\ (i - 1) + 1 = i
        BY <2>1
      <3>. QED  BY <2>1, <3>1
    <2>3. Queued(s.reads, r) => Unsent(next, r)
      BY <2>1, <2>2 DEF Queued, Unsent
    <2>4. ASSUME QueuedTwice(s.reads, r) PROVE UnsentTwice(next, r)
      <3>1. PICK i, j \in 1..Len(s.reads) :
                i # j /\ s.reads[i].reg = r /\ s.reads[j].reg = r
        BY <2>4 DEF QueuedTwice
      <3>2. CASE i = 1
        BY <2>1, <2>2, <3>1, <3>2 DEF UnsentTwice, Queued
      <3>3. CASE j = 1
        BY <2>1, <2>2, <3>1, <3>3 DEF UnsentTwice, Queued
      <3>4. CASE i # 1 /\ j # 1
        <4>1. i - 1 # j - 1
          BY <3>1, <1>1
        <4>. QED  BY <2>2, <3>1, <3>4, <4>1 DEF UnsentTwice, QueuedTwice
      <3>. QED  BY <3>2, <3>3, <3>4
    <2>. QED  BY <2>3, <2>4
  <1>. QED  BY <1>2, <1>3

(* enqueue_verification: a read more, and none lost.                       *)
LEMMA EnqueueVerificationKeeps ==
    ASSUME NEW s \in ReadQueue, NEW x \in Registers,
           NEW requested \in Values \cup {None}, NEW reply \in Callers \cup {None},
           s.awaiting = None => s.pending = None, NEW r \in Registers
    PROVE  LET next == EnqueueVerification(s, x, requested, reply) IN
           /\ Unsent(s, r) => Unsent(next, r)
           /\ UnsentTwice(s, r) => UnsentTwice(next, r)
           /\ x = r => Unsent(next, r)
           /\ x = r /\ Unsent(s, r) => UnsentTwice(next, r)
           /\ next.awaiting = None => next.pending = None
  <1>. DEFINE read == Read(x, "verify", requested, reply)
              more == <<read>> \o s.reads
              queued == [s EXCEPT !.reads = more]
              next == EnqueueVerification(s, x, requested, reply)
  <1>1. read \in PendingRead /\ read.reg = x /\ read # None
    BY ReadType DEF Read
  <1>2. s.reads \in Seq(PendingRead)
    BY DEF ReadQueue
  <1>3. /\ queued.reads = more /\ queued.pending = s.pending /\ queued.awaiting = s.awaiting
        /\ queued \in ReadQueue
    BY <1>1, <1>2, InFront DEF ReadQueue
  <1>4. CASE s.awaiting = None
    <2>1. next.reads = s.reads /\ next.pending = x /\ next.awaiting = read
      BY <1>1, <1>2, <1>3, <1>4, InFront DEF EnqueueVerification, StartNextRead
    <2>. QED  BY <1>1, <1>4, <2>1 DEF Unsent, UnsentTwice
  <1>5. CASE s.awaiting # None
    <2>1. next = queued
      BY <1>5 DEF EnqueueVerification
    <2>2. /\ Queued(s.reads, r) => Queued(more, r)
          /\ QueuedTwice(s.reads, r) => QueuedTwice(more, r)
          /\ x = r => Queued(more, r)
          /\ x = r /\ Queued(s.reads, r) => QueuedTwice(more, r)
      BY <1>1, <1>2, InFront
    <2>. QED  BY <1>3, <1>5, <2>1, <2>2 DEF Unsent, UnsentTwice
  <1>. QED  BY <1>4, <1>5

(* A read stood down is queued again.                                      *)
LEMMA StandDownKeeps ==
    ASSUME NEW s \in ReadQueue, s.pending = None, NEW r \in Registers
    PROVE  /\ Unsent(s, r) => Unsent(StandDown(s), r)
           /\ UnsentTwice(s, r) => UnsentTwice(StandDown(s), r)
           /\ s.awaiting # None /\ s.awaiting.reg = r => Unsent(StandDown(s), r)
           /\ StandDown(s).awaiting = None /\ StandDown(s).pending = None
  <1>1. s.reads \in Seq(PendingRead) /\ r # None
    BY DEF ReadQueue
  <1>2. CASE s.awaiting = None
    <2>1. StandDown(s).reads = s.reads
      BY <1>1, <1>2, ConcatEmptySeq DEF StandDown
    <2>. QED  BY <1>1, <1>2, <2>1 DEF StandDown, Unsent, UnsentTwice
  <1>3. CASE s.awaiting # None
    <2>1. StandDown(s).reads = <<s.awaiting>> \o s.reads /\ s.awaiting \in PendingRead
      BY <1>3 DEF StandDown, ReadQueue
    <2>. QED  BY <1>1, <1>3, <2>1, InFront DEF StandDown, Unsent, UnsentTwice
  <1>. QED  BY <1>2, <1>3

(* Queueing the read-backs of a write: its registers are among them.       *)
LEMMA EnqueueAllKeeps ==
    ASSUME NEW s \in ReadQueue, NEW req, NEW c \in Callers, Coherent(s),
           s.awaiting = None => s.pending = None,
           req.reg \in Registers, req.val \in Values, NEW r \in Registers
    PROVE  LET next == EnqueueAll(s, Verify(req), c)
               verified == req.reg = r \/ (req.reg = PowerPlus /\ r = OutputPower)
           IN  /\ Unsent(s, r) => Unsent(next, r)
               /\ UnsentTwice(s, r) => UnsentTwice(next, r)
               /\ verified => Unsent(next, r)
               /\ verified /\ Unsent(s, r) => UnsentTwice(next, r)
  <1>. DEFINE first == EnqueueVerification(s, req.reg, req.val, c)
              next == EnqueueAll(s, Verify(req), c)
  <1>1. first \in ReadQueue
    BY EnqueueVerificationSound
  <1>2. /\ Unsent(s, r) => Unsent(first, r)
        /\ UnsentTwice(s, r) => UnsentTwice(first, r)
        /\ req.reg = r => Unsent(first, r)
        /\ req.reg = r /\ Unsent(s, r) => UnsentTwice(first, r)
        /\ first.awaiting = None => first.pending = None
    BY EnqueueVerificationKeeps
  <1>3. CASE req.reg = PowerPlus
    <2>1. next = EnqueueVerification(first, OutputPower, None, None)
      BY <1>3 DEF EnqueueAll, Verify
    <2>2. /\ Unsent(first, r) => Unsent(next, r)
          /\ UnsentTwice(first, r) => UnsentTwice(next, r)
          /\ OutputPower = r => Unsent(next, r)
          /\ OutputPower = r /\ Unsent(first, r) => UnsentTwice(next, r)
      BY <1>1, <1>2, <2>1, EnqueueVerificationKeeps
    <2>. QED  BY <1>2, <2>2
  <1>4. CASE req.reg # PowerPlus
    <2>1. next = first
      BY <1>4 DEF EnqueueAll, Verify
    <2>. QED  BY <1>2, <1>4, <2>1
  <1>. QED  BY <1>3, <1>4

(* The startup read-back asks for every register once more.                *)
ReadsEverything == \A r \in Registers : \E i \in 1..Len(ResyncOrder) : ResyncOrder[i] = r

LEMMA BeginResyncKeeps ==
    ASSUME ReadsEverything, NEW s \in ReadQueue, NEW r \in Registers
    PROVE  /\ Unsent(BeginResync(s), r)
           /\ UnsentTwice(s, r) => UnsentTwice(BeginResync(s), r)
  <1>. DEFINE resync == [i \in 1..Len(ResyncOrder) |->
                           Read(ResyncOrder[i], "resync", None, None)]
              queued == [s EXCEPT !.reads = s.reads \o resync]
  <1>1. resync \in [1..Len(ResyncOrder) -> PendingRead] /\ Len(ResyncOrder) \in Nat
    BY ReadType
  <1>2. resync \in Seq(PendingRead) /\ Len(resync) = Len(ResyncOrder)
    BY <1>1, SeqDef
  <1>3. PICK i \in 1..Len(ResyncOrder) : ResyncOrder[i] = r
    BY DEF ReadsEverything
  <1>4. resync[i].reg = r
    BY <1>3 DEF Read
  <1>5. Queued(resync, r)
    BY <1>2, <1>4 DEF Queued
  <1>6. s.reads \in Seq(PendingRead) /\ queued \in ReadQueue /\ queued.reads = s.reads \o resync
    BY <1>2, ConcatProperties DEF ReadQueue
  <1>7. Queued(queued.reads, r)
    BY <1>2, <1>5, <1>6, Behind
  <1>8. UnsentTwice(s, r) => Queued(s.reads, r)
    BY DEF UnsentTwice, Queued, QueuedTwice
  <1>9. UnsentTwice(s, r) => QueuedTwice(queued.reads, r)
    BY <1>2, <1>5, <1>6, <1>8, Behind
  <1>10. BeginResync(s) = StartNextRead(queued)
    BY DEF BeginResync
  <1>. QED  BY <1>6, <1>7, <1>9, <1>10, StartNextReadKeeps

-----------------------------------------------------------------------------
(* What will bring the setting of a register up to date: what the device   *)
(* has said, a read it has yet to answer, a read yet to be sent with       *)
(* nothing on its way that could settle it, or two of them and one thing   *)
(* on its way, which settles one of them only.                             *)
Served(s, ph, asked, to, from, held, real, r) ==
    \/ ~ ChangeComing(asked, to, r) /\ Settling(from, held, real, r)
    \/ AnswerComing(asked, to, r)
    \/ Free(to, from, r) /\ (Unsent(s, r) \/ ph # "subscribed")
    \/ Single(to, from, r) /\ UnsentTwice(s, r)

(* What is on its way of a register before the caller's request is         *)
(* handled: the one read awaited, or its answer.                           *)
Alone(s, to, from, r) ==
    /\ Single(to, from, r)
    /\ \/ Free(to, from, r)
       \/ s.awaiting # None /\ s.awaiting.reg = r /\ s.pending = None

(* Sending the read decided on serves a register no less.                  *)
LEMMA SendingServes ==
    ASSUME NEW s \in ReadQueue, NEW a, NEW to \in Seq(ToDevice), SendPendingRead(s, a, to),
           NEW ph, NEW asked, NEW from, NEW held, NEW real, NEW r \in Registers,
           Served(s, ph, asked, to, from, held, real, r)
    PROVE  Served(q', ph, asked, toDevice', from, held, real, r)
  <1>1. CASE a = None /\ s.pending # None
    <2>. DEFINE m == [kind |-> "read", reg |-> s.pending]
    <2>1. m \in ToDevice
      BY <1>1 DEF ReadQueue, ToDevice
    <2>2. Longer(to, m, toDevice')
      <3>1. toDevice' = to \o <<m>>
        BY <1>1 DEF SendPendingRead
      <3>. HIDE DEF m
      <3>. QED  BY <2>1, <3>1, OneMore
    <2>3. q'.reads = s.reads /\ q'.pending = None /\ m.kind = "read" /\ m.reg = s.pending
          /\ ~ Changes(asked, m, r)
      BY <1>1 DEF SendPendingRead, ReadQueue, Changes
    <2>4. CASE s.pending = r
      BY <2>2, <2>3, <2>4, MoreSent DEF Served
    <2>5. CASE s.pending # r
      <3>1. /\ Asking(toDevice', r) = Asking(to, r)
            /\ ~ ChangeComing(asked, to, r) => ~ ChangeComing(asked, toDevice', r)
            /\ AnswerComing(asked, to, r) => AnswerComing(asked, toDevice', r)
        BY <2>2, <2>3, <2>5, MoreAsked, MoreSent
      <3>2. /\ Unsent(s, r) => Unsent(q', r)
            /\ UnsentTwice(s, r) => UnsentTwice(q', r)
        BY <2>3, <2>5 DEF Unsent, UnsentTwice
      <3>. QED  BY <3>1, <3>2 DEF Served, Free, Single
    <2>. QED  BY <2>4, <2>5
  <1>2. CASE ~ (a = None /\ s.pending # None)
    BY <1>2 DEF SendPendingRead
  <1>. QED  BY <1>1, <1>2

(* The read sent is the one awaited, and alone if its register was free.   *)
LEMMA SendingAlone ==
    ASSUME NEW s \in ReadQueue, NEW a, NEW to \in Seq(ToDevice), SendPendingRead(s, a, to),
           s.pending # None => s.awaiting # None /\ s.awaiting.reg = s.pending,
           NEW from, NEW r \in Registers, Alone(s, to, from, r)
    PROVE  Alone(q', toDevice', from, r)
  <1>1. CASE a = None /\ s.pending # None
    <2>. DEFINE m == [kind |-> "read", reg |-> s.pending]
    <2>1. m \in ToDevice
      BY <1>1 DEF ReadQueue, ToDevice
    <2>2. Longer(to, m, toDevice')
      <3>1. toDevice' = to \o <<m>>
        BY <1>1 DEF SendPendingRead
      <3>. HIDE DEF m
      <3>. QED  BY <2>1, <3>1, OneMore
    <2>3. q'.awaiting = s.awaiting /\ q'.pending = None /\ m.kind = "read" /\ m.reg = s.pending
      BY <1>1 DEF SendPendingRead, ReadQueue
    <2>4. Free(to, from, r)
      BY <1>1 DEF Alone
    <2>5. CASE s.pending = r
      <3>1. Asking(toDevice', r) = {Len(to) + 1}
        BY <2>2, <2>3, <2>4, <2>5, MoreAsked DEF Free
      <3>. QED  BY <1>1, <2>3, <2>4, <2>5, <3>1 DEF Alone, Free, Single
    <2>6. CASE s.pending # r
      <3>1. Asking(toDevice', r) = Asking(to, r)
        BY <2>2, <2>3, <2>6, MoreAsked
      <3>. QED  BY <2>4, <3>1 DEF Alone, Free, Single
    <2>. QED  BY <2>5, <2>6
  <1>2. CASE ~ (a = None /\ s.pending # None)
    BY <1>2 DEF SendPendingRead
  <1>. QED  BY <1>1, <1>2

(* The next read is started, and the one awaited was of another register.  *)
LEMMA StartingServes ==
    ASSUME NEW s \in ReadQueue, Coherent(s), s.awaiting # None,
           NEW r \in Registers, s.awaiting.reg # r
    PROVE  /\ Unsent(s, r) => Unsent(StartNextRead(s), r)
           /\ UnsentTwice(s, r) => UnsentTwice(StartNextRead(s), r)
  <1>1. s.pending # r
    BY DEF Coherent
  <1>2. /\ Unsent(s, r) => Queued(s.reads, r)
        /\ UnsentTwice(s, r) => QueuedTwice(s.reads, r)
    BY <1>1 DEF Unsent, UnsentTwice
  <1>. QED  BY <1>2, StartNextReadKeeps

(* What start_next_read leaves pending is the read it awaits.              *)
LEMMA StartingAwaits ==
    ASSUME NEW s \in ReadQueue, s.pending = None
    PROVE  LET next == StartNextRead(s) IN
           next.pending # None => next.awaiting # None /\ next.awaiting.reg = next.pending
  <1>1. CASE s.reads = <<>>
    BY <1>1 DEF StartNextRead, ReadQueue
  <1>2. CASE s.reads # <<>>
    <2>1. Head(s.reads) \in PendingRead
      BY <1>2, HeadTailProperties DEF ReadQueue
    <2>. QED  BY <1>2, <2>1 DEF StartNextRead
  <1>. QED  BY <1>1, <1>2

-----------------------------------------------------------------------------
(* The inductive invariant.                                                *)
OneCaller == \A c, d \in Callers : c = d

Unasked == mailbox # <<>> \/ \E c \in Callers : outcome[c] = "idle"

MailSingle ==
    Len(mailbox) <= 1 /\ (mailbox # <<>> => \A c \in Callers : outcome[c] # "idle")

BeforeAny ==
    phase # "ended" /\ Unasked =>
        /\ ack = None
        /\ \A i \in 1..Len(toDevice) : toDevice[i].kind = "read"
        /\ \A r \in Registers \ lost : Alone(q, toDevice, fromDevice, r)
        /\ phase # "subscribed" =>
             /\ q.reads = <<>> /\ q.awaiting = None /\ toDevice = <<>>
             /\ \A i \in 1..Len(fromDevice) : fromDevice[i].kind # "answer"

AllServed ==
    phase # "ended" => \A r \in Registers \ lost :
        Served(q, phase, request, toDevice, fromDevice, settings[r], device[r], r)

CacheInv == MailSingle /\ BeforeAny /\ AllServed
CacheKept == BeforeAny' /\ AllServed'

(* The session and the streams begin empty.                                *)
LEMMA InitServed == Init => CacheInv
  <1>. SUFFICES ASSUME Init PROVE CacheInv
    OBVIOUS
  <1>1. /\ toDevice = <<>> /\ fromDevice = <<>> /\ mailbox = <<>> /\ phase = "accepted"
        /\ q.reads = <<>> /\ q.awaiting = None /\ ack = None
        /\ Len(<<>>) = 0 /\ 1..0 = {}
    BY DEF Init
  <1>2. \A r : Free(toDevice, fromDevice, r) /\ Single(toDevice, fromDevice, r)
    BY <1>1 DEF Free, Single, Asking, Answering
  <1>3. MailSingle
    BY <1>1 DEF MailSingle
  <1>4. AllServed
    BY <1>1, <1>2 DEF AllServed, Served
  <1>5. BeforeAny
    BY <1>1, <1>2 DEF BeforeAny, Alone
  <1>. QED  BY <1>3, <1>4, <1>5 DEF CacheInv

(* The one caller asks once: while its request is in the mailbox, or yet   *)
(* to come, nothing of it has been handled.                                *)
LEMMA MailKept ==
    ASSUME OneCaller, IInv, MailSingle, [Next]_vars
    PROVE  /\ MailSingle' /\ (Unasked' => Unasked)
           /\ \A c \in Callers : HandleRefresh(c) \/ HandleApply(c) \/ HandleSend(c)
                => ~ Unasked' /\ Unasked
  <1>1. mailbox \in Seq(Callers) /\ Len(mailbox) \in Nat /\ outcome \in [Callers -> Outcomes]
    BY TypesSplit, LenProperties DEF RestOK
  <1>2. mailbox' = mailbox /\ (\A c \in Callers : outcome'[c] = "idle" <=> outcome[c] = "idle")
            => MailSingle' /\ (Unasked' => Unasked)
    BY DEF MailSingle, Unasked
  <1>3. \A c, what : what # "idle" /\ Tell(c, what) =>
            \A d \in Callers : outcome'[d] = "idle" <=> outcome[d] = "idle"
    BY <1>1 DEF Tell, Waiting
  <1>4. ASSUME NEW why, NEW told, NEW what, what # "idle", EndSession(why, told, what)
        PROVE  MailSingle' /\ (Unasked' => Unasked)
    <2>1. mailbox' = <<>> /\ Len(mailbox') = 0
          /\ \A c \in Callers : outcome'[c] = "idle" => outcome[c] = "idle"
      BY <1>4 DEF EndSession
    <2>. QED  BY <2>1 DEF MailSingle, Unasked
  <1>5. ASSUME NEW c \in Callers, NextRequest(c), mailbox' = Tail(mailbox),
               \A d \in Callers : outcome'[d] = "idle" <=> outcome[d] = "idle"
        PROVE  MailSingle' /\ ~ Unasked' /\ Unasked
    <2>1. mailbox # <<>> /\ Len(mailbox) = 1
      <3>1. mailbox # <<>> /\ Len(mailbox) <= 1
        BY <1>5 DEF NextRequest, MailSingle
      <3>2. Len(mailbox) # 0
        BY <1>1, <3>1, EmptySeq
      <3>3. \A n \in Nat : n <= 1 /\ n # 0 => n = 1
        OBVIOUS
      <3>. QED  BY <1>1, <3>1, <3>2, <3>3, Zenon
    <2>2. mailbox' = <<>> /\ Len(mailbox') = 0
      <3>1. Tail(mailbox) \in Seq(Callers) /\ Len(Tail(mailbox)) = 0
        BY <1>1, <2>1, HeadTailProperties
      <3>. QED  BY <1>5, <3>1, EmptySeq
    <2>. QED  BY <1>5, <2>1, <2>2 DEF MailSingle, Unasked
  <1>6. ASSUME NEW c \in Callers, HandleRefresh(c) \/ HandleApply(c) \/ HandleSend(c)
        PROVE  MailSingle' /\ ~ Unasked' /\ Unasked
    <2>1. NextRequest(c) /\ mailbox' = Tail(mailbox)
          /\ (outcome' = outcome \/ Tell(c, "sent"))
      BY <1>6 DEF HandleRefresh, HandleApply, HandleSend
    <2>. QED  BY <1>3, <1>5, <2>1
  <1>7. ASSUME NEW c \in Callers, Submit(c)
        PROVE  MailSingle' /\ (Unasked' => Unasked)
    <2>1. outcome[c] = "idle" /\ Unasked
      BY <1>7 DEF Submit, Unasked
    <2>2. mailbox = <<>> /\ Len(mailbox) = 0
      BY <2>1, EmptySeq DEF MailSingle
    <2>3. outcome'[c] # "idle" /\ (mailbox' = mailbox \/ mailbox' = Append(mailbox, c))
      BY <1>1, <1>7 DEF Submit
    <2>4. Len(mailbox') <= 1
      <3>1. Len(Append(mailbox, c)) = 1
        BY <1>1, <2>2, AppendProperties
      <3>2. CASE mailbox' = mailbox
        BY <2>2, <3>2
      <3>3. CASE mailbox' = Append(mailbox, c)
        BY <3>1, <3>3
      <3>. QED  BY <2>3, <3>2, <3>3
    <2>. QED  BY <2>1, <2>3, <2>4 DEF MailSingle, OneCaller
  <1>8. ASSUME NEW c \in Callers, GiveUp(c)
        PROVE  MailSingle' /\ (Unasked' => Unasked)
    <2>1. mailbox' = mailbox /\ \A d \in Callers : outcome'[d] = "idle" <=> outcome[d] = "idle"
      BY <1>1, <1>8 DEF GiveUp
    <2>. QED  BY <1>2, <2>1
  <1>9. ASSUME ConnectRefused \/ Replaced \/ PeerGone
        PROVE  MailSingle' /\ (Unasked' => Unasked)
    BY <1>4, <1>9 DEF ConnectRefused, Replaced, PeerGone
  <1>10. ASSUME NEW c \in Callers, TransmitFails(c)
         PROVE  MailSingle' /\ (Unasked' => Unasked)
    <2>1. PICK why, told : EndSession(why, told, "notSent")
      BY <1>10 DEF TransmitFails
    <2>. QED  BY <1>4, <2>1
  <1>11. ASSUME Connect \/ TimePushDue \/ AckTimedOut \/ WriteAck \/ AcceptSnapshot
                  \/ AcceptReport \/ Device \/ DeviceVolunteers \/ Tick \/ UNCHANGED vars
         PROVE  MailSingle' /\ (Unasked' => Unasked)
    <2>1. mailbox' = mailbox /\ outcome' = outcome
      BY <1>11 DEF Connect, TimePushDue, AckTimedOut, WriteAck, AcceptSnapshot, AcceptReport,
           Device, DeviceReads, DeviceWrites, DeviceVolunteers, Tick, vars, callerVars
    <2>. QED  BY <1>2, <2>1
  <1>12. ASSUME Subscribe \/ ReadTimedOut \/ AcceptRead
         PROVE  MailSingle' /\ (Unasked' => Unasked)
    <2>1. mailbox' = mailbox
      BY <1>12 DEF Subscribe, ReadTimedOut, AcceptRead
    <2>2. outcome' = outcome \/ \E c, what : what # "idle" /\ Tell(c, what)
      <3>1. Subscribe \/ ReadTimedOut => \E c : Tell(c, "ended") \/ Tell(c, "timedOut")
        BY DEF Subscribe, ReadTimedOut
      <3>2. AcceptRead => \/ outcome' = outcome
                          \/ \E c, read, val : Tell(c, Settled(read, val))
        BY DEF AcceptRead
      <3>3. \A read, val : Settled(read, val) # "idle"
        BY DEF Settled
      <3>. QED  BY <1>12, <3>1, <3>2, <3>3
    <2>3. \A d \in Callers : outcome'[d] = "idle" <=> outcome[d] = "idle"
      BY <1>3, <2>2
    <2>. QED  BY <1>2, <2>1, <2>3
  <1>13. MailSingle' /\ (Unasked' => Unasked)
    BY <1>6, <1>7, <1>8, <1>9, <1>10, <1>11, <1>12 DEF Next, Timer, Control, Packet
  <1>. QED  BY <1>6, <1>13

-----------------------------------------------------------------------------
(* The steps that leave the streams alone, and the end of the session.     *)

(* A step that touches neither the queue nor the streams.                  *)
LEMMA BystanderServes ==
    ASSUME CacheInv, Unasked' => Unasked,
           q'.reads = q.reads, q'.awaiting = q.awaiting, q'.pending = q.pending,
           ack = None => ack' = None,
           phase = "ended" => phase' = "ended",
           phase' = "subscribed" <=> phase = "subscribed",
           UNCHANGED <<request, toDevice, fromDevice, settings, device, lost>>
    PROVE  CacheKept
  <1>1. phase' # "ended" => phase # "ended"
    OBVIOUS
  <1>2. BeforeAny'
    BY <1>1 DEF CacheInv, BeforeAny, Alone
  <1>3. ASSUME phase' # "ended" PROVE AllServed'
    <2>1. \A r \in Registers \ lost :
              Served(q', phase', request, toDevice, fromDevice, settings[r], device[r], r)
      BY <1>1, <1>3 DEF CacheInv, AllServed, Served, Unsent, UnsentTwice
    <2>. QED  BY <2>1 DEF AllServed
  <1>4. ASSUME phase' = "ended" PROVE AllServed'
    BY <1>4 DEF AllServed
  <1>. QED  BY <1>2, <1>3, <1>4 DEF CacheKept

(* An ended session promises nothing.                                      *)
LEMMA EndingServes ==
    ASSUME phase' = "ended" PROVE CacheKept
  BY DEF CacheKept, BeforeAny, AllServed

(* A handler that hands over a queue which serves every register keeps     *)
(* them served; before the caller's request is handled, it has to hand     *)
(* over a queue that is all there is on the stream.                        *)
LEMMA HandlerServes ==
    ASSUME NEW s \in ReadQueue, NEW a, NEW to \in Seq(ToDevice), SendPendingRead(s, a, to),
           phase' # "ended" => \A r \in Registers \ lost' :
              Served(s, phase', request', to, fromDevice', settings'[r], device'[r], r),
           phase' # "ended" /\ Unasked' =>
              /\ a = None
              /\ s.pending # None => s.awaiting # None /\ s.awaiting.reg = s.pending
              /\ \A i \in 1..Len(to) : to[i].kind = "read"
              /\ \A r \in Registers \ lost' : Alone(s, to, fromDevice', r)
              /\ phase' # "subscribed" =>
                   /\ s.reads = <<>> /\ s.awaiting = None /\ to = <<>>
                   /\ \A i \in 1..Len(fromDevice') : fromDevice'[i].kind # "answer"
    PROVE  CacheKept
  <1>1. AllServed'
    <2>. SUFFICES ASSUME phase' # "ended", NEW r \in Registers \ lost'
                  PROVE  Served(q', phase', request', toDevice', fromDevice',
                                settings'[r], device'[r], r)
      BY DEF AllServed
    <2>1. Served(s, phase', request', to, fromDevice', settings'[r], device'[r], r)
      OBVIOUS
    <2>. QED  BY <2>1, SendingServes
  <1>2. ASSUME phase' # "ended", Unasked'
        PROVE  /\ ack' = None
               /\ \A i \in 1..Len(toDevice') : toDevice'[i].kind = "read"
               /\ \A r \in Registers \ lost' : Alone(q', toDevice', fromDevice', r)
               /\ phase' # "subscribed" =>
                    /\ q'.reads = <<>> /\ q'.awaiting = None /\ toDevice' = <<>>
                    /\ \A i \in 1..Len(fromDevice') : fromDevice'[i].kind # "answer"
    <2>1. ack' = None
      BY <1>2 DEF SendPendingRead
    <2>2. \A r \in Registers \ lost' : Alone(q', toDevice', fromDevice', r)
      <3>. TAKE r \in Registers \ lost'
      <3>1. Alone(s, to, fromDevice', r)
            /\ (s.pending # None => s.awaiting # None /\ s.awaiting.reg = s.pending)
        BY <1>2
      <3>. QED  BY <3>1, SendingAlone
    <2>3. \A i \in 1..Len(toDevice') : toDevice'[i].kind = "read"
      <3>1. CASE a = None /\ s.pending # None
        <4>. DEFINE m == [kind |-> "read", reg |-> s.pending]
        <4>1. m \in ToDevice /\ m.kind = "read"
          BY <3>1 DEF ReadQueue, ToDevice
        <4>2. toDevice' = to \o <<m>>
          BY <3>1 DEF SendPendingRead
        <4>. HIDE DEF m
        <4>3. Longer(to, m, toDevice')
          BY <4>1, <4>2, OneMore
        <4>4. \A i \in 1..Len(toDevice') : i \in 1..Len(to) \/ i = Len(to) + 1
          BY <4>3 DEF Longer
        <4>. QED  BY <1>2, <4>1, <4>3, <4>4 DEF Longer
      <3>2. CASE ~ (a = None /\ s.pending # None)
        BY <1>2, <3>2 DEF SendPendingRead
      <3>. QED  BY <3>1, <3>2
    <2>4. phase' # "subscribed" => s.pending = None
      BY <1>2
    <2>5. phase' # "subscribed" => q' = s /\ toDevice' = to
      BY <2>4 DEF SendPendingRead
    <2>. QED  BY <1>2, <2>1, <2>2, <2>3, <2>5
  <1>3. BeforeAny'
    BY <1>2 DEF BeforeAny
  <1>. QED  BY <1>1, <1>3 DEF CacheKept

(* Before the caller's request is handled nothing is held back.            *)
LEMMA BeforeHolds ==
    ASSUME IInv, CacheInv, phase # "ended", Unasked
    PROVE  ack = None /\ q.pending = None
  BY DEF IInv, QueueCoherent, CacheInv, BeforeAny

(* CONNECT, the time push, time, and a caller that gives up.               *)
LEMMA IdleServes ==
    ASSUME IInv, CacheInv, Unasked' => Unasked,
           Connect \/ TimePushDue \/ Tick \/ UNCHANGED vars \/ \E c \in Callers : GiveUp(c)
    PROVE  CacheKept
  <1>1. /\ q'.reads = q.reads /\ q'.awaiting = q.awaiting /\ q'.pending = q.pending
        /\ ack = None => ack' = None
    <2>1. CASE Tick
      BY <2>1, TypesSplit DEF Tick, ReadQueue
    <2>2. CASE ~ Tick
      BY <2>2 DEF Connect, TimePushDue, GiveUp, vars, sessionVars
    <2>. QED  BY <2>1, <2>2
  <1>2. /\ phase = "ended" => phase' = "ended"
        /\ phase' = "subscribed" <=> phase = "subscribed"
        /\ UNCHANGED <<request, toDevice, fromDevice, settings, device, lost>>
    BY DEF Connect, TimePushDue, Tick, GiveUp, vars, sessionVars, callerVars, deviceVars,
           historyVars
  <1>. QED  BY <1>1, <1>2, BystanderServes

(* A read that is not answered in time is of a register that is lost.      *)
LEMMA ReadTimedOutServes ==
    ASSUME IInv, CacheInv, Unasked' => Unasked, ReadTimedOut
    PROVE  CacheKept
  <1>. DEFINE s == StartNextRead(q)
  <1>1. q.awaiting # None /\ Coherent(q) /\ q \in ReadQueue /\ toDevice \in Seq(ToDevice)
    BY TypesSplit DEF ReadTimedOut, Coherent
  <1>2. /\ SendPendingRead(s, ack, toDevice) /\ lost' = lost \cup {q.awaiting.reg}
        /\ UNCHANGED <<phase, settings, request, fromDevice, device>> /\ phase # "ended"
    BY <1>1 DEF ReadTimedOut, deviceVars, Running
  <1>3. ASSUME NEW r \in Registers \ lost'
        PROVE  Served(s, phase', request', toDevice, fromDevice', settings'[r], device'[r], r)
    <2>1. r \in Registers \ lost /\ q.awaiting.reg # r
      BY <1>2
    <2>2. Served(q, phase, request, toDevice, fromDevice, settings[r], device[r], r)
      BY <1>2, <2>1 DEF CacheInv, AllServed
    <2>3. /\ Unsent(q, r) => Unsent(s, r)
          /\ UnsentTwice(q, r) => UnsentTwice(s, r)
      BY <1>1, <2>1, StartingServes
    <2>4. Served(s, phase, request, toDevice, fromDevice, settings[r], device[r], r)
      BY <2>2, <2>3 DEF Served
    <2>. QED  BY <1>2, <2>4
  <1>4. ASSUME Unasked'
        PROVE  /\ ack = None
               /\ s.pending # None => s.awaiting # None /\ s.awaiting.reg = s.pending
               /\ \A i \in 1..Len(toDevice) : toDevice[i].kind = "read"
               /\ \A r \in Registers \ lost' : Alone(s, toDevice, fromDevice', r)
               /\ phase' = "subscribed"
    <2>1. ack = None /\ q.pending = None
      BY <1>2, <1>4, BeforeHolds
    <2>2. BeforeAny /\ phase' = phase /\ fromDevice' = fromDevice /\ phase # "ended" /\ Unasked
      BY <1>2, <1>4 DEF CacheInv
    <2>3. \A r \in Registers \ lost' : Alone(s, toDevice, fromDevice', r)
      <3>. TAKE r \in Registers \ lost'
      <3>1. r \in Registers \ lost /\ q.awaiting.reg # r
        BY <1>2
      <3>. QED  BY <2>2, <3>1 DEF BeforeAny, Alone
    <2>. QED  BY <1>1, <2>1, <2>2, <2>3, StartingAwaits DEF BeforeAny
  <1>5. s \in ReadQueue
    BY <1>1, StartNextReadSound
  <1>. QED  BY <1>1, <1>2, <1>3, <1>4, <1>5, HandlerServes

(* The hold is lifted, by time or by an acknowledgement, and frames that   *)
(* say nothing of the register are taken.                                  *)
LEMMA HoldLiftedServes ==
    ASSUME IInv, CacheInv, Unasked' => Unasked,
           AckTimedOut \/ WriteAck \/ AcceptReport \/ AcceptSnapshot
    PROVE  CacheKept
  <1>1. q \in ReadQueue /\ toDevice \in Seq(ToDevice) /\ fromDevice \in Seq(FromDevice)
    BY TypesSplit DEF RestOK
  <1>2. PICK a : SendPendingRead(q, a, toDevice) /\ (a = None \/ a = ack)
    BY DEF AckTimedOut, WriteAck, AcceptReport, AcceptSnapshot
  <1>3. UNCHANGED <<phase, request, device, lost>> /\ phase # "ended"
    BY DEF AckTimedOut, WriteAck, AcceptReport, AcceptSnapshot, deviceVars, callerVars,
           historyVars, Running, NextPacket
  <1>4. \/ fromDevice' = fromDevice /\ settings' = settings
        \/ /\ Shorter(fromDevice, fromDevice') /\ fromDevice[1].kind # "answer"
           /\ IF fromDevice[1].kind = "snapshot" THEN settings' = fromDevice[1].vals
              ELSE settings' = settings
    <2>1. CASE AckTimedOut
      BY <2>1 DEF AckTimedOut
    <2>2. CASE WriteAck \/ AcceptReport \/ AcceptSnapshot
      <3>1. fromDevice # <<>> /\ fromDevice' = Tail(fromDevice)
        BY <2>2 DEF WriteAck, AcceptReport, AcceptSnapshot, NextPacket
      <3>2. Shorter(fromDevice, fromDevice') /\ Head(fromDevice) = fromDevice[1]
        BY <1>1, <3>1, OneLess
      <3>. QED  BY <2>2, <3>2 DEF WriteAck, AcceptReport, AcceptSnapshot, NextPacket
    <2>. QED  BY <2>1, <2>2
  <1>5. \A r \in Registers :
           /\ Answering(fromDevice, r) = {} => Answering(fromDevice', r) = {}
           /\ Single(toDevice, fromDevice, r) => Single(toDevice, fromDevice', r)
           /\ Settling(fromDevice, settings[r], device[r], r) =>
                Settling(fromDevice', settings'[r], device[r], r)
    <2>. TAKE r \in Registers
    <2>1. CASE fromDevice' = fromDevice /\ settings' = settings
      BY <2>1
    <2>2. CASE /\ Shorter(fromDevice, fromDevice') /\ fromDevice[1].kind # "answer"
               /\ IF fromDevice[1].kind = "snapshot" THEN settings' = fromDevice[1].vals
                  ELSE settings' = settings
      <3>1. /\ Tells(fromDevice[1], r) /\ Agrees(fromDevice[1], device[r], r) =>
                 settings'[r] = device[r]
            /\ ~ Tells(fromDevice[1], r) => settings'[r] = settings[r]
        BY <2>2 DEF Tells, Agrees
      <3>2. Shorter(fromDevice, fromDevice')
        BY <2>2
      <3>3. Settling(fromDevice, settings[r], device[r], r) =>
                Settling(fromDevice', settings'[r], device[r], r)
        BY <3>1, <3>2, LessHeard
      <3>4. /\ Answering(fromDevice, r) = {} => Answering(fromDevice', r) = {}
            /\ (\A i, j \in Answering(fromDevice, r) : i = j) =>
                  \A i, j \in Answering(fromDevice', r) : i = j
        BY <3>2, LessAnswered
      <3>. QED  BY <3>3, <3>4 DEF Single
    <2>. QED  BY <1>4, <2>1, <2>2
  <1>6. ASSUME NEW r \in Registers \ lost'
        PROVE  Served(q, phase', request', toDevice, fromDevice', settings'[r], device'[r], r)
    <2>1. Served(q, phase, request, toDevice, fromDevice, settings[r], device[r], r)
      BY <1>3 DEF CacheInv, AllServed
    <2>2. Served(q, phase, request, toDevice, fromDevice', settings'[r], device[r], r)
      BY <1>5, <2>1 DEF Served, Free
    <2>. QED  BY <1>3, <2>2
  <1>7. ASSUME Unasked'
        PROVE  /\ a = None
               /\ q.pending = None
               /\ \A i \in 1..Len(toDevice) : toDevice[i].kind = "read"
               /\ \A r \in Registers \ lost' : Alone(q, toDevice, fromDevice', r)
               /\ phase' # "subscribed" =>
                   /\ q.reads = <<>> /\ q.awaiting = None /\ toDevice = <<>>
                   /\ \A i \in 1..Len(fromDevice') : fromDevice'[i].kind # "answer"
    <2>1. ack = None /\ q.pending = None
      BY <1>3, <1>7, BeforeHolds
    <2>2. BeforeAny /\ phase' = phase /\ lost' = lost /\ phase # "ended" /\ Unasked
      BY <1>3, <1>7 DEF CacheInv
    <2>3. \A r \in Registers \ lost' : Alone(q, toDevice, fromDevice', r)
      BY <1>5, <2>2 DEF BeforeAny, Alone, Free
    <2>4. (\A i \in 1..Len(fromDevice) : fromDevice[i].kind # "answer") =>
              \A i \in 1..Len(fromDevice') : fromDevice'[i].kind # "answer"
      BY <1>4 DEF Shorter
    <2>. QED  BY <1>2, <2>1, <2>2, <2>3, <2>4 DEF BeforeAny
  <1>. QED  BY <1>1, <1>2, <1>6, <1>7, HandlerServes

(* SUBSCRIBE: from here every register has been asked for.                 *)
LEMMA SubscribeServes ==
    ASSUME IInv, CacheInv, Unasked' => Unasked, ReadsEverything, Subscribe
    PROVE  CacheKept
  <1>. DEFINE s == BeginResync(q)
  <1>1. q \in ReadQueue /\ s \in ReadQueue /\ toDevice \in Seq(ToDevice)
    BY TypesSplit, BeginResyncSound
  <1>2. /\ SendPendingRead(s, ack, toDevice) /\ phase = "connected" /\ phase' = "subscribed"
        /\ UNCHANGED <<settings, request, fromDevice, device, lost>>
    BY DEF Subscribe, deviceVars, historyVars
  <1>3. ASSUME NEW r \in Registers \ lost'
        PROVE  Served(s, phase', request', toDevice, fromDevice', settings'[r], device'[r], r)
    <2>1. Served(q, phase, request, toDevice, fromDevice, settings[r], device[r], r)
      BY <1>2 DEF CacheInv, AllServed
    <2>2. Unsent(s, r) /\ (UnsentTwice(q, r) => UnsentTwice(s, r))
      BY <1>1, BeginResyncKeeps
    <2>3. Served(s, phase', request, toDevice, fromDevice, settings[r], device[r], r)
      BY <2>1, <2>2 DEF Served
    <2>. QED  BY <1>2, <2>3
  <1>4. ASSUME Unasked'
        PROVE  /\ ack = None
               /\ s.pending # None => s.awaiting # None /\ s.awaiting.reg = s.pending
               /\ \A i \in 1..Len(toDevice) : toDevice[i].kind = "read"
               /\ \A r \in Registers \ lost' : Alone(s, toDevice, fromDevice', r)
    <2>1. ack = None /\ q.pending = None
      BY <1>2, <1>4, BeforeHolds
    <2>2. /\ toDevice = <<>> /\ Len(<<>>) = 0
          /\ \A i \in 1..Len(fromDevice) : fromDevice[i].kind # "answer"
      BY <1>2, <1>4 DEF CacheInv, BeforeAny
    <2>3. \A r : Free(toDevice, fromDevice', r)
      BY <1>2, <2>2 DEF Free, Asking, Answering
    <2>4. \A r : Alone(s, toDevice, fromDevice', r)
      BY <2>3 DEF Alone, Single, Free
    <2>5. s.pending # None => s.awaiting # None /\ s.awaiting.reg = s.pending
      <3>. DEFINE resync == [i \in 1..Len(ResyncOrder) |->
                               Read(ResyncOrder[i], "resync", None, None)]
                  queued == [q EXCEPT !.reads = q.reads \o resync]
      <3>1. resync \in [1..Len(ResyncOrder) -> PendingRead] /\ Len(ResyncOrder) \in Nat
        BY ReadType
      <3>2. resync \in Seq(PendingRead)
        BY <3>1, SeqDef
      <3>3. queued \in ReadQueue /\ queued.pending = None
        BY <1>1, <2>1, <3>2, ConcatProperties DEF ReadQueue
      <3>. QED  BY <3>3, StartingAwaits DEF BeginResync
    <2>. QED  BY <2>1, <2>2, <2>4, <2>5
  <1>. QED  BY <1>1, <1>2, <1>3, <1>4, HandlerServes

(* An answer: of two reads of a register, the one thing on its way settles *)
(* one at most; an answer of another register settles neither.             *)
LEMMA AcceptReadServes ==
    ASSUME IInv, CacheInv, Unasked' => Unasked, AcceptRead
    PROVE  CacheKept
  <1>. DEFINE m == fromDevice[1]
              expected == q.awaiting # None /\ q.awaiting.reg = m.reg
              s == IF expected THEN StartNextRead(q) ELSE q
  <1>1. /\ q \in ReadQueue /\ Coherent(q) /\ toDevice \in Seq(ToDevice)
        /\ fromDevice \in Seq(FromDevice) /\ settings \in [Registers -> Values \cup {None}]
    BY TypesSplit DEF RestOK
  <1>2. /\ fromDevice # <<>> /\ fromDevice' = Tail(fromDevice)
        /\ Head(fromDevice).kind = "answer" /\ phase # "ended"
        /\ UNCHANGED <<phase, request, device, lost>>
    BY DEF AcceptRead, NextPacket, Running, deviceVars
  <1>3. Shorter(fromDevice, fromDevice') /\ Head(fromDevice) = m
    BY <1>1, <1>2, OneLess
  <1>4. m.kind = "answer" /\ m.reg \in Registers
    BY <1>2, <1>3, NextPacketSound DEF AcceptRead, FromDevice
  <1>5. settings' = [settings EXCEPT ![m.reg] = m.val] /\ SendPendingRead(s, ack, toDevice)
    BY <1>3 DEF AcceptRead
  <1>6. s \in ReadQueue
    BY <1>1, StartNextReadSound
  <1>7. \A r \in Registers :
           /\ Answering(fromDevice, r) = {} => Answering(fromDevice', r) = {} /\ m.reg # r
           /\ Single(toDevice, fromDevice, r) => Single(toDevice, fromDevice', r)
           /\ Single(toDevice, fromDevice, r) /\ m.reg = r => Free(toDevice, fromDevice', r)
           /\ Settling(fromDevice, settings[r], device[r], r) =>
                Settling(fromDevice', settings'[r], device[r], r)
    <2>. TAKE r \in Registers
    <2>1. /\ Tells(m, r) /\ Agrees(m, device[r], r) => settings'[r] = device[r]
          /\ ~ Tells(m, r) => settings'[r] = settings[r]
      BY <1>1, <1>4, <1>5 DEF Tells, Agrees
    <2>2. Settling(fromDevice, settings[r], device[r], r) =>
              Settling(fromDevice', settings'[r], device[r], r)
      BY <1>3, <2>1, LessHeard
    <2>3. /\ Answering(fromDevice, r) = {} => Answering(fromDevice', r) = {}
          /\ (\A i, j \in Answering(fromDevice, r) : i = j) =>
                \A i, j \in Answering(fromDevice', r) : i = j
          /\ (\A i, j \in Answering(fromDevice, r) : i = j) /\ m.reg = r =>
                Answering(fromDevice', r) = {}
          /\ m.reg = r => Answering(fromDevice, r) # {}
      <3>1. /\ Answering(fromDevice, r) = {} => Answering(fromDevice', r) = {}
            /\ (\A i, j \in Answering(fromDevice, r) : i = j) =>
                  \A i, j \in Answering(fromDevice', r) : i = j
            /\ (\A i, j \in Answering(fromDevice, r) : i = j)
                  /\ fromDevice[1].kind = "answer" /\ fromDevice[1].reg = r =>
                       Answering(fromDevice', r) = {}
            /\ fromDevice[1].kind = "answer" /\ fromDevice[1].reg = r =>
                  Answering(fromDevice, r) # {}
        BY <1>3, LessAnswered
      <3>. QED  BY <1>4, <3>1
    <2>. QED  BY <2>2, <2>3 DEF Single, Free
  <1>8. ASSUME NEW r \in Registers \ lost'
        PROVE  Served(s, phase', request', toDevice, fromDevice', settings'[r], device'[r], r)
    <2>1. Served(q, phase, request, toDevice, fromDevice, settings[r], device[r], r)
      BY <1>2 DEF CacheInv, AllServed
    <2>2. m.reg # r => /\ Unsent(q, r) => Unsent(s, r)
                       /\ UnsentTwice(q, r) => UnsentTwice(s, r)
      BY <1>1, StartingServes
    <2>3. UnsentTwice(q, r) => Unsent(s, r)
      <3>1. UnsentTwice(q, r) => Queued(q.reads, r)
        BY DEF UnsentTwice, Queued, QueuedTwice
      <3>. QED  BY <1>1, <3>1, StartNextReadKeeps DEF Unsent
    <2>4. Served(s, phase, request, toDevice, fromDevice', settings'[r], device[r], r)
      <3>1. CASE ~ ChangeComing(request, toDevice, r)
                    /\ Settling(fromDevice, settings[r], device[r], r)
        BY <1>7, <3>1 DEF Served
      <3>2. CASE AnswerComing(request, toDevice, r)
        BY <3>2 DEF Served
      <3>3. CASE Free(toDevice, fromDevice, r) /\ (Unsent(q, r) \/ phase # "subscribed")
        <4>1. m.reg # r /\ Free(toDevice, fromDevice', r)
          BY <1>7, <3>3 DEF Free
        <4>. QED  BY <2>2, <3>3, <4>1 DEF Served
      <3>4. CASE Single(toDevice, fromDevice, r) /\ UnsentTwice(q, r)
        <4>1. CASE m.reg = r
          BY <1>7, <2>3, <3>4, <4>1 DEF Served
        <4>2. CASE m.reg # r
          BY <1>7, <2>2, <3>4, <4>2 DEF Served
        <4>. QED  BY <4>1, <4>2
      <3>. QED  BY <2>1, <3>1, <3>2, <3>3, <3>4 DEF Served
    <2>. QED  BY <1>2, <2>4
  <1>9. ASSUME Unasked'
        PROVE  /\ ack = None
               /\ s.pending # None => s.awaiting # None /\ s.awaiting.reg = s.pending
               /\ \A i \in 1..Len(toDevice) : toDevice[i].kind = "read"
               /\ \A r \in Registers \ lost' : Alone(s, toDevice, fromDevice', r)
               /\ phase' = "subscribed"
    <2>1. ack = None /\ q.pending = None
      BY <1>2, <1>9, BeforeHolds
    <2>2. /\ \A i \in 1..Len(toDevice) : toDevice[i].kind = "read"
          /\ \A r \in Registers \ lost : Alone(q, toDevice, fromDevice, r)
          /\ phase # "subscribed" => \A i \in 1..Len(fromDevice) : fromDevice[i].kind # "answer"
      BY <1>2, <1>9 DEF CacheInv, BeforeAny
    <2>3. phase = "subscribed"
      <3>1. 1 \in 1..Len(fromDevice)
        BY <1>3 DEF Shorter
      <3>. QED  BY <1>4, <2>2, <3>1
    <2>4. s.pending # None => s.awaiting # None /\ s.awaiting.reg = s.pending
      BY <1>1, <2>1, StartingAwaits
    <2>5. ASSUME NEW r \in Registers \ lost' PROVE Alone(s, toDevice, fromDevice', r)
      <3>1. Alone(q, toDevice, fromDevice, r)
        BY <1>2, <2>2
      <3>2. Free(toDevice, fromDevice, r) => Free(toDevice, fromDevice', r)
        BY <1>7 DEF Free
      <3>3. Free(toDevice, fromDevice', r) => Single(toDevice, fromDevice', r)
        BY DEF Free, Single
      <3>4. CASE expected
        <4>1. Free(toDevice, fromDevice', r)
          BY <1>7, <3>1, <3>2, <3>4 DEF Alone
        <4>. QED  BY <3>3, <4>1 DEF Alone
      <3>5. CASE ~ expected
        BY <1>7, <3>1, <3>2, <3>5 DEF Alone
      <3>. QED  BY <3>4, <3>5
    <2>. QED  BY <1>2, <2>1, <2>2, <2>3, <2>4, <2>5
  <1>. QED  BY <1>1, <1>2, <1>5, <1>6, <1>8, <1>9, HandlerServes

(* The caller's request is taken: it is the only one there will be.        *)
LEMMA RequestTaken ==
    ASSUME IInv, CacheInv, NEW c \in Callers, NextRequest(c), Unasked
    PROVE  /\ phase # "ended" /\ ack = None /\ q.pending = None
           /\ \A r \in Registers \ lost :
                /\ Alone(q, toDevice, fromDevice, r)
                /\ phase # "subscribed" => Free(toDevice, fromDevice, r)
                /\ Served(q, phase, request, toDevice, fromDevice, settings[r], device[r], r)
  <1>1. phase # "ended"
    BY DEF NextRequest, Running
  <1>2. ack = None /\ q.pending = None
    BY <1>1, BeforeHolds
  <1>3. phase # "subscribed" => \A r : Free(toDevice, fromDevice, r)
    <2>1. Len(<<>>) = 0
      OBVIOUS
    <2>. QED  BY <1>1, <2>1 DEF CacheInv, BeforeAny, Free, Asking, Answering
  <1>4. \A r \in Registers \ lost :
            /\ Alone(q, toDevice, fromDevice, r)
            /\ Served(q, phase, request, toDevice, fromDevice, settings[r], device[r], r)
    BY <1>1 DEF CacheInv, BeforeAny, AllServed
  <1>. QED  BY <1>1, <1>2, <1>3, <1>4

(* Action::Refresh: a read more.                                           *)
LEMMA RefreshServes ==
    ASSUME IInv, CacheInv, NEW c \in Callers, HandleRefresh(c), ~ Unasked', Unasked
    PROVE  CacheKept
  <1>. DEFINE s == EnqueueVerification(q, request[c].reg, None, c)
  <1>1. NextRequest(c) /\ SendPendingRead(s, ack, toDevice)
        /\ UNCHANGED <<phase, settings, request, fromDevice, device, lost>>
    BY DEF HandleRefresh, deviceVars, historyVars
  <1>2. q \in ReadQueue /\ Coherent(q) /\ toDevice \in Seq(ToDevice)
    BY TypesSplit
  <1>3. request[c].reg \in Registers
    BY NextRequestSound DEF HandleRefresh, Request
  <1>4. s \in ReadQueue
    BY <1>2, <1>3, EnqueueVerificationSound
  <1>5. ASSUME NEW r \in Registers \ lost'
        PROVE  Served(s, phase', request', toDevice, fromDevice', settings'[r], device'[r], r)
    <2>1. Served(q, phase, request, toDevice, fromDevice, settings[r], device[r], r)
          /\ q.pending = None
      BY <1>1, RequestTaken
    <2>2. /\ Unsent(q, r) => Unsent(s, r)
          /\ UnsentTwice(q, r) => UnsentTwice(s, r)
      BY <1>2, <1>3, <2>1, EnqueueVerificationKeeps
    <2>3. Served(s, phase, request, toDevice, fromDevice, settings[r], device[r], r)
      BY <2>1, <2>2 DEF Served
    <2>. QED  BY <1>1, <2>3
  <1>. QED  BY <1>1, <1>2, <1>4, <1>5, HandlerServes

(* A write goes out, and the read in flight is queued again.  A register   *)
(* it changes is read back; the one read that may be on its way was the    *)
(* one awaited, which makes two reads queued.                              *)
LEMMA WriteServes ==
    ASSUME NEW asked, NEW to \in Seq(ToDevice), NEW c \in Callers, NEW from,
           NEW s \in ReadQueue, NEW t, NEW ph, NEW held, NEW real, NEW r \in Registers,
           Served(s, ph, asked, to, from, held, real, r), Alone(s, to, from, r),
           ph # "subscribed" => Free(to, from, r),
           Unsent(s, r) => Unsent(t, r),
           UnsentTwice(s, r) => UnsentTwice(t, r),
           Alters(asked, c, r) => Unsent(t, r),
           Alters(asked, c, r) /\ s.awaiting # None /\ s.awaiting.reg = r => UnsentTwice(t, r)
    PROVE  Served(t, ph, asked, Append(to, [kind |-> "write", by |-> c]), from, held, real, r)
  <1>. DEFINE m == [kind |-> "write", by |-> c]
              more == Append(to, m)
  <1>1. m \in ToDevice /\ m.kind # "read"
    BY DEF ToDevice
  <1>2. Longer(to, m, more)
    <2>. HIDE DEF m
    <2>. QED  BY <1>1, OneMore
  <1>3. Asking(more, r) = Asking(to, r)
    <2>. HIDE DEF m, more
    <2>. QED  BY <1>1, <1>2, MoreAsked
  <1>4. /\ Free(to, from, r) => Free(more, from, r)
        /\ Single(to, from, r) => Single(more, from, r)
    BY <1>3 DEF Free, Single
  <1>5. CASE Alters(asked, c, r)
    <2>1. CASE Free(to, from, r)
      BY <1>4, <1>5, <2>1 DEF Served
    <2>2. CASE ~ Free(to, from, r)
      BY <1>4, <1>5, <2>2 DEF Served, Alone
    <2>. QED  BY <2>1, <2>2
  <1>6. CASE ~ Alters(asked, c, r)
    <2>1. ~ Changes(asked, m, r)
      BY <1>6 DEF Changes
    <2>2. /\ ~ ChangeComing(asked, to, r) => ~ ChangeComing(asked, more, r)
          /\ AnswerComing(asked, to, r) => AnswerComing(asked, more, r)
      <3>. HIDE DEF m, more
      <3>. QED  BY <1>2, <2>1, MoreSent
    <2>. QED  BY <1>4, <2>2 DEF Served
  <1>. QED  BY <1>5, <1>6

(* Action::Apply.                                                          *)
LEMMA ApplyServes ==
    ASSUME IInv, CacheInv, NEW c \in Callers, HandleApply(c), ~ Unasked', Unasked
    PROVE  CacheKept
  <1>. DEFINE down == StandDown(q)
              s == EnqueueAll(down, Verify(request[c]), c)
  <1>1. NextRequest(c) /\ SendPendingRead(s, AckTimeout, Write(c)) /\ request[c].op = "set"
        /\ UNCHANGED <<phase, settings, request, fromDevice, device, lost>>
    BY DEF HandleApply, deviceVars
  <1>2. q \in ReadQueue /\ Coherent(q) /\ toDevice \in Seq(ToDevice) /\ Write(c) \in Seq(ToDevice)
    BY TypesSplit, WriteSound
  <1>3. request[c].reg \in Registers /\ request[c].val \in Values
    <2>1. request[c] \in Requests
      BY NextRequestSound DEF HandleApply
    <2>. QED  BY <2>1 DEF HandleApply, Expressible, Request
  <1>4. down \in ReadQueue /\ Coherent(down) /\ q.pending = None
    BY <1>1, <1>2, StandDownSound, RequestTaken
  <1>5. s \in ReadQueue
    BY <1>3, <1>4, EnqueueAllSound
  <1>6. ASSUME NEW r \in Registers \ lost'
        PROVE  Served(s, phase', request', Write(c), fromDevice', settings'[r], device'[r], r)
    <2>1. /\ Served(q, phase, request, toDevice, fromDevice, settings[r], device[r], r)
          /\ Alone(q, toDevice, fromDevice, r)
          /\ phase # "subscribed" => Free(toDevice, fromDevice, r)
      BY <1>1, RequestTaken
    <2>2. /\ Unsent(q, r) => Unsent(down, r)
          /\ UnsentTwice(q, r) => UnsentTwice(down, r)
          /\ q.awaiting # None /\ q.awaiting.reg = r => Unsent(down, r)
          /\ down.awaiting = None /\ down.pending = None
      BY <1>2, <1>4, StandDownKeeps
    <2>3. Alters(request, c, r) =>
              request[c].reg = r \/ (request[c].reg = PowerPlus /\ r = OutputPower)
      BY DEF Alters
    <2>4. /\ Unsent(down, r) => Unsent(s, r)
          /\ UnsentTwice(down, r) => UnsentTwice(s, r)
          /\ Alters(request, c, r) => Unsent(s, r)
          /\ Alters(request, c, r) /\ Unsent(down, r) => UnsentTwice(s, r)
      <3>. HIDE DEF down
      <3>. QED  BY <1>3, <1>4, <2>2, <2>3, EnqueueAllKeeps
    <2>5. Served(s, phase, request, Write(c), fromDevice, settings[r], device[r], r)
      <3>. HIDE DEF s, down
      <3>. QED  BY <1>2, <2>1, <2>2, <2>4, WriteServes DEF Write
    <2>. QED  BY <1>1, <2>5
  <1>. QED  BY <1>1, <1>2, <1>5, <1>6, HandlerServes

(* Action::Send: a write that changes no setting, or no write at all.      *)
LEMMA SendServes ==
    ASSUME IInv, CacheInv, NEW c \in Callers, HandleSend(c), ~ Unasked', Unasked
    PROVE  CacheKept
  <1>1. NextRequest(c) /\ request[c].op \in {"meter", "config"}
        /\ UNCHANGED <<phase, settings, request, fromDevice, device, lost>>
    BY DEF HandleSend, deviceVars
  <1>2. q \in ReadQueue /\ Coherent(q) /\ toDevice \in Seq(ToDevice) /\ Write(c) \in Seq(ToDevice)
    BY TypesSplit, WriteSound
  <1>3. q.pending = None /\ \A r \in Registers \ lost :
           /\ Served(q, phase, request, toDevice, fromDevice, settings[r], device[r], r)
           /\ Alone(q, toDevice, fromDevice, r)
           /\ phase # "subscribed" => Free(toDevice, fromDevice, r)
    BY <1>1, RequestTaken
  <1>4. CASE Acknowledged(request[c])
    <2>. DEFINE s == StandDown(q)
    <2>1. SendPendingRead(s, AckTimeout, Write(c))
      BY <1>4 DEF HandleSend
    <2>2. s \in ReadQueue
      BY <1>2, StandDownSound
    <2>3. ASSUME NEW r \in Registers \ lost'
          PROVE  Served(s, phase', request', Write(c), fromDevice', settings'[r], device'[r], r)
      <3>1. /\ Served(q, phase, request, toDevice, fromDevice, settings[r], device[r], r)
            /\ Alone(q, toDevice, fromDevice, r)
            /\ phase # "subscribed" => Free(toDevice, fromDevice, r)
        BY <1>1, <1>3
      <3>2. /\ Unsent(q, r) => Unsent(s, r)
            /\ UnsentTwice(q, r) => UnsentTwice(s, r)
        BY <1>2, <1>3, StandDownKeeps
      <3>3. ~ Alters(request, c, r)
        BY <1>1 DEF Alters
      <3>4. Served(s, phase, request, Write(c), fromDevice, settings[r], device[r], r)
        <4>. HIDE DEF s
        <4>. QED  BY <1>2, <3>1, <3>2, <3>3, WriteServes DEF Write
      <3>. QED  BY <1>1, <3>4
    <2>. QED  BY <1>1, <1>2, <2>1, <2>2, <2>3, HandlerServes
  <1>5. CASE ~ Acknowledged(request[c])
    <2>1. SendPendingRead(q, ack, toDevice)
      BY <1>5 DEF HandleSend
    <2>2. \A r \in Registers \ lost' :
             Served(q, phase', request', toDevice, fromDevice', settings'[r], device'[r], r)
      BY <1>1, <1>3
    <2>. QED  BY <1>2, <2>1, <2>2, HandlerServes
  <1>. QED  BY <1>4, <1>5

(* The caller asks: no write is on its way that its request could concern. *)
LEMMA SubmitServes ==
    ASSUME IInv, CacheInv, Unasked' => Unasked, NEW c \in Callers, Submit(c)
    PROVE  CacheKept
  <1>1. /\ q' = q /\ ack' = ack
        /\ UNCHANGED <<phase, toDevice, fromDevice, settings, device, lost>>
    BY DEF Submit, sessionVars, deviceVars, historyVars
  <1>2. Unasked
    BY DEF Submit, Unasked
  <1>3. BeforeAny'
    BY <1>1 DEF CacheInv, BeforeAny
  <1>4. ASSUME phase' # "ended", NEW r \in Registers \ lost'
        PROVE  Served(q', phase', request', toDevice', fromDevice', settings'[r], device'[r], r)
    <2>1. Served(q, phase, request, toDevice, fromDevice, settings[r], device[r], r)
      BY <1>1, <1>4 DEF CacheInv, AllServed
    <2>2. \A i \in 1..Len(toDevice) : toDevice[i].kind = "read"
      BY <1>1, <1>2, <1>4 DEF CacheInv, BeforeAny
    <2>3. ~ ChangeComing(request', toDevice, r)
      BY <2>2 DEF ChangeComing, Changes
    <2>4. AnswerComing(request, toDevice, r) => AnswerComing(request', toDevice, r)
      <3>. SUFFICES ASSUME AnswerComing(request, toDevice, r)
                    PROVE  AnswerComing(request', toDevice, r)
        OBVIOUS
      <3>1. PICK i \in Asking(toDevice, r) : TRUE
        BY DEF AnswerComing
      <3>2. \A j \in i..Len(toDevice) : toDevice[j].kind = "read"
        <4>1. i \in 1..Len(toDevice) /\ Len(toDevice) \in Nat
          BY <3>1, TypesSplit, LenProperties DEF Asking
        <4>. QED  BY <2>2, <4>1
      <3>. QED  BY <3>1, <3>2 DEF AnswerComing, Changes
    <2>5. Served(q, phase, request', toDevice, fromDevice, settings[r], device[r], r)
      BY <2>1, <2>3, <2>4 DEF Served
    <2>. QED  BY <1>1, <2>5
  <1>5. AllServed'
    BY <1>4 DEF AllServed
  <1>. QED  BY <1>3, <1>5 DEF CacheKept

-----------------------------------------------------------------------------
(* The device.                                                             *)

(* A frame of the device that says of no register what it does not hold,   *)
(* and is no answer, leaves every register as well served as it was.       *)
LEMMA TellingServes ==
    ASSUME NEW from \in Seq(FromDevice), NEW m \in FromDevice, NEW r, NEW real,
           m.kind # "answer", Agrees(m, real, r), NEW more, more = Append(from, m)
    PROVE  /\ Answering(more, r) = Answering(from, r)
           /\ \A held : Settling(from, held, real, r) => Settling(more, held, real, r)
  <1>1. Longer(from, m, more)
    BY OneMore
  <1>2. Answering(more, r) = Answering(from, r)
    BY <1>1, MoreAnswered
  <1>3. ASSUME NEW held, Settling(from, held, real, r) PROVE Settling(more, held, real, r)
    BY <1>1, <1>3, MoreHeard
  <1>. QED  BY <1>2, <1>3

(* The device answers a read, or does not.                                 *)
LEMMA DeviceReadsServes ==
    ASSUME IInv, CacheInv, Unasked' => Unasked, DeviceReads
    PROVE  CacheKept
  <1>. DEFINE x == toDevice[1].reg
              m == [kind |-> "answer", reg |-> x, val |-> device[x], seen |-> applied]
  <1>1. /\ toDevice \in Seq(ToDevice) /\ fromDevice \in Seq(FromDevice)
        /\ device \in [Registers -> Values] /\ applied \subseteq Callers
    BY TypesSplit DEF RestOK
  <1>2. /\ toDevice # <<>> /\ toDevice' = Tail(toDevice) /\ Head(toDevice).kind = "read"
        /\ q' = q /\ ack' = ack /\ UNCHANGED <<phase, request, settings, device>>
    BY DEF DeviceReads, sessionVars, callerVars, deviceVars
  <1>3. Shorter(toDevice, toDevice') /\ Head(toDevice) = toDevice[1]
    BY <1>1, <1>2, OneLess
  <1>4. toDevice[1].kind = "read" /\ x \in Registers
    BY <1>1, <1>2, <1>3, HeadTailProperties DEF ToDevice
  <1>5. \/ fromDevice' = Append(fromDevice, m) /\ lost' = lost
        \/ fromDevice' = fromDevice /\ lost' = lost \cup {x}
    BY <1>2, <1>3, Zenon DEF DeviceReads
  <1>6. m \in FromDevice /\ m.kind = "answer" /\ m.reg = x /\ m.val = device[x]
    BY <1>1, <1>4 DEF FromDevice
  <1>. HIDE DEF m
  <1>7. ASSUME NEW r \in Registers \ lost'
        PROVE  /\ Free(toDevice, fromDevice, r) => Free(toDevice', fromDevice', r)
               /\ Single(toDevice, fromDevice, r) => Single(toDevice', fromDevice', r)
               /\ ~ ChangeComing(request, toDevice, r)
                    /\ Settling(fromDevice, settings[r], device[r], r) =>
                    ~ ChangeComing(request, toDevice', r)
                    /\ Settling(fromDevice', settings[r], device[r], r)
               /\ AnswerComing(request, toDevice, r) =>
                    \/ AnswerComing(request, toDevice', r)
                    \/ ~ ChangeComing(request, toDevice', r)
                         /\ Settling(fromDevice', settings[r], device[r], r)
    <2>1. /\ ~ ChangeComing(request, toDevice, r) => ~ ChangeComing(request, toDevice', r)
          /\ AnswerComing(request, toDevice, r) =>
                \/ AnswerComing(request, toDevice', r)
                \/ x = r /\ ~ ChangeComing(request, toDevice', r)
      BY <1>3, LessSent
    <2>2. /\ Asking(toDevice, r) = {} => Asking(toDevice', r) = {}
          /\ (\A i, j \in Asking(toDevice, r) : i = j) =>
                \A i, j \in Asking(toDevice', r) : i = j
          /\ (\A i, j \in Asking(toDevice, r) : i = j) /\ x = r => Asking(toDevice', r) = {}
          /\ x = r => Asking(toDevice, r) # {}
      <3>1. /\ Asking(toDevice, r) = {} => Asking(toDevice', r) = {}
            /\ (\A i, j \in Asking(toDevice, r) : i = j) =>
                  \A i, j \in Asking(toDevice', r) : i = j
            /\ (\A i, j \in Asking(toDevice, r) : i = j)
                  /\ toDevice[1].kind = "read" /\ toDevice[1].reg = r =>
                       Asking(toDevice', r) = {}
            /\ toDevice[1].kind = "read" /\ toDevice[1].reg = r => Asking(toDevice, r) # {}
        BY <1>3, LessAsked
      <3>. QED  BY <1>4, <3>1
    <2>3. CASE fromDevice' = Append(fromDevice, m)
      <3>1. Longer(fromDevice, m, fromDevice')
        BY <1>1, <1>6, <2>3, OneMore
      <3>2. Agrees(m, device[r], r) /\ (x = r => Tells(m, r))
        BY <1>6 DEF Agrees, Tells
      <3>3. /\ Settling(fromDevice, settings[r], device[r], r) =>
                   Settling(fromDevice', settings[r], device[r], r)
            /\ x = r => Settling(fromDevice', settings[r], device[r], r)
        BY <3>1, <3>2, MoreHeard
      <3>4. /\ x # r => Answering(fromDevice', r) = Answering(fromDevice, r)
            /\ x = r => Answering(fromDevice', r) =
                           Answering(fromDevice, r) \cup {Len(fromDevice) + 1}
        BY <1>6, <3>1, MoreAnswered
      <3>5. CASE x = r
        BY <2>1, <2>2, <3>3, <3>4, <3>5 DEF Free, Single
      <3>6. CASE x # r
        BY <2>1, <2>2, <3>3, <3>4, <3>6 DEF Free, Single
      <3>. QED  BY <3>5, <3>6
    <2>4. CASE fromDevice' = fromDevice /\ lost' = lost \cup {x}
      <3>1. x # r
        BY <2>4
      <3>. QED  BY <2>1, <2>2, <2>4, <3>1 DEF Free, Single
    <2>. QED  BY <1>5, <2>3, <2>4
  <1>8. ASSUME phase' # "ended", NEW r \in Registers \ lost'
        PROVE  Served(q', phase', request', toDevice', fromDevice', settings'[r], device'[r], r)
    <2>1. Served(q, phase, request, toDevice, fromDevice, settings[r], device[r], r)
      BY <1>2, <1>5, <1>8 DEF CacheInv, AllServed
    <2>2. Served(q, phase, request, toDevice', fromDevice', settings[r], device[r], r)
      BY <1>7, <2>1 DEF Served
    <2>. QED  BY <1>2, <2>2
  <1>9. ASSUME phase' # "ended", Unasked'
        PROVE  /\ ack' = None
               /\ \A i \in 1..Len(toDevice') : toDevice'[i].kind = "read"
               /\ \A r \in Registers \ lost' : Alone(q', toDevice', fromDevice', r)
               /\ phase' = "subscribed"
    <2>1. /\ ack = None
          /\ \A i \in 1..Len(toDevice) : toDevice[i].kind = "read"
          /\ \A r \in Registers \ lost : Alone(q, toDevice, fromDevice, r)
          /\ phase # "subscribed" => toDevice = <<>>
      BY <1>2, <1>9 DEF CacheInv, BeforeAny
    <2>2. \A i \in 1..Len(toDevice') : toDevice'[i].kind = "read"
      BY <1>3, <2>1 DEF Shorter
    <2>3. ASSUME NEW r \in Registers \ lost' PROVE Alone(q, toDevice', fromDevice', r)
      <3>1. Alone(q, toDevice, fromDevice, r)
        BY <1>5, <2>1
      <3>. QED  BY <1>7, <3>1 DEF Alone
    <2>. QED  BY <1>2, <2>1, <2>2, <2>3
  <1>10. BeforeAny'
    BY <1>9 DEF BeforeAny
  <1>11. AllServed'
    BY <1>8 DEF AllServed
  <1>. QED  BY <1>10, <1>11 DEF CacheKept

(* The device carries a write out, whatever it makes of the value.         *)
LEMMA DeviceWritesServes ==
    ASSUME IInv, CacheInv, Unasked' => Unasked, DeviceWrites
    PROVE  CacheKept
  <1>. DEFINE c == toDevice[1].by
              m == [kind |-> "ack", by |-> c]
  <1>1. /\ toDevice \in Seq(ToDevice) /\ fromDevice \in Seq(FromDevice)
        /\ device \in [Registers -> Values]
    BY TypesSplit DEF RestOK
  <1>2. /\ toDevice # <<>> /\ toDevice' = Tail(toDevice) /\ Head(toDevice).kind = "write"
        /\ q' = q /\ UNCHANGED <<phase, request, settings, lost>>
    BY DEF DeviceWrites, sessionVars, callerVars, historyVars
  <1>3. Shorter(toDevice, toDevice') /\ Head(toDevice) = toDevice[1]
    BY <1>1, <1>2, OneLess
  <1>4. toDevice[1].kind = "write" /\ c \in Callers
    BY <1>1, <1>2, <1>3, HeadTailProperties DEF ToDevice
  <1>5. fromDevice' = fromDevice \/ fromDevice' = Append(fromDevice, m)
    BY <1>3, Zenon DEF DeviceWrites, Says
  <1>6. ASSUME NEW r \in Registers, ~ Alters(request, c, r) PROVE device'[r] = device[r]
    BY <1>3, <1>6 DEF DeviceWrites, Alters
  <1>7. m \in FromDevice /\ m.kind = "ack"
    BY <1>4 DEF FromDevice
  <1>8. ASSUME NEW r \in Registers, NEW real
        PROVE  /\ Answering(fromDevice', r) = Answering(fromDevice, r)
               /\ Settling(fromDevice, settings[r], real, r) =>
                    Settling(fromDevice', settings[r], real, r)
    <2>. HIDE DEF m
    <2>1. Agrees(m, real, r)
      BY <1>7 DEF Agrees
    <2>. QED  BY <1>1, <1>5, <1>7, <2>1, TellingServes
  <1>9. ASSUME phase' # "ended", NEW r \in Registers \ lost'
        PROVE  Served(q', phase', request', toDevice', fromDevice', settings'[r], device'[r], r)
    <2>1. Served(q, phase, request, toDevice, fromDevice, settings[r], device[r], r)
      BY <1>2, <1>9 DEF CacheInv, AllServed
    <2>2. /\ ~ ChangeComing(request, toDevice, r) =>
                ~ ChangeComing(request, toDevice', r) /\ ~ Changes(request, toDevice[1], r)
          /\ AnswerComing(request, toDevice, r) => AnswerComing(request, toDevice', r)
      BY <1>3, <1>4, LessSent
    <2>3. /\ Free(toDevice, fromDevice, r) => Free(toDevice', fromDevice', r)
          /\ Single(toDevice, fromDevice, r) => Single(toDevice', fromDevice', r)
      <3>1. /\ Asking(toDevice, r) = {} => Asking(toDevice', r) = {}
            /\ (\A i, j \in Asking(toDevice, r) : i = j) =>
                  \A i, j \in Asking(toDevice', r) : i = j
        BY <1>3, LessAsked
      <3>2. Answering(fromDevice', r) = Answering(fromDevice, r)
        BY <1>8
      <3>. QED  BY <3>1, <3>2 DEF Free, Single
    <2>4. ~ ChangeComing(request, toDevice, r) => device'[r] = device[r]
      BY <1>4, <1>6, <2>2 DEF Changes
    <2>5. Served(q, phase, request, toDevice', fromDevice', settings[r], device'[r], r)
      BY <1>8, <2>1, <2>2, <2>3, <2>4 DEF Served
    <2>. QED  BY <1>2, <2>5
  <1>10. phase' # "ended" => ~ Unasked'
    <2>1. 1 \in 1..Len(toDevice)
      BY <1>3 DEF Shorter
    <2>. QED  BY <1>2, <1>4, <2>1 DEF CacheInv, BeforeAny
  <1>11. BeforeAny'
    BY <1>10 DEF BeforeAny
  <1>12. AllServed'
    BY <1>9 DEF AllServed
  <1>. QED  BY <1>11, <1>12 DEF CacheKept

(* The device volunteers a snapshot of its settings, or a report.          *)
LEMMA DeviceVolunteersServes ==
    ASSUME IInv, CacheInv, Unasked' => Unasked, DeviceVolunteers
    PROVE  CacheKept
  <1>1. fromDevice \in Seq(FromDevice) /\ device \in [Registers -> Values]
    BY TypesSplit DEF RestOK
  <1>2. /\ q' = q /\ ack' = ack
        /\ UNCHANGED <<phase, request, settings, toDevice, device, lost>>
    BY DEF DeviceVolunteers, sessionVars, callerVars, historyVars
  <1>3. PICK m \in FromDevice : /\ fromDevice' = Append(fromDevice, m) /\ m.kind # "answer"
                                /\ m.kind = "snapshot" => m.vals = device
    <2>1. /\ [kind |-> "snapshot", vals |-> device] \in FromDevice
          /\ [kind |-> "report"] \in FromDevice
      BY <1>1 DEF FromDevice
    <2>2. \/ fromDevice' = Append(fromDevice, [kind |-> "snapshot", vals |-> device])
          \/ fromDevice' = Append(fromDevice, [kind |-> "report"])
      BY DEF DeviceVolunteers
    <2>. QED  BY <2>1, <2>2
  <1>4. ASSUME NEW r \in Registers
        PROVE  /\ Answering(fromDevice', r) = Answering(fromDevice, r)
               /\ Settling(fromDevice, settings[r], device[r], r) =>
                    Settling(fromDevice', settings[r], device[r], r)
    <2>1. Agrees(m, device[r], r)
      BY <1>3 DEF Agrees
    <2>. QED  BY <1>1, <1>3, <2>1, TellingServes
  <1>5. ASSUME phase' # "ended", NEW r \in Registers \ lost'
        PROVE  Served(q', phase', request', toDevice', fromDevice', settings'[r], device'[r], r)
    <2>1. Served(q, phase, request, toDevice, fromDevice, settings[r], device[r], r)
      BY <1>2, <1>5 DEF CacheInv, AllServed
    <2>2. Served(q, phase, request, toDevice, fromDevice', settings[r], device[r], r)
      BY <1>4, <2>1 DEF Served, Free, Single
    <2>. QED  BY <1>2, <2>2
  <1>6. ASSUME phase' # "ended", Unasked'
        PROVE  /\ ack' = None
               /\ \A i \in 1..Len(toDevice') : toDevice'[i].kind = "read"
               /\ \A r \in Registers \ lost' : Alone(q', toDevice', fromDevice', r)
               /\ phase' # "subscribed" =>
                   /\ q'.reads = <<>> /\ q'.awaiting = None /\ toDevice' = <<>>
                   /\ \A i \in 1..Len(fromDevice') : fromDevice'[i].kind # "answer"
    <2>1. BeforeAny /\ phase # "ended" /\ Unasked
      BY <1>2, <1>6 DEF CacheInv
    <2>2. \A r \in Registers \ lost : Alone(q, toDevice, fromDevice', r)
      BY <1>4, <2>1 DEF BeforeAny, Alone, Free, Single
    <2>3. (\A i \in 1..Len(fromDevice) : fromDevice[i].kind # "answer") =>
              \A i \in 1..Len(fromDevice') : fromDevice'[i].kind # "answer"
      <3>1. Longer(fromDevice, m, fromDevice')
        BY <1>1, <1>3, OneMore
      <3>2. \A i \in 1..Len(fromDevice') : i \in 1..Len(fromDevice) \/ i = Len(fromDevice) + 1
        BY <3>1 DEF Longer
      <3>. QED  BY <1>3, <3>1, <3>2 DEF Longer
    <2>. QED  BY <1>2, <2>1, <2>2, <2>3 DEF BeforeAny
  <1>7. BeforeAny'
    BY <1>6 DEF BeforeAny
  <1>8. AllServed'
    BY <1>5 DEF AllServed
  <1>. QED  BY <1>7, <1>8 DEF CacheKept

-----------------------------------------------------------------------------
(* Every step keeps the invariant.                                         *)
LEMMA NextServes ==
    ASSUME OneCaller, ReadsEverything, IInv, CacheInv, [Next]_vars
    PROVE  CacheInv'
  <1>1. /\ MailSingle' /\ (Unasked' => Unasked)
        /\ \A c \in Callers : HandleRefresh(c) \/ HandleApply(c) \/ HandleSend(c)
             => ~ Unasked' /\ Unasked
    BY MailKept DEF CacheInv
  <1>2. CASE Connect \/ TimePushDue \/ Tick \/ UNCHANGED vars \/ \E c \in Callers : GiveUp(c)
    BY <1>1, <1>2, IdleServes DEF CacheInv, CacheKept
  <1>3. CASE ConnectRefused \/ Replaced \/ PeerGone \/ \E c \in Callers : TransmitFails(c)
    <2>1. phase' = "ended"
      BY <1>3 DEF ConnectRefused, Replaced, PeerGone, TransmitFails, EndSession
    <2>. QED  BY <1>1, <2>1, EndingServes DEF CacheInv, CacheKept
  <1>4. CASE Subscribe
    BY <1>1, <1>4, SubscribeServes DEF CacheInv, CacheKept
  <1>5. CASE ReadTimedOut
    BY <1>1, <1>5, ReadTimedOutServes DEF CacheInv, CacheKept
  <1>6. CASE AckTimedOut \/ WriteAck \/ AcceptReport \/ AcceptSnapshot
    BY <1>1, <1>6, HoldLiftedServes DEF CacheInv, CacheKept
  <1>7. CASE AcceptRead
    BY <1>1, <1>7, AcceptReadServes DEF CacheInv, CacheKept
  <1>8. CASE \E c \in Callers : HandleRefresh(c) \/ HandleApply(c) \/ HandleSend(c)
    BY <1>1, <1>8, RefreshServes, ApplyServes, SendServes DEF CacheInv, CacheKept
  <1>9. CASE \E c \in Callers : Submit(c)
    BY <1>1, <1>9, SubmitServes DEF CacheInv, CacheKept
  <1>10. CASE Device \/ DeviceVolunteers
    BY <1>1, <1>10, DeviceReadsServes, DeviceWritesServes, DeviceVolunteersServes
    DEF Device, CacheInv, CacheKept
  <1>. QED
    BY <1>2, <1>3, <1>4, <1>5, <1>6, <1>7, <1>8, <1>9, <1>10 DEF Next, Timer, Control, Packet

(* Once nothing is queued, held or on its way, nothing else is left to     *)
(* serve a register than what has been said of it.                         *)
LEMMA ServedSettles ==
    ASSUME IInv, CacheInv PROVE QuiescentCache
  <1>. SUFFICES ASSUME Quiescent, NEW r \in Registers \ lost PROVE settings[r] = device[r]
    BY DEF QuiescentCache
  <1>1. /\ phase = "subscribed" /\ q.reads = <<>> /\ q.pending = None
        /\ toDevice = <<>> /\ fromDevice = <<>> /\ Len(<<>>) = 0
    BY DEF Quiescent
  <1>2. Served(q, phase, request, toDevice, fromDevice, settings[r], device[r], r)
    BY <1>1 DEF CacheInv, AllServed
  <1>3. ~ Unsent(q, r) /\ ~ UnsentTwice(q, r)
    BY <1>1 DEF Unsent, UnsentTwice, Queued, QueuedTwice
  <1>4. ~ AnswerComing(request, toDevice, r)
    BY <1>1 DEF AnswerComing, Asking
  <1>5. Settling(fromDevice, settings[r], device[r], r)
    BY <1>1, <1>2, <1>3, <1>4 DEF Served
  <1>. QED  BY <1>1, <1>5 DEF Settling

(* Once the traffic has died down, the settings a session publishes are    *)
(* what its device holds, for every register none of whose reads was lost, *)
(* of a session with one caller whose startup read-back asks for every     *)
(* register: any registers and values, any request of that caller, any     *)
(* timeouts, and whatever the device makes of a write (start_next_read,    *)
(* transmit's stand-down, enqueue_verification, read_answer).              *)
THEOREM SettingsAreTheDevices ==
    ASSUME OneCaller, ReadsEverything PROVE Spec => []QuiescentCache
  <1>1. IInv /\ CacheInv /\ [Next]_vars => CacheInv'
    BY NextServes
  <1>2. IInv /\ CacheInv => QuiescentCache
    BY ServedSettles
  <1>. QED  BY <1>1, <1>2, InitServed, SessionInvariant, PTL DEF Spec
=============================================================================
