------------------------------- MODULE Delivery -------------------------------
(***************************************************************************)
(* How a command from Home Assistant reaches a device: the broker client   *)
(* reads and acknowledges it (src/src/homeassistant/broker.rs, deliver),   *)
(* the publisher parses it and starts a task (publisher.rs,                *)
(* handle_command), and the task has the session that served the device    *)
(* then carry out its changes one by one (apply, and carry_out of          *)
(* src/src/control.rs), while the device reconnects.                       *)
(*                                                                         *)
(* What a session does of a request is module Session's: here it takes     *)
(* requests up in order, and answers in any order or not at all.           *)
(***************************************************************************)
EXTENDS Naturals, Sequences

CONSTANTS
    Payloads,     \* what a command may say: changes as from_payload orders them, "bad" one it refuses
    AlsoRead,     \* the changes that have another register read after them
    EventsDepth,  \* QUEUE_DEPTH of broker.rs
    MailboxDepth, \* QUEUE_DEPTH of control.rs
    MaxMessages,  \* bound: commands the broker sends
    MaxSessions   \* bound: sessions of the device

(* A payload without a change is refused before any of this (Empty).       *)
ASSUME DeliveryAssumption ==
    /\ Payloads \subseteq Seq(STRING) \ {<<>>}
    /\ EventsDepth \in Nat /\ MailboxDepth \in Nat
    /\ MaxMessages \in Nat /\ MaxSessions \in Nat

Messages == 1..MaxMessages
SessionIds == 1..MaxSessions
Nobody == 0

Request == [message : Messages, at : Nat, reread : BOOLEAN]

(* A task of handle_command's: its session, and which change it is at.     *)
TaskAt(step, session, at, reread) ==
    [step |-> step, session |-> session, at |-> at, reread |-> reread]

VARIABLES
    wire,       \* messages on the connection, not read
    handing,    \* the message deliver has acknowledged and is handing on
    events,     \* Broker.events
    said,       \* what each message says
    task,       \* per message: its task
    registered, \* the session the registry has for the device
    began,      \* how many sessions there were
    alive,      \* those whose loop runs
    mailbox,    \* per session: its requests
    owed,       \* per session: requests it took up and has not answered
    tookUp      \* history: the requests sessions took up, in order

deliveryVars == <<wire, handing, events, said, task, registered, began, alive, mailbox, owed, tookUp>>
brokerVars == <<wire, handing, events, said>>
sessionVars == <<registered, began, alive, mailbox, owed, tookUp>>

DeliveryInit ==
    /\ wire = <<>> /\ handing = 0 /\ events = <<>> /\ said = <<>>
    /\ task = [m \in Messages |-> TaskAt("none", Nobody, 0, FALSE)]
    /\ registered = Nobody /\ began = 0 /\ alive = {}
    /\ mailbox = [s \in SessionIds |-> <<>>] /\ owed = [s \in SessionIds |-> {}]
    /\ tookUp = <<>>

-----------------------------------------------------------------------------
(* The broker, and a connection lost: a clean session keeps no message.    *)
Says(p) ==
    /\ Len(said) < MaxMessages
    /\ said' = Append(said, p) /\ wire' = Append(wire, Len(said'))
    /\ UNCHANGED <<handing, events, task, sessionVars>>

Breaks ==
    /\ wire # <<>> /\ handing = 0 /\ wire' = <<>>
    /\ UNCHANGED <<handing, events, said, task, sessionVars>>

(* BrokerTask::deliver: PUBACK, then wait for room.                        *)
Deliver ==
    /\ handing = 0 /\ wire # <<>>
    /\ handing' = Head(wire) /\ wire' = Tail(wire)
    /\ UNCHANGED <<events, said, task, sessionVars>>

HandsOn ==
    /\ handing # 0 /\ Len(events) < EventsDepth
    /\ events' = Append(events, handing) /\ handing' = 0
    /\ UNCHANGED <<wire, said, task, sessionVars>>

(* Publisher::handle_command.  A payload with one bad change has none      *)
(* applied.                                                                *)
Refused(p) == \E i \in 1..Len(p) : p[i] = "bad"

HandleCommand ==
    /\ events # <<>>
    /\ LET m == Head(events) IN
       task' = [task EXCEPT ![m] =
                   IF registered = Nobody \/ Refused(said[m]) THEN [@ EXCEPT !.step = "over"]
                   ELSE TaskAt("asks", registered, 1, FALSE)]
    /\ events' = Tail(events)
    /\ UNCHANGED <<wire, handing, said, sessionVars>>

-----------------------------------------------------------------------------
(* apply, after an answer or the want of one: a change stored may have     *)
(* another register read; then the next change.                            *)
Onwards(m, stored) ==
    LET t == task[m] IN
    IF stored /\ ~ t.reread /\ said[m][t.at] \in AlsoRead
    THEN TaskAt("asks", t.session, t.at, TRUE)
    ELSE IF t.at < Len(said[m])
         THEN TaskAt("asks", t.session, t.at + 1, FALSE)
         ELSE [t EXCEPT !.step = "over"]

RequestOf(m) == [message |-> m, at |-> task[m].at, reread |-> task[m].reread]
WaitsFor(r) == task[r.message].step = "waits" /\ RequestOf(r.message) = r

(* carry_out: a mailbox that is full, or whose session is over, is Busy.   *)
CarryOut(m, s) ==
    /\ task[m].step = "asks"
    /\ IF s \in alive /\ Len(mailbox[s]) < MailboxDepth
       THEN /\ mailbox' = [mailbox EXCEPT ![s] = Append(@, RequestOf(m))]
            /\ task' = [task EXCEPT ![m] = TaskAt("waits", s, @.at, @.reread)]
       ELSE /\ task' = [task EXCEPT ![m] = Onwards(m, FALSE)]
            /\ UNCHANGED mailbox
    /\ UNCHANGED <<brokerVars, registered, began, alive, owed, tookUp>>

AsksWhoeverServes(m) ==  \* mutant: the session is looked up for each change
    registered # Nobody /\ CarryOut(m, registered)
Asks(m) == CarryOut(m, task[m].session)

(* REQUEST_TIMEOUT: the request stays where it is.                         *)
TimesOutOnceTakenUp(m) ==  \* mutant: the time runs from when a session took the request up
    /\ task[m].step = "waits" /\ mailbox[task[m].session] = <<>>
    /\ task' = [task EXCEPT ![m] = Onwards(m, FALSE)]
    /\ UNCHANGED <<brokerVars, sessionVars>>
TimesOut(m) ==
    /\ task[m].step = "waits"
    /\ task' = [task EXCEPT ![m] = Onwards(m, FALSE)]
    /\ UNCHANGED <<brokerVars, sessionVars>>

-----------------------------------------------------------------------------
(* The session.                                                            *)
Registers ==
    /\ began < MaxSessions
    /\ began' = began + 1 /\ registered' = began' /\ alive' = alive \cup {began'}
    /\ UNCHANGED <<brokerVars, task, mailbox, owed, tookUp>>

Takes(s) ==
    /\ s \in alive /\ mailbox[s] # <<>>
    /\ tookUp' = Append(tookUp, Head(mailbox[s]))
    /\ owed' = [owed EXCEPT ![s] = @ \cup {Head(mailbox[s])}]
    /\ mailbox' = [mailbox EXCEPT ![s] = Tail(@)]
    /\ UNCHANGED <<brokerVars, task, registered, began, alive>>

Answers(s) ==
    /\ \E r \in owed[s] :
         /\ owed' = [owed EXCEPT ![s] = @ \ {r}]
         /\ task' = IF WaitsFor(r) THEN [task EXCEPT ![r.message] = Onwards(r.message, TRUE)] ELSE task
    /\ UNCHANGED <<brokerVars, registered, began, alive, mailbox, tookUp>>

(* A session that ends drops its mailbox and the replies it owes: Ended.   *)
Ends(s) ==
    /\ s \in alive /\ alive' = alive \ {s}
    /\ mailbox' = [mailbox EXCEPT ![s] = <<>>] /\ owed' = [owed EXCEPT ![s] = {}]
    /\ task' = [m \in Messages |->
                   IF task[m].step = "waits" /\ task[m].session = s THEN Onwards(m, FALSE) ELSE task[m]]
    /\ UNCHANGED <<brokerVars, registered, began, tookUp>>

DropsRegistration ==
    /\ registered # Nobody /\ registered \notin alive
    /\ registered' = Nobody
    /\ UNCHANGED <<brokerVars, task, began, alive, mailbox, owed, tookUp>>

-----------------------------------------------------------------------------
DeliveryNext ==
    \/ \E p \in Payloads : Says(p)
    \/ Breaks \/ Deliver \/ HandsOn \/ HandleCommand
    \/ \E m \in Messages : Asks(m) \/ TimesOut(m)
    \/ Registers \/ DropsRegistration
    \/ \E s \in SessionIds : Takes(s) \/ Answers(s) \/ Ends(s)

(* The client, the publisher and every task go on by themselves, and       *)
(* REQUEST_TIMEOUT passes.  No session has to answer.                      *)
DeliverySpec == DeliveryInit /\ [][DeliveryNext]_deliveryVars
DeliveryFairness ==
    /\ WF_deliveryVars(HandsOn) /\ WF_deliveryVars(HandleCommand)
    /\ \A m \in Messages : WF_deliveryVars(Asks(m)) /\ WF_deliveryVars(TimesOut(m))
DeliveryFairSpec == DeliverySpec /\ DeliveryFairness

-----------------------------------------------------------------------------
DeliveryTypeOK ==
    /\ wire \in Seq(Messages) /\ handing \in 0..MaxMessages
    /\ events \in Seq(Messages) /\ Len(events) <= EventsDepth
    /\ said \in Seq(Payloads) /\ Len(said) <= MaxMessages
    /\ task \in [Messages -> [step : {"none", "asks", "waits", "over"}, session : 0..MaxSessions,
                              at : Nat, reread : BOOLEAN]]
    /\ registered \in 0..MaxSessions /\ began \in 0..MaxSessions /\ alive \subseteq SessionIds
    /\ mailbox \in [SessionIds -> Seq(Request)]
    /\ \A s \in SessionIds : Len(mailbox[s]) <= MailboxDepth
    /\ owed \in [SessionIds -> SUBSET Request]
    /\ tookUp \in Seq(Request)

(* The changes of a payload are taken up for the device in the payload's   *)
(* order, the read of the register one moves after that one and before the *)
(* next, none twice: also when the task gave one up that its session takes *)
(* up later, and while the device reconnects (handle_command finds the     *)
(* session once, carry_out is awaited before the next).                    *)
Place(r) == 2 * r.at + IF r.reread THEN 1 ELSE 0
ChangesInOrder ==
    \A i, j \in 1..Len(tookUp) :
        i < j /\ tookUp[i].message = tookUp[j].message => Place(tookUp[i]) < Place(tookUp[j])

(* A command acknowledged to the broker is done with in the end, whatever  *)
(* its session does: it does not wait on a session that never answers      *)
(* (REQUEST_TIMEOUT), nor the client on the publisher (deliver).           *)
CommandsSettle == \A m \in Messages : handing = m ~> task[m].step = "over"
=============================================================================
