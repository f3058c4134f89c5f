------------------------------- MODULE Relay -------------------------------
(***************************************************************************)
(* The cloud relay of src/src/growatt/cloud.rs: one task per device        *)
(* session, which connects to the vendor's cloud in the device's name and  *)
(* carries messages both ways.  All sessions here are of one device, which *)
(* reconnects: their relays go by one client identifier, and the cloud     *)
(* serves whichever connected last.                                        *)
(*                                                                         *)
(* What a message says is the arbiter's business (module Arbiter).  Here   *)
(* the device's messages are numbered as the session hands them over, and  *)
(* the cloud's, all at QoS 1, as it issues them.  Time is left out, and so *)
(* is the length of the backoff.                                           *)
(***************************************************************************)
EXTENDS Naturals, Sequences, FiniteSets

CONSTANTS
    Sessions,    \* the sessions of one device, numbered as they start
    QueueDepth,  \* QUEUE_DEPTH
    MaxUp,       \* bound: messages each session hands to its relay
    MaxDown      \* bound: commands of the cloud

ASSUME RelayAssumption ==
    /\ QueueDepth \in Nat \ {0}
    /\ MaxUp \in [Sessions -> Nat] /\ MaxDown \in Nat
    /\ Sessions \subseteq Nat

Commands == 1..MaxDown

VARIABLES
    alive,      \* the sessions that hold their Relay
    phase,      \* per session: where its relay task is, in RelayTask::run
    uplink,     \* per session: the queue to_cloud
    downlink,   \* per session: the queue from_cloud
    offered,    \* per session: messages given to try_forward
    wire,       \* per session: its connection, "dead" until the task notices
    cursor,     \* per session: the last command sent through that connection
    reachable,  \* the path to the cloud works
    issued,     \* how many commands the cloud has issued
    unacked,    \* those it has no acknowledgement of: its session is persistent
    heard,      \* per session: the messages the cloud had from it
    settled     \* history: commands a session took or ended with, or that found
                \* no room or nobody

taskVars == <<phase, uplink, wire, cursor>>
cloudVars == <<issued, unacked, heard>>
vars == <<alive, taskVars, downlink, offered, reachable, cloudVars, settled>>

Init ==
    /\ alive = {}
    /\ phase = [n \in Sessions |-> "none"]
    /\ uplink = [n \in Sessions |-> <<>>] /\ downlink = [n \in Sessions |-> <<>>]
    /\ offered = [n \in Sessions |-> 0]
    /\ wire = [n \in Sessions |-> "down"]
    /\ cursor = [n \in Sessions |-> 0]
    /\ reachable = TRUE
    /\ issued = 0 /\ unacked = {}
    /\ heard = [n \in Sessions |-> <<>>]
    /\ settled = {}

Queued(q) == {q[i] : i \in 1..Len(q)}

-----------------------------------------------------------------------------
(* The session's end                                                       *)

(* Relay::start: the task begins to connect.                               *)
Start(n) ==
    /\ phase[n] = "none"
    /\ \A k \in Sessions : k < n => phase[k] # "none"
    /\ alive' = alive \cup {n}
    /\ phase' = [phase EXCEPT ![n] = "dialling"]
    /\ UNCHANGED <<uplink, downlink, offered, wire, cursor, reachable, cloudVars, settled>>

(* try_forward: a full queue drops the message.                            *)
TryForward(n) ==
    /\ n \in alive
    /\ offered[n] < MaxUp[n]
    /\ offered' = [offered EXCEPT ![n] = @ + 1]
    /\ uplink' = IF Len(uplink[n]) < QueueDepth
                 THEN [uplink EXCEPT ![n] = Append(@, offered[n] + 1)] ELSE uplink
    /\ UNCHANGED <<alive, phase, downlink, wire, cursor, reachable, cloudVars, settled>>

(* next_from_cloud, a message.                                             *)
NextFromCloud(n) ==
    /\ n \in alive /\ downlink[n] # <<>>
    /\ settled' = settled \cup {Head(downlink[n])}
    /\ downlink' = [downlink EXCEPT ![n] = Tail(@)]
    /\ UNCHANGED <<alive, taskVars, offered, reachable, cloudVars>>

(* The session ends and drops its Relay: what is queued for it goes.       *)
Drop(n) ==
    /\ n \in alive
    /\ alive' = alive \ {n}
    /\ settled' = settled \cup Queued(downlink[n])
    /\ downlink' = [downlink EXCEPT ![n] = <<>>]
    /\ UNCHANGED <<taskVars, offered, reachable, cloudVars>>

-----------------------------------------------------------------------------
(* The task                                                                *)

(* Serving n, the cloud closes the connection it served before.            *)
TakeOver(n, w) ==
    wire' = [k \in Sessions |->
                IF k = n THEN w ELSE IF wire[k] = "up" THEN "dead" ELSE wire[k]]

(* handshake and subscribe.  The cloud sends again what was not            *)
(* acknowledged.                                                           *)
Connects(n) ==
    /\ phase[n] = "dialling" /\ reachable
    /\ phase' = [phase EXCEPT ![n] = "pumping"]
    /\ cursor' = [cursor EXCEPT ![n] = 0]
    /\ TakeOver(n, "up")
    /\ UNCHANGED <<alive, uplink, downlink, offered, reachable, issued, unacked, heard, settled>>

(* The same, failing after the cloud took the connection: a CONNACK or a   *)
(* write that fails.  A failure before that changes nothing here, nor does *)
(* the wait before the next attempt, in run.                               *)
ConnectFails(n) ==
    /\ phase[n] = "dialling" /\ ~ reachable
    /\ TakeOver(n, "down")
    /\ UNCHANGED <<alive, phase, uplink, downlink, offered, cursor, reachable, issued, unacked, heard, settled>>

(* Outcome::Disconnected, as run takes it.                                 *)
Disconnected(n) ==
    /\ phase' = [phase EXCEPT ![n] = "dialling"]
    /\ wire' = [wire EXCEPT ![n] = "down"]
    /\ cursor' = [cursor EXCEPT ![n] = 0]

(* pump, a message of the device.  One written to a dead connection is     *)
(* lost, whether or not the write says so.                                 *)
SendsUpRetried(n) ==  \* mutant: a message leaves the queue once its write has returned
    /\ phase[n] = "pumping" /\ uplink[n] # <<>>
    /\ \/ /\ wire[n] = "up"
          /\ heard' = [heard EXCEPT ![n] = Append(@, Head(uplink[n]))]
          /\ \/ uplink' = [uplink EXCEPT ![n] = Tail(@)] /\ UNCHANGED <<phase, wire, cursor>>
             \/ ~ reachable /\ UNCHANGED uplink /\ Disconnected(n)
       \/ wire[n] = "dead" /\ UNCHANGED <<uplink, heard>> /\ Disconnected(n)
    /\ UNCHANGED <<alive, downlink, offered, reachable, issued, unacked, settled>>
SendsUp(n) ==
    /\ phase[n] = "pumping" /\ uplink[n] # <<>>
    /\ uplink' = [uplink EXCEPT ![n] = Tail(@)]
    /\ \/ /\ wire[n] = "up"
          /\ heard' = [heard EXCEPT ![n] = Append(@, Head(uplink[n]))]
          /\ UNCHANGED <<phase, wire, cursor>>
       \/ wire[n] = "dead" /\ UNCHANGED <<phase, wire, cursor, heard>>
       \/ wire[n] = "dead" /\ UNCHANGED heard /\ Disconnected(n)
    /\ UNCHANGED <<alive, downlink, offered, reachable, issued, unacked, settled>>

(* pump, a command of the cloud, and handle_downlink: it is acknowledged   *)
(* first, and then dropped when the session's queue is full or gone.  The  *)
(* acknowledgement may fail, or be lost unnoticed with the connection.     *)
Passed(n, m) ==
    IF n \in alive /\ Len(downlink[n]) < QueueDepth
    THEN /\ downlink' = [downlink EXCEPT ![n] = Append(@, m)]
         /\ UNCHANGED settled
    ELSE /\ settled' = settled \cup {m}
         /\ UNCHANGED downlink

HandleDownlinkDropped(n) ==  \* mutant: a connection that ends takes the command with it
    /\ phase[n] = "pumping" /\ wire[n] = "up"
    /\ \E m \in unacked :
         /\ m > cursor[n] /\ \A k \in unacked : k > cursor[n] => m <= k
         /\ unacked' = unacked \ {m}
         /\ \/ Passed(n, m) /\ cursor' = [cursor EXCEPT ![n] = m] /\ UNCHANGED <<phase, wire>>
            \/ ~ reachable /\ Disconnected(n) /\ UNCHANGED <<downlink, settled>>
    /\ UNCHANGED <<alive, uplink, offered, reachable, issued, heard>>
HandleDownlink(n) ==
    /\ phase[n] = "pumping" /\ wire[n] = "up"
    /\ \E m \in unacked :
         /\ m > cursor[n] /\ \A k \in unacked : k > cursor[n] => m <= k
         /\ \/ /\ Passed(n, m)
               /\ cursor' = [cursor EXCEPT ![n] = m]
               /\ UNCHANGED phase
               /\ \/ unacked' = unacked \ {m} /\ UNCHANGED wire
                  \/ /\ ~ reachable /\ UNCHANGED unacked
                     /\ wire' = [wire EXCEPT ![n] = "dead"]
            \/ ~ reachable /\ Disconnected(n) /\ UNCHANGED <<unacked, downlink, settled>>
    /\ UNCHANGED <<alive, uplink, offered, reachable, issued, heard>>

(* pump, when the read or the ping fails, or the cloud closed.             *)
Notices(n) ==
    /\ phase[n] = "pumping" /\ wire[n] = "dead"
    /\ Disconnected(n)
    /\ UNCHANGED <<alive, uplink, downlink, offered, reachable, issued, unacked, heard, settled>>

(* pump, when the session's handle is gone: only here, and only once the   *)
(* queue is empty.                                                         *)
LocalShutdownAtOnce(n) ==  \* mutant
    /\ phase[n] = "pumping" /\ n \notin alive
    /\ phase' = [phase EXCEPT ![n] = "stopped"]
    /\ wire' = [wire EXCEPT ![n] = "down"]
    /\ cursor' = [cursor EXCEPT ![n] = 0]
    /\ UNCHANGED <<alive, uplink, downlink, offered, reachable, issued, unacked, heard, settled>>
LocalShutdownRetried(n) ==  \* mutant
    /\ phase[n] = "pumping" /\ n \notin alive /\ uplink[n] = <<>>
    /\ Disconnected(n)
    /\ UNCHANGED <<alive, uplink, downlink, offered, reachable, issued, unacked, heard, settled>>
LocalShutdown(n) ==
    /\ phase[n] = "pumping" /\ n \notin alive /\ uplink[n] = <<>>
    /\ phase' = [phase EXCEPT ![n] = "stopped"]
    /\ wire' = [wire EXCEPT ![n] = "down"]
    /\ cursor' = [cursor EXCEPT ![n] = 0]
    /\ UNCHANGED <<alive, uplink, downlink, offered, reachable, issued, unacked, heard, settled>>

-----------------------------------------------------------------------------
(* The cloud and the way to it                                             *)

Issues ==
    /\ issued < MaxDown
    /\ issued' = issued + 1
    /\ unacked' = unacked \cup {issued + 1}
    /\ UNCHANGED <<alive, taskVars, downlink, offered, reachable, heard, settled>>

Breaks(n) ==
    /\ wire[n] = "up" /\ ~ reachable
    /\ wire' = [wire EXCEPT ![n] = "dead"]
    /\ UNCHANGED <<alive, phase, uplink, downlink, offered, cursor, reachable, issued, unacked, heard, settled>>

PathChanges ==
    /\ reachable' = ~ reachable
    /\ UNCHANGED <<alive, taskVars, downlink, offered, cloudVars, settled>>

Session(n) == Start(n) \/ TryForward(n) \/ NextFromCloud(n) \/ Drop(n)
Task(n) ==
    \/ Connects(n) \/ ConnectFails(n)
    \/ SendsUp(n) \/ HandleDownlink(n) \/ Notices(n) \/ LocalShutdown(n)

Next ==
    \/ \E n \in Sessions : Session(n) \/ Task(n) \/ Breaks(n)
    \/ Issues
    \/ PathChanges

Spec == Init /\ [][Next]_vars

(* The task is scheduled, its timers fire, and select! starves no branch   *)
(* that is ready.                                                          *)
Fairness ==
    \A n \in Sessions :
        /\ WF_vars(Connects(n))
        /\ WF_vars(Notices(n))
        /\ SF_vars(SendsUp(n)) /\ SF_vars(HandleDownlink(n)) /\ SF_vars(LocalShutdown(n))

FairSpec == Spec /\ Fairness

-----------------------------------------------------------------------------
TypeOK ==
    /\ alive \subseteq Sessions
    /\ phase \in [Sessions -> {"none", "dialling", "pumping", "stopped"}]
    /\ uplink \in [Sessions -> Seq(Nat)] /\ downlink \in [Sessions -> Seq(Commands)]
    /\ \A n \in Sessions : Len(uplink[n]) <= QueueDepth /\ Len(downlink[n]) <= QueueDepth
    /\ offered \in [Sessions -> Nat] /\ heard \in [Sessions -> Seq(Nat)]
    /\ wire \in [Sessions -> {"down", "up", "dead"}]
    /\ cursor \in [Sessions -> 0..MaxDown]
    /\ reachable \in BOOLEAN
    /\ issued \in 0..MaxDown /\ unacked \subseteq 1..issued
    /\ settled \subseteq Commands

(* Through however many connections, the cloud has a session's messages in *)
(* their order and none twice: the uplink implements LossyChannel.         *)
Uplink(n) == INSTANCE LossyChannel WITH offered <- offered[n], received <- heard[n]
UplinkKeepsOrder ==
    /\ \A n \in Sessions : Uplink(n)!Init
    /\ [][\A n \in Sessions : [Uplink(n)!Next]_<<offered[n], heard[n]>>]_vars

(* What the session handed over before it ended is still sent, as far as a *)
(* connection allows: a relay stops with nothing left to say.              *)
LastWordsSaid == \A n \in Sessions : phase[n] = "stopped" => uplink[n] = <<>>

(* A command the cloud counts as delivered was: a session took it, has it  *)
(* queued or ended with it queued, or it was refused.                      *)
AcknowledgedIsPassed ==
    (1..issued) \ unacked \subseteq
        settled \cup UNION {Queued(downlink[n]) : n \in Sessions}

(* A relay whose session is over stops, once the cloud can be reached for  *)
(* long enough.                                                            *)
RelayStops ==
    <>[]reachable =>
        \A n \in Sessions : phase[n] # "none" /\ n \notin alive ~> phase[n] = "stopped"

(* The relays of a device displace one another at the cloud.  While one    *)
(* session of it goes on and the cloud can be reached, that session ends   *)
(* up connected and is not displaced again by the relays of earlier ones.  *)
TheLivingIsServed ==
    \A n \in Sessions : <>[](reachable /\ alive = {n}) => <>[](wire[n] = "up")
=============================================================================
