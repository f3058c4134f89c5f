------------------------------ MODULE Registry ------------------------------
(***************************************************************************)
(* The registry of device sessions (src/src/control.rs: Registry,          *)
(* Registration, SessionId) and the life of the sessions that register     *)
(* with it (src/src/server/session.rs, src/src/server/listener.rs).        *)
(*                                                                         *)
(* Sessions are tasks of a multi-threaded runtime.  The map is behind a    *)
(* lock, so inserting and removing are single steps; the session displaced *)
(* is told after letting go of it; announcing reads the map under the lock *)
(* and sends what it read after letting go of it, so it is two.            *)
(***************************************************************************)
EXTENDS Naturals, FiniteSets

CONSTANTS
    Devices,     \* device serials
    Sessions,    \* connections the listener accepts
    Limit,       \* u64::MAX: the session id that is never issued
    None

ASSUME RegistryAssumption ==
    /\ Limit \in Nat
    /\ None \notin Nat \cup Devices \cup Sessions

SessionId == 0..Limit
(* A Registration; its id is None when registering did not take effect.    *)
Registration == [device : Devices, id : SessionId \cup {None}]
Connected == [Devices -> SessionId \cup {None}]

(* No registration held; no announcement under way.                        *)
NoRegistration == [device |-> None, id |-> None]
Quiet == [step |-> "quiet"]

VARIABLES
    next,          \* Inner.next_session
    entry,         \* Inner.devices: the session id registered for a device
    watch,         \* Registry.changes: the connected set last announced
    stop,          \* session ids whose SessionHandle.stop has been notified
    pc,            \* where each session is in its life
    registration,  \* Session.registration
    displaced,     \* a registration being replaced by this session's own newer one
    announcing     \* what each session is about to do outside the registry's lock

vars == <<next, entry, watch, stop, pc, registration, displaced, announcing>>

TypeOK ==
    /\ next \in SessionId
    /\ entry \in Connected
    /\ watch \in Connected
    /\ stop \subseteq SessionId
    /\ pc \in [Sessions -> {"accepted", "serving", "ending", "closed", "gone"}]
    /\ registration \in [Sessions -> Registration \cup {NoRegistration}]
    /\ displaced \in [Sessions -> Registration \cup {NoRegistration}]
    /\ announcing \in [Sessions ->
           {Quiet} \cup [step : {"notify"}, id : SessionId] \cup [step : {"read"}]
               \cup [step : {"send"}, connected : Connected]]

Init ==
    /\ next = 0
    /\ entry = [d \in Devices |-> None]
    /\ watch = [d \in Devices |-> None]
    /\ stop = {}
    /\ pc = [s \in Sessions |-> "accepted"]
    /\ registration = [s \in Sessions |-> NoRegistration]
    /\ displaced = [s \in Sessions |-> NoRegistration]
    /\ announcing = [s \in Sessions |-> Quiet]

-----------------------------------------------------------------------------
(* The loop of s is between two packets.                                   *)
Idle(s) == announcing[s] = Quiet /\ displaced[s] = NoRegistration

(* The loop looks at its stop notification before anything else.           *)
Stopped(s) == registration[s].id \in stop

Announce(s) == announcing' = [announcing EXCEPT ![s] = [step |-> "read"]]

(* Mutant of Displace: the displaced session is not told.                  *)
DisplaceSilently(s, i) == Announce(s)

Displace(s, i) == announcing' = [announcing EXCEPT ![s] = [step |-> "notify", id |-> i]]

(* Registry::register for a CONNECT, the device's first on this session or *)
(* another.  The loop has picked the packet up by now, so a stop that comes*)
(* this late is not looked at.  The id counter refuses to issue its last   *)
(* value: that registration owns nothing.                                  *)
Register(s, d) ==
    /\ pc[s] \in {"accepted", "serving"} /\ Idle(s)
    /\ pc' = [pc EXCEPT ![s] = "serving"]
    /\ displaced' = [displaced EXCEPT ![s] = registration[s]]
    /\ IF next < Limit
       THEN /\ next' = next + 1
            /\ entry' = [entry EXCEPT ![d] = next]
            /\ registration' = [registration EXCEPT ![s] = [device |-> d, id |-> next]]
            /\ IF entry[d] = None THEN Announce(s) ELSE Displace(s, entry[d])
       ELSE /\ registration' = [registration EXCEPT ![s] = [device |-> d, id |-> None]]
            /\ Announce(s)
            /\ UNCHANGED <<next, entry>>
    /\ UNCHANGED <<watch, stop>>

(* The session displaced is told, after the lock is let go of.             *)
Notify(s) ==
    /\ announcing[s].step = "notify"
    /\ stop' = stop \cup {announcing[s].id}
    /\ Announce(s)
    /\ UNCHANGED <<next, entry, watch, pc, registration, displaced>>

(* Registry::announce: the connected set is read ...                       *)
AnnounceRead(s) ==
    /\ announcing[s].step = "read"
    /\ announcing' = [announcing EXCEPT ![s] = [step |-> "send", connected |-> entry]]
    /\ UNCHANGED <<next, entry, watch, stop, pc, registration, displaced>>

(* ... and sent, unless it is what was last sent.                          *)
AnnounceSend(s) ==
    /\ announcing[s].step = "send"
    /\ watch' = announcing[s].connected
    /\ announcing' = [announcing EXCEPT ![s] = Quiet]
    /\ UNCHANGED <<next, entry, stop, pc, registration, displaced>>

(* Mutant of EntryAfterDrop: the device's entry goes, whoever's it is.     *)
EntryAfterAnyDrop(r) ==
    IF r.id # None THEN [entry EXCEPT ![r.device] = None] ELSE entry

(* Dropping a Registration: its entry goes, if it is still its own.        *)
EntryAfterDrop(r) ==
    IF r.id # None /\ entry[r.device] = r.id
    THEN [entry EXCEPT ![r.device] = None]
    ELSE entry

(* Mutant of DropDisplaced: the replaced registration is forgotten.        *)
ForgetDisplaced(s) ==
    /\ displaced[s] # NoRegistration /\ announcing[s] = Quiet
    /\ displaced' = [displaced EXCEPT ![s] = NoRegistration]
    /\ Announce(s)
    /\ UNCHANGED <<next, entry, watch, stop, pc, registration>>

(* A second CONNECT replaces the registration held, once register returned.*)
DropDisplaced(s) ==
    /\ displaced[s] # NoRegistration /\ announcing[s] = Quiet
    /\ entry' = EntryAfterDrop(displaced[s])
    /\ displaced' = [displaced EXCEPT ![s] = NoRegistration]
    /\ Announce(s)
    /\ UNCHANGED <<next, watch, stop, pc, registration>>

(* The loop returns: it was told to stop ...                               *)
StopReplaced(s) ==
    /\ pc[s] = "serving" /\ Idle(s) /\ Stopped(s)
    /\ pc' = [pc EXCEPT ![s] = "ending"]
    /\ UNCHANGED <<next, entry, watch, stop, registration, displaced, announcing>>

(* ... or it ended for a reason of its own, before it saw a stop or not.   *)
End(s) ==
    /\ pc[s] \in {"accepted", "serving"} /\ Idle(s)
    /\ pc' = [pc EXCEPT ![s] = IF @ = "accepted" THEN "gone" ELSE "ending"]
    /\ UNCHANGED <<next, entry, watch, stop, registration, displaced, announcing>>

(* The Session is dropped, field by field: the channels close first ...    *)
CloseChannels(s) ==
    /\ pc[s] = "ending"
    /\ pc' = [pc EXCEPT ![s] = "closed"]
    /\ UNCHANGED <<next, entry, watch, stop, registration, displaced, announcing>>

(* ... and the registration last.                                          *)
DropRegistration(s) ==
    /\ pc[s] = "closed"
    /\ pc' = [pc EXCEPT ![s] = "gone"]
    /\ entry' = EntryAfterDrop(registration[s])
    /\ registration' = [registration EXCEPT ![s] = NoRegistration]
    /\ Announce(s)
    /\ UNCHANGED <<next, watch, stop, displaced>>

(* What s does on its own, once it has begun.                              *)
Proceed(s) ==
    \/ Notify(s) \/ AnnounceRead(s) \/ AnnounceSend(s) \/ DropDisplaced(s)
    \/ StopReplaced(s) \/ CloseChannels(s) \/ DropRegistration(s)

Next == \E s \in Sessions : Proceed(s) \/ End(s) \/ \E d \in Devices : Register(s, d)

Spec == Init /\ [][Next]_vars

(* Every session is a task the runtime runs; no device has to connect or   *)
(* to leave.                                                               *)
Fairness == \A s \in Sessions : WF_vars(Proceed(s))
FairSpec == Spec /\ Fairness
-----------------------------------------------------------------------------
(* Some session still has a registration with this id to drop.             *)
Owned(i) == \E s \in Sessions : i \in {registration[s].id, displaced[s].id}

(* A session that serves a device is the one the API reaches, or it has    *)
(* been told to stop, or is about to be.  What the drop of a replaced      *)
(* registration must not undo, in whatever order the new session's         *)
(* register and the old one's drop come.                                   *)
AddressableOrTold ==
    \A s \in Sessions :
        LET i == registration[s].id IN
        pc[s] = "serving" /\ i # None =>
            \/ entry[registration[s].device] = i
            \/ i \in stop
            \/ \E t \in Sessions : announcing[t] = [step |-> "notify", id |-> i]

(* What the registry lists is owned by a session that has yet to drop its  *)
(* registration: a device that left is not listed for ever.                *)
NoGhostEntry == \A d \in Devices : entry[d] # None => Owned(entry[d])

(* A session whose device is served by a newer one does not stay: it ends, *)
(* or registers again (session.rs, Woke::Replaced).                        *)
SupersededEnds ==
    \A s \in Sessions, d \in Devices, i \in 0..(Limit - 1) :
        (registration[s] = [device |-> d, id |-> i] /\ entry[d] # i)
            ~> (registration[s].id # i)
=============================================================================
