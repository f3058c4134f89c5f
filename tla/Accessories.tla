------------------------------ MODULE Accessories ------------------------------
(***************************************************************************)
(* The routes of the control API that work on a device's accessories and   *)
(* on its own fields (src/src/control.rs: search_discovered,               *)
(* pair_discovered, forget_discovered, read_config_set, and what they      *)
(* share: Searches, read_config_back, stream_candidates, ConfigReader).    *)
(*                                                                         *)
(* Nothing they ask of the device is acknowledged.  What it did is told    *)
(* from the device's own reports, which every handler takes from one watch *)
(* that keeps the latest report alone: handlers of several callers, the    *)
(* session that publishes and the device all move on their own.            *)
(*                                                                         *)
(* The device is external, as control.rs and network.rs describe it: its   *)
(* list of accessories follows a command late, a search over a paired      *)
(* accessory takes a second entry, a pairing needs a search that found.    *)
(* The session is carry_out: a command is taken or lost, and its caller    *)
(* told either way (Session has what lies between).                        *)
(***************************************************************************)
EXTENDS Integers, FiniteSets

CONSTANTS
    Callers,    \* the HTTP requests that run together
    Asking,     \* what they may ask
    Serials,    \* the accessories on the network
    Nearby,     \* of each search target, the accessories it finds
    Window,     \* how long the device searches: SEARCH_WINDOW
    MaxCalls,   \* bound: requests made
    MaxReports, \* bound: reports the device volunteers
    MaxFaults   \* bound: commands lost, or told wrong

NoSerial == "none"
Fields == {"list", "found", "other"}
Slots == 1..2

(* What a route may be asked.  A field that is read may be the one a       *)
(* search finds its candidates in: all registers can be asked for.         *)
HttpRequest ==
    [kind : {"search"}, target : DOMAIN Nearby, replace : BOOLEAN]
        \cup [kind : {"pair"}, serial : Serials] \cup [kind : {"forget"}, entry : Slots]
        \cup [kind : {"read"}, wanted : SUBSET Fields]

ASSUME AccessoriesAssumption ==
    /\ Asking \subseteq HttpRequest
    /\ Nearby \in [DOMAIN Nearby -> SUBSET Serials] /\ NoSerial \notin DOMAIN Nearby
    /\ Window \in Nat \ {0}
    /\ MaxCalls \in Nat /\ MaxReports \in Nat /\ MaxFaults \in Nat

VARIABLES
    device,    \* its entries, what it still reports of them, its search
    unreported,  \* the fields the device has been asked for and not reported
    identity,  \* the watch: what was last reported, and all learned so far
    searches,  \* Searches: the target of the last search, and what is left of it
    calls,     \* of each caller, its request and how far it is
    counts     \* calls, reports and faults so far

accessoriesVars == <<device, unreported, identity, searches, calls, counts>>

Pcs == {"idle", "asking", "waiting", "forgetting", "opening", "sending", "pausing",
        "streaming", "collecting", "done"}

(* How long a read back of the list is repeated, and a reader is quiet:    *)
(* READ_BACK and QUIET, in the ticks of the window.                        *)
ReadBack == 1
Quiet == 1

Empty == [n \in Slots |-> [state |-> "free", serial |-> NoSerial]]
In(list, state) == {n \in Slots : list[n].state = state}

NoCall == [request |-> [kind |-> "nothing"], pc |-> "idle", list |-> Empty, before |-> Empty,
           written |-> FALSE, left |-> 0, told |-> {}, toAsk |-> {}, since |-> 0,
           answered |-> TRUE, status |-> 0]

(* The list is empty, or as an enrolment of before left it.                *)
AccessoriesInit ==
    /\ \E entry \in {Empty[1]} \cup [state : {"paired", "deleted"}, serial : Serials] :
         LET list == [Empty EXCEPT ![1] = entry] IN
         device = [entries |-> list, reported |-> list, target |-> NoSerial, left |-> 0, found |-> {}]
    /\ unreported = {}
    /\ identity = [reported |-> {}, list |-> Empty, found |-> NoSerial, at |-> 0, learned |-> {}]
    /\ searches = [target |-> NoSerial, left |-> 0]
    /\ calls = [c \in Callers |-> NoCall]
    /\ counts = [calls |-> 0, reports |-> 0, faults |-> 0]

-----------------------------------------------------------------------------
(* The device takes a command.                                             *)

(* A browse takes the entry a delete left, or another one.                 *)
Browses(target) ==
    LET reusable == In(device.entries, "registered") \cup In(device.entries, "deleted")
        free == In(device.entries, "free")
        taken == IF reusable # {} THEN {CHOOSE n \in reusable : TRUE}
                 ELSE IF free # {} THEN {CHOOSE n \in free : \A m \in free : n <= m} ELSE {}
    IN  [device EXCEPT
           !.entries = [n \in Slots |-> IF n \in taken THEN [state |-> "registered", serial |-> NoSerial]
                                        ELSE @[n]],
           !.target = target, !.left = Window, !.found = {}]

Pairs(serial) ==
    LET waiting == In(device.entries, "registered") IN
    IF serial \notin device.found \/ waiting = {} THEN device
    ELSE [device EXCEPT !.entries[CHOOSE n \in waiting : TRUE] =
             [state |-> "paired", serial |-> serial]]

Forgets(entry) ==
    IF entry \in In(device.entries, "paired") \cup In(device.entries, "registered")
    THEN [device EXCEPT !.entries[entry].state = "deleted"] ELSE device

(* SessionHandle::carry_out of a command: normally it is taken and its     *)
(* caller told; else it is lost, or its caller told wrong.                 *)
Delivery == {d \in [taken : BOOLEAN, told : BOOLEAN] : (d.taken /\ d.told) \/ counts.faults < MaxFaults}
Faults(d) == IF d.taken /\ d.told THEN counts ELSE [counts EXCEPT !.faults = @ + 1]

-----------------------------------------------------------------------------
(* The device reports, and the session publishes: accept_identity.         *)

(* The list: as it is, or still as it was.                                 *)
ReportsList(reported) ==
    \E list \in {device.reported, device.entries} :
        /\ device' = [device EXCEPT !.reported = list]
        /\ identity' = [identity EXCEPT !.reported = reported, !.list = list,
                                        !.learned = @ \cup reported]

Volunteers ==
    /\ counts.reports < MaxReports
    /\ counts' = [counts EXCEPT !.reports = @ + 1]
    /\ ReportsList({"list"})
    /\ UNCHANGED <<unreported, searches, calls>>

ReportsFound(serial) ==
    /\ device.left > 0 /\ serial \in Nearby[device.target]
    /\ counts.reports < MaxReports
    /\ counts' = [counts EXCEPT !.reports = @ + 1]
    /\ device' = [device EXCEPT !.found = @ \cup {serial}]
    /\ identity' = [identity EXCEPT !.reported = {"found"}, !.found = serial,
                                    !.at = counts.reports + 1, !.learned = @ \cup {"found"}]
    /\ UNCHANGED <<unreported, searches, calls>>

(* It answers a read.                                                      *)
AnswersRead(field) ==
    /\ field \in unreported
    /\ unreported' = unreported \ {field}
    /\ IF field = "list" THEN ReportsList({"list"})
       ELSE /\ identity' = [identity EXCEPT !.reported = {field}, !.learned = @ \cup {field}]
            /\ UNCHANGED device
    /\ UNCHANGED <<searches, calls, counts>>

(* Time passes, for every window and deadline.                             *)
LessUnbounded(n) == n - 1  \* mutant
Less(n) == IF n > 0 THEN n - 1 ELSE 0
Elapses ==
    /\ device.left > 0 \/ searches.left > 0 \/ \E c \in Callers : calls[c].left > 0
    /\ device' = [device EXCEPT !.left = Less(@)]
    /\ searches' = [searches EXCEPT !.left = Less(@)]
    /\ calls' = [c \in Callers |-> [calls[c] EXCEPT !.left = Less(@)]]
    /\ UNCHANGED <<unreported, identity, counts>>

-----------------------------------------------------------------------------
(* Handlers                                                                *)

Goes(c, call) == calls' = [calls EXCEPT ![c] = call]
At(c, kind, pc) == calls[c].request.kind = kind /\ calls[c].pc = pc
Done(status) == [NoCall EXCEPT !.pc = "done", !.status = status]

(* A request arrives.  A pairing is sent at once; a search and a delete    *)
(* read the list first; a set of fields is asked for one by one.           *)
Begin(c, request) ==
    /\ calls[c].pc \in {"idle", "done"}
    /\ counts.calls < MaxCalls
    /\ counts' = [counts EXCEPT !.calls = @ + 1]
    /\ Goes(c, [NoCall EXCEPT
                  !.request = request, !.since = counts.reports,
                  !.pc = CASE request.kind = "pair" -> "sending"
                           [] request.kind = "read" -> "collecting"
                           [] OTHER -> "asking",
                  !.toAsk = IF request.kind = "read" THEN request.wanted ELSE {},
                  !.left = IF request.kind = "read" THEN Quiet ELSE 0])
    /\ UNCHANGED <<device, unreported, identity, searches>>

(* read_config_back: the list is asked for, whatever comes of that.        *)
AsksForList(c) ==
    /\ calls[c].pc = "asking"
    /\ \E d \in Delivery :
         /\ unreported' = IF d.taken THEN unreported \cup {"list"} ELSE unreported
         /\ counts' = Faults(d)
    /\ Goes(c, [calls[c] EXCEPT !.pc = "waiting"])
    /\ UNCHANGED <<device, identity, searches>>

(* What the handler does with the list: a search is refused over a paired  *)
(* accessory, or makes room; a pairing has enrolled its accessory or not;  *)
(* a delete names an entry there is.                                       *)
DecidesSearch(call) ==
    IF In(call.list, "paired") = {} THEN [call EXCEPT !.pc = "opening"]
    ELSE IF call.request.replace THEN [call EXCEPT !.pc = "forgetting"]
    ELSE Done(409)

DecidesPair(call) ==
    Done(IF \E n \in Slots : call.list[n].serial = call.request.serial THEN 200 ELSE 409)

DecidesForget(call) ==
    IF call.list[call.request.entry].state = "free" THEN Done(404)
    ELSE [call EXCEPT !.pc = "sending", !.before = call.list]

(* read_enrolled_after: the list is to differ from the one before.         *)
ReadAfter(call) ==
    IF call.list # call.before THEN Done(200) ELSE [call EXCEPT !.pc = "pausing"]

Decides(call) ==
    CASE call.request.kind = "search" -> DecidesSearch(call)
      [] call.request.kind = "pair" -> DecidesPair(call)
      [] call.request.kind = "forget" -> IF call.written THEN ReadAfter(call) ELSE DecidesForget(call)

(* The latest report has the list, be it from before the request; or       *)
(* nothing comes, and the list learned last is taken.                      *)
Reads(c) ==
    /\ calls[c].pc = "waiting" /\ "list" \in identity.reported
    /\ Goes(c, Decides([calls[c] EXCEPT !.list = identity.list]))
    /\ UNCHANGED <<device, unreported, identity, searches, counts>>

ReadTimesOut(c) ==
    /\ calls[c].pc = "waiting" /\ "list" \notin identity.reported
    /\ Goes(c, Decides([calls[c] EXCEPT !.answered = FALSE,
                  !.list = IF "list" \in identity.learned THEN identity.list ELSE Empty]))
    /\ UNCHANGED <<device, unreported, identity, searches, counts>>

ForgetsFirst(c) ==
    LET call == calls[c] IN
    /\ call.pc = "forgetting"
    /\ \E d \in Delivery :
         /\ device' = IF d.taken
                      THEN Forgets(CHOOSE n \in In(call.list, "paired") :
                                      \A m \in In(call.list, "paired") : n <= m)
                      ELSE device
         /\ counts' = Faults(d)
         /\ Goes(c, IF d.told THEN [call EXCEPT !.pc = "opening"] ELSE Done(502))
    /\ UNCHANGED <<unreported, identity, searches>>

(* Searches::open: join the search under way for the same target, for as   *)
(* long as that has left, or start one.                                    *)
OpensAfresh(c) ==  \* mutant: who joins has the whole window
    LET call == calls[c]
        joins == searches.target = call.request.target /\ searches.left > 0
    IN  /\ call.pc = "opening"
        /\ searches' = IF joins THEN searches ELSE [target |-> call.request.target, left |-> Window]
        /\ Goes(c, [call EXCEPT !.pc = IF joins THEN "streaming" ELSE "sending", !.left = Window])
        /\ UNCHANGED <<device, unreported, identity, counts>>
Opens(c) ==
    LET call == calls[c]
        joins == searches.target = call.request.target /\ searches.left > 0
    IN  /\ call.pc = "opening"
        /\ searches' = IF joins THEN searches ELSE [target |-> call.request.target, left |-> Window]
        /\ Goes(c, [call EXCEPT !.pc = IF joins THEN "streaming" ELSE "sending",
                                !.left = searches'.left])
        /\ UNCHANGED <<device, unreported, identity, counts>>

(* The search goes out; if it cannot, the window is closed, whoever's.     *)
SendsSearch(c) ==
    LET call == calls[c] IN
    /\ At(c, "search", "sending")
    /\ \E d \in Delivery :
         /\ device' = IF d.taken THEN Browses(call.request.target) ELSE device
         /\ counts' = Faults(d)
         /\ searches' = IF d.told THEN searches ELSE [searches EXCEPT !.left = 0]
         /\ Goes(c, IF d.told THEN [call EXCEPT !.pc = "streaming"] ELSE Done(502))
    /\ UNCHANGED <<unreported, identity>>

(* stream_candidates: what the latest report found, once.                  *)
CandidatesHeld == IF "found" \in identity.learned THEN {identity.found} \ {NoSerial} ELSE {}  \* for a mutant
Candidates == IF "found" \in identity.reported THEN {identity.found} \ {NoSerial} ELSE {}

Streams(c) ==
    /\ calls[c].pc = "streaming" /\ ~(Candidates \subseteq calls[c].told)
    /\ Goes(c, [calls[c] EXCEPT !.told = @ \cup Candidates])
    /\ UNCHANGED <<device, unreported, identity, searches, counts>>

StreamEnds(c) ==
    /\ calls[c].pc = "streaming" /\ calls[c].left = 0
    /\ Candidates \subseteq calls[c].told
    /\ Goes(c, Done(200))
    /\ UNCHANGED <<device, unreported, identity, searches, counts>>

(* pair_discovered: sent, then after as long as its reading takes to be in *)
(* use, or is given, read back.                                            *)
SendsPair(c) ==
    /\ At(c, "pair", "sending")
    /\ \E d \in Delivery :
         /\ device' = IF d.taken THEN Pairs(calls[c].request.serial) ELSE device
         /\ counts' = Faults(d)
         /\ Goes(c, IF d.told THEN [calls[c] EXCEPT !.pc = "asking"] ELSE Done(502))
    /\ UNCHANGED <<unreported, identity, searches>>

(* forget_discovered: the entry named, deleted; the list is then read until*)
(* it differs or the wait is over.                                         *)
SendsForget(c) ==
    LET call == calls[c] IN
    /\ At(c, "forget", "sending")
    /\ \E d \in Delivery :
         /\ device' = IF d.taken THEN Forgets(call.request.entry) ELSE device
         /\ counts' = Faults(d)
         /\ Goes(c, IF d.told THEN [call EXCEPT !.pc = "asking", !.written = TRUE, !.left = ReadBack]
                    ELSE Done(502))
    /\ UNCHANGED <<unreported, identity, searches>>

AsksAgainForever(c) ==  \* mutant: until the list differs
    /\ calls[c].pc = "pausing"
    /\ Goes(c, [calls[c] EXCEPT !.pc = "asking"])
    /\ UNCHANGED <<device, unreported, identity, searches, counts>>
AsksAgain(c) ==
    /\ calls[c].pc = "pausing"
    /\ Goes(c, IF calls[c].left > 0 THEN [calls[c] EXCEPT !.pc = "asking"] ELSE Done(409))
    /\ UNCHANGED <<device, unreported, identity, searches, counts>>

(* ConfigReader: a task asks for each field, another yields each the first *)
(* time it is among those learned, until all are asked for and it is quiet.*)
AsksNext(c) ==
    /\ calls[c].pc = "collecting" /\ calls[c].toAsk # {}
    /\ \E field \in calls[c].toAsk, d \in Delivery :
         /\ unreported' = IF d.taken THEN unreported \cup {field} ELSE unreported
         /\ counts' = Faults(d)
         /\ Goes(c, [calls[c] EXCEPT !.toAsk = @ \ {field}])
    /\ UNCHANGED <<device, identity, searches>>

LearnedJustNow == identity.reported  \* for a mutant
Learned == identity.learned
Fresh(call) == (Learned \cap call.request.wanted) \ call.told

Yields(c) ==
    /\ calls[c].pc = "collecting" /\ Fresh(calls[c]) # {}
    /\ Goes(c, [calls[c] EXCEPT !.told = @ \cup Fresh(calls[c]), !.left = Quiet])
    /\ UNCHANGED <<device, unreported, identity, searches, counts>>

CollectEnds(c) ==
    /\ calls[c].pc = "collecting" /\ Fresh(calls[c]) = {}
    /\ calls[c].toAsk = {} /\ calls[c].left = 0
    /\ Goes(c, Done(200))
    /\ UNCHANGED <<device, unreported, identity, searches, counts>>

(* A caller that leaves is noticed when it would be told something.        *)
Leaves(c) ==
    /\ \/ calls[c].pc = "streaming" /\ ~(Candidates \subseteq calls[c].told)
       \/ calls[c].pc = "collecting" /\ Fresh(calls[c]) # {}
    /\ Goes(c, Done(499))
    /\ UNCHANGED <<device, unreported, identity, searches, counts>>

Handles(c) ==
    \/ AsksForList(c) \/ Reads(c) \/ ReadTimesOut(c)
    \/ ForgetsFirst(c) \/ Opens(c) \/ SendsSearch(c) \/ Streams(c) \/ StreamEnds(c)
    \/ SendsPair(c) \/ SendsForget(c) \/ AsksAgain(c)
    \/ AsksNext(c) \/ Yields(c) \/ CollectEnds(c)

AccessoriesNext ==
    \/ \E c \in Callers, request \in Asking : Begin(c, request)
    \/ \E c \in Callers : Handles(c) \/ Leaves(c)
    \/ Volunteers
    \/ \E serial \in Serials : ReportsFound(serial)
    \/ \E field \in unreported : AnswersRead(field)
    \/ Elapses

AccessoriesSpec == AccessoriesInit /\ [][AccessoriesNext]_accessoriesVars

(* The handlers' tasks are run and time passes; the device may say nothing.*)
AccessoriesFairSpec ==
    /\ AccessoriesSpec
    /\ WF_accessoriesVars(Elapses) /\ \A c \in Callers : WF_accessoriesVars(Handles(c))

-----------------------------------------------------------------------------
(* Types                                                                   *)

Lists == [Slots -> [state : {"free", "registered", "paired", "deleted"}, serial : Serials \cup {NoSerial}]]

Call ==
    [request : HttpRequest \cup {NoCall.request}, pc : Pcs, list : Lists, before : Lists,
     written : BOOLEAN, left : 0..Window, told : SUBSET (Serials \cup Fields),
     toAsk : SUBSET Fields, since : 0..MaxReports, answered : BOOLEAN,
     status : {0, 200, 404, 409, 499, 502}]

Device ==
    [entries : Lists, reported : Lists, target : DOMAIN Nearby \cup {NoSerial},
     left : 0..Window, found : SUBSET Serials]

AccessoriesTypeOK ==
    /\ device \in Device
    /\ unreported \subseteq Fields
    /\ identity \in [reported : SUBSET Fields, list : Lists, found : Serials \cup {NoSerial},
                     at : 0..MaxReports, learned : SUBSET Fields]
    /\ identity.reported \subseteq identity.learned
    /\ searches \in [target : DOMAIN Nearby \cup {NoSerial}, left : 0..Window]
    /\ calls \in [Callers -> Call]
    /\ \A c \in Callers : calls[c].pc = "done" <=> calls[c].status # 0
    /\ counts \in [calls : 0..MaxCalls, reports : 0..MaxReports, faults : 0..MaxFaults]

-----------------------------------------------------------------------------
(* Properties                                                              *)

(* A caller who streams a search, its own or one it joined, stops no later *)
(* than the device does: who joins does not wait on a window that has      *)
(* closed (Searches::open).  Told of no fault, while no search of another  *)
(* target took the device over, and once the one who opened it sent it.    *)
StreamsWithinWindow ==
    \A c \in Callers :
        /\ calls[c].pc = "streaming"
        /\ counts.faults = 0
        /\ device.target = calls[c].request.target
        /\ \A d \in Callers : ~At(d, "search", "sending")
        => calls[c].left <= device.left

(* A candidate told to a caller was reported after its request came, not   *)
(* left over from a search before, if its own read of the list was         *)
(* answered and its search is not one it joined (stream_candidates: "only  *)
(* what the device reports inside the window counts").                     *)
CandidateIsNotLeftover ==
    \A c \in Callers :
        /\ calls[c].pc = "streaming" /\ calls[c].answered
        /\ Candidates # {} /\ identity.at <= calls[c].since
        => FALSE

(* A set of fields is told whole: when the reader ends, every field wanted *)
(* that the device has ever reported was yielded, also when several        *)
(* reports came between two looks at the watch (ConfigReader::answers).    *)
ReadIsComplete ==
    [][\A c \in Callers :
          calls[c].pc = "collecting" /\ calls'[c].status = 200
              => identity.learned \cap calls[c].request.wanted \subseteq calls[c].told]_accessoriesVars

(* Every request is answered, whatever the device does, and every stream   *)
(* ends (READ_BACK, QUIET and the window).                                 *)
EveryCallEnds ==
    \A c \in Callers : calls[c].pc \notin {"idle", "done"} ~> calls[c].pc = "done"
=============================================================================
