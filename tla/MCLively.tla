------------------------------- MODULE MCLively -------------------------------
(* Small instances for TLC of what must happen in the end, in two parts    *)
(* that share no state: Relay and, in the variables x1 to x6, Accessories. *)
(* A behaviour is of one part; the other's variables stay as they were.    *)
EXTENDS Relay, TLC

CONSTANTS a, t, u, c1

(* Relay: a device that reconnects once.  The earlier of its sessions says *)
(* more than its relay's queue holds.                                      *)
Reconnects == [n \in Sessions |-> IF n = 1 THEN 2 ELSE 1]

Search(target, replace) == [kind |-> "search", target |-> target, replace |-> replace]
Requests ==
    {Search(t, TRUE), Search(u, FALSE),
     [kind |-> "pair", serial |-> a], [kind |-> "forget", entry |-> 1],
     [kind |-> "read", wanted |-> {"list", "other"}]}

VARIABLES part, x1, x2, x3, x4, x5, x6

(* One caller and one request.                                             *)
Handlers ==
    INSTANCE Accessories WITH
        Callers <- {c1}, Asking <- Requests, Serials <- {a}, Nearby <- (t :> {a}) @@ (u :> {a}),
        Window <- 2, MaxCalls <- 1, MaxReports <- 1, MaxFaults <- 1,
        device <- x1, unreported <- x2, identity <- x3, searches <- x4, calls <- x5, counts <- x6

xs == <<x1, x2, x3, x4, x5, x6>>

PartsInit ==
    /\ Init
    /\ part \in {"relay", "handlers"}
    /\ IF part = "handlers" THEN Handlers!AccessoriesInit
       ELSE x1 = 0 /\ x2 = 0 /\ x3 = 0 /\ x4 = 0 /\ x5 = 0 /\ x6 = 0

PartsNext ==
    \/ part = "relay" /\ Next /\ UNCHANGED <<part, xs>>
    \/ part = "handlers" /\ Handlers!AccessoriesNext /\ UNCHANGED <<part, vars>>

(* Each part is as fair as its own specification has it.  The relay of a   *)
(* behaviour that is of the handlers has nothing to do.                    *)
IsHandlers == part = "handlers"
PartsSpec ==
    /\ PartsInit /\ [][PartsNext]_<<part, vars, xs>>
    /\ Fairness
    /\ WF_xs(IsHandlers /\ Handlers!Elapses) /\ WF_xs(IsHandlers /\ Handlers!Handles(c1))

-----------------------------------------------------------------------------
(* Accessories' EveryCallEnds: every request is answered, whatever the     *)
(* device does, and every stream ends (READ_BACK, QUIET and the window).   *)
EveryCallEnds ==
    (IsHandlers /\ x5[c1].pc \notin {"idle", "done"}) ~> (IsHandlers /\ x5[c1].pc = "done")
=============================================================================
