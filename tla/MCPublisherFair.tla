--------------------------- MODULE MCPublisherFair ---------------------------
(* Two instances of Publisher for TLC that share no state, with what must   *)
(* happen in the end: one of sessions that replace one another, and, in the *)
(* variables with a q, one of a device that goes quiet.  A behaviour is of  *)
(* one part; the other's variables stay as they were.                       *)
EXTENDS MCPublisher

VARIABLES
    part,  \* "links" or "quiet"
    qSession, qRegistered, qChanged, qFrame, qIdentity, qLink, qAborted, qLinked, qLinking,
    qReplacing, qFarewells, qGeneration, qEvents, qQueue, qDropped, qConn, qConnections,
    qRetained, qOvertaken

quietVars ==
    <<qSession, qRegistered, qChanged, qFrame, qIdentity, qLink, qAborted, qLinked, qLinking,
      qReplacing, qFarewells, qGeneration, qEvents, qQueue, qDropped, qConn, qConnections,
      qRetained, qOvertaken>>

(* One session of one device, telling of its telemetry alone, a broker     *)
(* that is reached twice, and a queue with room for all a link says again. *)
Quiet ==
    INSTANCE Publisher WITH
        Sessions <- {s1}, Serial <- [s \in {s1} |-> d1], Views <- {"frame"},
        QueueDepth <- 3, MaxConnections <- 2,
        session <- qSession, registered <- qRegistered, changed <- qChanged, frame <- qFrame,
        identity <- qIdentity, link <- qLink, aborted <- qAborted, linked <- qLinked,
        linking <- qLinking, replacing <- qReplacing, farewells <- qFarewells,
        generation <- qGeneration, events <- qEvents, queue <- qQueue, dropped <- qDropped,
        conn <- qConn, connections <- qConnections, retained <- qRetained,
        overtaken <- qOvertaken

IsLinks == part = "links"
IsQuiet == part = "quiet"

PartsInit == part \in {"links", "quiet"} /\ Init /\ Quiet!Init

(* The session of the quiet part stays: of one that ends, silence is no    *)
(* longer to be shown.                                                     *)
PartsNext ==
    \/ IsLinks /\ Next /\ UNCHANGED <<part, quietVars>>
    \/ IsQuiet /\ Quiet!Next /\ qSession'[s1] # "closed" /\ UNCHANGED <<part, vars>>

(* Publisher's FairSpec, of either part.                                   *)
PartsSpec ==
    /\ PartsInit /\ [][PartsNext]_<<part, vars, quietVars>>
    /\ \A s \in Sessions :
         /\ WF_vars(IsLinks /\ LinkStep(s))
         /\ WF_vars(IsLinks /\ frame[s] # "new" /\ WentQuiet(s))
    /\ WF_vars(IsLinks /\ PublisherStep)
    /\ WF_vars(IsLinks /\ BrokerConnects) /\ WF_vars(IsLinks /\ Pump)
    /\ WF_vars(IsLinks /\ BrokerNotices)
    /\ WF_quietVars(IsQuiet /\ Quiet!LinkStep(s1))
    /\ WF_quietVars(IsQuiet /\ qFrame[s1] # "new" /\ Quiet!WentQuiet(s1))
    /\ WF_quietVars(IsQuiet /\ Quiet!PublisherStep)
    /\ WF_quietVars(IsQuiet /\ Quiet!BrokerConnects) /\ WF_quietVars(IsQuiet /\ Quiet!Pump)
    /\ WF_quietVars(IsQuiet /\ Quiet!BrokerNotices)

-----------------------------------------------------------------------------
(* Publisher's SilenceShown: a device that has gone quiet is shown offline,*)
(* through whatever broker connections are lost meanwhile, unless it       *)
(* reports again, is linked anew or leaves, or a publication was dropped   *)
(* or overtaken (Link::went_quiet, Link::republish).                       *)
SilenceIsShown == Quiet!SilenceShown
=============================================================================
