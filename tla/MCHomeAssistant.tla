--------------------------- MODULE MCHomeAssistant ---------------------------
(* A small instance of Announcements for TLC and, beside it, one of         *)
(* Publisher: what one link announces, and what a broker that restarts      *)
(* retains of a link.  The two share no state; a behaviour is of one part,  *)
(* and the other stays as it was first.                                     *)
EXTENDS Announcements, Publisher

CONSTANTS d1, s1

TheConfigurations ==
    { [slots |-> 1, permitted |-> [writes |-> TRUE, powerPlus |-> TRUE]],
      [slots |-> 2, permitted |-> [writes |-> TRUE, powerPlus |-> FALSE]],
      [slots |-> 2, permitted |-> [writes |-> FALSE, powerPlus |-> TRUE]] }
TheFrames == {[packs |-> 1, meter |-> FALSE], [packs |-> 2, meter |-> TRUE]}
(* Slot 1's start and its work mode.                                       *)
TheWatched == (254 :> {1}) @@ (256 :> {0, 2})

(* One session of one device.                                              *)
SessionOf == [s \in {s1} |-> d1]

(* Only to spare TLC: a function that was compared once is tabulated.      *)
ASSUME Tables ==
    Cardinality({EntitiesOf, TopicsOf, GatedOf, FieldsOf, FromSettingsOf, UnsharedOf,
                 HonouredControls, HonouredKeys}) > 1

VARIABLE part  \* "announcements" or "links"

PartsInit ==
    /\ part \in {"announcements", "links"}
    /\ AnnouncementsInit /\ Init
    /\ part = "links" =>
         discovery = {} /\ configuration = CHOOSE c \in Configurations : TRUE

PartsNext ==
    \/ part = "announcements" /\ AnnouncementsNext /\ UNCHANGED <<part, vars>>
    \/ part = "links" /\ Next /\ UNCHANGED <<part, announcementsVars>>

PartsSpec == PartsInit /\ [][PartsNext]_<<part, announcementsVars, vars>>
=============================================================================
