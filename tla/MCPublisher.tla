---------------------------- MODULE MCPublisher ----------------------------
(* Small instances of Publisher for TLC.                                   *)
EXTENDS Publisher, TLC

CONSTANTS d1, s1, s2

E == INSTANCE Entities

(* What the links say does not depend on this, but it is the program's     *)
(* other half of it: whatever the program may be configured with, every    *)
(* catalogue it announces shows the controls that it honours.              *)
ASSUME EveryCatalogueIsHonoured ==
    \A permitted \in [writes : BOOLEAN, powerPlus : BOOLEAN] :
        E!CataloguesAreHonoured(permitted, 1..E!SlotCount, 1..E!BatteryPacks)

(* Every session is of the first device: one that reconnects.              *)
Reconnecting == [s \in Sessions |-> d1]
=============================================================================
