----------------------------- MODULE MCRegistry -----------------------------
(* Small instances for TLC, in two parts that share no state: Registry,    *)
(* and Delivery, the way of a command to the session the registry has.  A  *)
(* behaviour is of one part; the other stays as it began.                  *)
EXTENDS Registry, Delivery, TLC

CONSTANTS d1, d2, s1, s2

(* A change that has a register read after it and one more, an action, and *)
(* a payload that is refused.                                              *)
Commands == {<<"power-plus", "setting">>, <<"restart">>, <<"setting", "bad">>}

VARIABLE part

PartsInit == Init /\ DeliveryInit /\ part \in {"registry", "commands"}

PartsNext ==
    \/ part = "registry" /\ Next /\ UNCHANGED <<part, deliveryVars>>
    \/ part = "commands" /\ DeliveryNext /\ UNCHANGED <<part, vars>>

(* Each part is as fair as its own specification has it; in a part that    *)
(* has not begun nothing goes on by itself.                                *)
PartsSpec ==
    /\ PartsInit /\ [][PartsNext]_<<part, vars, deliveryVars>>
    /\ Fairness /\ DeliveryFairness
=============================================================================
