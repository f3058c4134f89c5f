-------------------------------- MODULE MCParts --------------------------------
(* Small instances for TLC of two parts that share no state, checked side   *)
(* by side: Arbiter and Accessories.  A behaviour is of one part; the       *)
(* variables of the other stay as they were.                                *)
EXTENDS Arbiter, Accessories, TLC

CONSTANTS a, t, u, c1, c2

(* Arbiter: the cloud's commands are for one register and for a range, this*)
(* program's for the same and for part of it.  Pairing matters where       *)
(* configuration is refused.                                               *)
Apart == {<<1, 1>>, <<2, 3>>}
Shares == {<<1, 1>>, <<3, 3>>}
Relaying ==
    {p \in Policy : p.cloud_may_pair_accessories => p.mode = "controls"}

(* Accessories: two targets find the one accessory there is.               *)
Search(target, replace) == [kind |-> "search", target |-> target, replace |-> replace]
Requests ==
    {Search(t, TRUE), Search(u, FALSE),
     [kind |-> "pair", serial |-> a], [kind |-> "forget", entry |-> 1],
     [kind |-> "read", wanted |-> {"list", "other"}]}

(* Two callers are as good as each other.                                  *)
Perms == Permutations({c1, c2})

Near == (t :> {a}) @@ (u :> {a})

VARIABLE part  \* "arbiter" or "accessories"

PartsInit ==
    /\ part \in {"arbiter", "accessories"}
    /\ Init /\ AccessoriesInit
    /\ part = "accessories" => policy = CHOOSE p \in Policies : TRUE
    /\ part = "arbiter" => device.entries = Empty

PartsNext ==
    \/ part = "arbiter" /\ Next /\ UNCHANGED <<part, accessoriesVars>>
    \/ part = "accessories" /\ AccessoriesNext /\ UNCHANGED <<part, vars>>

PartsSpec == PartsInit /\ [][PartsNext]_<<part, vars, accessoriesVars>>

-----------------------------------------------------------------------------
(* Every variable has its type.                                            *)
PartsTypeOK == TypeOK /\ AccessoriesTypeOK
=============================================================================
