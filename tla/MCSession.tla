----------------------------- MODULE MCSession -----------------------------
(* Small instances of Session for TLC.                                     *)
EXTENDS Session, TLC

CONSTANTS pp, op, v1, v2, c1, c2

Set(r, v) == [op |-> "set", reg |-> r, val |-> v]
Refresh(r) == [op |-> "refresh", reg |-> r]

(* Everything the control API asks: settings written, refused and          *)
(* refreshed, and the commands that go through Action::Send.               *)
AllRequests ==
    {Set(pp, v1), Set(op, None), Refresh(op)}
        \cup {[op |-> "meter", val |-> TRUE], [op |-> "config", val |-> TRUE],
              [op |-> "config", val |-> None]}

(* Settings only: a write and a refresh of one register.                   *)
SettingRequests == {Set(op, v1), Refresh(op)}

(* One write of either register, to be compared with what is stored.       *)
WriteRequests == {Set(pp, v2), Set(op, v2)}

(* A setting refreshed, and an acknowledged command sent.                  *)
SendRequests == {Refresh(op), [op |-> "meter", val |-> TRUE]}

ResyncBoth == <<pp, op>>
ResyncOne == <<op>>

Perms == Permutations(Callers)
=============================================================================
