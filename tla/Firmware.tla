----------------------------- MODULE Firmware -----------------------------
(***************************************************************************)
(* The firmware store of src/src/server/firmware.rs: an image the cloud    *)
(* advertises is fetched once, by a task of its own, into a temporary file *)
(* that is renamed when it is whole.  Transfers may fail at any point, and *)
(* the program may be killed and started again on the same directory.      *)
(*                                                                         *)
(* A file is known by the transfer that made it, as by an inode: two       *)
(* transfers that open one name write one file.  Its contents are the      *)
(* pieces of the image that were written.  The request, the status and the *)
(* declared length are one answer of the vendor's host.                    *)
(***************************************************************************)
EXTENDS Naturals, FiniteSets

CONSTANTS
    Images,     \* the names advertised
    Partial,    \* per image, the name it has under way: with_extension("part")
    Together,   \* the images that two sessions may be offered at once
    Transfers,  \* bound: transfers, and so the files there may be
    Pieces,     \* what an image is made of, in order
    MaxPieces,  \* Keep.max_bytes
    Nil

ASSUME FirmwareAssumption ==
    /\ Pieces \in Nat /\ MaxPieces \in Nat
    /\ Nil \notin Images \cup Transfers

Part == {Partial[i] : i \in Images}

VARIABLES
    stage,     \* per transfer: where it is in fetch
    image,     \* per transfer: the image it is for
    file,      \* per transfer: the file it writes
    length,    \* per transfer: how many pieces it will be sent
    place,     \* per transfer: how many it has written
    contents,  \* per file: the pieces in it
    partial,   \* the temporary names in the directory, and their files
    held,      \* the final names in it, and their files
    spoiled    \* history: temporary names a crash or a failing disk left behind

transferVars == <<stage, image, file, length, place>>
firmwareVars == <<transferVars, contents, partial, held, spoiled>>

FirmwareInit ==
    /\ stage = [t \in Transfers |-> "unused"]
    /\ image = [t \in Transfers |-> Nil] /\ file = [t \in Transfers |-> Nil]
    /\ length = [t \in Transfers |-> 0] /\ place = [t \in Transfers |-> 0]
    /\ contents = [t \in Transfers |-> {}]
    /\ partial = [p \in Part |-> Nil]
    /\ held = [i \in Images |-> Nil]
    /\ spoiled = {}

Underway(t) == stage[t] \in {"offered", "asking", "writing"}

(* offer, with fetching on.                                                *)
Offer(t, i) ==
    /\ stage[t] = "unused"
    /\ i \notin Together => \A u \in Transfers : Underway(u) => image[u] # i
    /\ stage' = [stage EXCEPT ![t] = "offered"]
    /\ image' = [image EXCEPT ![t] = i]
    /\ UNCHANGED <<file, length, place, contents, partial, held, spoiled>>

Ends(t) == stage' = [stage EXCEPT ![t] = "over"]

(* fetch: whether it is held is looked at once, here.                      *)
ChecksHeld(t) ==
    /\ stage[t] = "offered"
    /\ IF held[image[t]] # Nil THEN Ends(t) ELSE stage' = [stage EXCEPT ![t] = "asking"]
    /\ UNCHANGED <<image, file, length, place, contents, partial, held, spoiled>>

(* The answer to the request: none in time, a refusal or too much.         *)
Refused(t) ==
    /\ stage[t] = "asking"
    /\ Ends(t)
    /\ UNCHANGED <<image, file, length, place, contents, partial, held, spoiled>>

(* A body, and store up to its loop: the temporary file is made, or made   *)
(* empty if one of that name is there.  A body may have no declared length *)
(* and be longer than is taken.                                            *)
Answered(t) ==
    LET p == Partial[image[t]]
        f == IF partial[p] = Nil THEN t ELSE partial[p] IN
    /\ stage[t] = "asking"
    /\ stage' = [stage EXCEPT ![t] = "writing"]
    /\ length' \in {[length EXCEPT ![t] = n] : n \in {Pieces, MaxPieces + 1}}
    /\ file' = [file EXCEPT ![t] = f]
    /\ contents' = [contents EXCEPT ![f] = {}]
    /\ partial' = [partial EXCEPT ![p] = f]
    /\ spoiled' = spoiled \ {p}
    /\ UNCHANGED <<image, place, held>>

Removed(t) == partial' = [partial EXCEPT ![Partial[image[t]]] = Nil]

(* store, a piece of the body.                                             *)
Piece(t) ==
    /\ stage[t] = "writing" /\ place[t] < length[t]
    /\ IF place[t] + 1 > MaxPieces
       THEN Ends(t) /\ Removed(t) /\ UNCHANGED <<place, contents>>
       ELSE /\ place' = [place EXCEPT ![t] = @ + 1]
            /\ contents' = [contents EXCEPT ![file[t]] = @ \cup {place[t] + 1}]
            /\ UNCHANGED <<stage, partial>>
    /\ UNCHANGED <<image, file, length, held, spoiled>>

(* store, a body or a write that fails.                                    *)
BodyFails(t) ==
    /\ stage[t] = "writing"
    /\ Ends(t) /\ Removed(t)
    /\ UNCHANGED <<image, file, length, place, contents, held, spoiled>>

(* store, the end of the body: the temporary name, whichever file it now   *)
(* names, becomes the final one.                                           *)
KeepsUnfinished(t) ==  \* mutant: the file has its final name while it is written
    /\ stage[t] = "writing" /\ place[t] >= 1
    /\ Ends(t)
    /\ IF partial[Partial[image[t]]] = Nil THEN UNCHANGED <<held, partial>>
       ELSE held' = [held EXCEPT ![image[t]] = partial[Partial[image[t]]]] /\ Removed(t)
    /\ UNCHANGED <<image, file, length, place, contents, spoiled>>
Keeps(t) ==
    /\ stage[t] = "writing" /\ place[t] = length[t]
    /\ Ends(t)
    /\ IF partial[Partial[image[t]]] = Nil THEN UNCHANGED <<held, partial>>
       ELSE held' = [held EXCEPT ![image[t]] = partial[Partial[image[t]]]] /\ Removed(t)
    /\ UNCHANGED <<image, file, length, place, contents, spoiled>>

(* The same, where the file cannot be synced or renamed: it is left.       *)
SyncFails(t) ==
    /\ stage[t] = "writing" /\ place[t] = length[t]
    /\ Ends(t)
    /\ spoiled' = spoiled \cup {Partial[image[t]]}
    /\ UNCHANGED <<image, file, length, place, contents, partial, held>>

(* The program is killed and started again.                                *)
Crash ==
    /\ \E t \in Transfers : Underway(t)
    /\ stage' = [t \in Transfers |-> IF Underway(t) THEN "over" ELSE stage[t]]
    /\ spoiled' = spoiled \cup {p \in Part : partial[p] # Nil}
    /\ UNCHANGED <<image, file, length, place, contents, partial, held>>

FirmwareNext ==
    \/ \E t \in Transfers :
        \/ \E i \in Images : Offer(t, i)
        \/ ChecksHeld(t) \/ Refused(t) \/ Answered(t)
        \/ Piece(t) \/ BodyFails(t) \/ Keeps(t) \/ SyncFails(t)
    \/ Crash

FirmwareSpec == FirmwareInit /\ [][FirmwareNext]_firmwareVars

-----------------------------------------------------------------------------
FirmwareTypeOK ==
    /\ stage \in [Transfers -> {"unused", "offered", "asking", "writing", "over"}]
    /\ image \in [Transfers -> Images \cup {Nil}]
    /\ file \in [Transfers -> Transfers \cup {Nil}]
    /\ length \in [Transfers -> Nat] /\ place \in [Transfers -> 0..MaxPieces]
    /\ contents \in [Transfers -> SUBSET (1..MaxPieces)]
    /\ partial \in [Part -> Transfers \cup {Nil}]
    /\ held \in [Images -> Transfers \cup {Nil}]
    /\ spoiled \subseteq Part

(* "A partial file never gets the final name" (firmware.rs:40): what is    *)
(* held under an image's name is all of it.                                *)
HeldIsWhole == \A i \in Images : held[i] # Nil => contents[held[i]] = 1..Pieces

(* "A failed transfer removes it" (firmware.rs:41): with nothing under way *)
(* a temporary file is there only where a crash or the disk left it, and   *)
(* then only until the image is fetched again.                             *)
NothingLeftOver ==
    \A p \in Part :
        partial[p] # Nil =>
            \/ p \in spoiled
            \/ \E t \in Transfers : Underway(t) /\ Partial[image[t]] = p

(* The store keeps both promises.                                          *)
StoreIsSound == HeldIsWhole /\ NothingLeftOver
=============================================================================
