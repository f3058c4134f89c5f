---------------------------- MODULE PacketStream ----------------------------
(***************************************************************************)
(* The framed stream of src/src/mqtt.rs (PacketStream), which every        *)
(* connection of the program is read through: octets come in pieces of any *)
(* size, and the read is a branch of a select! that may lose and is then   *)
(* cancelled.                                                              *)
(***************************************************************************)
EXTENDS Mqtt

CONSTANTS
    Sent,    \* the sequences of packets a peer may send
    Facings, \* "device" where the session reads it, "any" elsewhere
    Chunk,   \* the most octets one read returns
    Limit    \* the most octets buffered for one packet

VARIABLES
    sent,     \* the packets of the peer
    facing,   \* which of next_packet and next_packet_from_device is called
    arriving, \* their octets that have not been read
    buf,      \* PacketStream.buf
    reading,  \* a call is under way
    read,     \* the packets returned
    ended     \* what the last call returned, if not a packet

vars == <<sent, facing, arriving, buf, reading, read, ended>>

Init ==
    /\ sent \in Sent /\ facing \in Facings
    /\ arriving = FlattenSeq([i \in 1..Len(sent) |-> Encode(sent[i])])
    /\ buf = <<>> /\ reading = FALSE /\ read = <<>> /\ ended = "open"

AtFront == IF facing = "device" THEN DecodeFromDevice(buf) ELSE Decode(buf)

Call ==
    /\ ended = "open" /\ ~ reading
    /\ reading' = TRUE
    /\ UNCHANGED <<sent, facing, arriving, buf, read, ended>>

(* The rounds of next_packet.                                              *)
Returns ==
    /\ reading /\ AtFront.why = "none"
    /\ read' = Append(read, AtFront.value)
    /\ buf' = SubSeq(buf, AtFront.next, Len(buf))
    /\ reading' = FALSE
    /\ UNCHANGED <<sent, facing, arriving, ended>>

Refuses ==
    /\ reading /\ AtFront.why \notin {"none", "more"}
    /\ ended' = AtFront.why /\ reading' = FALSE
    /\ UNCHANGED <<sent, facing, arriving, buf, read>>

TooLarge == AtFront.why = "more" /\ Len(buf) > Limit

GivesUp ==
    /\ reading /\ TooLarge
    /\ ended' = "too large" /\ reading' = FALSE
    /\ UNCHANGED <<sent, facing, arriving, buf, read>>

Reads ==
    /\ reading /\ AtFront.why = "more" /\ ~ TooLarge
    /\ arriving # <<>>
    /\ \E n \in 1..Min({Chunk, Len(arriving)}) :
         /\ buf' = buf \o SubSeq(arriving, 1, n)
         /\ arriving' = SubSeq(arriving, n + 1, Len(arriving))
    /\ UNCHANGED <<sent, facing, reading, read, ended>>

(* The peer closes, here after all it had to say.                          *)
Closes ==
    /\ reading /\ AtFront.why = "more" /\ ~ TooLarge
    /\ arriving = <<>>
    /\ ended' = "closed" /\ reading' = FALSE
    /\ UNCHANGED <<sent, facing, arriving, buf, read>>

(* The branch loses at its await: what was read stays in the buffer.       *)
CancelledForgets ==  \* mutant: the buffer belongs to the call
    /\ reading /\ AtFront.why = "more" /\ ~ TooLarge
    /\ reading' = FALSE /\ buf' = <<>>
    /\ UNCHANGED <<sent, facing, arriving, read, ended>>
Cancelled ==
    /\ reading /\ AtFront.why = "more" /\ ~ TooLarge
    /\ reading' = FALSE
    /\ UNCHANGED <<sent, facing, arriving, buf, read, ended>>

Next == Call \/ Returns \/ Refuses \/ GivesUp \/ Reads \/ Closes \/ Cancelled

Spec == Init /\ [][Next]_vars

-----------------------------------------------------------------------------
TypeOK ==
    /\ arriving \in Seq(Octet) /\ buf \in Seq(Octet)
    /\ reading \in BOOLEAN
    /\ ended \in {"open", "closed", "too large", "truncated", "not utf-8",
                  "unsupported qos", "unsupported type", "malformed"}

(* What next_packet returns is what the peer sent, packet by packet,       *)
(* however its octets were divided and however often the call was          *)
(* cancelled; and all of it, if the peer then closed.  A stream is given   *)
(* up as too large only for a packet larger than the limit, not for        *)
(* several that came together (StreamError::TooLarge), and otherwise only  *)
(* for a packet a device does not send: well-formed packets are never      *)
(* refused, whole or in part.                                              *)
FramesIntact ==
    LET next == sent[Len(read) + 1] IN
    /\ IsPrefix(read, sent)
    /\ ended = "closed" => read = sent
    /\ ended = "too large" => Len(Encode(next)) > Limit
    /\ ended \notin {"open", "closed", "too large"} =>
         facing = "device" /\ next.kind \in ServerKinds
=============================================================================
