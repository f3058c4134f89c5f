-------------------------------- MODULE MCWire --------------------------------
(* Small instances for TLC of what is on the wire and what is kept of it   *)
(* in files, in five parts that share no state: Exchange, the rows of      *)
(* RegisterMap, Recorder, Firmware and, in the variables x1 to x7,         *)
(* PacketStream.  A behaviour is of one part; the variables of the others  *)
(* stay as they were.                                                      *)
EXTENDS Exchange, RegisterMap, Recorder, Firmware, TLC

CONSTANTS i1, i2

(* Exchange                                                                *)

Id == <<48, 65>>

Ask(via, asked) == [via |-> via, asked |-> asked]
SetTo(register, value) == [kind |-> "set", register |-> register, value |-> value]

(* Values within, at and past what each setting accepts; what is no        *)
(* setting; what a register cannot hold; fields that exist and do not.     *)
Asking ==
    {Ask(via, SetTo(r[1], r[2])) : via \in {"http", "mqtt"},
        r \in {<<250, 70>>, <<250, 101>>, <<322, 1000>>, <<325, 0>>, <<325, 1>>,
               <<254, 1539>>, <<258, 1>>, <<342, 127>>, <<343, 1>>, <<321, 5>>}}
    \cup {Ask("http", [kind |-> "read", register |-> r]) : r \in {322, 321, 5}}
    \cup {Ask("http", [kind |-> "meter", watts |-> w, valid |-> v]) :
              w \in {-400, 250, 70000}, v \in BOOLEAN}
    \cup {Ask("http", [kind |-> "pair-lora"])}
    \cup {Ask("http", [kind |-> "read-config", registers |-> r]) : r \in {<<31>>, <<31, 80>>, <<80, 146>>}}
    \cup {Ask("http", [kind |-> "write-config", register |-> r, text |-> t]) :
              r \in {31, 32, 19, 76}, t \in {<<>>, <<49>>}}

Holding ==
    [r \in {250, 254, 258, 309, 310, 311, 312, 320, 321, 322, 325, 342} |->
        CASE r = 322 -> 900 [] r = 325 -> 1 [] r = 250 -> 80 [] r = 321 -> 7 [] OTHER -> 0]

(* Of the fields, 80 is told only when it is asked for.                    *)
Text == [r \in {21, 31, 80} |-> IF r = 21 THEN <<52, 46, 48>> ELSE <<45, 54>>]

-----------------------------------------------------------------------------
(* PacketStream: every kind of packet, alone or with a PINGREQ after it,   *)
(* and several within and past the buffer's limit.                         *)

Absent == <<>>
Will == [topic |-> <<1>>, payload |-> <<2, 255>>, qos |-> 1, retain |-> TRUE]
Connects ==
    [kind : {"CONNECT"}, protocol_level : {4}, client_id : {<<7, 7>>}, username : {Absent, <<<<1>>>>},
     password : {Absent, <<<<255>>>>}, keepalive : {300}, clean_session : BOOLEAN,
     will : {Absent, <<Will>>, <<[Will EXCEPT !.qos = 0, !.retain = FALSE]>>}]
Publishes ==
    {p \in [kind : {"PUBLISH"}, topic : {<<>>, <<9>>}, qos : {0, 1}, retain : BOOLEAN,
            dup : BOOLEAN, packet_id : {0, 1, 65535}, payload : {<<>>, <<48, 1>>}] :
        (p.qos = 0) = (p.packet_id = 0)}
Others ==
    [kind : {"CONNACK"}, session_present : BOOLEAN, code : {0, 5}]
        \cup [kind : {"PUBACK"}, packet_id : {1, 256}]
        \cup [kind : {"SUBSCRIBE"}, packet_id : {1},
              filters : {<<>>, <<[filter |-> <<5>>, qos |-> 1], [filter |-> <<>>, qos |-> 0]>>}]
        \cup [kind : {"SUBACK"}, packet_id : {2}, granted : {<<>>, <<1, 128>>}]
        \cup [kind : {"PINGREQ", "PINGRESP", "DISCONNECT"}]
Reading(n) ==
    [kind |-> "PUBLISH", topic |-> <<9>>, qos |-> 1, retain |-> FALSE, dup |-> FALSE,
     packet_id |-> 1, payload |-> [i \in 1..n |-> i % 256]]

Singles == {<<p>> : p \in Connects \cup Publishes \cup Others}
Ping == [kind |-> "PINGREQ"]
Runs ==
    Singles \cup {<<p, Ping>> : p \in Others}
        \cup {<<Ping, Reading(122), Ping>>, <<Reading(123), Reading(30)>>, <<Reading(260)>>}

-----------------------------------------------------------------------------
(* Firmware: two images kept apart by their temporary names, and neither   *)
(* offered to two sessions at once (README, seen while modelling).         *)
PartName == (i1 :> "one.part") @@ (i2 :> "two.part")

-----------------------------------------------------------------------------
VARIABLES part, x1, x2, x3, x4, x5, x6, x7

Stream ==
    INSTANCE PacketStream WITH
        Sent <- Runs, Facings <- {"device", "any"}, Chunk <- 60, Limit <- 150,
        sent <- x1, facing <- x2, arriving <- x3, buf <- x4, reading <- x5, read <- x6,
        ended <- x7

xs == <<x1, x2, x3, x4, x5, x6, x7>>

PartsInit ==
    /\ part \in {"exchange", "rows", "recorder", "firmware", "stream"}
    /\ Init /\ FirstRow /\ RecorderInit /\ FirmwareInit
    /\ IF part = "stream" THEN Stream!Init
       ELSE x1 = 0 /\ x2 = 0 /\ x3 = 0 /\ x4 = 0 /\ x5 = 0 /\ x6 = 0 /\ x7 = 0

fileVars == <<recorderVars, firmwareVars>>

PartsNext ==
    \/ part = "exchange" /\ Next /\ UNCHANGED <<part, row, fileVars, xs>>
    \/ part = "rows" /\ NextRow /\ UNCHANGED <<part, vars, fileVars, xs>>
    \/ part = "recorder" /\ RecorderNext /\ UNCHANGED <<part, vars, row, firmwareVars, xs>>
    \/ part = "firmware" /\ FirmwareNext /\ UNCHANGED <<part, vars, row, recorderVars, xs>>
    \/ part = "stream" /\ Stream!Next /\ UNCHANGED <<part, vars, row, fileVars>>

PartsSpec == PartsInit /\ [][PartsNext]_<<part, vars, row, fileVars, xs>>

-----------------------------------------------------------------------------
(* Every variable of the part has its type, and the codec answers nothing  *)
(* else.                                                                   *)
PartsTypeOK ==
    /\ part = "exchange" => TypeOK
    /\ part = "recorder" => RecorderTypeOK
    /\ part = "firmware" => FirmwareTypeOK
    /\ part = "stream" => Stream!TypeOK

(* PacketStream's FramesIntact: what is returned is what the peer sent,    *)
(* however its octets were divided and however often the call was          *)
(* cancelled, and nothing well-formed is refused                           *)
(* (PacketStream::next_packet, Packet::decode).                            *)
FramesIntact == part = "stream" => Stream!FramesIntact
=============================================================================
