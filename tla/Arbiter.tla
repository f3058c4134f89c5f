------------------------------ MODULE Arbiter ------------------------------
(***************************************************************************)
(* What passes between the cloud and the device while a session relays     *)
(* (src/src/driver/arbiter.rs, and the two forwarding handlers of          *)
(* src/src/server/session.rs): the policy in each direction, and the cloud *)
(* commands remembered so that their answers can be told from those to     *)
(* this program's own.                                                     *)
(*                                                                         *)
(* The device says what it answers, never whom.  Its answers come after    *)
(* any delay, or never, and a read may be answered before a write sent     *)
(* earlier.  Reports are left out: they pass in every configuration.       *)
(***************************************************************************)
EXTENDS Naturals, FiniteSets

CONSTANTS
    Registers,      \* the registers there are
    CloudSpans,     \* <<first, last>> of the commands the cloud gives
    LocalSpans,     \* and of those this program gives
    AccessoryList,  \* ACCESSORY_LIST
    Clock,          \* the configuration register that sets the device's time
    Policies,       \* the policies the relay may be run with
    TTL,            \* COMMAND_TTL
    MaxCommands,    \* bound: answerable commands of the cloud
    MaxLocal        \* bound: commands of this program

Policy == [mode : {"full", "controls", "observer"},
           answers : {"all", "cloud-only"},
           cloud_may_pair_accessories : BOOLEAN]

ASSUME ArbiterAssumption ==
    /\ Registers \subseteq Nat
    /\ CloudSpans \subseteq Registers \X Registers
    /\ LocalSpans \subseteq Registers \X Registers
    /\ AccessoryList \in Registers
    /\ Clock \in Registers \ {AccessoryList}
    /\ Policies \subseteq Policy
    /\ TTL \in Nat \ {0}
    /\ MaxCommands \in Nat
    /\ MaxLocal \in Nat

(* What a frame for the device is trying to do: Intent.                    *)
Intent ==
    [kind : {"write", "read"}, span : CloudSpans]
        \cup [kind : {"config"}, register : Registers]
        \cup [kind : {"unrecognised"}]

Age == 0..TTL

(* CloudCommands.outstanding, a queue: number is the place in the order of *)
(* arrival.                                                                *)
Command == [number : 1..MaxCommands, span : Registers \X Registers, age : Age]

VARIABLES
    policy,       \* Session.policy
    outstanding,  \* CloudCommands.outstanding
    underway,     \* commands the device has yet to answer
    asked,        \* history: answerable commands of the cloud handed to the device
    local,        \* commands this program sent
    carried,      \* history: answers forwarded to the cloud
    taken,        \* history: those forwarded that were not in-time answers to the cloud
    withheld,     \* history: in-time answers to the cloud that were withheld
    sinceAsked,   \* history: how long ago the cloud last gave an answerable command
    clockSetBy    \* history: who has set the device's clock

historyVars == <<asked, local, carried, taken, withheld, sinceAsked, clockSetBy>>
vars == <<policy, outstanding, underway, historyVars>>

Init ==
    /\ policy \in Policies
    /\ outstanding = {} /\ underway = {}
    /\ asked = 0 /\ local = 0 /\ carried = 0 /\ taken = 0 /\ withheld = 0
    /\ sinceAsked = TTL
    /\ clockSetBy = {}

-----------------------------------------------------------------------------
(* CloudCommands                                                           *)

Expire(commands) == {c \in commands : c.age < TTL}

Remember(commands, intent, number) ==
    IF intent.kind \in {"write", "read"}
    THEN Expire(commands) \cup {[number |-> number, span |-> intent.span, age |-> 0]}
    ELSE commands

Within(span, c) == c.span[1] <= span[1] /\ span[2] <= c.span[2]

(* The commands an answer for these registers may be claimed by; the first *)
(* of them is.                                                             *)
Claimants(commands, span) == {c \in Expire(commands) : Within(span, c)}
First(commands) == CHOOSE c \in commands : \A d \in commands : c.number <= d.number
Last(commands) == CHOOSE c \in commands : \A d \in commands : c.number >= d.number  \* for a mutant

Originator(commands, span) ==
    IF Claimants(commands, span) # {} THEN "cloud" ELSE "unknown"

ClaimKept(commands, span) == Expire(commands)  \* mutant
ClaimLast(commands, span) ==  \* mutant
    IF Claimants(commands, span) # {}
    THEN Expire(commands) \ {Last(Claimants(commands, span))}
    ELSE Expire(commands)
Claim(commands, span) ==
    IF Claimants(commands, span) # {}
    THEN Expire(commands) \ {First(Claimants(commands, span))}
    ELSE Expire(commands)

-----------------------------------------------------------------------------
(* Policy                                                                  *)

ToDevice(intent) ==
    \/ policy.mode = "full"
    \/ policy.mode = "controls" /\ intent.kind \in {"write", "read"}
    \/ /\ policy.mode = "controls" /\ policy.cloud_may_pair_accessories
       /\ intent.kind = "config" /\ intent.register = AccessoryList

ToCloud(originator) == policy.answers = "all" \/ originator = "cloud"

(* Config::should_push_time, with the relay on.                            *)
ShouldPushTime == policy.mode # "full"

-----------------------------------------------------------------------------
(* A message from the cloud: Session::forward_to_device.  A configuration  *)
(* write, or a frame nobody recognises, draws no answer.                   *)
ForwardToDevice(intent) ==
    LET answerable == intent.kind \in {"write", "read"} IN
    /\ ToDevice(intent)
    /\ answerable => asked < MaxCommands
    /\ outstanding' = Remember(outstanding, intent, asked + 1)
    /\ IF answerable
       THEN /\ asked' = asked + 1 /\ sinceAsked' = 0
            /\ underway' = underway \cup
                 {[by |-> "cloud", number |-> asked + 1, span |-> intent.span, age |-> 0]}
       ELSE UNCHANGED <<asked, sinceAsked, underway>>
    /\ clockSetBy' = IF intent.kind = "config" /\ intent.register = Clock
                     THEN clockSetBy \cup {"cloud"} ELSE clockSetBy
    /\ UNCHANGED <<policy, local, carried, taken, withheld>>

(* This program reads or writes the device itself: Session::transmit, and  *)
(* send_pending_read.  It is not remembered.                               *)
Transmit(span) ==
    /\ local < MaxLocal
    /\ local' = local + 1
    /\ underway' = underway \cup
         {[by |-> "local", number |-> local + 1, span |-> span, age |-> 0]}
    /\ UNCHANGED <<policy, outstanding, asked, carried, taken, withheld, sinceAsked, clockSetBy>>

(* The time push: Session::push_time.                                      *)
PushTime ==
    /\ ShouldPushTime
    /\ clockSetBy' = clockSetBy \cup {"local"}
    /\ UNCHANGED <<policy, outstanding, underway, asked, local, carried, taken, withheld, sinceAsked>>

(* The device answers: Session::forward_to_cloud.                          *)
ForwardToCloud(a) ==
    LET forwarded == ToCloud(Originator(outstanding, a.span))
        inTime == a.by = "cloud" /\ a.age < TTL IN
    /\ underway' = underway \ {a}
    /\ outstanding' = Claim(outstanding, a.span)
    /\ carried' = IF forwarded THEN carried + 1 ELSE carried
    /\ taken' = IF forwarded /\ ~ inTime THEN taken + 1 ELSE taken
    /\ withheld' = IF ~ forwarded /\ inTime THEN withheld + 1 ELSE withheld
    /\ UNCHANGED <<policy, asked, local, sinceAsked, clockSetBy>>

Older(c) == [c EXCEPT !.age = IF c.age < TTL THEN c.age + 1 ELSE TTL]

Tick ==
    /\ outstanding' = {Older(c) : c \in outstanding}
    /\ underway' = {Older(a) : a \in underway}
    /\ sinceAsked' = IF sinceAsked < TTL THEN sinceAsked + 1 ELSE TTL
    /\ UNCHANGED <<policy, asked, local, carried, taken, withheld, clockSetBy>>

Next ==
    \/ \E intent \in Intent : ForwardToDevice(intent)
    \/ \E span \in LocalSpans : Transmit(span)
    \/ PushTime
    \/ \E a \in underway : ForwardToCloud(a)
    \/ Tick

Spec == Init /\ [][Next]_vars

-----------------------------------------------------------------------------
TypeOK ==
    /\ policy \in Policies
    /\ outstanding \subseteq Command
    /\ underway \subseteq
         [by : {"cloud", "local"}, number : 1..(MaxCommands + MaxLocal),
          span : Registers \X Registers, age : Age]
    /\ asked \in 0..MaxCommands /\ local \in 0..MaxLocal
    /\ carried \in Nat /\ taken \in Nat /\ withheld \in Nat
    /\ sinceAsked \in Age
    /\ clockSetBy \subseteq {"cloud", "local"}

(* With CloudOnly the cloud gets no more answers than it gave commands,    *)
(* counting those it may still get: what it did not ask for reaches it     *)
(* only in the place of an answer it did ask for.                          *)
AnswersWereAsked ==
    policy.answers = "cloud-only" => carried + Cardinality(outstanding) <= asked

(* An in-time answer to the cloud is withheld only where another answer    *)
(* took its place.  This holds while no command of the cloud is for part   *)
(* of the registers of another.                                            *)
CloudNeverShort == withheld <= taken

(* Once COMMAND_TTL has passed since the cloud last asked, no answer is    *)
(* taken for the cloud's: no command waits for ever to absorb one.         *)
LateIsLocal ==
    [][policy.answers = "cloud-only" /\ carried' > carried => sinceAsked < TTL]_vars

(* Exactly one party owns the device's clock, whatever the policy lets     *)
(* through to the device.                                                  *)
ClockHasOneOwner == Cardinality(clockSetBy) <= 1
=============================================================================
