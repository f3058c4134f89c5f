--------------------------- MODULE PartsProofs ---------------------------
(* What TLAPS proves of the two parts that MCParts checks side by side:    *)
(* of the arbiter, for any registers, policies, COMMAND_TTL and number of  *)
(* commands; and of the handlers of Accessories, for any callers, requests,*)
(* accessories, targets, window, reports and faults.                       *)
EXTENDS Arbiter, Accessories, TLAPS, FiniteSetTheorems, WellFoundedInduction

(* Every answer carried under CloudOnly has used up a command.             *)
Counted == IsFiniteSet(outstanding) /\ AnswersWereAsked

(* Every command waiting is as old as the cloud's last, at least.          *)
Aged == \A c \in outstanding : sinceAsked <= c.age

(* The clock is set by the party the mode leaves it to, and by no other.   *)
ClockOwned ==
    clockSetBy \subseteq IF policy.mode = "full" THEN {"cloud"} ELSE {"local"}

(* The inductive invariant.                                                *)
IInv == TypeOK /\ Counted /\ Aged /\ ClockOwned

-----------------------------------------------------------------------------
(* A set of numbers has a least one.                                       *)
LEMMA Least ==
    ASSUME NEW S \in SUBSET Nat, S # {}
    PROVE  \E n \in S : \A k \in S : n <= k
<1>1. PICK n \in S : \A k \in S : ~ (<<k, n>> \in OpToRel(<, Nat))
  BY NatLessThanWellFounded, WFMin, Zenon
<1>2. ASSUME NEW k \in S PROVE ~ (k < n)
  <2>1. <<k, n>> \in Nat \X Nat /\ <<k, n>>[1] = k /\ <<k, n>>[2] = n
    OBVIOUS
  <2>2. k < n => <<k, n>> \in OpToRel(<, Nat)
    BY <2>1, Zenon DEF OpToRel
  <2> QED BY <2>2, <1>1
<1> QED
  BY <1>2

(* The first of the commands is one of them, and none is before it.        *)
LEMMA FirstFacts ==
    ASSUME NEW commands \in SUBSET Command, commands # {}
    PROVE  /\ First(commands) \in commands
           /\ \A d \in commands : First(commands).number <= d.number
<1> DEFINE Numbers == {c.number : c \in commands}
<1>1. Numbers \in SUBSET Nat /\ Numbers # {}
  BY ArbiterAssumption DEF Command
<1>2. PICK n \in Numbers : \A k \in Numbers : n <= k
  <2> HIDE DEF Numbers
  <2> QED BY <1>1, Least
<1>3. PICK c \in commands : \A d \in commands : c.number <= d.number
  BY <1>2
<1> QED
  BY <1>3, Zenon DEF First

(* What is claimed was waiting, and leaves one command fewer.              *)
LEMMA ClaimFacts ==
    ASSUME NEW commands \in SUBSET Command, IsFiniteSet(commands), NEW span
    PROVE  /\ Claim(commands, span) \subseteq commands
           /\ IsFiniteSet(Claim(commands, span))
           /\ Cardinality(Claim(commands, span)) \in Nat
           /\ IF Originator(commands, span) = "cloud"
              THEN Cardinality(Claim(commands, span)) + 1 <= Cardinality(commands)
              ELSE Cardinality(Claim(commands, span)) <= Cardinality(commands)
<1> DEFINE E == Expire(commands)
           C == Claimants(commands, span)
<1>1. /\ E \subseteq commands
      /\ C \subseteq E
  BY DEF Expire, Claimants
<1>2. IsFiniteSet(E) /\ Cardinality(E) \in Nat /\ Cardinality(E) <= Cardinality(commands)
  BY <1>1, FS_Subset, FS_CardinalityType
<1>3. Cardinality(commands) \in Nat
  BY FS_CardinalityType
<1>4. CASE C = {}
  <2>1. Claim(commands, span) = E /\ Originator(commands, span) = "unknown"
    BY <1>4 DEF Claim, Originator
  <2> HIDE DEF E
  <2> QED BY <2>1, <1>1, <1>2
<1>5. CASE C # {}
  <2>1. First(C) \in E
    BY <1>1, <1>5, FirstFacts
  <2>2. Claim(commands, span) = E \ {First(C)} /\ Originator(commands, span) = "cloud"
    BY <1>5 DEF Claim, Originator
  <2> HIDE DEF E, C
  <2>3. /\ IsFiniteSet(E \ {First(C)})
        /\ Cardinality(E \ {First(C)}) = Cardinality(E) - 1
    BY <2>1, <1>2, FS_RemoveElement
  <2>4. Cardinality(E \ {First(C)}) \in Nat
    BY <2>3, FS_CardinalityType
  <2> QED BY <2>2, <2>3, <2>4, <1>1, <1>2, <1>3
<1> QED
  BY <1>4, <1>5

(* Remembering makes room for one command more, at most.                   *)
LEMMA RememberFacts ==
    ASSUME NEW commands \in SUBSET Command, IsFiniteSet(commands),
           NEW intent \in Intent, NEW number \in 1..MaxCommands
    PROVE  /\ Remember(commands, intent, number) \in SUBSET Command
           /\ IsFiniteSet(Remember(commands, intent, number))
           /\ Cardinality(Remember(commands, intent, number)) \in Nat
           /\ Cardinality(Remember(commands, intent, number)) <= Cardinality(commands) + 1
           /\ intent.kind \in {"write", "read"} =>
                \A c \in Remember(commands, intent, number) :
                    c \in commands \/ c.age = 0
<1> DEFINE E == Expire(commands)
           new == [number |-> number, span |-> intent.span, age |-> 0]
<1>1. Cardinality(commands) \in Nat
  BY FS_CardinalityType
<1>2. CASE intent.kind \in {"write", "read"}
  <2>1. Remember(commands, intent, number) = E \cup {new}
    BY <1>2 DEF Remember
  <2>2. E \subseteq commands
    BY DEF Expire
  <2>3. intent.span \in Registers \X Registers
    BY <1>2, ArbiterAssumption DEF Intent
  <2>4. new \in Command
    BY <2>3, ArbiterAssumption DEF Command, Age
  <2>5. new.age = 0
    OBVIOUS
  <2> HIDE DEF E, new
  <2>6. IsFiniteSet(E) /\ Cardinality(E) \in Nat /\ Cardinality(E) <= Cardinality(commands)
    BY <2>2, FS_Subset, FS_CardinalityType
  <2>7. /\ IsFiniteSet(E \cup {new})
        /\ Cardinality(E \cup {new}) \in {Cardinality(E), Cardinality(E) + 1}
    BY <2>6, FS_AddElement
  <2> QED BY <2>1, <2>2, <2>4, <2>5, <2>6, <2>7, <1>1
<1>3. CASE intent.kind \notin {"write", "read"}
  <2>1. Remember(commands, intent, number) = commands
    BY <1>3 DEF Remember
  <2> QED BY <2>1, <1>1, <1>3
<1> QED
  BY <1>2, <1>3

(* Growing older makes no command two.                                     *)
LEMMA OlderFacts ==
    ASSUME NEW commands \in SUBSET Command, IsFiniteSet(commands)
    PROVE  /\ {Older(c) : c \in commands} \in SUBSET Command
           /\ IsFiniteSet({Older(c) : c \in commands})
           /\ Cardinality({Older(c) : c \in commands}) \in Nat
           /\ Cardinality({Older(c) : c \in commands}) <= Cardinality(commands)
<1> DEFINE T == {Older(c) : c \in commands}
           f == [c \in commands |-> Older(c)]
<1>1. f \in Surjection(commands, T)
  BY DEF Surjection
<1>2. T \in SUBSET Command
  BY ArbiterAssumption DEF Older, Command, Age
<1> HIDE DEF T, f
<1>3. IsFiniteSet(T) /\ Cardinality(T) <= Cardinality(commands)
  BY <1>1, FS_Surjection
<1>4. Cardinality(T) \in Nat
  BY <1>3, FS_CardinalityType
<1> QED
  BY <1>2, <1>3, <1>4 DEF T

-----------------------------------------------------------------------------
LEMMA InitEstablishes == Init => IInv
<1> SUFFICES ASSUME Init PROVE IInv
  OBVIOUS
<1> USE ArbiterAssumption DEF Init
<1>1. TypeOK
  BY DEF TypeOK, Age
<1>2. Counted
  BY FS_EmptySet DEF Counted, AnswersWereAsked
<1>3. Aged /\ ClockOwned
  BY DEF Aged, ClockOwned
<1> QED
  BY <1>1, <1>2, <1>3 DEF IInv

LEMMA ForwardToDevicePreserves ==
    ASSUME IInv, NEW intent \in Intent, ForwardToDevice(intent)
    PROVE  IInv'
<1> DEFINE new == [by |-> "cloud", number |-> asked + 1, span |-> intent.span, age |-> 0]
<1> USE ArbiterAssumption DEF IInv
<1>1. CASE intent.kind \in {"write", "read"}
  <2>1. /\ asked' = asked + 1 /\ sinceAsked' = 0
        /\ underway' = underway \cup {new}
        /\ asked + 1 \in 1..MaxCommands
        /\ clockSetBy' = clockSetBy
        /\ outstanding' = Remember(outstanding, intent, asked + 1)
    BY <1>1 DEF ForwardToDevice, TypeOK
  <2>2. outstanding \in SUBSET Command /\ IsFiniteSet(outstanding)
    BY DEF TypeOK, Counted
  <2>3. /\ outstanding' \in SUBSET Command
        /\ IsFiniteSet(outstanding')
        /\ Cardinality(outstanding') \in Nat
        /\ Cardinality(outstanding') <= Cardinality(outstanding) + 1
    BY <2>1, <2>2, RememberFacts
  <2>4. UNCHANGED <<policy, local, carried, taken, withheld>>
    BY DEF ForwardToDevice
  <2>5. intent.span \in Registers \X Registers
    BY <1>1 DEF Intent
  <2>6. TypeOK'
    <3>1. new \in [by : {"cloud", "local"}, number : 1..(MaxCommands + MaxLocal),
                   span : Registers \X Registers, age : Age]
      BY <2>1, <2>5 DEF Age
    <3> QED BY <2>1, <2>3, <2>4, <3>1 DEF TypeOK, Age
  <2>7. Counted'
    <3>1. Cardinality(outstanding) \in Nat
      BY <2>2, FS_CardinalityType
    <3> QED BY <2>1, <2>3, <2>4, <3>1 DEF Counted, AnswersWereAsked, TypeOK
  <2>8. Aged'
    BY <2>1, <2>3 DEF Aged, Command, Age
  <2>9. ClockOwned'
    BY <2>1, <2>4 DEF ClockOwned
  <2> QED BY <2>6, <2>7, <2>8, <2>9
<1>2. CASE intent.kind \notin {"write", "read"}
  <2>1. UNCHANGED <<policy, outstanding, underway, asked, local, carried, taken, withheld, sinceAsked>>
    BY <1>2 DEF ForwardToDevice, Remember
  <2>2. clockSetBy' \subseteq clockSetBy \cup {"cloud"}
    BY DEF ForwardToDevice
  <2>3. ClockOwned'
    <3>1. CASE policy.mode = "full"
      BY <3>1, <2>1, <2>2 DEF ClockOwned
    <3>2. CASE policy.mode # "full"
      <4>1. ~ (intent.kind = "config" /\ intent.register = Clock)
        BY <3>2, <1>2 DEF ForwardToDevice, ToDevice
      <4>2. clockSetBy' = clockSetBy
        BY <4>1 DEF ForwardToDevice
      <4> QED BY <4>2, <2>1 DEF ClockOwned
    <3> QED BY <3>1, <3>2
  <2>4. TypeOK'
    BY <2>1, <2>2 DEF TypeOK
  <2>5. Counted' /\ Aged'
    BY <2>1 DEF Counted, AnswersWereAsked, Aged
  <2> QED BY <2>3, <2>4, <2>5
<1> QED
  BY <1>1, <1>2

LEMMA TransmitPreserves ==
    ASSUME IInv, NEW span \in LocalSpans, Transmit(span)
    PROVE  IInv'
<1> USE ArbiterAssumption DEF IInv, Transmit
<1>1. TypeOK'
  <2>1. [by |-> "local", number |-> local + 1, span |-> span, age |-> 0]
          \in [by : {"cloud", "local"}, number : 1..(MaxCommands + MaxLocal),
               span : Registers \X Registers, age : Age]
    BY DEF TypeOK, Age
  <2> QED BY <2>1 DEF TypeOK
<1>2. Counted' /\ Aged' /\ ClockOwned'
  BY DEF Counted, AnswersWereAsked, Aged, ClockOwned
<1> QED
  BY <1>1, <1>2

LEMMA PushTimePreserves == ASSUME IInv, PushTime PROVE IInv'
<1> USE DEF IInv, PushTime
<1>1. TypeOK'
  BY DEF TypeOK
<1>2. Counted' /\ Aged'
  BY DEF Counted, AnswersWereAsked, Aged
<1>3. ClockOwned'
  BY DEF ClockOwned, ShouldPushTime
<1> QED
  BY <1>1, <1>2, <1>3

LEMMA ForwardToCloudPreserves ==
    ASSUME IInv, NEW a \in underway, ForwardToCloud(a)
    PROVE  IInv'
<1> USE DEF IInv
<1>1. outstanding \in SUBSET Command /\ IsFiniteSet(outstanding)
  BY DEF TypeOK, Counted
<1>2. /\ outstanding' = Claim(outstanding, a.span)
      /\ underway' \subseteq underway
      /\ carried' = IF ToCloud(Originator(outstanding, a.span)) THEN carried + 1 ELSE carried
      /\ taken' \in {taken, taken + 1} /\ withheld' \in {withheld, withheld + 1}
      /\ UNCHANGED <<policy, asked, local, sinceAsked, clockSetBy>>
  BY DEF ForwardToCloud
<1>3. /\ outstanding' \subseteq outstanding
      /\ IsFiniteSet(outstanding')
      /\ Cardinality(outstanding') \in Nat
      /\ Originator(outstanding, a.span) = "cloud" =>
           Cardinality(outstanding') + 1 <= Cardinality(outstanding)
      /\ Cardinality(outstanding') <= Cardinality(outstanding)
  <2>1. Cardinality(outstanding) \in Nat
    BY <1>1, FS_CardinalityType
  <2> QED BY <1>1, <1>2, <2>1, ClaimFacts
<1>4. TypeOK'
  BY <1>2, <1>3 DEF TypeOK
<1>5. Counted'
  <2>1. Cardinality(outstanding) \in Nat
    BY <1>1, FS_CardinalityType
  <2>2. policy.answers = "cloud-only" /\ carried' # carried =>
          Originator(outstanding, a.span) = "cloud" /\ carried' = carried + 1
    BY <1>2 DEF ToCloud
  <2> QED BY <1>2, <1>3, <2>1, <2>2 DEF Counted, AnswersWereAsked, TypeOK
<1>6. Aged' /\ ClockOwned'
  BY <1>2, <1>3 DEF Aged, ClockOwned
<1> QED
  BY <1>4, <1>5, <1>6

LEMMA TickPreserves == ASSUME IInv, Tick PROVE IInv'
<1> USE ArbiterAssumption DEF IInv
<1>1. outstanding \in SUBSET Command /\ IsFiniteSet(outstanding)
  BY DEF TypeOK, Counted
<1>2. /\ outstanding' = {Older(c) : c \in outstanding}
      /\ UNCHANGED <<policy, asked, local, carried, taken, withheld, clockSetBy>>
  BY DEF Tick
<1>3. /\ outstanding' \in SUBSET Command
      /\ IsFiniteSet(outstanding')
      /\ Cardinality(outstanding') \in Nat
      /\ Cardinality(outstanding') <= Cardinality(outstanding)
  BY <1>1, <1>2, OlderFacts
<1>4. TypeOK'
  <2>1. sinceAsked' \in Age
    BY DEF Tick, TypeOK, Age
  <2>2. underway' \subseteq
          [by : {"cloud", "local"}, number : 1..(MaxCommands + MaxLocal),
           span : Registers \X Registers, age : Age]
    BY DEF Tick, TypeOK, Older, Age
  <2> QED BY <1>2, <1>3, <2>1, <2>2 DEF TypeOK
<1>5. Counted'
  <2>1. Cardinality(outstanding) \in Nat
    BY <1>1, FS_CardinalityType
  <2> QED BY <1>2, <1>3, <2>1 DEF Counted, AnswersWereAsked, TypeOK
<1>6. Aged'
  <2> SUFFICES ASSUME NEW c \in outstanding PROVE sinceAsked' <= Older(c).age
    BY <1>2 DEF Aged
  <2>1. sinceAsked <= c.age /\ sinceAsked \in 0..TTL /\ c.age \in 0..TTL
    BY <1>1 DEF Aged, TypeOK, Age, Command
  <2>2. c = [number |-> c.number, span |-> c.span, age |-> c.age]
    BY <1>1 DEF Command
  <2>3. Older(c).age = IF c.age < TTL THEN c.age + 1 ELSE TTL
    BY <2>2 DEF Older
  <2>4. sinceAsked' = IF sinceAsked < TTL THEN sinceAsked + 1 ELSE TTL
    BY DEF Tick
  <2> QED BY <2>1, <2>3, <2>4
<1>7. ClockOwned'
  BY <1>2 DEF ClockOwned
<1> QED
  BY <1>4, <1>5, <1>6, <1>7

LEMMA StutterPreserves == ASSUME IInv, UNCHANGED vars PROVE IInv'
BY DEF IInv, vars, historyVars, TypeOK, Counted, AnswersWereAsked, Aged, ClockOwned

(* The inductive invariant is one of the specification.                    *)
THEOREM ArbiterInvariant == Spec => []IInv
<1>1. Init => IInv
  BY InitEstablishes
<1>2. IInv /\ [Next]_vars => IInv'
  <2> SUFFICES ASSUME IInv, [Next]_vars PROVE IInv'
    OBVIOUS
  <2>1. CASE \E intent \in Intent : ForwardToDevice(intent)
    BY <2>1, ForwardToDevicePreserves
  <2>2. CASE \E span \in LocalSpans : Transmit(span)
    BY <2>2, TransmitPreserves
  <2>3. CASE PushTime
    BY <2>3, PushTimePreserves
  <2>4. CASE \E a \in underway : ForwardToCloud(a)
    BY <2>4, ForwardToCloudPreserves
  <2>5. CASE Tick
    BY <2>5, TickPreserves
  <2>6. CASE UNCHANGED vars
    BY <2>6, StutterPreserves
  <2> QED BY <2>1, <2>2, <2>3, <2>4, <2>5, <2>6 DEF Next
<1> QED
  BY <1>1, <1>2, PTL DEF Spec

(* The state of the arbiter has its type.                                  *)
THEOREM TypeCorrect == Spec => []TypeOK
<1>1. IInv => TypeOK
  BY DEF IInv
<1> QED
  BY <1>1, ArbiterInvariant, PTL

(* Under CloudOnly the cloud is never sent more answers than it asked for. *)
THEOREM AnswersAlwaysAsked == Spec => []AnswersWereAsked
<1>1. IInv => AnswersWereAsked
  BY DEF IInv, Counted
<1> QED
  BY <1>1, ArbiterInvariant, PTL

(* Whatever the mode, and whether the accessory list is opened to the      *)
(* cloud or not, one party at most sets the device's clock.                *)
THEOREM ClockAlwaysOwned == Spec => []ClockHasOneOwner
<1>1. IInv => ClockHasOneOwner
  <2> SUFFICES ASSUME IInv PROVE Cardinality(clockSetBy) <= 1
    BY DEF ClockHasOneOwner
  <2>1. clockSetBy \subseteq {"cloud"} \/ clockSetBy \subseteq {"local"}
    BY DEF IInv, ClockOwned
  <2>2. clockSetBy = {} \/ clockSetBy = {"cloud"} \/ clockSetBy = {"local"}
    BY <2>1
  <2>3. Cardinality(clockSetBy) = 0 \/ Cardinality(clockSetBy) = 1
    <3>1. clockSetBy = {} => Cardinality(clockSetBy) = 0
      BY FS_EmptySet
    <3>2. \A x : Cardinality({x}) = 1
      BY FS_Singleton
    <3> QED BY <2>2, <3>1, <3>2, Zenon
  <2> QED BY <2>3
<1> QED
  BY <1>1, ArbiterInvariant, PTL

(* No answer is taken for the cloud's once COMMAND_TTL has passed since    *)
(* its last command.                                                       *)
THEOREM LateAlwaysLocal == Spec => LateIsLocal
<1>1. IInv /\ [Next]_vars =>
        [policy.answers = "cloud-only" /\ carried' > carried => sinceAsked < TTL]_vars
  <2> SUFFICES ASSUME IInv, Next, policy.answers = "cloud-only", carried' > carried
               PROVE  sinceAsked < TTL
    OBVIOUS
  <2>1. carried \in Nat
    BY DEF IInv, TypeOK
  <2>2. PICK a \in underway : ForwardToCloud(a)
    BY <2>1 DEF Next, ForwardToDevice, Transmit, PushTime, Tick
  <2>3. Originator(outstanding, a.span) = "cloud"
    BY <2>1, <2>2 DEF ForwardToCloud, ToCloud
  <2>4. PICK c \in outstanding : c.age < TTL
    BY <2>3 DEF Originator, Claimants, Expire
  <2> QED BY <2>4, ArbiterAssumption DEF IInv, Aged, TypeOK, Age, Command
<1> QED
  BY <1>1, ArbiterInvariant, PTL DEF Spec, LateIsLocal

-----------------------------------------------------------------------------
(* That the cloud gets what it asked for.  Between the commands waiting    *)
(* and the answers that may still come in time there is a matching, that   *)
(* gives each of these a command of its own, for the same registers and    *)
(* given no earlier.  What it leaves out are debts: commands that other    *)
(* answers took.                                                           *)

(* No command of the cloud is for part of the registers of another.        *)
NeverInPart ==
    \A s, t \in CloudSpans : t[1] <= s[1] /\ s[2] <= t[2] => s = t

Numbers == 1..MaxCommands
FromCloud == {a \in underway : a.by = "cloud"}
InTime == {a \in FromCloud : a.age < TTL}

(* What the cloud gave is numbered, and no number stands for two commands. *)
Given(commands) ==
    /\ \A c \in commands : c.number \in 1..asked /\ c.span \in CloudSpans
    /\ \A c, d \in commands : c.number = d.number => c = d

(* Who comes later in the queue is no older.                               *)
LaterIsYounger ==
    \A a \in FromCloud, c \in outstanding : a.number <= c.number => c.age <= a.age

Matches(f, a, c) == c.number = f[a.number] /\ c.span = a.span /\ a.number <= c.number

(* f is a matching of the answers, but for those in debt.                  *)
Matching(f, debts) ==
    /\ \A a \in InTime : a.number \notin debts => \E c \in outstanding : Matches(f, a, c)
    /\ \A a, b \in InTime :
         a.number \notin debts /\ b.number \notin debts /\ f[a.number] = f[b.number] => a = b

Owed ==
    \E f \in [Numbers -> Numbers], debts \in SUBSET Numbers :
        /\ Matching(f, debts)
        /\ Cardinality(debts) + withheld <= taken

OwedInv == Given(outstanding) /\ Given(FromCloud) /\ LaterIsYounger /\ Owed

LEMMA OwedInit == Init => OwedInv
<1> SUFFICES ASSUME Init PROVE OwedInv
  OBVIOUS
<1>1. outstanding = {} /\ underway = {} /\ withheld = 0 /\ taken = 0
  BY DEF Init
<1>2. Given(outstanding) /\ Given(FromCloud) /\ LaterIsYounger
  BY <1>1 DEF Given, FromCloud, LaterIsYounger
<1>3. [n \in Numbers |-> n] \in [Numbers -> Numbers] /\ {} \in SUBSET Numbers
  OBVIOUS
<1>4. Matching([n \in Numbers |-> n], {})
  BY <1>1 DEF Matching, InTime, FromCloud
<1>5. Cardinality({}) + withheld <= taken
  BY <1>1, FS_EmptySet
<1> QED
  BY <1>2, <1>3, <1>4, <1>5 DEF OwedInv, Owed

(* A new command is matched with itself.                                   *)
LEMMA OwedForwardToDevice ==
    ASSUME IInv, OwedInv, NEW intent \in Intent, ForwardToDevice(intent)
    PROVE  OwedInv'
<1> DEFINE w == [by |-> "cloud", number |-> asked + 1, span |-> intent.span, age |-> 0]
           n == [number |-> asked + 1, span |-> intent.span, age |-> 0]
<1> USE ArbiterAssumption
<1>0. UNCHANGED <<taken, withheld>> /\ asked \in 0..MaxCommands
  BY DEF ForwardToDevice, IInv, TypeOK
<1>1. CASE intent.kind \in {"write", "read"}
  <2>1. /\ asked' = asked + 1
        /\ asked + 1 \in Numbers
        /\ underway' = underway \cup {w}
        /\ outstanding' = Expire(outstanding) \cup {n}
    BY <1>0, <1>1 DEF ForwardToDevice, Remember, Numbers
  <2>2. intent.span \in CloudSpans
    BY <1>1 DEF Intent
  <2>3. w.by = "cloud" /\ w.number = asked + 1 /\ w.span = intent.span /\ w.age = 0
    OBVIOUS
  <2>4. n.number = asked + 1 /\ n.span = intent.span /\ n.age = 0
    OBVIOUS
  <2>5. Given(outstanding) /\ Given(FromCloud) /\ LaterIsYounger
    BY DEF OwedInv
  <2>6. \A c \in outstanding' : c = n \/ c \in outstanding
    BY <2>1 DEF Expire
  <2>7. FromCloud' = FromCloud \cup {w}
    BY <2>1, <2>3 DEF FromCloud
  <2>8. /\ \A a \in InTime' : a = w \/ a \in InTime
        /\ \A c \in outstanding : c.age < TTL => c \in outstanding'
        /\ n \in outstanding'
    BY <2>1, <2>7 DEF InTime, Expire
  <2>9. /\ \A c \in outstanding : c.number \in 1..asked /\ c.age \in 0..TTL
        /\ \A a \in FromCloud : a.number \in 1..asked /\ a.age \in 0..TTL
    BY <2>5 DEF Given, IInv, TypeOK, Command, Age, FromCloud
  <2> HIDE DEF w, n
  <2>10. Given(outstanding)'
    BY <2>1, <2>2, <2>4, <2>5, <2>6, <1>0 DEF Given
  <2>11. Given(FromCloud)'
    BY <2>1, <2>2, <2>3, <2>5, <2>7, <1>0 DEF Given
  <2>12. LaterIsYounger'
    BY <2>3, <2>4, <2>5, <2>6, <2>7, <2>9, <1>0 DEF LaterIsYounger
  <2>13. Owed'
    <3>1. PICK f \in [Numbers -> Numbers], debts \in SUBSET Numbers :
            Matching(f, debts) /\ Cardinality(debts) + withheld <= taken
      BY DEF OwedInv, Owed
    <3>2. PICK g \in [Numbers -> Numbers] :
            g[asked + 1] = asked + 1 /\ \A i \in 1..asked : g[i] = f[i]
      <4> DEFINE g == [f EXCEPT ![asked + 1] = asked + 1]
      <4>1. g \in [Numbers -> Numbers] /\ g[asked + 1] = asked + 1
        BY <2>1
      <4>2. \A i \in 1..asked : i \in Numbers /\ i # asked + 1
        BY <1>0 DEF Numbers
      <4>3. \A i \in 1..asked : g[i] = f[i]
        BY <4>2
      <4> QED BY <4>1, <4>3
    <3>3. \A a \in InTime : a.number \in 1..asked /\ a.age < TTL /\ a \in FromCloud
      BY <2>9 DEF InTime
    <3>4. ASSUME NEW a \in InTime', a.number \notin debts
          PROVE  \E c \in outstanding' : Matches(g, a, c)
      <4>1. CASE a = w
        BY <4>1, <2>3, <2>4, <2>8, <3>2, <1>0 DEF Matches
      <4>2. CASE a \in InTime
        <5>1. PICK c \in outstanding : Matches(f, a, c)
          BY <3>1, <3>4, <4>2 DEF Matching
        <5>2. c.age <= a.age
          BY <5>1, <3>3, <4>2, <2>5 DEF LaterIsYounger, Matches
        <5>3. c.age < TTL
          BY <5>2, <3>3, <4>2, <2>9
        <5>4. Matches(g, a, c)
          BY <5>1, <3>2, <3>3, <4>2 DEF Matches
        <5> QED BY <5>3, <5>4, <2>8
      <4> QED BY <4>1, <4>2, <2>8
    <3>5. ASSUME NEW a \in InTime', NEW b \in InTime',
                 a.number \notin debts, b.number \notin debts, g[a.number] = g[b.number]
          PROVE  a = b
      <4>1. ASSUME NEW d \in InTime, d.number \notin debts PROVE g[d.number] \in 1..asked
        <5>1. PICK c \in outstanding : Matches(f, d, c)
          BY <3>1, <4>1 DEF Matching
        <5> QED BY <5>1, <3>2, <3>3, <2>9 DEF Matches
      <4>2. CASE a = w /\ b = w
        BY <4>2
      <4>3. CASE a = w /\ b \in InTime
        BY <4>1, <4>3, <3>2, <3>5, <2>3, <1>0
      <4>4. CASE b = w /\ a \in InTime
        BY <4>1, <4>4, <3>2, <3>5, <2>3, <1>0
      <4>5. CASE a \in InTime /\ b \in InTime
        BY <4>5, <3>1, <3>2, <3>3, <3>5 DEF Matching
      <4> QED BY <4>2, <4>3, <4>4, <4>5, <2>8
    <3>6. Matching(g, debts)'
      BY <3>4, <3>5 DEF Matching, Matches
    <3> QED BY <3>1, <3>2, <3>6, <1>0 DEF Owed
  <2> QED BY <2>10, <2>11, <2>12, <2>13 DEF OwedInv
<1>2. CASE intent.kind \notin {"write", "read"}
  <2>1. UNCHANGED <<outstanding, underway, asked, taken, withheld>>
    BY <1>2 DEF ForwardToDevice, Remember
  <2> QED BY <2>1 DEF OwedInv, Given, FromCloud, InTime, LaterIsYounger, Owed, Matching, Matches
<1> QED
  BY <1>1, <1>2

LEMMA OwedTransmit ==
    ASSUME OwedInv, NEW span \in LocalSpans, Transmit(span)
    PROVE  OwedInv'
<1>1. UNCHANGED <<outstanding, asked, taken, withheld>> /\ FromCloud' = FromCloud
  BY DEF Transmit, FromCloud
<1>2. InTime' = InTime
  BY <1>1 DEF InTime
<1> QED
  BY <1>1, <1>2 DEF OwedInv, Given, LaterIsYounger, Owed, Matching, Matches

(* Who claims takes one command, and none is before it.                    *)
LEMMA ClaimedIsFirst ==
    ASSUME NEW commands \in SUBSET Command, NEW span
    PROVE  \/ /\ Claimants(commands, span) = {}
              /\ Claim(commands, span) = Expire(commands)
              /\ Originator(commands, span) = "unknown"
           \/ /\ Originator(commands, span) = "cloud"
              /\ \E c \in Claimants(commands, span) :
                   /\ Claim(commands, span) = Expire(commands) \ {c}
                   /\ \A d \in Claimants(commands, span) : c.number <= d.number
<1>1. CASE Claimants(commands, span) = {}
  BY <1>1 DEF Claim, Originator
<1>2. CASE Claimants(commands, span) # {}
  <2>1. Claimants(commands, span) \in SUBSET Command
    BY DEF Claimants, Expire
  <2> QED BY <2>1, <1>2, FirstFacts DEF Claim, Originator
<1> QED
  BY <1>1, <1>2

(* A debt more, a debt less, or one for another.                           *)
LEMMA DebtFacts ==
    ASSUME NEW debts \in SUBSET Numbers, NEW n, NEW m
    PROVE  /\ Cardinality(debts) \in Nat
           /\ Cardinality(debts \cup {n}) \in Nat
           /\ Cardinality(debts \cup {n}) <= Cardinality(debts) + 1
           /\ m \in debts => Cardinality(debts \ {m}) = Cardinality(debts) - 1
           /\ m \in debts =>
                /\ Cardinality((debts \ {m}) \cup {n}) \in Nat
                /\ Cardinality((debts \ {m}) \cup {n}) <= Cardinality(debts)
<1>1. IsFiniteSet(debts)
  <2>1. IsFiniteSet(Numbers)
    BY FS_Interval, ArbiterAssumption DEF Numbers
  <2> QED BY <2>1, FS_Subset
<1>2. Cardinality(debts) \in Nat
  BY <1>1, FS_CardinalityType
<1>3. /\ IsFiniteSet(debts \ {m})
      /\ Cardinality(debts \ {m}) =
           IF m \in debts THEN Cardinality(debts) - 1 ELSE Cardinality(debts)
  BY <1>1, FS_RemoveElement
<1>4. ASSUME NEW S, IsFiniteSet(S)
      PROVE  Cardinality(S) \in Nat /\ Cardinality(S \cup {n}) \in {Cardinality(S), Cardinality(S) + 1}
  BY <1>4, FS_AddElement, FS_CardinalityType
<1>5. Cardinality(debts \cup {n}) \in {Cardinality(debts), Cardinality(debts) + 1}
  BY <1>1, <1>4
<1>6. /\ Cardinality(debts \ {m}) \in Nat
      /\ Cardinality((debts \ {m}) \cup {n}) \in {Cardinality(debts \ {m}), Cardinality(debts \ {m}) + 1}
  BY <1>3, <1>4
<1> QED
  BY <1>2, <1>3, <1>5, <1>6

LEMMA OwedTick == ASSUME IInv, OwedInv, Tick PROVE OwedInv'
<1> USE ArbiterAssumption
<1>1. /\ outstanding' = {Older(c) : c \in outstanding}
      /\ underway' = {Older(a) : a \in underway}
      /\ UNCHANGED <<asked, taken, withheld>>
  BY DEF Tick
<1>2. /\ \A c \in outstanding : c \in Command
      /\ \A a \in underway :
           a \in [by : {"cloud", "local"}, number : 1..(MaxCommands + MaxLocal),
                  span : Registers \X Registers, age : Age]
  BY DEF IInv, TypeOK
<1>3. ASSUME NEW c \in outstanding
      PROVE  /\ Older(c).number = c.number /\ Older(c).span = c.span
             /\ Older(c).age = IF c.age < TTL THEN c.age + 1 ELSE TTL
             /\ c.age \in 0..TTL
  BY <1>2 DEF Older, Command, Age
<1>4. ASSUME NEW a \in underway
      PROVE  /\ Older(a).number = a.number /\ Older(a).span = a.span /\ Older(a).by = a.by
             /\ Older(a).age = IF a.age < TTL THEN a.age + 1 ELSE TTL
             /\ a.age \in 0..TTL
  BY <1>2 DEF Older, Age
<1>5. Given(outstanding) /\ Given(FromCloud) /\ LaterIsYounger
  BY DEF OwedInv
<1>6. Given(outstanding)'
  <2>1. ASSUME NEW c \in outstanding, NEW d \in outstanding, Older(c).number = Older(d).number
        PROVE  Older(c) = Older(d)
    <3>1. c.number = d.number
      BY <2>1, <1>3
    <3>2. c = d
      BY <3>1, <1>5 DEF Given
    <3> QED BY <3>2
  <2> QED BY <2>1, <1>1, <1>3, <1>5 DEF Given
<1>7. \A a \in FromCloud' : \E b \in FromCloud : a = Older(b)
  BY <1>1, <1>4 DEF FromCloud
<1>8. Given(FromCloud)'
  <2>1. ASSUME NEW c \in FromCloud, NEW d \in FromCloud, Older(c).number = Older(d).number
        PROVE  Older(c) = Older(d)
    <3>1. c \in underway /\ d \in underway
      BY DEF FromCloud
    <3>2. c.number = d.number
      BY <2>1, <3>1, <1>4
    <3>3. c = d
      BY <3>2, <1>5 DEF Given
    <3> QED BY <3>3
  <2>2. \A a \in FromCloud : Older(a).number = a.number /\ Older(a).span = a.span
    BY <1>4 DEF FromCloud
  <2> QED BY <2>1, <2>2, <1>1, <1>7, <1>5 DEF Given
<1>9. LaterIsYounger'
  <2> SUFFICES ASSUME NEW a \in FromCloud, NEW c \in outstanding,
                      Older(a).number <= Older(c).number
               PROVE  Older(c).age <= Older(a).age
    BY <1>1, <1>7 DEF LaterIsYounger
  <2>1. a \in underway
    BY DEF FromCloud
  <2>2. c.age <= a.age
    BY <2>1, <1>3, <1>4, <1>5 DEF LaterIsYounger
  <2> QED BY <2>1, <2>2, <1>3, <1>4
<1>10. Owed'
  <2>1. PICK f \in [Numbers -> Numbers], debts \in SUBSET Numbers :
          Matching(f, debts) /\ Cardinality(debts) + withheld <= taken
    BY DEF OwedInv, Owed
  <2>2. ASSUME NEW a \in InTime'
        PROVE  \E b \in InTime : a = Older(b) /\ a.number = b.number /\ a.span = b.span
    <3>1. PICK b \in FromCloud : a = Older(b)
      BY <1>7 DEF InTime
    <3>2. a.age < TTL /\ b \in underway
      BY DEF InTime, FromCloud
    <3>3. b.age < TTL
      BY <3>1, <3>2, <1>4
    <3> QED BY <3>1, <3>2, <3>3, <1>4 DEF InTime
  <2>3. ASSUME NEW a \in InTime', a.number \notin debts
        PROVE  \E c \in outstanding' : Matches(f, a, c)
    <3>1. PICK b \in InTime : a.number = b.number /\ a.span = b.span
      BY <2>2
    <3>2. PICK c \in outstanding : Matches(f, b, c)
      BY <2>1, <2>3, <3>1 DEF Matching
    <3>3. Older(c) \in outstanding' /\ Matches(f, a, Older(c))
      BY <3>1, <3>2, <1>1, <1>3 DEF Matches
    <3> QED BY <3>3
  <2>4. ASSUME NEW a \in InTime', NEW b \in InTime',
               a.number \notin debts, b.number \notin debts, f[a.number] = f[b.number]
        PROVE  a = b
    <3>1. PICK d \in InTime : a = Older(d) /\ a.number = d.number
      BY <2>2
    <3>2. PICK e \in InTime : b = Older(e) /\ b.number = e.number
      BY <2>2
    <3>3. d = e
      BY <2>1, <2>4, <3>1, <3>2 DEF Matching
    <3> QED BY <3>1, <3>2, <3>3
  <2>5. Matching(f, debts)'
    BY <2>3, <2>4 DEF Matching, Matches
  <2> QED BY <2>1, <2>5, <1>1 DEF Owed
<1> QED
  BY <1>6, <1>8, <1>9, <1>10 DEF OwedInv

(* What is owed once an answer is gone, and what it claimed with it.       *)
LEMMA OwedForwardToCloud ==
    ASSUME NeverInPart, IInv, OwedInv, NEW a \in underway, ForwardToCloud(a)
    PROVE  OwedInv'
<1> USE ArbiterAssumption
<1> DEFINE Timely == a.by = "cloud" /\ a.age < TTL
<1>1. /\ outstanding' = Claim(outstanding, a.span)
      /\ underway' = underway \ {a}
      /\ asked' = asked
      /\ taken \in Nat /\ withheld \in Nat
      /\ outstanding \in SUBSET Command
      /\ a.span \in Registers \X Registers /\ a.age \in 0..TTL
  BY DEF ForwardToCloud, IInv, TypeOK, Age
<1>2. /\ Originator(outstanding, a.span) = "cloud" =>
           withheld' = withheld /\ taken' = IF Timely THEN taken ELSE taken + 1
      /\ Timely => taken' = taken /\ withheld' \in {withheld, withheld + 1}
      /\ ~ Timely => withheld' = withheld /\ taken' \in {taken, taken + 1}
  BY DEF ForwardToCloud, ToCloud
<1>3. Given(outstanding) /\ Given(FromCloud) /\ LaterIsYounger
  BY DEF OwedInv
<1>4. outstanding' \subseteq outstanding /\ FromCloud' \subseteq FromCloud
  <2>1. outstanding' \subseteq Expire(outstanding)
    BY <1>1, ClaimedIsFirst
  <2> QED BY <2>1, <1>1 DEF Expire, FromCloud
<1>5. Given(outstanding)' /\ Given(FromCloud)' /\ LaterIsYounger'
  BY <1>1, <1>3, <1>4 DEF Given, LaterIsYounger
<1>6. PICK f \in [Numbers -> Numbers], debts \in SUBSET Numbers :
        Matching(f, debts) /\ Cardinality(debts) + withheld <= taken
  BY DEF OwedInv, Owed
<1>7. /\ \A b \in InTime' : b \in InTime /\ b # a
      /\ Timely <=> a \in InTime
  BY <1>1 DEF InTime, FromCloud
<1>8. ASSUME NEW b \in InTime
      PROVE  b.number \in Numbers /\ b.age < TTL /\ b.age \in 0..TTL /\ b.span \in CloudSpans /\ b \in FromCloud
  BY <1>3 DEF InTime, FromCloud, Given, IInv, TypeOK, Age, Numbers
<1>9. ASSUME NEW c \in outstanding
      PROVE  c.number \in Numbers /\ c.number \in Nat /\ c.age \in 0..TTL /\ c.span \in CloudSpans
  <2>1. c \in Command
    BY <1>1
  <2>2. c.number \in Numbers /\ c.age \in 0..TTL
    BY <2>1 DEF Command, Age, Numbers
  <2>3. c.span \in CloudSpans
    BY <1>3 DEF Given
  <2>4. c.number \in Nat
    BY <2>2 DEF Numbers
  <2> QED BY <2>2, <2>3, <2>4
(* A command that an answer in time is matched with has not expired.       *)
<1>10. ASSUME NEW b \in InTime, NEW c \in outstanding, Matches(f, b, c)
       PROVE  c \in Expire(outstanding)
  <2>1. c.age <= b.age
    BY <1>3, <1>8, <1>10 DEF LaterIsYounger, Matches
  <2> QED BY <2>1, <1>8, <1>9 DEF Expire
<1>11. \A b, c \in InTime : b.number = c.number => b = c
  BY <1>3 DEF Given, InTime
<1>a. ASSUME NEW c, c.span = a.span PROVE Within(a.span, c)
  <2>1. a.span[1] \in Nat /\ a.span[2] \in Nat
    BY <1>1
  <2> QED BY <2>1, <1>a DEF Within
(* An answer without a claim changes no match.                             *)
<1>12. CASE Claimants(outstanding, a.span) = {}
  <2>1. outstanding' = Expire(outstanding)
    BY <1>1, <1>12, ClaimedIsFirst
  <2>2. Timely => a.number \in debts
    <3> SUFFICES ASSUME Timely, a.number \notin debts PROVE FALSE
      OBVIOUS
    <3>1. PICK c \in outstanding : Matches(f, a, c)
      BY <1>6, <1>7 DEF Matching
    <3>2. c \in Expire(outstanding) /\ c.span = a.span
      BY <3>1, <1>7, <1>10 DEF Matches
    <3>3. Within(a.span, c)
      BY <3>2, <1>a
    <3> QED BY <3>2, <3>3, <1>12 DEF Claimants
  <2>3. PICK rest \in SUBSET Numbers :
          /\ \A b \in InTime' : b.number \notin rest => b.number \notin debts
          /\ Cardinality(rest) + withheld' <= taken'
    <3>1. CASE Timely
      <4>1. \A b \in InTime' : b.number # a.number
        BY <3>1, <1>7, <1>11
      <4>2. Cardinality(debts \ {a.number}) = Cardinality(debts) - 1 /\ Cardinality(debts) \in Nat
        BY <2>2, <3>1, DebtFacts
      <4>3. Cardinality(debts \ {a.number}) + withheld' <= taken'
        BY <4>2, <3>1, <1>1, <1>2, <1>6
      <4> QED BY <4>1, <4>3
    <3>2. CASE ~ Timely
      <4>1. Cardinality(debts) \in Nat
        BY DebtFacts
      <4> QED BY <3>2, <4>1, <1>1, <1>2, <1>6
    <3> QED BY <3>1, <3>2
  <2>4. ASSUME NEW b \in InTime', b.number \notin rest
        PROVE  \E c \in outstanding' : Matches(f, b, c)
    BY <2>1, <2>3, <2>4, <1>6, <1>7, <1>10 DEF Matching
  <2>5. Matching(f, rest)'
    BY <2>3, <2>4, <1>6, <1>7 DEF Matching, Matches
  <2> QED BY <2>3, <2>5, <1>5 DEF OwedInv, Owed
<1>13. CASE Claimants(outstanding, a.span) # {}
  <2>1. PICK m \in Claimants(outstanding, a.span) :
          /\ outstanding' = Expire(outstanding) \ {m}
          /\ \A d \in Claimants(outstanding, a.span) : m.number <= d.number
    BY <1>1, <1>13, ClaimedIsFirst
  <2>2. withheld' = withheld /\ taken' = IF Timely THEN taken ELSE taken + 1
    BY <1>1, <1>2, <1>13 DEF Originator
  <2>3. m \in outstanding /\ m \in Expire(outstanding) /\ Within(a.span, m)
    BY <2>1 DEF Claimants, Expire
  <2> DEFINE Loser(b) == b \in InTime /\ b # a /\ b.number \notin debts /\ f[b.number] = m.number
  (* Who is matched with another command keeps it.                         *)
  <2>4. ASSUME NEW b \in InTime, b.number \notin debts, f[b.number] # m.number
        PROVE  \E c \in outstanding' : Matches(f, b, c)
    <3>1. PICK c \in outstanding : Matches(f, b, c)
      BY <1>6, <2>4 DEF Matching
    <3>2. c # m /\ c \in Expire(outstanding)
      BY <3>1, <2>4, <1>10 DEF Matches
    <3> QED BY <3>1, <3>2, <2>1
  (* An answer out of time, or in debt: who loses the command is in debt.  *)
  <2>5. CASE ~ Timely \/ a.number \in debts
    <3>1. PICK n : \A b \in InTime' : Loser(b) => b.number = n
      <4>1. \A b, c \in InTime : Loser(b) /\ Loser(c) => b = c
        BY <1>6 DEF Matching
      <4>2. CASE \E b \in InTime : Loser(b)
        BY <4>1, <4>2, <1>7
      <4>3. CASE ~ \E b \in InTime : Loser(b)
        BY <4>3, <1>7
      <4> QED BY <4>2, <4>3
    <3>2. PICK rest \in SUBSET Numbers :
            /\ \A b \in InTime' : b.number \notin rest => b.number \notin debts /\ ~ Loser(b)
            /\ Cardinality(rest) + withheld' <= taken'
      <4>1. CASE n \in Numbers /\ Timely
        <5>1. a.number \in debts /\ (debts \ {a.number}) \cup {n} \in SUBSET Numbers
          BY <4>1, <2>5
        <5>2. /\ Cardinality((debts \ {a.number}) \cup {n}) \in Nat
              /\ Cardinality((debts \ {a.number}) \cup {n}) <= Cardinality(debts)
              /\ Cardinality(debts) \in Nat
          BY <5>1, DebtFacts
        <5>3. \A b \in InTime' : b.number # a.number
          BY <4>1, <1>7, <1>11
        <5>4. Cardinality((debts \ {a.number}) \cup {n}) + withheld' <= taken'
          BY <5>2, <4>1, <2>2, <1>1, <1>6
        <5>5. \A b \in InTime' : b.number \notin (debts \ {a.number}) \cup {n} =>
                b.number \notin debts /\ ~ Loser(b)
          BY <5>3, <3>1
        <5> QED BY <5>1, <5>4, <5>5
      <4>2. CASE n \in Numbers /\ ~ Timely
        <5>1. debts \cup {n} \in SUBSET Numbers
          BY <4>2
        <5>2. /\ Cardinality(debts \cup {n}) \in Nat
              /\ Cardinality(debts \cup {n}) <= Cardinality(debts) + 1
              /\ Cardinality(debts) \in Nat
          BY DebtFacts
        <5>3. Cardinality(debts \cup {n}) + withheld' <= taken'
          BY <5>2, <4>2, <2>2, <1>1, <1>6
        <5>4. \A b \in InTime' : b.number \notin debts \cup {n} =>
                b.number \notin debts /\ ~ Loser(b)
          BY <3>1
        <5> QED BY <5>1, <5>3, <5>4
      <4>3. CASE n \notin Numbers
        <5>1. \A b \in InTime' : ~ Loser(b)
          BY <4>3, <3>1, <1>7, <1>8
        <5>2. Cardinality(debts) \in Nat
          BY DebtFacts
        <5>3. Cardinality(debts) + withheld' <= taken'
          BY <5>2, <2>2, <1>1, <1>6
        <5> QED BY <5>1, <5>3
      <4> QED BY <4>1, <4>2, <4>3
    <3>3. ASSUME NEW b \in InTime', b.number \notin rest
          PROVE  \E c \in outstanding' : Matches(f, b, c)
      BY <2>4, <3>2, <3>3, <1>7
    <3>4. Matching(f, rest)'
      BY <3>2, <3>3, <1>6, <1>7 DEF Matching, Matches
    <3> QED BY <3>2, <3>4, <1>5 DEF OwedInv, Owed
  (* An answer with a command of its own leaves it to who loses the other. *)
  <2>6. CASE Timely /\ a.number \notin debts
    <3>1. PICK c \in outstanding : Matches(f, a, c)
      BY <2>6, <1>6, <1>7 DEF Matching
    <3>2. c \in Expire(outstanding) /\ c.span = a.span
      BY <3>1, <2>6, <1>7, <1>10 DEF Matches
    <3>3. c \in Claimants(outstanding, a.span)
      BY <3>2, <1>a DEF Claimants
    <3>4. m.number <= c.number
      BY <3>3, <2>1
    <3>5. m.span = c.span
      <4>1. m.span \in CloudSpans /\ a.span \in CloudSpans
        BY <2>3, <2>6, <1>7, <1>8, <1>9
      <4>2. m.span[1] <= a.span[1] /\ a.span[2] <= m.span[2]
        BY <2>3 DEF Within
      <4> QED BY <4>1, <4>2, <3>2 DEF NeverInPart
    <3>6. Cardinality(debts) + withheld' <= taken'
      BY <2>2, <2>6, <1>6
    <3>7. ASSUME NEW b \in InTime', b.number \notin debts
          PROVE  f[b.number] # f[a.number] /\ b.number # a.number /\ b \in InTime
      BY <3>7, <2>6, <1>6, <1>7, <1>11 DEF Matching
    <3>8. CASE \E b \in InTime' : Loser(b)
      <4>1. PICK b \in InTime' : Loser(b)
        BY <3>8
      <4>2. b \in InTime /\ b.number \in Numbers
        BY <4>1, <1>8
      <4>3. PICK d \in outstanding : Matches(f, b, d)
        BY <4>1, <1>6 DEF Matching
      <4>4. d = m
        BY <4>1, <4>3, <2>3, <1>3 DEF Given, Matches
      <4>5. c # m
        BY <3>1, <3>7, <4>1 DEF Matches
      <4>6. PICK g \in [Numbers -> Numbers] :
              /\ g[b.number] = c.number
              /\ \A x \in Numbers : x # b.number => g[x] = f[x]
        <5> DEFINE g == [f EXCEPT ![b.number] = c.number]
        <5>1. g \in [Numbers -> Numbers]
          BY <1>9
        <5>2. g[b.number] = c.number
          BY <4>2
        <5>3. \A x \in Numbers : x # b.number => g[x] = f[x]
          OBVIOUS
        <5> QED BY <5>1, <5>2, <5>3
      <4>7. Matches(g, b, c)
        <5>1. b.number <= m.number /\ b.span = m.span
          BY <4>3, <4>4 DEF Matches
        <5>2. b.number \in Nat /\ m.number \in Nat /\ c.number \in Nat
          BY <4>2, <2>3, <1>9 DEF Numbers
        <5>3. b.number <= c.number
          BY <5>1, <5>2, <3>4
        <5> QED BY <5>1, <5>3, <4>6, <3>5 DEF Matches
      <4>8. c \in outstanding'
        BY <4>5, <3>2, <2>1
      <4>9. ASSUME NEW e \in InTime', e.number \notin debts, e # b
            PROVE  /\ e.number # b.number /\ g[e.number] = f[e.number]
                   /\ f[e.number] # m.number
                   /\ \E x \in outstanding' : Matches(g, e, x)
        <5>1. e \in InTime /\ e # a
          BY <1>7
        <5>2. e.number # b.number
          BY <5>1, <4>2, <4>9, <1>11
        <5>3. g[e.number] = f[e.number]
          BY <5>1, <5>2, <4>6, <1>8
        <5>4. f[e.number] # m.number
          BY <5>1, <4>1, <4>9, <1>6 DEF Matching
        <5>5. PICK x \in outstanding' : Matches(f, e, x)
          BY <5>1, <5>4, <4>9, <2>4
        <5>6. Matches(g, e, x)
          BY <5>3, <5>5 DEF Matches
        <5> QED BY <5>2, <5>3, <5>4, <5>5, <5>6
      <4>10. ASSUME NEW e \in InTime', e.number \notin debts
             PROVE  \E x \in outstanding' : Matches(g, e, x)
        BY <4>7, <4>8, <4>9, <4>10
      <4>11. \A e \in InTime' : e.number \notin debts /\ e # b => g[e.number] # g[b.number]
        BY <4>6, <4>9, <3>1, <3>7 DEF Matches
      <4>12. ASSUME NEW e \in InTime', NEW h \in InTime',
                    e.number \notin debts, h.number \notin debts, g[e.number] = g[h.number]
             PROVE  e = h
        <5>1. CASE e = b \/ h = b
          BY <5>1, <4>11, <4>12
        <5>2. CASE e # b /\ h # b
          <6>1. f[e.number] = f[h.number]
            BY <5>2, <4>9, <4>12
          <6> QED BY <6>1, <4>12, <1>6, <1>7 DEF Matching
        <5> QED BY <5>1, <5>2
      <4>13. Matching(g, debts)'
        BY <4>10, <4>12 DEF Matching, Matches
      <4> QED BY <4>13, <3>6, <1>5 DEF OwedInv, Owed
    <3>9. CASE ~ \E b \in InTime' : Loser(b)
      <4>1. ASSUME NEW b \in InTime', b.number \notin debts
            PROVE  \E x \in outstanding' : Matches(f, b, x)
        BY <4>1, <3>9, <2>4, <1>7
      <4>2. Matching(f, debts)'
        BY <4>1, <1>6, <1>7 DEF Matching, Matches
      <4> QED BY <4>2, <3>6, <1>5 DEF OwedInv, Owed
    <3> QED BY <3>8, <3>9
  <2> QED BY <2>5, <2>6
<1> QED
  BY <1>12, <1>13

LEMMA OwedNext ==
    ASSUME NeverInPart, IInv, OwedInv, [Next]_vars
    PROVE  OwedInv'
<1>1. CASE \E intent \in Intent : ForwardToDevice(intent)
  BY <1>1, OwedForwardToDevice
<1>2. CASE \E span \in LocalSpans : Transmit(span)
  BY <1>2, OwedTransmit
<1>3. CASE \E a \in underway : ForwardToCloud(a)
  BY <1>3, OwedForwardToCloud
<1>4. CASE Tick
  BY <1>4, OwedTick
<1>5. CASE PushTime \/ UNCHANGED vars
  <2>1. UNCHANGED <<outstanding, underway, asked, taken, withheld>>
    BY <1>5 DEF PushTime, vars, historyVars
  <2> QED BY <2>1 DEF OwedInv, Given, FromCloud, InTime, LaterIsYounger, Owed, Matching, Matches
<1> QED
  BY <1>1, <1>2, <1>3, <1>4, <1>5 DEF Next

(* For any registers, policies, COMMAND_TTL and number of commands: where  *)
(* no command of the cloud is for part of the registers of another, an     *)
(* in-time answer is withheld from it only if another took its place       *)
(* (CloudCommands::claim, remember; Session::forward_to_cloud).            *)
THEOREM CloudIsNeverShort == ASSUME NeverInPart PROVE Spec => []CloudNeverShort
<1>1. Init => OwedInv
  BY OwedInit
<1>2. IInv /\ OwedInv /\ [Next]_vars => OwedInv'
  BY OwedNext
<1>3. IInv /\ OwedInv => CloudNeverShort
  <2> SUFFICES ASSUME IInv, OwedInv PROVE withheld <= taken
    BY DEF CloudNeverShort
  <2>1. PICK debts \in SUBSET Numbers : Cardinality(debts) + withheld <= taken
    BY DEF OwedInv, Owed
  <2>2. Cardinality(debts) \in Nat
    BY DebtFacts
  <2> QED BY <2>1, <2>2 DEF IInv, TypeOK
<1> QED
  BY <1>1, <1>2, <1>3, ArbiterInvariant, PTL DEF Spec

-----------------------------------------------------------------------------
(* Accessories                                                             *)

USE AccessoriesAssumption

(* Which route a handler is on, told from how far it is.                   *)
OnItsRoute(call) ==
    /\ call.pc \in {"asking", "waiting", "sending"} =>
           call.request \in HttpRequest /\ call.request.kind \in {"search", "pair", "forget"}
    /\ call.pc \in {"forgetting", "opening", "streaming"} =>
           call.request \in HttpRequest /\ call.request.kind = "search"
    /\ call.pc = "pausing" => call.request \in HttpRequest /\ call.request.kind = "forget"
    /\ call.pc = "collecting" => call.request \in HttpRequest /\ call.request.kind = "read"
    /\ call.pc = "done" <=> call.status # 0

GoodCall(call) == call \in Call /\ OnItsRoute(call)

(* What the device searches for was sent by whoever opened the search, and *)
(* nothing was lost or told wrong.                                         *)
Opening(d) == At(d, "search", "sending") /\ calls[d].request.target = device.target
Settled == counts.faults = 0 /\ \A d \in Callers : ~ Opening(d)

(* Then no window outlasts the device's search: not that of the search     *)
(* others may join, nor that of whoever streams.                           *)
WindowsFit ==
    Settled =>
        /\ searches.target = device.target => searches.left <= device.left
        /\ \A c \in Callers :
             calls[c].pc = "streaming" /\ calls[c].request.target = device.target =>
                 calls[c].left <= device.left

(* Whoever searches and has its list, answered, has it from before any     *)
(* candidate the latest report may hold.                                   *)
HasItsList(call) ==
    call.answered /\ (\/ call.pc \in {"forgetting", "opening", "streaming"}
                      \/ call.request.kind = "search" /\ call.pc = "sending")
FoundInside ==
    /\ identity.at <= counts.reports
    /\ \A c \in Callers :
         /\ calls[c].since <= counts.reports
         /\ HasItsList(calls[c]) /\ "found" \in identity.reported => calls[c].since < identity.at

(* A report of the list is not one of a candidate.                         *)
ListAlone == "list" \in identity.reported => "found" \notin identity.reported

CallsInv == AccessoriesTypeOK /\ (\A c \in Callers : OnItsRoute(calls[c])) /\ WindowsFit /\ ListAlone

(* No caller asks for the register a search finds its candidates in.       *)
NothingReadsFound == \A r \in Asking : r.kind = "read" => "found" \notin r.wanted
NothingAsksForFound ==
    /\ "found" \notin unreported
    /\ \A c \in Callers : "found" \notin calls[c].toAsk
CandidateInv == NothingAsksForFound /\ FoundInside

-----------------------------------------------------------------------------
LEMMA Windows ==
    /\ \A n \in 0..Window : Less(n) \in 0..Window
    /\ \A m, n \in 0..Window : m <= n => Less(m) <= Less(n)
    /\ 0 \in 0..Window /\ ReadBack \in 0..Window /\ Quiet \in 0..Window /\ Window \in 0..Window
  BY DEF Less, ReadBack, Quiet

LEMMA EmptyTyped == Empty \in Lists
  BY DEF Empty, Lists, Slots

LEMMA NoCallGood == GoodCall(NoCall)
  BY EmptyTyped, Windows DEF NoCall, Call, Pcs, GoodCall, OnItsRoute

LEMMA DoneGood ==
    ASSUME NEW status \in {200, 404, 409, 499, 502}
    PROVE  /\ GoodCall(Done(status)) /\ Done(status).pc = "done" /\ Done(status).status = status
           /\ Done(status).toAsk = {} /\ Done(status).since = 0
  <1>. DEFINE over == [NoCall EXCEPT !.pc = "done"]
  <1>1. NoCall \in Call /\ NoCall.toAsk = {} /\ NoCall.since = 0
    BY NoCallGood DEF GoodCall, NoCall
  <1>2. over \in Call /\ over.pc = "done" /\ over.toAsk = {} /\ over.since = 0
    BY <1>1 DEF Call, Pcs
  <1>3. Done(status) = [over EXCEPT !.status = status]
    BY DEF Done
  <1>. HIDE DEF over
  <1>4. Done(status) \in Call /\ Done(status).pc = "done" /\ Done(status).status = status
        /\ Done(status).toAsk = {} /\ Done(status).since = 0
    BY <1>2, <1>3 DEF Call
  <1>. QED  BY <1>4 DEF GoodCall, OnItsRoute

LEMMA CallsInitSound == AccessoriesInit => CallsInv /\ CandidateInv
  <1>. SUFFICES ASSUME AccessoriesInit PROVE CallsInv /\ CandidateInv
    OBVIOUS
  <1>1. PICK entry \in {Empty[1]} \cup [state : {"paired", "deleted"}, serial : Serials] :
          device = [entries |-> [Empty EXCEPT ![1] = entry], reported |-> [Empty EXCEPT ![1] = entry],
                    target |-> NoSerial, left |-> 0, found |-> {}]
    BY DEF AccessoriesInit
  <1>2. [Empty EXCEPT ![1] = entry] \in Lists
    BY EmptyTyped DEF Lists, Slots, Empty
  <1>3. device \in Device
    BY <1>1, <1>2, Windows DEF Device
  <1>4. \A c \in Callers : calls[c] = NoCall
    BY DEF AccessoriesInit
  <1>5. AccessoriesTypeOK
    BY <1>3, <1>4, NoCallGood, EmptyTyped, Windows DEF AccessoriesInit, AccessoriesTypeOK, Fields, GoodCall, OnItsRoute
  <1>6. searches.left <= device.left /\ \A c \in Callers : calls[c].pc = "idle" /\ calls[c].since = 0 /\ calls[c].toAsk = {}
    BY <1>1, <1>4 DEF AccessoriesInit, NoCall
  <1>. QED  BY <1>4, <1>5, <1>6, NoCallGood DEF AccessoriesInit, ListAlone, WindowsFit, CallsInv, CandidateInv, NothingAsksForFound, FoundInside, GoodCall, HasItsList

-----------------------------------------------------------------------------
(* What the device makes of a command, or of a report.                     *)

LEMMA SlotFacts ==
    ASSUME NEW list \in Lists, NEW state
    PROVE  In(list, state) \subseteq Slots
  BY DEF In

LEMMA EntrySet ==
    ASSUME NEW list \in Lists, NEW n \in Slots, NEW serial \in Serials \cup {NoSerial},
           NEW state \in {"free", "registered", "paired", "deleted"}
    PROVE  [list EXCEPT ![n] = [state |-> state, serial |-> serial]] \in Lists
  BY DEF Lists

LEMMA BrowsesMakes ==
    ASSUME device \in Device, NEW target \in DOMAIN Nearby
    PROVE  /\ Browses(target) \in Device
           /\ Browses(target).target = target /\ Browses(target).left = Window
  <1>. PICK reused : Browses(target) =
          [device EXCEPT
             !.entries = [n \in Slots |-> IF n \in reused THEN [state |-> "registered", serial |-> NoSerial]
                                          ELSE @[n]],
             !.target = target, !.left = Window, !.found = {}]
    BY DEF Browses
  <1>. DEFINE list == [n \in Slots |-> IF n \in reused THEN [state |-> "registered", serial |-> NoSerial]
                                        ELSE device.entries[n]]
              made == [entries |-> list, reported |-> device.reported, target |-> target,
                       left |-> Window, found |-> {}]
  <1>1. list \in Lists
    BY DEF Lists, Device
  <1>2. Browses(target) = made
    <2>. HIDE DEF list
    <2>1. Browses(target) = [device EXCEPT !.entries = list, !.target = target, !.left = Window, !.found = {}]
      BY DEF list
    <2>. QED  BY <2>1 DEF Device
  <1>. HIDE DEF list
  <1>3. made \in Device
    BY <1>1, Windows DEF Device
  <1>. QED  BY <1>2, <1>3

LEMMA PairsMakes ==
    ASSUME device \in Device, NEW serial \in Serials
    PROVE  /\ Pairs(serial) \in Device
           /\ Pairs(serial).target = device.target /\ Pairs(serial).left = device.left
  <1>. DEFINE waiting == In(device.entries, "registered")
  <1>1. CASE serial \notin device.found \/ waiting = {}
    BY <1>1 DEF Pairs
  <1>2. CASE ~ (serial \notin device.found \/ waiting = {})
    <2>. DEFINE n == CHOOSE n \in waiting : TRUE
                list == [device.entries EXCEPT ![n] = [state |-> "paired", serial |-> serial]]
    <2>1. n \in Slots
      BY <1>2, SlotFacts DEF Device
    <2>2. list \in Lists
      BY <2>1, EntrySet DEF Device
    <2>3. Pairs(serial) = [device EXCEPT !.entries = list]
      BY <1>2 DEF Pairs
    <2>. HIDE DEF n, list
    <2>. QED  BY <2>2, <2>3 DEF Device
  <1>. QED  BY <1>1, <1>2

LEMMA ForgetsMakes ==
    ASSUME device \in Device, NEW entry
    PROVE  /\ Forgets(entry) \in Device
           /\ Forgets(entry).target = device.target /\ Forgets(entry).left = device.left
  <1>1. CASE entry \notin In(device.entries, "paired") \cup In(device.entries, "registered")
    BY <1>1 DEF Forgets
  <1>2. CASE entry \in In(device.entries, "paired") \cup In(device.entries, "registered")
    <2>. DEFINE list == [device.entries EXCEPT ![entry].state = "deleted"]
    <2>1. entry \in Slots /\ device.entries \in Lists
      BY <1>2, SlotFacts DEF Device
    <2>2. list \in Lists
      BY <2>1 DEF Lists
    <2>3. Forgets(entry) = [device EXCEPT !.entries = list]
      BY <1>2 DEF Forgets
    <2>. HIDE DEF list
    <2>. QED  BY <2>2, <2>3 DEF Device
  <1>. QED  BY <1>1, <1>2

(* A command lost, or told wrong, is counted.                              *)
LEMMA FaultsCounted ==
    ASSUME counts \in [calls : 0..MaxCalls, reports : 0..MaxReports, faults : 0..MaxFaults],
           NEW d \in Delivery
    PROVE  /\ Faults(d) \in [calls : 0..MaxCalls, reports : 0..MaxReports, faults : 0..MaxFaults]
           /\ Faults(d).faults = 0 => counts.faults = 0 /\ d.taken /\ d.told
           /\ Faults(d).reports = counts.reports
  BY DEF Delivery, Faults

-----------------------------------------------------------------------------
(* What a handler makes of its call.  Most ask for no more than before,    *)
(* and neither send a search nor begin to stream.                          *)
Follows(old, new) ==
    /\ GoodCall(new)
    /\ new.toAsk \subseteq old.toAsk
    /\ new.since = old.since \/ new.since = 0
    /\ new.pc = "streaming" => old.pc = "streaming" /\ new.left = old.left /\ new.request = old.request
    /\ ~ (old.request.kind = "search" /\ old.pc = "sending")

(* And who has its list had it before, since the same report.              *)
KeepsList(old, new) == HasItsList(new) => HasItsList(old) /\ new.since = old.since

(* A handler that is over follows, whatever it was at.                     *)
LEMMA DoneFollows ==
    ASSUME NEW call \in Call, NEW status \in {200, 404, 409, 499, 502},
           call.request.kind # "search" \/ call.pc # "sending"
    PROVE  Follows(call, Done(status)) /\ KeepsList(call, Done(status))
  BY DoneGood DEF Follows, KeepsList, HasItsList

(* One that goes on with the same request.                                 *)
LEMMA SameRequest ==
    ASSUME NEW call \in Call, NEW new \in Call, call.request \in HttpRequest,
           new.request = call.request, new.toAsk \subseteq call.toAsk, new.since = call.since,
           new.status = 0, new.pc \notin {"streaming", "done"},
           new.pc \in {"asking", "waiting", "sending"} => call.request.kind \in {"search", "pair", "forget"},
           new.pc \in {"forgetting", "opening"} => call.request.kind = "search",
           new.pc = "pausing" => call.request.kind = "forget",
           new.pc = "collecting" => call.request.kind = "read",
           call.request.kind # "search" \/ call.pc # "sending"
    PROVE  Follows(call, new)
  BY DEF Follows, GoodCall, OnItsRoute

LEMMA GoesOn ==
    ASSUME NEW call \in Call, NEW pc \in Pcs
    PROVE  LET new == [call EXCEPT !.pc = pc] IN
           /\ new \in Call /\ new.pc = pc /\ new.request = call.request /\ new.toAsk = call.toAsk
           /\ new.since = call.since /\ new.status = call.status /\ new.answered = call.answered
           /\ new.list = call.list /\ new.left = call.left /\ new.written = call.written
  BY DEF Call

LEMMA PcsAre ==
    {"asking", "waiting", "forgetting", "opening", "sending", "pausing", "streaming", "collecting"}
        \subseteq Pcs
  BY DEF Pcs

LEMMA DecidesMakes ==
    ASSUME NEW call \in Call, OnItsRoute(call), call.pc = "waiting"
    PROVE  /\ Follows(call, Decides(call))
           /\ ~ call.answered => KeepsList(call, Decides(call))
  <1>1. call.request \in HttpRequest /\ call.status = 0
    BY DEF OnItsRoute
  <1>2. call.list \in Lists
    BY DEF Call
  <1>3. CASE call.request.kind = "search"
    <2>1. Decides(call) = DecidesSearch(call)
      BY <1>3 DEF Decides
    <2>2. \/ Decides(call) = [call EXCEPT !.pc = "opening"]
          \/ Decides(call) = [call EXCEPT !.pc = "forgetting"]
          \/ Decides(call) = Done(409)
      BY <2>1 DEF DecidesSearch
    <2>3. ASSUME NEW pc \in {"opening", "forgetting"}
          PROVE  LET new == [call EXCEPT !.pc = pc] IN
                 Follows(call, new) /\ (~ call.answered => KeepsList(call, new))
      <3>. DEFINE new == [call EXCEPT !.pc = pc]
      <3>1. /\ new \in Call /\ new.pc = pc /\ new.request = call.request /\ new.toAsk = call.toAsk
            /\ new.since = call.since /\ new.status = 0 /\ new.answered = call.answered
        BY <1>1, GoesOn, PcsAre
      <3>. HIDE DEF new
      <3>2. Follows(call, new)
        BY <1>1, <1>3, <3>1, SameRequest
      <3>3. ~ call.answered => KeepsList(call, new)
        BY <3>1 DEF KeepsList, HasItsList
      <3>. QED  BY <3>2, <3>3 DEF new
    <2>. QED  BY <1>3, <2>2, <2>3, DoneFollows
  <1>4. CASE call.request.kind = "pair"
    <2>1. Decides(call) = DecidesPair(call)
      BY <1>4 DEF Decides
    <2>2. Decides(call) = Done(200) \/ Decides(call) = Done(409)
      BY <2>1 DEF DecidesPair
    <2>. QED  BY <1>4, <2>2, DoneFollows
  <1>5. CASE call.request.kind = "forget"
    <2>1. CASE call.written
      <3>1. Decides(call) = ReadAfter(call)
        BY <1>5, <2>1 DEF Decides
      <3>2. Decides(call) = Done(200) \/ Decides(call) = [call EXCEPT !.pc = "pausing"]
        BY <3>1 DEF ReadAfter
      <3>. DEFINE new == [call EXCEPT !.pc = "pausing"]
      <3>3. /\ new \in Call /\ new.pc = "pausing" /\ new.request = call.request /\ new.toAsk = call.toAsk
            /\ new.since = call.since /\ new.status = 0
        BY <1>1, GoesOn, PcsAre
      <3>. HIDE DEF new
      <3>4. Follows(call, new) /\ KeepsList(call, new)
        BY <1>1, <1>5, <3>3, SameRequest DEF KeepsList, HasItsList
      <3>. QED  BY <1>5, <3>2, <3>4, DoneFollows DEF new
    <2>2. CASE ~ call.written
      <3>1. Decides(call) = DecidesForget(call)
        BY <1>5, <2>2 DEF Decides
      <3>. DEFINE sent == [call EXCEPT !.pc = "sending"]
      <3>2. Decides(call) = Done(404) \/ Decides(call) = [call EXCEPT !.pc = "sending", !.before = call.list]
        BY <3>1 DEF DecidesForget
      <3>3. [call EXCEPT !.pc = "sending", !.before = call.list] = [sent EXCEPT !.before = call.list]
        OBVIOUS
      <3>4. sent \in Call /\ sent.pc = "sending" /\ sent.request = call.request /\ sent.toAsk = call.toAsk
            /\ sent.since = call.since /\ sent.status = 0
        BY <1>1, GoesOn, PcsAre
      <3>. HIDE DEF sent
      <3>. DEFINE new == [sent EXCEPT !.before = call.list]
      <3>5. /\ new \in Call /\ new.pc = "sending" /\ new.request = call.request /\ new.toAsk = call.toAsk
            /\ new.since = call.since /\ new.status = 0
        BY <1>2, <3>4 DEF Call
      <3>. HIDE DEF new
      <3>6. Follows(call, new) /\ KeepsList(call, new)
        BY <1>1, <1>5, <3>5, SameRequest DEF KeepsList, HasItsList
      <3>. QED  BY <1>5, <3>2, <3>3, <3>6, DoneFollows DEF new
    <2>. QED  BY <2>1, <2>2
  <1>. QED  BY <1>3, <1>4, <1>5 DEF OnItsRoute

-----------------------------------------------------------------------------
(* Most handlers' steps: one call follows, the device's search, the window *)
(* and what was reported stay as they are.                                 *)
CountsTyped(n) == n \in [calls : 0..MaxCalls, reports : 0..MaxReports, faults : 0..MaxFaults]

Minor(c) ==
    /\ \E new :
         /\ Goes(c, new) /\ Follows(calls[c], new)
         /\ KeepsList(calls[c], new) \/ "found" \notin identity.reported
    /\ device' \in Device /\ device'.target = device.target /\ device'.left = device.left
    /\ unreported' \subseteq unreported \cup {"list"} \cup calls[c].toAsk
    /\ CountsTyped(counts') /\ counts'.reports = counts.reports
    /\ counts'.faults = 0 => counts.faults = 0
    /\ UNCHANGED <<identity, searches>>

LEMMA MinorKeeps ==
    ASSUME CallsInv, NEW c \in Callers, Minor(c)
    PROVE  CallsInv' /\ (CandidateInv => CandidateInv')
  <1>1. PICK new :
          /\ Goes(c, new) /\ Follows(calls[c], new)
          /\ KeepsList(calls[c], new) \/ "found" \notin identity.reported
    BY DEF Minor
  <1>2. /\ calls \in [Callers -> Call]
        /\ \A d \in Callers : OnItsRoute(calls[d])
    BY DEF CallsInv, AccessoriesTypeOK
  <1>3. new \in Call /\ OnItsRoute(new)
    BY <1>1 DEF Follows, GoodCall
  <1>4. /\ calls' \in [Callers -> Call] /\ calls'[c] = new
        /\ \A d \in Callers : d # c => calls'[d] = calls[d]
    BY <1>1, <1>2, <1>3 DEF Goes
  <1>5. \A d \in Callers : OnItsRoute(calls'[d])
    BY <1>2, <1>3, <1>4
  <1>6. AccessoriesTypeOK'
    <2>1. unreported' \subseteq Fields
      BY <1>2 DEF Minor, CallsInv, AccessoriesTypeOK, Call, Fields
    <2>2. \A d \in Callers : calls'[d].pc = "done" <=> calls'[d].status # 0
      BY <1>5 DEF OnItsRoute
    <2>. QED  BY <1>4, <2>1, <2>2 DEF Minor, CallsInv, AccessoriesTypeOK, CountsTyped
  <1>7. WindowsFit'
    <2>. SUFFICES ASSUME Settled'
                  PROVE  /\ searches'.target = device'.target => searches'.left <= device'.left
                         /\ \A d \in Callers :
                              calls'[d].pc = "streaming" /\ calls'[d].request.target = device'.target =>
                                  calls'[d].left <= device'.left
      BY DEF WindowsFit
    <2>1. Settled
      <3>1. ~ Opening(c)
        BY <1>1 DEF Opening, Follows, At
      <3>2. \A d \in Callers \ {c} : ~ Opening(d)
        BY <1>4 DEF Settled, Opening, At, Minor
      <3>. QED  BY <3>1, <3>2 DEF Settled, Minor
    <2>. QED  BY <2>1, <1>1, <1>4 DEF CallsInv, WindowsFit, Minor, Follows
  <1>8. ASSUME CandidateInv PROVE CandidateInv'
    <2>1. new.toAsk \subseteq calls[c].toAsk
      BY <1>1 DEF Follows
    <2>2. NothingAsksForFound'
      BY <1>4, <1>8, <2>1 DEF CandidateInv, NothingAsksForFound, Minor
    <2>3. identity' = identity /\ counts'.reports = counts.reports /\ counts.reports \in Nat
      BY DEF Minor, CallsInv, AccessoriesTypeOK
    <2>4. new.since <= counts.reports
      BY <1>1, <1>8, <2>3 DEF Follows, CandidateInv, FoundInside
    <2>5. HasItsList(new) /\ "found" \in identity.reported => new.since < identity.at
      BY <1>1, <1>8 DEF KeepsList, CandidateInv, FoundInside
    <2>6. \A d \in Callers :
            /\ calls'[d].since <= counts'.reports
            /\ HasItsList(calls'[d]) /\ "found" \in identity'.reported => calls'[d].since < identity'.at
      BY <1>4, <1>8, <2>3, <2>4, <2>5 DEF CandidateInv, FoundInside
    <2>7. FoundInside'
      BY <1>8, <2>3, <2>6 DEF CandidateInv, FoundInside, HasItsList
    <2>. QED  BY <2>2, <2>7 DEF CandidateInv
  <1>. QED  BY <1>5, <1>6, <1>7, <1>8 DEF CallsInv, ListAlone, Minor

-----------------------------------------------------------------------------
(* Handlers, one by one.                                                   *)

LEMMA CallFacts ==
    ASSUME CallsInv, NEW c \in Callers
    PROVE  /\ calls[c] \in Call /\ OnItsRoute(calls[c]) /\ CountsTyped(counts)
           /\ device \in Device
           /\ calls[c].pc # "done" => calls[c].status = 0
  BY DEF CallsInv, AccessoriesTypeOK, CountsTyped, OnItsRoute

(* What a step leaves alone, when it tells the device nothing.             *)
LEMMA Quietly ==
    ASSUME CallsInv, NEW c \in Callers, NEW new, Goes(c, new), Follows(calls[c], new),
           KeepsList(calls[c], new) \/ "found" \notin identity.reported,
           UNCHANGED <<device, unreported, identity, searches, counts>>
    PROVE  Minor(c)
  BY CallFacts DEF Minor

LEMMA AsksForListMinor == ASSUME CallsInv, NEW c \in Callers, AsksForList(c) PROVE Minor(c)
  <1>. DEFINE new == [calls[c] EXCEPT !.pc = "waiting"]
  <1>1. calls[c] \in Call /\ OnItsRoute(calls[c]) /\ calls[c].pc = "asking" /\ calls[c].status = 0
    BY CallFacts DEF AsksForList
  <1>2. /\ new \in Call /\ new.pc = "waiting" /\ new.request = calls[c].request
        /\ new.toAsk = calls[c].toAsk /\ new.since = calls[c].since /\ new.status = 0
    BY <1>1, GoesOn, PcsAre
  <1>3. Goes(c, new)
    BY DEF AsksForList
  <1>4. PICK d \in Delivery :
          /\ unreported' = IF d.taken THEN unreported \cup {"list"} ELSE unreported
          /\ counts' = Faults(d)
    BY DEF AsksForList
  <1>. HIDE DEF new
  <1>5. Follows(calls[c], new) /\ KeepsList(calls[c], new)
    BY <1>1, <1>2, SameRequest DEF OnItsRoute, KeepsList, HasItsList
  <1>. QED  BY <1>3, <1>4, <1>5, CallFacts, FaultsCounted DEF Minor, CountsTyped, AsksForList

(* A list that is reported is not a candidate.                             *)
LEMMA ReadsMinor == ASSUME CallsInv, NEW c \in Callers, Reads(c) PROVE Minor(c)
  <1>. DEFINE read == [calls[c] EXCEPT !.list = identity.list]
  <1>1. calls[c] \in Call /\ OnItsRoute(calls[c]) /\ calls[c].pc = "waiting"
    BY CallFacts DEF Reads
  <1>2. identity.list \in Lists
    BY DEF CallsInv, AccessoriesTypeOK
  <1>3. /\ read \in Call /\ read.pc = "waiting" /\ read.request = calls[c].request /\ read.status = calls[c].status
        /\ read.toAsk = calls[c].toAsk /\ read.since = calls[c].since
    BY <1>1, <1>2 DEF Call
  <1>4. Goes(c, Decides(read)) /\ "found" \notin identity.reported
    BY DEF Reads, CallsInv, ListAlone
  <1>. HIDE DEF read
  <1>5. Follows(read, Decides(read))
    BY <1>1, <1>3, DecidesMakes DEF OnItsRoute
  <1>6. Follows(calls[c], Decides(read))
    BY <1>1, <1>3, <1>5 DEF Follows
  <1>. QED  BY <1>4, <1>6, Quietly DEF Reads

LEMMA Unanswered ==
    ASSUME NEW call \in Call
    PROVE  LET late == [call EXCEPT !.answered = FALSE] IN
           /\ late \in Call /\ late.answered = FALSE
           /\ late.pc = call.pc /\ late.request = call.request /\ late.status = call.status
           /\ late.toAsk = call.toAsk /\ late.since = call.since
  <1>. DEFINE late == [call EXCEPT !.answered = FALSE]
  <1>1. ASSUME NEW f \in BOOLEAN PROVE [call EXCEPT !.answered = f] \in Call
    BY DEF Call
  <1>2. late.answered = FALSE
    BY DEF Call
  <1>3. late.pc = call.pc /\ late.request = call.request
    BY DEF Call
  <1>4. late.status = call.status
    BY DEF Call
  <1>5. late.toAsk = call.toAsk /\ late.since = call.since
    BY DEF Call
  <1>. QED  BY <1>1, <1>2, <1>3, <1>4, <1>5

LEMMA ReadTimesOutMinor == ASSUME CallsInv, NEW c \in Callers, ReadTimesOut(c) PROVE Minor(c)
  <1>. DEFINE list == IF "list" \in identity.learned THEN identity.list ELSE Empty
              late == [calls[c] EXCEPT !.answered = FALSE]
              read == [late EXCEPT !.list = list]
  <1>1. calls[c] \in Call /\ OnItsRoute(calls[c]) /\ calls[c].pc = "waiting"
    BY CallFacts DEF ReadTimesOut
  <1>2. list \in Lists
    BY EmptyTyped DEF CallsInv, AccessoriesTypeOK
  <1>3. Goes(c, Decides([calls[c] EXCEPT !.answered = FALSE, !.list = list]))
    BY DEF ReadTimesOut
  <1>. HIDE DEF list
  <1>4. [calls[c] EXCEPT !.answered = FALSE, !.list = list] = read
    OBVIOUS
  <1>5. /\ late \in Call /\ late.pc = "waiting" /\ late.request = calls[c].request
        /\ late.status = calls[c].status /\ late.toAsk = calls[c].toAsk /\ late.since = calls[c].since
        /\ late.answered = FALSE
    BY <1>1, Unanswered
  <1>. HIDE DEF late
  <1>6. /\ read \in Call /\ read.pc = "waiting" /\ read.request = calls[c].request /\ ~ read.answered
        /\ read.status = calls[c].status /\ read.toAsk = calls[c].toAsk /\ read.since = calls[c].since
    BY <1>2, <1>5 DEF Call
  <1>. HIDE DEF read
  <1>7. Follows(read, Decides(read)) /\ KeepsList(read, Decides(read))
    BY <1>1, <1>6, DecidesMakes DEF OnItsRoute
  <1>8. Follows(calls[c], Decides(read)) /\ KeepsList(calls[c], Decides(read))
    BY <1>1, <1>6, <1>7 DEF Follows, KeepsList, HasItsList
  <1>. QED  BY <1>3, <1>4, <1>8, Quietly DEF ReadTimesOut

LEMMA ForgetsFirstMinor == ASSUME CallsInv, NEW c \in Callers, ForgetsFirst(c) PROVE Minor(c)
  <1>. DEFINE new == [calls[c] EXCEPT !.pc = "opening"]
  <1>1. calls[c] \in Call /\ OnItsRoute(calls[c]) /\ calls[c].pc = "forgetting" /\ calls[c].status = 0
    BY CallFacts DEF ForgetsFirst
  <1>. DEFINE entry == CHOOSE n \in In(calls[c].list, "paired") :
                          \A m \in In(calls[c].list, "paired") : n <= m
  <1>2. PICK d \in Delivery :
          /\ device' = IF d.taken THEN Forgets(entry) ELSE device
          /\ counts' = Faults(d)
          /\ Goes(c, IF d.told THEN new ELSE Done(502))
    BY DEF ForgetsFirst
  <1>3. /\ new \in Call /\ new.pc = "opening" /\ new.request = calls[c].request /\ new.answered = calls[c].answered
        /\ new.toAsk = calls[c].toAsk /\ new.since = calls[c].since /\ new.status = 0
    BY <1>1, GoesOn, PcsAre
  <1>. HIDE DEF new, entry
  <1>4. Follows(calls[c], new) /\ KeepsList(calls[c], new)
    BY <1>1, <1>3, SameRequest DEF OnItsRoute, KeepsList, HasItsList
  <1>5. \E made : Goes(c, made) /\ Follows(calls[c], made) /\ KeepsList(calls[c], made)
    BY <1>1, <1>2, <1>4, DoneFollows
  <1>6. device' \in Device /\ device'.target = device.target /\ device'.left = device.left
    BY <1>2, CallFacts, ForgetsMakes
  <1>. QED  BY <1>2, <1>5, <1>6, CallFacts, FaultsCounted DEF Minor, CountsTyped, ForgetsFirst

LEMMA StreamsMinor == ASSUME CallsInv, NEW c \in Callers, Streams(c) PROVE Minor(c)
  <1>. DEFINE new == [calls[c] EXCEPT !.told = @ \cup Candidates]
  <1>1. calls[c] \in Call /\ OnItsRoute(calls[c]) /\ calls[c].pc = "streaming"
    BY CallFacts DEF Streams
  <1>2. Candidates \subseteq Serials
    BY DEF CallsInv, AccessoriesTypeOK, Candidates
  <1>3. Goes(c, new)
    BY DEF Streams
  <1>4. /\ new \in Call /\ new.pc = "streaming" /\ new.request = calls[c].request /\ new.answered = calls[c].answered
        /\ new.toAsk = calls[c].toAsk /\ new.since = calls[c].since /\ new.status = calls[c].status
        /\ new.left = calls[c].left
    BY <1>1, <1>2 DEF Call
  <1>. HIDE DEF new
  <1>5. Follows(calls[c], new) /\ KeepsList(calls[c], new)
    BY <1>1, <1>4 DEF Follows, GoodCall, OnItsRoute, KeepsList, HasItsList
  <1>. QED  BY <1>3, <1>5, Quietly DEF Streams

LEMMA StreamEndsMinor == ASSUME CallsInv, NEW c \in Callers, StreamEnds(c) PROVE Minor(c)
  BY CallFacts, DoneFollows, Quietly DEF StreamEnds

LEMMA SendsPairMinor == ASSUME CallsInv, NEW c \in Callers, SendsPair(c) PROVE Minor(c)
  <1>. DEFINE new == [calls[c] EXCEPT !.pc = "asking"]
  <1>1. /\ calls[c] \in Call /\ OnItsRoute(calls[c]) /\ calls[c].status = 0
        /\ calls[c].pc = "sending" /\ calls[c].request.kind = "pair"
    BY CallFacts DEF SendsPair, At
  <1>2. PICK d \in Delivery :
          /\ device' = IF d.taken THEN Pairs(calls[c].request.serial) ELSE device
          /\ counts' = Faults(d)
          /\ Goes(c, IF d.told THEN new ELSE Done(502))
    BY DEF SendsPair
  <1>3. /\ new \in Call /\ new.pc = "asking" /\ new.request = calls[c].request
        /\ new.toAsk = calls[c].toAsk /\ new.since = calls[c].since /\ new.status = 0
    BY <1>1, GoesOn, PcsAre
  <1>. HIDE DEF new
  <1>4. Follows(calls[c], new) /\ KeepsList(calls[c], new)
    BY <1>1, <1>3, SameRequest DEF OnItsRoute, KeepsList, HasItsList
  <1>5. \E made : Goes(c, made) /\ Follows(calls[c], made) /\ KeepsList(calls[c], made)
    BY <1>1, <1>2, <1>4, DoneFollows
  <1>6. calls[c].request.serial \in Serials
    BY <1>1 DEF OnItsRoute, HttpRequest
  <1>7. device' \in Device /\ device'.target = device.target /\ device'.left = device.left
    BY <1>2, <1>6, CallFacts, PairsMakes
  <1>. QED  BY <1>2, <1>5, <1>7, CallFacts, FaultsCounted DEF Minor, CountsTyped, SendsPair

LEMMA SendsForgetMinor == ASSUME CallsInv, NEW c \in Callers, SendsForget(c) PROVE Minor(c)
  <1>. DEFINE asks == [calls[c] EXCEPT !.pc = "asking"]
              writes == [asks EXCEPT !.written = TRUE]
              new == [writes EXCEPT !.left = ReadBack]
              entry == calls[c].request.entry
  <1>1. /\ calls[c] \in Call /\ OnItsRoute(calls[c]) /\ calls[c].status = 0
        /\ calls[c].pc = "sending" /\ calls[c].request.kind = "forget"
    BY CallFacts DEF SendsForget, At
  <1>2. PICK d \in Delivery :
          /\ device' = IF d.taken THEN Forgets(entry) ELSE device
          /\ counts' = Faults(d)
          /\ Goes(c, IF d.told THEN [calls[c] EXCEPT !.pc = "asking", !.written = TRUE, !.left = ReadBack]
                     ELSE Done(502))
    BY DEF SendsForget
  <1>3. [calls[c] EXCEPT !.pc = "asking", !.written = TRUE, !.left = ReadBack] = new
    OBVIOUS
  <1>4. /\ asks \in Call /\ asks.pc = "asking" /\ asks.request = calls[c].request
        /\ asks.toAsk = calls[c].toAsk /\ asks.since = calls[c].since /\ asks.status = 0
    BY <1>1, GoesOn, PcsAre
  <1>. HIDE DEF asks, entry
  <1>5. ASSUME NEW flag \in BOOLEAN PROVE [asks EXCEPT !.written = flag] \in Call
    BY <1>4 DEF Call
  <1>6. writes \in Call
    BY <1>5
  <1>7. /\ writes.pc = "asking" /\ writes.request = calls[c].request
        /\ writes.toAsk = calls[c].toAsk /\ writes.since = calls[c].since /\ writes.status = 0
    BY <1>4 DEF Call
  <1>. HIDE DEF writes
  <1>8. /\ new \in Call /\ new.pc = "asking" /\ new.request = calls[c].request
        /\ new.toAsk = calls[c].toAsk /\ new.since = calls[c].since /\ new.status = 0
    BY <1>6, <1>7, Windows DEF Call
  <1>. HIDE DEF new
  <1>9. Follows(calls[c], new) /\ KeepsList(calls[c], new)
    BY <1>1, <1>8, SameRequest DEF OnItsRoute, KeepsList, HasItsList
  <1>10. \E made : Goes(c, made) /\ Follows(calls[c], made) /\ KeepsList(calls[c], made)
    BY <1>1, <1>2, <1>3, <1>9, DoneFollows
  <1>11. device' \in Device /\ device'.target = device.target /\ device'.left = device.left
    BY <1>2, CallFacts, ForgetsMakes
  <1>. QED  BY <1>2, <1>10, <1>11, CallFacts, FaultsCounted DEF Minor, CountsTyped, SendsForget

LEMMA AsksAgainMinor == ASSUME CallsInv, NEW c \in Callers, AsksAgain(c) PROVE Minor(c)
  <1>. DEFINE new == [calls[c] EXCEPT !.pc = "asking"]
  <1>1. calls[c] \in Call /\ OnItsRoute(calls[c]) /\ calls[c].pc = "pausing" /\ calls[c].status = 0
    BY CallFacts DEF AsksAgain
  <1>2. Goes(c, new) \/ Goes(c, Done(409))
    BY DEF AsksAgain
  <1>3. /\ new \in Call /\ new.pc = "asking" /\ new.request = calls[c].request
        /\ new.toAsk = calls[c].toAsk /\ new.since = calls[c].since /\ new.status = 0
    BY <1>1, GoesOn, PcsAre
  <1>. HIDE DEF new
  <1>4. Follows(calls[c], new) /\ KeepsList(calls[c], new)
    BY <1>1, <1>3, SameRequest DEF OnItsRoute, KeepsList, HasItsList
  <1>. QED  BY <1>1, <1>2, <1>4, DoneFollows, Quietly DEF AsksAgain

LEMMA AsksNextMinor == ASSUME CallsInv, NEW c \in Callers, AsksNext(c) PROVE Minor(c)
  <1>1. calls[c] \in Call /\ OnItsRoute(calls[c]) /\ calls[c].pc = "collecting" /\ calls[c].status = 0
    BY CallFacts DEF AsksNext
  <1>2. PICK field \in calls[c].toAsk :
          \E d \in Delivery :
             /\ unreported' = IF d.taken THEN unreported \cup {field} ELSE unreported
             /\ counts' = Faults(d)
             /\ Goes(c, [calls[c] EXCEPT !.toAsk = @ \ {field}])
    BY DEF AsksNext
  <1>. DEFINE new == [calls[c] EXCEPT !.toAsk = @ \ {field}]
  <1>3. /\ new \in Call /\ new.pc = "collecting" /\ new.request = calls[c].request
        /\ new.toAsk \subseteq calls[c].toAsk /\ new.since = calls[c].since /\ new.status = 0
    BY <1>1 DEF Call
  <1>. HIDE DEF new
  <1>4. Follows(calls[c], new) /\ KeepsList(calls[c], new)
    BY <1>1, <1>3, SameRequest DEF OnItsRoute, KeepsList, HasItsList
  <1>5. Goes(c, new)
    BY <1>2 DEF new
  <1>. QED  BY <1>2, <1>4, <1>5, CallFacts, FaultsCounted DEF Minor, CountsTyped, AsksNext

LEMMA YieldsMinor == ASSUME CallsInv, NEW c \in Callers, Yields(c) PROVE Minor(c)
  <1>. DEFINE tells == [calls[c] EXCEPT !.told = @ \cup Fresh(calls[c])]
              new == [tells EXCEPT !.left = Quiet]
  <1>1. calls[c] \in Call /\ OnItsRoute(calls[c]) /\ calls[c].pc = "collecting" /\ calls[c].status = 0
    BY CallFacts DEF Yields
  <1>2. Fresh(calls[c]) \subseteq Fields
    BY DEF Fresh, Learned, CallsInv, AccessoriesTypeOK
  <1>3. Goes(c, [calls[c] EXCEPT !.told = @ \cup Fresh(calls[c]), !.left = Quiet])
    BY DEF Yields
  <1>4. [calls[c] EXCEPT !.told = @ \cup Fresh(calls[c]), !.left = Quiet] = new
    OBVIOUS
  <1>5. /\ tells \in Call /\ tells.pc = "collecting" /\ tells.request = calls[c].request
        /\ tells.toAsk = calls[c].toAsk /\ tells.since = calls[c].since /\ tells.status = 0
    BY <1>1, <1>2 DEF Call
  <1>. HIDE DEF tells
  <1>6. /\ new \in Call /\ new.pc = "collecting" /\ new.request = calls[c].request
        /\ new.toAsk = calls[c].toAsk /\ new.since = calls[c].since /\ new.status = 0
    BY <1>5, Windows DEF Call
  <1>. HIDE DEF new
  <1>7. Follows(calls[c], new) /\ KeepsList(calls[c], new)
    BY <1>1, <1>6, SameRequest DEF OnItsRoute, KeepsList, HasItsList
  <1>. QED  BY <1>3, <1>4, <1>7, Quietly DEF Yields

LEMMA CollectEndsMinor == ASSUME CallsInv, NEW c \in Callers, CollectEnds(c) PROVE Minor(c)
  BY CallFacts, DoneFollows, Quietly DEF CollectEnds

LEMMA LeavesMinor == ASSUME CallsInv, NEW c \in Callers, Leaves(c) PROVE Minor(c)
  BY CallFacts, DoneFollows, Quietly DEF Leaves

-----------------------------------------------------------------------------
(* The steps that change more than that.                                   *)

Begins(r, since, pc, toAsk, left) ==
    [NoCall EXCEPT !.request = r, !.since = since, !.pc = pc, !.toAsk = toAsk, !.left = left]

LEMMA Begun ==
    ASSUME NEW r \in HttpRequest, NEW since \in 0..MaxReports, NEW pc \in Pcs,
           NEW toAsk \in SUBSET Fields, NEW left \in 0..Window
    PROVE  LET new == Begins(r, since, pc, toAsk, left) IN
           /\ new \in Call /\ new.request = r /\ new.since = since /\ new.pc = pc
           /\ new.toAsk = toAsk /\ new.status = 0
  <1>. DEFINE n1 == [NoCall EXCEPT !.request = r]
              n2 == [n1 EXCEPT !.since = since]
              n3 == [n2 EXCEPT !.pc = pc]
              n4 == [n3 EXCEPT !.toAsk = toAsk]
              n5 == [n4 EXCEPT !.left = left]
  <1>1. Begins(r, since, pc, toAsk, left) = n5
    BY DEF Begins
  <1>2. NoCall \in Call /\ NoCall.status = 0
    BY NoCallGood DEF GoodCall, NoCall
  <1>3. n1 \in Call /\ n1.request = r /\ n1.status = 0
    BY <1>2 DEF Call
  <1>. HIDE DEF n1
  <1>4. n2 \in Call /\ n2.request = r /\ n2.status = 0 /\ n2.since = since
    BY <1>3 DEF Call
  <1>. HIDE DEF n2
  <1>5. n3 \in Call /\ n3.request = r /\ n3.status = 0 /\ n3.since = since /\ n3.pc = pc
    BY <1>4 DEF Call
  <1>. HIDE DEF n3
  <1>6. n4 \in Call /\ n4.request = r /\ n4.status = 0 /\ n4.since = since /\ n4.pc = pc /\ n4.toAsk = toAsk
    BY <1>5 DEF Call
  <1>. HIDE DEF n4
  <1>7. n5 \in Call /\ n5.request = r /\ n5.status = 0 /\ n5.since = since /\ n5.pc = pc /\ n5.toAsk = toAsk
    BY <1>6 DEF Call
  <1>. HIDE DEF n5
  <1>. QED  BY <1>1, <1>7

LEMMA BeginKeeps ==
    ASSUME CallsInv, NEW c \in Callers, NEW r \in Asking, Begin(c, r)
    PROVE  CallsInv' /\ (CandidateInv /\ NothingReadsFound => CandidateInv')
  <1>. DEFINE pc == CASE r.kind = "pair" -> "sending" [] r.kind = "read" -> "collecting" [] OTHER -> "asking"
              toAsk == IF r.kind = "read" THEN r.wanted ELSE {}
              left == IF r.kind = "read" THEN Quiet ELSE 0
  <1>1. /\ r \in HttpRequest /\ r.kind \in {"search", "pair", "forget", "read"}
        /\ r.kind = "read" => r.wanted \subseteq Fields
    BY DEF HttpRequest
  <1>2. /\ pc \in {"sending", "collecting", "asking"}
        /\ pc = "sending" => r.kind = "pair"
        /\ pc = "collecting" => r.kind = "read"
        /\ pc = "asking" => r.kind \in {"search", "forget"}
    BY <1>1
  <1>3. /\ calls \in [Callers -> Call] /\ counts.reports \in 0..MaxReports
        /\ \A d \in Callers : OnItsRoute(calls[d])
        /\ counts.calls \in 0..MaxCalls /\ counts.calls < MaxCalls
        /\ CountsTyped(counts)
    BY DEF CallsInv, AccessoriesTypeOK, Begin, CountsTyped
  <1>4. /\ toAsk \in SUBSET Fields /\ left \in 0..Window /\ pc \in Pcs
    BY <1>1, <1>2, Windows DEF Pcs
  <1>5. Goes(c, Begins(r, counts.reports, pc, toAsk, left))
    BY DEF Begin, Begins
  <1>. HIDE DEF pc, toAsk, left
  <1>. DEFINE new == Begins(r, counts.reports, pc, toAsk, left)
  <1>6. /\ Goes(c, new) /\ new \in Call /\ new.request = r /\ new.since = counts.reports
        /\ new.pc = pc /\ new.toAsk = toAsk /\ new.status = 0
    <2>1. Goes(c, new)
      BY <1>5
    <2>2. /\ new \in Call /\ new.request = r /\ new.since = counts.reports
          /\ new.pc = pc /\ new.toAsk = toAsk /\ new.status = 0
      BY <1>1, <1>3, <1>4, Begun
    <2>. QED  BY <2>1, <2>2
  <1>. HIDE DEF new
  <1>7. OnItsRoute(new) /\ ~ HasItsList(new) /\ new.pc # "streaming"
    BY <1>1, <1>2, <1>6 DEF OnItsRoute, HasItsList
  <1>8. /\ calls' \in [Callers -> Call] /\ calls'[c] = new
        /\ \A d \in Callers : d # c => calls'[d] = calls[d]
    BY <1>3, <1>6 DEF Goes
  <1>9. \A d \in Callers : OnItsRoute(calls'[d])
    BY <1>3, <1>7, <1>8
  <1>10. CountsTyped(counts') /\ counts'.faults = counts.faults /\ counts'.reports = counts.reports
    BY <1>3 DEF Begin, CountsTyped
  <1>11. UNCHANGED <<device, unreported, identity, searches>> /\ calls[c].pc \in {"idle", "done"}
    BY DEF Begin
  <1>12. AccessoriesTypeOK'
    <2>1. \A d \in Callers : calls'[d].pc = "done" <=> calls'[d].status # 0
      BY <1>9 DEF OnItsRoute
    <2>. QED  BY <1>8, <1>10, <1>11, <2>1 DEF CallsInv, AccessoriesTypeOK, CountsTyped
  <1>13. WindowsFit'
    <2>1. Settled' => Settled
      <3>1. \A d \in Callers : Opening(d) => Opening(d)'
        BY <1>8, <1>11 DEF Opening, At
      <3>. QED  BY <3>1, <1>10 DEF Settled
    <2>. QED  BY <2>1, <1>7, <1>8, <1>11 DEF CallsInv, WindowsFit
  <1>14. ASSUME CandidateInv, NothingReadsFound PROVE CandidateInv'
    <2>1. "found" \notin toAsk
      BY <1>14 DEF toAsk, NothingReadsFound
    <2>2. NothingAsksForFound'
      BY <1>6, <1>8, <1>11, <1>14, <2>1 DEF CandidateInv, NothingAsksForFound
    <2>3. \A d \in Callers :
            /\ calls'[d].since <= counts'.reports
            /\ HasItsList(calls'[d]) /\ "found" \in identity'.reported => calls'[d].since < identity'.at
      BY <1>3, <1>6, <1>7, <1>8, <1>10, <1>11, <1>14 DEF CandidateInv, FoundInside
    <2>4. FoundInside'
      BY <1>10, <1>11, <1>14, <2>3 DEF CandidateInv, FoundInside, HasItsList
    <2>. QED  BY <2>2, <2>4 DEF CandidateInv
  <1>. QED  BY <1>9, <1>12, <1>13, <1>14, <1>11 DEF CallsInv, ListAlone

(* A search is opened, or joined for as long as it has left.               *)
LEMMA OpensKeeps ==
    ASSUME CallsInv, NEW c \in Callers, Opens(c)
    PROVE  CallsInv' /\ (CandidateInv => CandidateInv')
  <1>. DEFINE joins == searches.target = calls[c].request.target /\ searches.left > 0
              pc == IF joins THEN "streaming" ELSE "sending"
              goes == [calls[c] EXCEPT !.pc = pc]
              new == [goes EXCEPT !.left = searches'.left]
              old == calls[c]
  <1>1. /\ old \in Call /\ OnItsRoute(old) /\ old.pc = "opening" /\ old.status = 0
        /\ old.request \in HttpRequest /\ old.request.kind = "search"
    BY CallFacts DEF Opens, OnItsRoute
  <1>2. /\ calls \in [Callers -> Call] /\ \A d \in Callers : OnItsRoute(calls[d])
        /\ searches \in [target : DOMAIN Nearby \cup {NoSerial}, left : 0..Window]
    BY DEF CallsInv, AccessoriesTypeOK
  <1>3. old.request.target \in DOMAIN Nearby
    BY <1>1 DEF HttpRequest
  <1>4. searches' = IF joins THEN searches ELSE [target |-> old.request.target, left |-> Window]
    BY DEF Opens
  <1>5. searches' \in [target : DOMAIN Nearby \cup {NoSerial}, left : 0..Window]
    BY <1>2, <1>3, <1>4, Windows
  <1>6. Goes(c, [calls[c] EXCEPT !.pc = pc, !.left = searches'.left])
    BY DEF Opens
  <1>7. [calls[c] EXCEPT !.pc = pc, !.left = searches'.left] = new
    OBVIOUS
  <1>8. UNCHANGED <<device, unreported, identity, counts>>
    BY DEF Opens
  <1>. HIDE DEF joins
  <1>9. pc \in Pcs
    BY PcsAre
  <1>10. /\ goes \in Call /\ goes.pc = pc /\ goes.request = old.request /\ goes.toAsk = old.toAsk
         /\ goes.since = old.since /\ goes.status = 0 /\ goes.answered = old.answered
    BY <1>1, <1>9, GoesOn
  <1>. HIDE DEF goes
  <1>11. /\ new \in Call /\ new.pc = pc /\ new.request = old.request /\ new.toAsk = old.toAsk
         /\ new.since = old.since /\ new.status = 0 /\ new.answered = old.answered
         /\ new.left = searches'.left
    BY <1>5, <1>10 DEF Call
  <1>. HIDE DEF new
  <1>12. OnItsRoute(new)
    BY <1>1, <1>11 DEF OnItsRoute
  <1>13. /\ calls' \in [Callers -> Call] /\ calls'[c] = new
         /\ \A d \in Callers : d # c => calls'[d] = calls[d]
    BY <1>2, <1>6, <1>7, <1>11 DEF Goes
  <1>14. \A d \in Callers : OnItsRoute(calls'[d])
    BY <1>2, <1>12, <1>13
  <1>15. AccessoriesTypeOK'
    <2>1. \A d \in Callers : calls'[d].pc = "done" <=> calls'[d].status # 0
      BY <1>14 DEF OnItsRoute
    <2>. QED  BY <1>5, <1>8, <1>13, <2>1 DEF CallsInv, AccessoriesTypeOK
  <1>16. WindowsFit'
    <2>. SUFFICES ASSUME Settled'
                  PROVE  /\ searches'.target = device'.target => searches'.left <= device'.left
                         /\ \A d \in Callers :
                              calls'[d].pc = "streaming" /\ calls'[d].request.target = device'.target =>
                                  calls'[d].left <= device'.left
      BY DEF WindowsFit
    <2>1. Settled
      <3>1. \A d \in Callers : Opening(d) => d # c /\ Opening(d)'
        BY <1>1, <1>8, <1>13 DEF Opening, At
      <3>. QED  BY <3>1, <1>8 DEF Settled
    <2>2. CASE joins
      BY <2>1, <2>2, <1>4, <1>8, <1>11, <1>13 DEF CallsInv, WindowsFit, joins
    <2>3. CASE ~ joins
      <3>1. ~ Opening(c)'
        BY DEF Settled
      <3>2. new.pc = "sending"
        BY <2>3, <1>11
      <3>3. device'.target # old.request.target
        BY <3>1, <3>2, <1>1, <1>11, <1>13 DEF Opening, At
      <3>. QED  BY <2>1, <2>3, <3>2, <3>3, <1>4, <1>8, <1>13 DEF CallsInv, WindowsFit
    <2>. QED  BY <2>2, <2>3
  <1>17. ASSUME CandidateInv PROVE CandidateInv'
    <2>1. NothingAsksForFound'
      BY <1>8, <1>11, <1>13, <1>17 DEF CandidateInv, NothingAsksForFound
    <2>2. HasItsList(new) => HasItsList(old)
      BY <1>1, <1>11 DEF HasItsList
    <2>3. \A d \in Callers :
            /\ calls'[d].since <= counts'.reports
            /\ HasItsList(calls'[d]) /\ "found" \in identity'.reported => calls'[d].since < identity'.at
      BY <1>8, <1>11, <1>13, <1>17, <2>2 DEF CandidateInv, FoundInside
    <2>4. FoundInside'
      BY <1>8, <1>17, <2>3 DEF CandidateInv, FoundInside, HasItsList
    <2>. QED  BY <2>1, <2>4 DEF CandidateInv
  <1>. QED  BY <1>14, <1>15, <1>16, <1>17, <1>8 DEF CallsInv, ListAlone

(* The search is sent, and whoever waits on a window waits no longer than  *)
(* the device's new one; or the window is closed.                          *)
LEMMA SendsSearchKeeps ==
    ASSUME CallsInv, NEW c \in Callers, SendsSearch(c)
    PROVE  CallsInv' /\ (CandidateInv => CandidateInv')
  <1>. DEFINE old == calls[c]
              goes == [old EXCEPT !.pc = "streaming"]
  <1>1. /\ old \in Call /\ OnItsRoute(old) /\ old.pc = "sending" /\ old.status = 0
        /\ old.request \in HttpRequest /\ old.request.kind = "search"
        /\ device \in Device /\ CountsTyped(counts)
    BY CallFacts DEF SendsSearch, OnItsRoute, At
  <1>2. /\ calls \in [Callers -> Call] /\ \A d \in Callers : OnItsRoute(calls[d])
        /\ searches \in [target : DOMAIN Nearby \cup {NoSerial}, left : 0..Window]
    BY DEF CallsInv, AccessoriesTypeOK
  <1>3. old.request.target \in DOMAIN Nearby
    BY <1>1 DEF HttpRequest
  <1>4. PICK f \in Delivery :
          /\ device' = IF f.taken THEN Browses(old.request.target) ELSE device
          /\ counts' = Faults(f)
          /\ searches' = IF f.told THEN searches ELSE [searches EXCEPT !.left = 0]
          /\ Goes(c, IF f.told THEN goes ELSE Done(502))
    BY DEF SendsSearch
  <1>5. UNCHANGED <<unreported, identity>>
    BY DEF SendsSearch
  <1>. DEFINE new == IF f.told THEN goes ELSE Done(502)
  <1>6. /\ goes \in Call /\ goes.pc = "streaming" /\ goes.request = old.request /\ goes.toAsk = old.toAsk
        /\ goes.since = old.since /\ goes.status = 0 /\ goes.answered = old.answered /\ goes.left = old.left
    BY <1>1, GoesOn, PcsAre
  <1>. HIDE DEF goes
  <1>7. OnItsRoute(goes)
    BY <1>1, <1>6 DEF OnItsRoute
  <1>8. /\ GoodCall(new) /\ new.toAsk \subseteq old.toAsk /\ (new.since = old.since \/ new.since = 0)
        /\ HasItsList(new) => HasItsList(old) /\ new.since = old.since
    BY <1>1, <1>6, <1>7, DoneGood DEF GoodCall, HasItsList
  <1>9. /\ calls' \in [Callers -> Call] /\ calls'[c] = new
        /\ \A d \in Callers : d # c => calls'[d] = calls[d]
    BY <1>2, <1>4, <1>8 DEF Goes, GoodCall
  <1>10. \A d \in Callers : OnItsRoute(calls'[d])
    BY <1>2, <1>8, <1>9 DEF GoodCall
  <1>11. /\ CountsTyped(counts') /\ counts'.reports = counts.reports
         /\ counts'.faults = 0 => f.taken /\ f.told
    BY <1>1, <1>4, FaultsCounted DEF CountsTyped
  <1>12. searches' \in [target : DOMAIN Nearby \cup {NoSerial}, left : 0..Window]
    BY <1>2, <1>4, Windows
  <1>13. device' \in Device
    BY <1>1, <1>3, <1>4, BrowsesMakes
  <1>. HIDE DEF new
  <1>14. AccessoriesTypeOK'
    <2>1. \A d \in Callers : calls'[d].pc = "done" <=> calls'[d].status # 0
      BY <1>10 DEF OnItsRoute
    <2>. QED  BY <1>5, <1>9, <1>11, <1>12, <1>13, <2>1 DEF CallsInv, AccessoriesTypeOK, CountsTyped
  <1>15. WindowsFit'
    <2>. SUFFICES ASSUME Settled'
                  PROVE  /\ searches'.target = device'.target => searches'.left <= device'.left
                         /\ \A d \in Callers :
                              calls'[d].pc = "streaming" /\ calls'[d].request.target = device'.target =>
                                  calls'[d].left <= device'.left
      BY DEF WindowsFit
    <2>1. device'.left = Window
      BY <1>1, <1>3, <1>4, <1>11, BrowsesMakes DEF Settled
    <2>2. \A d \in Callers : calls'[d].left \in 0..Window
      BY <1>9 DEF Call
    <2>. QED  BY <2>1, <2>2, <1>12
  <1>16. ASSUME CandidateInv PROVE CandidateInv'
    <2>1. NothingAsksForFound'
      BY <1>5, <1>8, <1>9, <1>16 DEF CandidateInv, NothingAsksForFound
    <2>2. counts.reports \in Nat
      BY <1>1 DEF CountsTyped
    <2>3. \A d \in Callers :
            /\ calls'[d].since <= counts'.reports
            /\ HasItsList(calls'[d]) /\ "found" \in identity'.reported => calls'[d].since < identity'.at
      BY <1>5, <1>8, <1>9, <1>11, <1>16, <2>2 DEF CandidateInv, FoundInside
    <2>4. FoundInside'
      BY <1>5, <1>11, <1>16, <2>3 DEF CandidateInv, FoundInside, HasItsList
    <2>. QED  BY <2>1, <2>4 DEF CandidateInv
  <1>. QED  BY <1>10, <1>14, <1>15, <1>16, <1>5 DEF CallsInv, ListAlone

(* The device reports.  Its list is no candidate, and a candidate comes    *)
(* after every request that is waiting.                                    *)
LEMMA ReportedListKeeps ==
    ASSUME CallsInv, ReportsList({"list"}), unreported' \subseteq unreported, calls' = calls, searches' = searches,
           CountsTyped(counts'), counts'.faults = counts.faults, counts'.reports \in {counts.reports, counts.reports + 1}
    PROVE  CallsInv' /\ (CandidateInv => CandidateInv')
  <1>1. PICK list \in {device.reported, device.entries} :
          /\ device' = [device EXCEPT !.reported = list]
          /\ identity' = [identity EXCEPT !.reported = {"list"}, !.list = list,
                                          !.learned = @ \cup {"list"}]
    BY DEF ReportsList
  <1>2. device \in Device /\ list \in Lists /\ CountsTyped(counts)
    BY DEF CallsInv, AccessoriesTypeOK, Device, CountsTyped
  <1>3. device' \in Device /\ device'.target = device.target /\ device'.left = device.left
    BY <1>1, <1>2 DEF Device
  <1>4. identity' = [reported |-> {"list"}, list |-> list, found |-> identity.found, at |-> identity.at,
                     learned |-> identity.learned \cup {"list"}]
    BY <1>1 DEF CallsInv, AccessoriesTypeOK
  <1>5. /\ identity' \in [reported : SUBSET Fields, list : Lists, found : Serials \cup {NoSerial},
                           at : 0..MaxReports, learned : SUBSET Fields]
        /\ identity'.reported \subseteq identity'.learned
    BY <1>2, <1>4 DEF CallsInv, AccessoriesTypeOK, Fields
  <1>6. AccessoriesTypeOK'
    BY <1>3, <1>5 DEF CallsInv, AccessoriesTypeOK, CountsTyped
  <1>7. WindowsFit' /\ \A c \in Callers : OnItsRoute(calls'[c])
    BY <1>3 DEF CallsInv, WindowsFit, Settled, Opening, At
  <1>8. ASSUME CandidateInv PROVE CandidateInv'
    <2>1. "found" \notin identity'.reported /\ identity'.at = identity.at
      BY <1>4
    <2>2. counts.reports \in Nat
      BY <1>2 DEF CountsTyped
    <2>3. identity.at \in Nat /\ \A c \in Callers : calls[c].since \in Nat
      BY DEF CallsInv, AccessoriesTypeOK, Call
    <2>. QED  BY <1>8, <2>1, <2>2, <2>3 DEF CandidateInv, NothingAsksForFound, FoundInside, HasItsList
  <1>. QED  BY <1>6, <1>7, <1>8, <1>4 DEF CallsInv, ListAlone

LEMMA VolunteersKeeps == ASSUME CallsInv, Volunteers PROVE CallsInv' /\ (CandidateInv => CandidateInv')
  <1>1. CountsTyped(counts') /\ counts'.faults = counts.faults /\ counts'.reports = counts.reports + 1
    BY DEF Volunteers, CallsInv, AccessoriesTypeOK, CountsTyped
  <1>. QED  BY <1>1, ReportedListKeeps DEF Volunteers

LEMMA AnswersReadKeeps ==
    ASSUME CallsInv, NEW field \in unreported, AnswersRead(field)
    PROVE  CallsInv' /\ (CandidateInv => CandidateInv')
  <1>0. CountsTyped(counts) /\ field \in Fields
    BY DEF CallsInv, AccessoriesTypeOK, CountsTyped
  <1>1. CASE field = "list"
    <2>1. ReportsList({"list"}) /\ unreported' \subseteq unreported /\ UNCHANGED <<searches, calls, counts>>
      BY <1>1 DEF AnswersRead
    <2>. QED  BY <2>1, <1>0, ReportedListKeeps
  <1>2. CASE field # "list"
    <2>1. /\ identity' = [identity EXCEPT !.reported = {field}, !.learned = @ \cup {field}]
          /\ UNCHANGED <<device, searches, calls, counts>>
          /\ unreported' = unreported \ {field}
      BY <1>2 DEF AnswersRead
    <2>2. identity' = [reported |-> {field}, list |-> identity.list, found |-> identity.found,
                       at |-> identity.at, learned |-> identity.learned \cup {field}]
      BY <2>1 DEF CallsInv, AccessoriesTypeOK
    <2>3. AccessoriesTypeOK'
      BY <1>0, <2>1, <2>2 DEF CallsInv, AccessoriesTypeOK
    <2>4. WindowsFit' /\ \A c \in Callers : OnItsRoute(calls'[c])
      BY <2>1 DEF CallsInv, WindowsFit, Settled, Opening, At
    <2>5. ASSUME CandidateInv PROVE CandidateInv'
      <3>1. "found" \notin identity'.reported /\ identity'.at = identity.at
        BY <2>2, <2>5 DEF CandidateInv, NothingAsksForFound
      <3>. QED  BY <2>1, <2>5, <3>1 DEF CandidateInv, NothingAsksForFound, FoundInside
    <2>. QED  BY <2>3, <2>4, <2>5, <2>2 DEF CallsInv, ListAlone
  <1>. QED  BY <1>1, <1>2

LEMMA ReportsFoundKeeps ==
    ASSUME CallsInv, NEW serial \in Serials, ReportsFound(serial)
    PROVE  CallsInv' /\ (CandidateInv => CandidateInv')
  <1>1. /\ device' = [device EXCEPT !.found = @ \cup {serial}]
        /\ identity' = [identity EXCEPT !.reported = {"found"}, !.found = serial,
                                        !.at = counts.reports + 1, !.learned = @ \cup {"found"}]
        /\ UNCHANGED <<unreported, searches, calls>>
        /\ counts' = [counts EXCEPT !.reports = @ + 1] /\ counts.reports < MaxReports
    BY DEF ReportsFound
  <1>2. CountsTyped(counts') /\ counts'.faults = counts.faults /\ counts'.reports = counts.reports + 1
        /\ counts.reports \in Nat
    BY <1>1 DEF CallsInv, AccessoriesTypeOK, CountsTyped
  <1>3. device' \in Device /\ device'.target = device.target /\ device'.left = device.left
    BY <1>1 DEF CallsInv, AccessoriesTypeOK, Device
  <1>4. identity' = [reported |-> {"found"}, list |-> identity.list, found |-> serial,
                     at |-> counts.reports + 1, learned |-> identity.learned \cup {"found"}]
    BY <1>1 DEF CallsInv, AccessoriesTypeOK
  <1>5. AccessoriesTypeOK'
    BY <1>1, <1>2, <1>3, <1>4 DEF CallsInv, AccessoriesTypeOK, CountsTyped, Fields
  <1>6. WindowsFit' /\ \A c \in Callers : OnItsRoute(calls'[c])
    BY <1>1, <1>2, <1>3 DEF CallsInv, WindowsFit, Settled, Opening, At
  <1>7. ASSUME CandidateInv PROVE CandidateInv'
    <2>1. identity'.reported = {"found"} /\ identity'.at = counts.reports + 1
      BY <1>4
    <2>2. \A c \in Callers : calls[c].since \in Nat
      BY DEF CallsInv, AccessoriesTypeOK, Call
    <2>. QED  BY <1>1, <1>2, <1>7, <2>1, <2>2 DEF CandidateInv, NothingAsksForFound, FoundInside
  <1>. QED  BY <1>5, <1>6, <1>7, <1>4 DEF CallsInv, ListAlone

(* Time takes as much from every window.                                   *)
LEMMA ElapsesKeeps == ASSUME CallsInv, Elapses PROVE CallsInv' /\ (CandidateInv => CandidateInv')
  <1>. DEFINE older(call) == [call EXCEPT !.left = Less(@)]
  <1>1. /\ device \in Device /\ calls \in [Callers -> Call]
        /\ \A c \in Callers : OnItsRoute(calls[c])
        /\ searches \in [target : DOMAIN Nearby \cup {NoSerial}, left : 0..Window]
    BY DEF CallsInv, AccessoriesTypeOK
  <1>2. ASSUME NEW call \in Call
        PROVE  /\ older(call) \in Call /\ older(call).pc = call.pc /\ older(call).request = call.request
               /\ older(call).status = call.status /\ older(call).since = call.since
               /\ older(call).toAsk = call.toAsk /\ older(call).answered = call.answered
               /\ older(call).left = Less(call.left)
    <2>. DEFINE n == Less(call.left)
    <2>1. n \in 0..Window
      BY Windows DEF Call
    <2>2. older(call) = [call EXCEPT !.left = n]
      BY DEF Call
    <2>. HIDE DEF n
    <2>3. LET new == [call EXCEPT !.left = n] IN
          /\ new \in Call /\ new.pc = call.pc /\ new.request = call.request
          /\ new.status = call.status /\ new.since = call.since
          /\ new.toAsk = call.toAsk /\ new.answered = call.answered /\ new.left = n
      BY <2>1 DEF Call
    <2>. HIDE DEF older
    <2>. QED  BY <2>2, <2>3 DEF n
  <1>3. calls' = [c \in Callers |-> older(calls[c])]
    BY DEF Elapses
  <1>. HIDE DEF older
  <1>4. /\ calls' \in [Callers -> Call]
        /\ \A c \in Callers :
             /\ calls'[c].pc = calls[c].pc /\ calls'[c].request = calls[c].request
             /\ calls'[c].status = calls[c].status /\ calls'[c].since = calls[c].since
             /\ calls'[c].toAsk = calls[c].toAsk /\ calls'[c].answered = calls[c].answered
             /\ calls'[c].left = Less(calls[c].left)
    BY <1>1, <1>2, <1>3
  <1>5. \A c \in Callers : calls[c].left \in 0..Window
    BY <1>1 DEF Call
  <1>6. device' \in Device /\ device'.target = device.target /\ device'.left = Less(device.left)
    <2>1. Less(device.left) \in 0..Window
      BY <1>1, Windows DEF Device
    <2>. QED  BY <1>1, <2>1 DEF Elapses, Device
  <1>7. /\ searches' \in [target : DOMAIN Nearby \cup {NoSerial}, left : 0..Window]
        /\ searches'.target = searches.target /\ searches'.left = Less(searches.left)
    <2>1. Less(searches.left) \in 0..Window
      BY <1>1, Windows
    <2>. QED  BY <1>1, <2>1 DEF Elapses
  <1>8. UNCHANGED <<unreported, identity, counts>>
    BY DEF Elapses
  <1>9. \A c \in Callers : OnItsRoute(calls'[c])
    BY <1>1, <1>4 DEF OnItsRoute
  <1>10. AccessoriesTypeOK'
    <2>1. \A d \in Callers : calls'[d].pc = "done" <=> calls'[d].status # 0
      BY <1>9 DEF OnItsRoute
    <2>. QED  BY <1>4, <1>6, <1>7, <1>8, <2>1 DEF CallsInv, AccessoriesTypeOK
  <1>11. WindowsFit'
    <2>1. Settled' => Settled
      BY <1>4, <1>6, <1>8 DEF Settled, Opening, At
    <2>2. device.left \in 0..Window /\ searches.left \in 0..Window
      BY <1>1 DEF Device
    <2>. QED  BY <2>1, <2>2, <1>4, <1>5, <1>6, <1>7, Windows DEF CallsInv, WindowsFit
  <1>12. CandidateInv => CandidateInv'
    BY <1>4, <1>8 DEF CandidateInv, NothingAsksForFound, FoundInside, HasItsList
  <1>. QED  BY <1>9, <1>10, <1>11, <1>12, <1>8 DEF CallsInv, ListAlone

-----------------------------------------------------------------------------
(* Every step of a handler is one of those.                                *)
LEMMA HandlerKeeps ==
    ASSUME CallsInv, NEW c \in Callers, Handles(c) \/ Leaves(c)
    PROVE  CallsInv' /\ (CandidateInv => CandidateInv')
  <1>1. CASE AsksForList(c)   BY <1>1, AsksForListMinor, MinorKeeps
  <1>2. CASE Reads(c)         BY <1>2, ReadsMinor, MinorKeeps
  <1>3. CASE ReadTimesOut(c)  BY <1>3, ReadTimesOutMinor, MinorKeeps
  <1>4. CASE ForgetsFirst(c)  BY <1>4, ForgetsFirstMinor, MinorKeeps
  <1>5. CASE Opens(c)         BY <1>5, OpensKeeps
  <1>6. CASE SendsSearch(c)   BY <1>6, SendsSearchKeeps
  <1>7. CASE Streams(c)       BY <1>7, StreamsMinor, MinorKeeps
  <1>8. CASE StreamEnds(c)    BY <1>8, StreamEndsMinor, MinorKeeps
  <1>9. CASE SendsPair(c)     BY <1>9, SendsPairMinor, MinorKeeps
  <1>10. CASE SendsForget(c)  BY <1>10, SendsForgetMinor, MinorKeeps
  <1>11. CASE AsksAgain(c)    BY <1>11, AsksAgainMinor, MinorKeeps
  <1>12. CASE AsksNext(c)     BY <1>12, AsksNextMinor, MinorKeeps
  <1>13. CASE Yields(c)       BY <1>13, YieldsMinor, MinorKeeps
  <1>14. CASE CollectEnds(c)  BY <1>14, CollectEndsMinor, MinorKeeps
  <1>15. CASE Leaves(c)       BY <1>15, LeavesMinor, MinorKeeps
  <1>. QED  BY <1>1, <1>2, <1>3, <1>4, <1>5, <1>6, <1>7, <1>8, <1>9, <1>10, <1>11, <1>12, <1>13,
               <1>14, <1>15 DEF Handles

LEMMA CallsNextSound ==
    ASSUME CallsInv, [AccessoriesNext]_accessoriesVars
    PROVE  CallsInv' /\ (CandidateInv /\ NothingReadsFound => CandidateInv')
  <1>1. CASE \E c \in Callers, request \in Asking : Begin(c, request)
    BY <1>1, BeginKeeps
  <1>2. CASE \E c \in Callers : Handles(c) \/ Leaves(c)
    BY <1>2, HandlerKeeps
  <1>3. CASE Volunteers
    BY <1>3, VolunteersKeeps
  <1>4. CASE \E serial \in Serials : ReportsFound(serial)
    BY <1>4, ReportsFoundKeeps
  <1>5. CASE \E field \in unreported : AnswersRead(field)
    BY <1>5, AnswersReadKeeps
  <1>6. CASE Elapses
    BY <1>6, ElapsesKeeps
  <1>7. CASE UNCHANGED accessoriesVars
    BY <1>7 DEF accessoriesVars, CallsInv, AccessoriesTypeOK, OnItsRoute, WindowsFit, Settled, Opening, At,
         ListAlone, CandidateInv, NothingAsksForFound, FoundInside, HasItsList
  <1>. QED  BY <1>1, <1>2, <1>3, <1>4, <1>5, <1>6, <1>7 DEF AccessoriesNext

-----------------------------------------------------------------------------
(* What holds of every instance                                            *)

(* The invariant, and with it the type of every variable: whatever routes  *)
(* are asked, in whatever order their handlers, the device and time move.  *)
THEOREM AccessoriesInvariant == AccessoriesSpec => []CallsInv
  <1>1. AccessoriesInit => CallsInv
    BY CallsInitSound
  <1>2. CallsInv /\ [AccessoriesNext]_accessoriesVars => CallsInv'
    BY CallsNextSound
  <1>. QED  BY <1>1, <1>2, PTL DEF AccessoriesSpec

THEOREM AccessoriesTypeCorrect == AccessoriesSpec => []AccessoriesTypeOK
  <1>1. CallsInv => AccessoriesTypeOK
    BY DEF CallsInv
  <1>. QED  BY <1>1, AccessoriesInvariant, PTL

(* Nobody streams for longer than the device searches, whoever opened the  *)
(* search and however many joined it (Searches::open).                     *)
THEOREM StreamsAlwaysWithinWindow == AccessoriesSpec => []StreamsWithinWindow
  <1>1. CallsInv => StreamsWithinWindow
    BY DEF CallsInv, WindowsFit, Settled, Opening, StreamsWithinWindow
  <1>. QED  BY <1>1, AccessoriesInvariant, PTL

(* While no caller asks for the register a search reports its candidates   *)
(* in, a candidate told is never one left over (stream_candidates, whose   *)
(* comment says nothing reads it; a read of all registers does).           *)
THEOREM CandidateIsNeverLeftover ==
    ASSUME NothingReadsFound
    PROVE  AccessoriesSpec => []CandidateIsNotLeftover
  <1>1. AccessoriesInit => CallsInv /\ CandidateInv
    BY CallsInitSound
  <1>2. (CallsInv /\ CandidateInv) /\ [AccessoriesNext]_accessoriesVars => (CallsInv /\ CandidateInv)'
    BY CallsNextSound
  <1>3. CallsInv /\ CandidateInv => CandidateIsNotLeftover
    <2>. SUFFICES ASSUME CallsInv, CandidateInv, NEW c \in Callers, calls[c].pc = "streaming", calls[c].answered,
                         Candidates # {}, identity.at <= calls[c].since
                  PROVE  FALSE
      BY DEF CandidateIsNotLeftover
    <2>1. HasItsList(calls[c]) /\ "found" \in identity.reported
      BY DEF HasItsList, Candidates
    <2>2. calls[c].since < identity.at /\ identity.at \in Nat /\ calls[c].since \in Nat
      BY <2>1 DEF CandidateInv, FoundInside, CallsInv, AccessoriesTypeOK, Call
    <2>. QED  BY <2>2
  <1>. QED  BY <1>1, <1>2, <1>3, PTL DEF AccessoriesSpec

(* A handler's step is of its own call.                                    *)
LEMMA OneCallGoes ==
    ASSUME NEW c \in Callers, Handles(c) \/ Leaves(c)
    PROVE  \E new : Goes(c, new)
  <1>1. CASE AsksForList(c)   BY <1>1 DEF AsksForList
  <1>2. CASE Reads(c)         BY <1>2 DEF Reads
  <1>3. CASE ReadTimesOut(c)  BY <1>3 DEF ReadTimesOut
  <1>4. CASE ForgetsFirst(c)  BY <1>4 DEF ForgetsFirst
  <1>5. CASE Opens(c)         BY <1>5 DEF Opens
  <1>6. CASE SendsSearch(c)   BY <1>6 DEF SendsSearch
  <1>7. CASE Streams(c)       BY <1>7 DEF Streams
  <1>8. CASE StreamEnds(c)    BY <1>8 DEF StreamEnds
  <1>9. CASE SendsPair(c)     BY <1>9 DEF SendsPair
  <1>10. CASE SendsForget(c)  BY <1>10 DEF SendsForget
  <1>11. CASE AsksAgain(c)    BY <1>11 DEF AsksAgain
  <1>12. CASE AsksNext(c)     BY <1>12 DEF AsksNext
  <1>13. CASE Yields(c)       BY <1>13 DEF Yields
  <1>14. CASE CollectEnds(c)  BY <1>14 DEF CollectEnds
  <1>15. CASE Leaves(c)       BY <1>15 DEF Leaves
  <1>. QED  BY <1>1, <1>2, <1>3, <1>4, <1>5, <1>6, <1>7, <1>8, <1>9, <1>10, <1>11, <1>12, <1>13,
               <1>14, <1>15 DEF Handles

(* A step that ends a reader well has told every field wanted that was     *)
(* ever reported (ConfigReader::answers).                                  *)
LEMMA EndsWellComplete ==
    ASSUME CallsInv, AccessoriesNext, NEW c \in Callers, calls[c].pc = "collecting", calls'[c].status = 200
    PROVE  identity.learned \cap calls[c].request.wanted \subseteq calls[c].told
  <1>1. /\ calls \in [Callers -> Call] /\ calls[c] \in Call /\ calls[c].status = 0
    BY CallFacts DEF CallsInv, AccessoriesTypeOK
  <1>2. ASSUME calls'[c].status = calls[c].status PROVE FALSE
    BY <1>1, <1>2
  <1>3. ASSUME NEW d \in Callers, NEW new, Goes(d, new), d # c PROVE FALSE
    BY <1>1, <1>3, <1>2 DEF Goes
  <1>4. ASSUME Elapses PROVE FALSE
    <2>1. calls'[c] = [calls[c] EXCEPT !.left = Less(@)]
      BY <1>4 DEF Elapses
    <2>2. calls'[c].status = calls[c].status
      BY <1>1, <2>1 DEF Call
    <2>. QED  BY <1>2, <2>2
  <1>5. ASSUME UNCHANGED calls PROVE FALSE
    BY <1>5, <1>2
  <1>6. Handles(c) \/ Leaves(c)
    <2>1. ASSUME NEW d \in Callers, Handles(d) \/ Leaves(d), d # c PROVE FALSE
      <3>1. PICK new : Goes(d, new)
        BY <2>1, OneCallGoes
      <3>. QED  BY <2>1, <3>1, <1>3
    <2>2. ASSUME NEW d \in Callers, NEW r \in Asking, Begin(d, r) PROVE FALSE
      <3>1. d # c
        BY <2>2 DEF Begin
      <3>2. PICK new : Goes(d, new)
        BY <2>2 DEF Begin
      <3>. QED  BY <3>1, <3>2, <1>3
    <2>. QED  BY <2>1, <2>2, <1>4, <1>5 DEF AccessoriesNext, Volunteers, ReportsFound, AnswersRead
  <1>7. AsksNext(c) \/ Yields(c) \/ CollectEnds(c) \/ Leaves(c)
    BY <1>6 DEF Handles, AsksForList, Reads, ReadTimesOut, ForgetsFirst, Opens, SendsSearch,
         Streams, StreamEnds, SendsPair, SendsForget, AsksAgain, At
  <1>8. ASSUME NEW new, Goes(c, new) PROVE new.status = 200
    BY <1>1, <1>8 DEF Goes
  <1>9. ASSUME AsksNext(c) PROVE FALSE
    <2>1. PICK field : Goes(c, [calls[c] EXCEPT !.toAsk = @ \ {field}])
      BY <1>9 DEF AsksNext
    <2>. DEFINE new == [calls[c] EXCEPT !.toAsk = @ \ {field}]
    <2>2. new.status = 0 /\ Goes(c, new)
      BY <1>1, <2>1 DEF Call
    <2>. HIDE DEF new
    <2>. QED  BY <2>1, <2>2, <1>8
  <1>10. ASSUME Yields(c) PROVE FALSE
    <2>. DEFINE told == calls[c].told \cup Fresh(calls[c])
    <2>1. Goes(c, [calls[c] EXCEPT !.told = told, !.left = Quiet])
      BY <1>10 DEF Yields
    <2>. HIDE DEF told
    <2>. DEFINE new == [calls[c] EXCEPT !.told = told, !.left = Quiet]
    <2>2. new.status = 0 /\ Goes(c, new)
      BY <1>1, <2>1 DEF Call
    <2>. HIDE DEF new
    <2>. QED  BY <2>1, <2>2, <1>8
  <1>11. ASSUME Leaves(c) PROVE FALSE
    BY <1>8, <1>11, DoneGood DEF Leaves
  <1>12. CollectEnds(c)
    BY <1>7, <1>9, <1>10, <1>11
  <1>. QED  BY <1>12 DEF CollectEnds, Fresh, Learned

THEOREM ReadAlwaysComplete == AccessoriesSpec => ReadIsComplete
  <1>. DEFINE Whole ==
         \A c \in Callers :
           calls[c].pc = "collecting" /\ calls'[c].status = 200
               => identity.learned \cap calls[c].request.wanted \subseteq calls[c].told
  <1>1. CallsInv /\ [AccessoriesNext]_accessoriesVars => [Whole]_accessoriesVars
    BY EndsWellComplete
  <1>2. AccessoriesSpec => [][Whole]_accessoriesVars
    BY <1>1, AccessoriesInvariant, PTL DEF AccessoriesSpec
  <1>. QED  BY <1>2 DEF ReadIsComplete
=============================================================================
