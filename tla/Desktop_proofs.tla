---------- MODULE Desktop_proofs ----------
(* MCDesktop keeps its promises for every value of the constants: its parts *)
(* one after another, then the four statements about all of them. *)
(*                                                                            *)
(* A behaviour is one of a single part (PartRuns): "part" never changes, the *)
(* others stay as they are, and each starts in one of its own initial states. *)
(* So each statement follows from those of the parts, which stand here *)
(* (LinkHealth, Discovery, FileDownload, Updater, VersionLock, CommandLine, *)
(* WebdavMount, GalleryScan, ThumbnailPool) but for Relays and Shell. Their *)
(* proofs are in AttachmentDownload_proofs, which Heard instantiates; that *)
(* its definitions are those of MCDesktop is shown one by one. *)
EXTENDS MCDesktop, FiniteSets, FiniteSetTheorems, SequenceTheorems, FunctionTheorems, TLAPS

--------------------
(* Sets of natural numbers *)

(* A finite set of numbers has a greatest one: the one with the fewest above. *)
LEMMA HasMax ==
    ASSUME NEW S \in SUBSET Nat, IsFiniteSet(S), S # {}
    PROVE  \E x \in S : \A y \in S : y <= x
<1> DEFINE Above(x) == {y \in S : x < y}
           F == {Above(x) : x \in S}
           R == StrictSubsetOrdering(Nat)
<1>1. IsWellFoundedOn(R, FiniteSubsetsOf(Nat)) BY FS_StrictSubsetOrderingWellFounded
<1>2. \A x \in S : Above(x) \in FiniteSubsetsOf(Nat)
  <2> TAKE x \in S
  <2>1. IsFiniteSet(Above(x)) BY FS_Subset, Above(x) \in SUBSET S
  <2> QED BY <2>1 DEF FiniteSubsetsOf
<1>3. F \subseteq FiniteSubsetsOf(Nat) /\ F # {} BY <1>2
<1>4. \E f \in F : \A g \in F : ~ (<<g, f>> \in R)
  <2> HIDE DEF F, R
  <2> QED BY <1>1, <1>3, WFMin
<1>5. PICK x \in S : \A g \in F : ~ (<<g, Above(x)>> \in R) BY <1>4
<1>6. ASSUME NEW y \in S, x < y PROVE FALSE
  <2>1. \A z \in S : z \in Nat OBVIOUS
  <2>2. \A z \in S : y < z => x < z BY <1>6, <2>1
  <2>3. y \in Above(x) /\ y \notin Above(y) BY <1>6, <2>1
  <2>4. Above(y) \subseteq Above(x) /\ Above(y) # Above(x) BY <2>2, <2>3
  <2>5. <<Above(y), Above(x)>> \in R BY <2>4 DEF StrictSubsetOrdering
  <2> QED BY <1>5, <2>5
<1> QED BY <1>6

(* So is a set of numbers that is not empty least somewhere. *)
LEMMA LeastNat ==
    ASSUME NEW T, T \subseteq Nat, T # {}
    PROVE  \E x \in T : \A y \in T : x <= y
<1> DEFINE Upto(x) == 0..x
           F == {Upto(x) : x \in T}
           R == StrictSubsetOrdering(Nat)
<1>1. IsWellFoundedOn(R, FiniteSubsetsOf(Nat)) BY FS_StrictSubsetOrderingWellFounded
<1>2. \A x \in T : Upto(x) \in FiniteSubsetsOf(Nat)
  <2> TAKE x \in T
  <2>1. IsFiniteSet(0..x) BY FS_Interval
  <2> QED BY <2>1 DEF FiniteSubsetsOf
<1>3. F \subseteq FiniteSubsetsOf(Nat) /\ F # {} BY <1>2
<1>4. \E f \in F : \A g \in F : ~ (<<g, f>> \in R)
  <2> HIDE DEF F, R
  <2> QED BY <1>1, <1>3, WFMin
<1>5. PICK x \in T : \A g \in F : ~ (<<g, Upto(x)>> \in R) BY <1>4
<1>6. ASSUME NEW y \in T, y < x PROVE FALSE
  <2>1. x \in Nat /\ y \in Nat OBVIOUS
  <2>2. x \in Upto(x) /\ x \notin Upto(y) BY <2>1, <1>6
  <2>3. Upto(y) \subseteq Upto(x) /\ Upto(y) # Upto(x) BY <2>1, <1>6, <2>2
  <2>4. <<Upto(y), Upto(x)>> \in R BY <2>1, <2>3 DEF StrictSubsetOrdering
  <2> QED BY <1>5, <2>4
<1> QED BY <1>6

Ascending(s, S) ==
    /\ s \in [1..Cardinality(S) -> S]
    /\ \A i, j \in DOMAIN s : i < j => s[i] < s[j]

Lists(s, S) == \A x \in S : \E i \in DOMAIN s : s[i] = x

(* Every finite set of numbers can be listed in ascending order: a smallest *)
(* one that cannot would lack its greatest element, and be listed before it. *)
LEMMA HasAscending ==
    ASSUME NEW S \in SUBSET Nat, IsFiniteSet(S)
    PROVE  \E s : Ascending(s, S) /\ Lists(s, S)
<1> DEFINE Ordered(T) == \E s : Ascending(s, T) /\ Lists(s, T)
           Bad == {n \in Nat : \E T \in SUBSET Nat :
                                  IsFiniteSet(T) /\ Cardinality(T) = n /\ ~Ordered(T)}
<1>1. ASSUME Bad # {} PROVE FALSE
  <2>1. PICK n \in Bad : \A m \in Bad : n <= m BY <1>1, LeastNat
  <2>2. PICK T \in SUBSET Nat : IsFiniteSet(T) /\ Cardinality(T) = n /\ ~Ordered(T) BY <2>1
  <2>3. CASE T = {}
    <3>1. Cardinality(T) = 0 BY <2>3, FS_EmptySet
    <3>2. Ascending([i \in 1..0 |-> 0], T) /\ Lists([i \in 1..0 |-> 0], T)
      BY <2>3, <3>1 DEF Ascending, Lists
    <3> QED BY <2>2, <3>2
  <2>4. CASE T # {}
    <3>1. PICK x \in T : \A y \in T : y <= x BY <2>2, <2>4, HasMax
    <3> DEFINE U == T \ {x}
    <3>2. IsFiniteSet(U) /\ Cardinality(U) = n - 1 /\ n \in Nat
      BY <2>2, FS_RemoveElement, FS_CardinalityType
    <3>3. Cardinality(U) \in Nat BY <3>2, FS_CardinalityType
    <3>4. n - 1 \notin Bad BY <2>1, <3>2, <3>3
    <3>5. PICK s : Ascending(s, U) /\ Lists(s, U) BY <3>2, <3>3, <3>4
    <3>6. s \in [1..(n - 1) -> U] BY <3>2, <3>5 DEF Ascending
    <3> DEFINE r == [i \in 1..n |-> IF i = n THEN x ELSE s[i]]
    <3>7. n \in 1..n /\ \A i \in 1..n : i # n => i \in 1..(n - 1) BY <3>2, <3>3
    <3>8. r \in [1..n -> T] BY <3>6, <3>7
    <3>9. ASSUME NEW i \in 1..n, NEW j \in 1..n, i < j PROVE r[i] < r[j]
      <4>1. i # n /\ i \in 1..(n - 1) /\ r[i] = s[i] /\ s[i] \in U BY <3>2, <3>6, <3>7, <3>9
      <4>2. CASE j = n
        <5>1. r[j] = x /\ s[i] # x /\ s[i] <= x BY <4>1, <4>2, <3>1
        <5>2. s[i] \in Nat /\ x \in Nat BY <4>1
        <5> QED BY <4>1, <5>1, <5>2
      <4>3. CASE j # n
        <5>1. j \in 1..(n - 1) BY <3>7, <4>3
        <5> QED BY <3>5, <3>6, <3>9, <4>1, <4>3, <5>1 DEF Ascending
      <4> QED BY <4>2, <4>3
    <3>10. ASSUME NEW y \in T PROVE \E i \in 1..n : r[i] = y
      <4>1. CASE y = x BY <3>7, <4>1
      <4>2. CASE y # x
        <5>1. PICK i \in 1..(n - 1) : s[i] = y BY <3>5, <3>6, <4>2 DEF Lists
        <5>2. i \in 1..n /\ i # n BY <3>2
        <5> QED BY <5>1, <5>2
      <4> QED BY <4>1, <4>2
    <3>11. Ascending(r, T) BY <2>2, <3>8, <3>9 DEF Ascending
    <3>12. Lists(r, T) BY <3>10 DEF Lists
    <3> QED BY <2>2, <3>11, <3>12
  <2> QED BY <2>3, <2>4
<1>2. Cardinality(S) \in Nat BY FS_CardinalityType
<1> QED BY <1>1, <1>2

(* A list in ascending order leaves no number out. *)
LEMMA AscendingLists ==
    ASSUME NEW S \in SUBSET Nat, IsFiniteSet(S), NEW s, Ascending(s, S)
    PROVE  s \in Seq(S) /\ Lists(s, S) /\ \A i, j \in DOMAIN s : s[i] = s[j] => i = j
<1> DEFINE n == Cardinality(S)
<1>1. n \in Nat BY FS_CardinalityType
<1>2. s \in [1..n -> S] /\ \A i, j \in 1..n : i < j => s[i] < s[j] BY DEF Ascending
<1>3. \A i \in 1..n : s[i] \in Nat BY <1>2
<1>4. \A i, j \in 1..n : s[i] = s[j] => i = j
  <2> TAKE i, j \in 1..n
  <2>1. i < j \/ j < i \/ i = j BY <1>1
  <2> QED BY <1>2, <1>3, <2>1
<1>5. s \in Injection(1..n, S) BY <1>2, <1>4 DEF Injection, IsInjective
<1>6. IsFiniteSet(1..n) /\ Cardinality(1..n) = n BY <1>1, FS_Interval
<1>7. s \in Surjection(1..n, S) BY <1>5, FS_Injection, <1>6
<1>8. s \in Seq(S) BY <1>1, <1>2
<1> QED BY <1>2, <1>4, <1>7, <1>8 DEF Surjection, Lists

--------------------
(* LinkHealth: connections whose phone is gone, or slept *)

(* Time since the phone has gone, against the time to the next ping. *)
Bound(s) ==
    IF sock[s] = "terminated" THEN 2 * Sockets!PingInterval
    ELSE IF s \in alive THEN Sockets!PingInterval - pingIn
    ELSE 2 * Sockets!PingInterval - pingIn

Clocks == pingIn \in 0..Sockets!PingInterval /\ gone \in [Connections -> 0..Sockets!Longest]

Tables ==
    /\ sock \in [Connections -> {"unused", "new", "stored", "closing", "terminated", "closed"}]
    /\ there \in [Connections -> BOOLEAN]
    /\ table \in [Sockets!Devices -> Connections \union {Nothing}]
    /\ \A d \in Sockets!Devices : table[d] # Nothing => DeviceOf[table[d]] = d

(* A phone that answers has not been gone, and does not come back once gone. *)
HereIsZero == \A s \in Connections : there[s] => gone[s] = 0

GoneIsBounded == \A s \in Sockets!Stored : gone[s] <= Bound(s)

Inv == Clocks /\ Tables /\ HereIsZero /\ GoneIsBounded

--------------------
LEMMA StoredAreSockets == ASSUME Tables PROVE Sockets!Stored \subseteq Connections
  BY DEF Tables, Sockets!Stored

LEMMA InvInit ==
    ASSUME Sockets!Init
    PROVE  Inv
<1>1. Sockets!Stored = {} /\ \A d \in Sockets!Devices : table[d] = Nothing
  BY DEF Sockets!Init, Sockets!Stored
<1>2. Clocks /\ Tables
  BY <1>1 DEF Sockets!Init, Clocks, Tables, Sockets!PingInterval, Sockets!Longest
<1>3. HereIsZero BY DEF Sockets!Init, HereIsZero
<1> QED BY <1>1, <1>2, <1>3 DEF Inv, GoneIsBounded

(* A step of a socket moves no clock and brings nobody back: what it adds to *)
(* the table or to those that answer has its phone there. *)
LEMMA SocketSteps ==
    ASSUME Inv, Tables', pingIn' = pingIn, gone' = gone,
           \A s \in Connections : there'[s] => there[s],
           \A s \in Sockets!Stored' : s \in Sockets!Stored \/ there[s],
           \A s \in alive' : s \in alive \/ there[s],
           \A s \in Sockets!Stored' : s \in alive => s \in alive' \/ gone[s] = 0,
           \A s \in Connections : sock[s] = "terminated" => sock'[s] = "terminated" \/ s \notin Sockets!Stored'
    PROVE  Inv'
<1>1. Clocks' BY DEF Inv, Clocks
<1>2. HereIsZero' BY DEF Inv, HereIsZero
<1>3. ASSUME NEW s \in Sockets!Stored' PROVE gone'[s] <= Bound(s)'
  <2>1. s \in Connections BY <1>3, StoredAreSockets DEF Tables, Sockets!Stored
  <2>2. gone[s] \in 0..25 /\ pingIn \in 0..6
    BY <2>1 DEF Inv, Clocks, Sockets!PingInterval, Sockets!Longest
  <2>3. CASE there[s]
    <3>1. gone'[s] = 0 BY <2>1, <2>3 DEF Inv, HereIsZero
    <3> QED BY <2>2, <3>1 DEF Bound, Sockets!PingInterval
  <2>4. CASE ~there[s]
    <3>1. gone[s] <= Bound(s) BY <1>3, <2>4 DEF Inv, GoneIsBounded
    <3> QED BY <1>3, <2>1, <2>2, <2>4, <3>1 DEF Bound, Sockets!PingInterval
  <2> QED BY <2>3, <2>4
<1> QED BY <1>1, <1>2, <1>3 DEF Inv, GoneIsBounded

LEMMA OpenStep ==
    ASSUME Inv, NEW s \in Connections, Sockets!Open(s) \/ Sockets!NotIdentified(s) \/ Sockets!DaemonCloses(s) \/ Sockets!PhoneVanishes(s) \/ Sockets!Pong(s)
    PROVE  Inv'
<1>1. Tables'
  BY DEF Inv, Tables, Sockets!Open, Sockets!NotIdentified, Sockets!DaemonCloses,
    Sockets!PhoneVanishes, Sockets!Pong
<1>2. /\ pingIn' = pingIn /\ gone' = gone /\ Sockets!Stored' = Sockets!Stored
      /\ \A t \in Connections : there'[t] => there[t]
      /\ \A t \in alive' : t \in alive \/ there[t]
      /\ alive \subseteq alive'
      /\ \A t \in Connections : sock[t] = "terminated" => sock'[t] = "terminated"
  BY DEF Inv, Tables, Sockets!Stored, Sockets!Open, Sockets!NotIdentified, Sockets!DaemonCloses,
    Sockets!PhoneVanishes, Sockets!Pong, Sockets!timerVars
<1> QED BY <1>1, <1>2, SocketSteps

LEMMA IdentifiedStep ==
    ASSUME Inv, NEW s \in Connections, Sockets!Identified(s)
    PROVE  Inv'
<1>1. DeviceOf[s] \in Sockets!Devices BY DEF Sockets!Devices
<1>2. Tables' BY <1>1 DEF Inv, Tables, Sockets!Identified
<1>3. Sockets!Stored' \subseteq Sockets!Stored \union {s}
  BY <1>1 DEF Inv, Tables, Sockets!Identified, Sockets!Stored
<1>4. /\ pingIn' = pingIn /\ gone' = gone /\ there' = there /\ there[s]
      /\ alive' = alive \union {s}
      /\ \A t \in Connections : sock[t] = "terminated" => sock'[t] = "terminated"
  BY DEF Sockets!Identified, Sockets!timerVars
<1> QED BY <1>2, <1>3, <1>4, SocketSteps

LEMMA ClosesStep ==
    ASSUME Inv, NEW s \in Connections, Sockets!Closes(s)
    PROVE  Inv'
<1>1. DeviceOf[s] \in Sockets!Devices BY DEF Sockets!Devices
<1>2. Tables' BY <1>1 DEF Inv, Tables, Sockets!Closes
<1>3. Sockets!Stored' \subseteq Sockets!Stored /\ s \notin Sockets!Stored'
  BY <1>1 DEF Inv, Tables, Sockets!Closes, Sockets!Stored
<1>4. /\ pingIn' = pingIn /\ gone' = gone /\ there' = there
      /\ alive \ {s} \subseteq alive' /\ alive' \subseteq alive
      /\ \A t \in Connections : t # s => sock'[t] = sock[t]
  BY DEF Sockets!Closes, Sockets!timerVars, Inv, Tables
<1> QED BY <1>2, <1>3, <1>4, SocketSteps

LEMMA BoundFacts ==
    ASSUME Inv, NEW s \in Sockets!Stored
    PROVE  /\ s \in Connections /\ gone[s] \in 0..25 /\ pingIn \in 0..6
           /\ gone[s] <= Bound(s) /\ gone[s] <= 12
<1>1. s \in Connections BY StoredAreSockets DEF Inv
<1>2. gone[s] \in 0..25 /\ pingIn \in 0..6
  BY <1>1 DEF Inv, Clocks, Sockets!PingInterval, Sockets!Longest
<1>3. gone[s] <= Bound(s) BY DEF Inv, GoneIsBounded
<1>4. gone[s] <= 12 BY <1>2, <1>3 DEF Bound, Sockets!PingInterval
<1> QED BY <1>1, <1>2, <1>3, <1>4

(* A timer terminates sockets; but for the ping timer it does nothing else. *)
LEMMA TerminateStep ==
    ASSUME Inv, Sockets!SleepTimer \/ Sockets!Resume
    PROVE  Inv'
<1>1. /\ there' = there /\ table' = table /\ alive' = alive /\ pingIn' = pingIn /\ gone' = gone
      /\ sock' = Sockets!Terminated(Sockets!Stored) \/ sock' = sock
  BY DEF Sockets!SleepTimer, Sockets!Resume, Sockets!timerVars
<1>2. Tables' BY <1>1 DEF Inv, Tables, Sockets!Terminated
<1>3. \A t \in Connections : sock[t] = "terminated" => sock'[t] = "terminated"
  BY <1>1 DEF Inv, Tables, Sockets!Terminated
<1>4. Sockets!Stored' = Sockets!Stored BY <1>1 DEF Sockets!Stored
<1> QED BY <1>1, <1>2, <1>3, <1>4, SocketSteps

LEMMA PingStep ==
    ASSUME Inv, Sockets!PingTimer
    PROVE  Inv'
<1>1. /\ there' = there /\ table' = table /\ gone' = gone
      /\ pingIn = 0 /\ pingIn' = Sockets!PingInterval
  BY DEF Sockets!PingTimer
<1>2. \A S : Sockets!Terminated(S) \in [Connections -> {"unused", "new", "stored", "closing", "terminated", "closed"}]
  BY DEF Sockets!Terminated, Inv, Tables
<1>3. Tables'
  <2>1. \E S : sock' = Sockets!Terminated(S) BY DEF Sockets!PingTimer
  <2> QED BY <1>1, <1>2, <2>1 DEF Inv, Tables
<1>4. Clocks' /\ HereIsZero' BY <1>1 DEF Inv, Clocks, HereIsZero, Sockets!PingInterval
<1>5. Sockets!Stored' = Sockets!Stored BY <1>1 DEF Sockets!Stored
<1>6. ASSUME NEW s \in Sockets!Stored PROVE gone[s] <= Bound(s)'
  <2>1. CASE sock'[s] = "terminated" BY <2>1, BoundFacts DEF Bound, Sockets!PingInterval
  <2>2. CASE sock'[s] # "terminated"
    <3>1. s \in Connections BY BoundFacts
    <3>2. ~Sockets!Asleep BY <2>2, <3>1 DEF Sockets!PingTimer, Sockets!Terminated
    <3>3. ~(age[s] > Sockets!StaleThreshold) /\ s \in alive /\ sock[s] # "terminated"
      BY <2>2, <3>1, <3>2 DEF Sockets!PingTimer, Sockets!Terminated
    <3>4. s \notin alive' BY <3>2, <3>3 DEF Sockets!PingTimer
    <3>5. gone[s] <= 6 BY <1>1, <3>3, BoundFacts DEF Bound, Sockets!PingInterval
    <3> QED BY <1>1, <2>2, <3>4, <3>5 DEF Bound, Sockets!PingInterval
  <2> QED BY <2>1, <2>2
<1> QED BY <1>1, <1>3, <1>4, <1>5, <1>6 DEF Inv, GoneIsBounded

(* Waking time passes only when no socket is left terminated. *)
LEMMA TickStep ==
    ASSUME Inv, Sockets!Tick
    PROVE  Inv'
<1>1. /\ sock' = sock /\ there' = there /\ table' = table /\ alive' = alive
      /\ pingIn > 0 /\ pingIn' = pingIn - 1
      /\ \A s \in Connections : sock[s] # "terminated"
  BY DEF Sockets!Tick, Sockets!Quiet
<1>2. pingIn \in 0..6 BY DEF Inv, Clocks, Sockets!PingInterval
<1>3. \A s \in Connections : gone[s] \in 0..25 BY DEF Inv, Clocks, Sockets!Longest
<1>4. \A s \in Connections :
          /\ gone'[s] \in 0..25 /\ gone'[s] <= gone[s] + 1
          /\ there[s] => gone'[s] = 0
  BY <1>3 DEF Sockets!Tick, Sockets!AtMost, Sockets!Longest
<1>5. Clocks'
  <2>1. gone' \in [Connections -> 0..25] BY <1>4 DEF Sockets!Tick
  <2> QED BY <1>1, <1>2, <2>1 DEF Clocks, Sockets!PingInterval, Sockets!Longest
<1>6. Tables' /\ HereIsZero' BY <1>1, <1>4 DEF Inv, Tables, HereIsZero
<1>7. Sockets!Stored' = Sockets!Stored BY <1>1 DEF Sockets!Stored
<1>8. ASSUME NEW s \in Sockets!Stored PROVE gone'[s] <= Bound(s)'
  BY <1>1, <1>2, <1>3, <1>4, BoundFacts DEF Bound, Sockets!PingInterval
<1> QED BY <1>5, <1>6, <1>7, <1>8 DEF Inv, GoneIsBounded

LEMMA SleepStep ==
    ASSUME Inv, NEW n \in Sleeps, Sockets!Sleep(n)
    PROVE  Inv'
<1>1. /\ sock' = sock /\ there' = there /\ table' = table /\ alive' = alive /\ gone' = gone
      /\ pingIn' \in {pingIn, 0}
  BY DEF Sockets!Sleep
<1>2. Clocks' BY <1>1 DEF Inv, Clocks, Sockets!PingInterval
<1>3. Tables' /\ HereIsZero' BY <1>1 DEF Inv, Tables, HereIsZero
<1>4. Sockets!Stored' = Sockets!Stored BY <1>1 DEF Sockets!Stored
<1>5. ASSUME NEW s \in Sockets!Stored PROVE gone'[s] <= Bound(s)'
  BY <1>1, BoundFacts DEF Bound, Sockets!PingInterval
<1> QED BY <1>2, <1>3, <1>4, <1>5 DEF Inv, GoneIsBounded

LEMMA InvStep == Inv /\ [Sockets!Next]_(Sockets!vars) => Inv'
<1> SUFFICES ASSUME Inv, [Sockets!Next]_(Sockets!vars) PROVE Inv'
  OBVIOUS
<1>1. CASE UNCHANGED Sockets!vars
  <2>1. Sockets!Stored' = Sockets!Stored BY <1>1 DEF Sockets!vars, Sockets!Stored
  <2>2. \A s : Bound(s)' = Bound(s) BY <1>1 DEF Sockets!vars, Bound
  <2> QED BY <1>1, <2>1, <2>2 DEF Sockets!vars, Inv, Clocks, Tables, HereIsZero, GoneIsBounded
<1> QED
  BY <1>1, OpenStep, IdentifiedStep, ClosesStep, TerminateStep, PingStep, TickStep, SleepStep
        DEF Sockets!Next

(* A connection whose phone is gone is terminated and leaves the table by the *)
(* second ping after that (websocket-server.ts, startPingTimer), whatever *)
(* sleeps, replacements and late answers come in between. *)
THEOREM DeadLeave == Sockets!Spec => []Sockets!DeadAreDropped
<1>1. Sockets!Init => Inv BY InvInit
<1>2. Inv => Sockets!DeadAreDropped BY BoundFacts DEF Sockets!DeadAreDropped, Sockets!PingInterval
<1> QED BY <1>1, <1>2, InvStep, PTL DEF Sockets!Spec

(* The clocks that DeadLeave does not need, and the sockets they are of. *)
Watches ==
    /\ alive \subseteq Connections /\ pinged \subseteq Connections
    /\ age \in [Connections -> 0..Sockets!Longest] /\ waits \in [Connections -> 0..Sockets!IdentityTimeout]
    /\ checkIn \in 0..Sockets!SleepCheck /\ drift \in 0..Sockets!Longest /\ slept \in 0..MaxSleeps

(* A stored socket is the one in the table. *)
Newest == \A s \in Connections : sock[s] = "stored" => table[DeviceOf[s]] = s

LEMMA AtMostBound == \A n \in Nat : Sockets!AtMost(n) \in 0..Sockets!Longest
  BY DEF Sockets!AtMost, Sockets!Longest

LEMMA WatchesStep ==
    ASSUME Sleeps \subseteq Nat, MaxSleeps \in Nat, Inv, Watches, [Sockets!Next]_(Sockets!vars)
    PROVE  Watches'
<1> USE DEF Watches
<1>0. Sockets!Stored \subseteq Connections BY StoredAreSockets DEF Inv
<1>1. CASE UNCHANGED Sockets!vars BY <1>1 DEF Sockets!vars
<1>2. ASSUME NEW s \in Connections,
             Sockets!Open(s) \/ Sockets!NotIdentified(s) \/ Sockets!DaemonCloses(s) \/ Sockets!PhoneVanishes(s) \/ Sockets!Closes(s)
      PROVE  Watches'
  <2>1. /\ alive' \subseteq alive /\ pinged' \subseteq pinged /\ UNCHANGED <<age, checkIn, drift, slept>>
        /\ waits' = waits \/ waits' = [waits EXCEPT ![s] = Sockets!IdentityTimeout]
    BY <1>2 DEF Sockets!Open, Sockets!NotIdentified, Sockets!DaemonCloses, Sockets!PhoneVanishes,
      Sockets!Closes, Sockets!timerVars
  <2>2. waits' \in [Connections -> 0..Sockets!IdentityTimeout] BY <2>1 DEF Sockets!IdentityTimeout
  <2> QED BY <2>1, <2>2
<1>3. ASSUME NEW s \in Connections, Sockets!Identified(s) \/ Sockets!Pong(s) PROVE Watches'
  <2>1. /\ alive' = alive \union {s} /\ age' = [age EXCEPT ![s] = 0] /\ pinged' \subseteq pinged
        /\ UNCHANGED <<waits, checkIn, drift, slept>>
    BY <1>3 DEF Sockets!Identified, Sockets!Pong, Sockets!timerVars
  <2>2. age' \in [Connections -> 0..Sockets!Longest] BY <2>1 DEF Sockets!Longest
  <2> QED BY <2>1, <2>2
<1>4. CASE Sockets!PingTimer
  <2>1. /\ alive' \subseteq alive /\ pinged' \subseteq pinged \union Sockets!Stored /\ drift' = 0
        /\ UNCHANGED <<age, waits, checkIn, slept>>
    BY <1>4 DEF Sockets!PingTimer
  <2> QED BY <1>0, <2>1 DEF Sockets!Longest
<1>5. CASE Sockets!SleepTimer BY <1>5 DEF Sockets!SleepTimer, Sockets!SleepCheck, Sockets!Longest
<1>6. CASE Sockets!Resume BY <1>6 DEF Sockets!Resume, Sockets!timerVars
<1>7. CASE Sockets!Tick
  <2>1. /\ checkIn > 0 /\ checkIn' = checkIn - 1 /\ drift' = Sockets!AtMost(drift + 1) /\ Sockets!Older(1)
        /\ \A s \in Connections : sock[s] = "new" => waits[s] > 0
        /\ waits' = [s \in Connections |-> IF sock[s] = "new" THEN waits[s] - 1 ELSE 0]
        /\ UNCHANGED <<alive, pinged, slept>>
    BY <1>7 DEF Sockets!Tick, Sockets!Quiet
  <2>2. checkIn' \in 0..Sockets!SleepCheck BY <2>1 DEF Sockets!SleepCheck
  <2>3. drift' \in 0..Sockets!Longest
    <3>1. drift + 1 \in Nat BY DEF Sockets!Longest
    <3> QED BY <2>1, <3>1, AtMostBound
  <2>4. age' \in [Connections -> 0..Sockets!Longest]
    <3>1. \A s \in Connections : age[s] + 1 \in Nat BY DEF Sockets!Longest
    <3>2. \A s \in Connections : Sockets!AtMost(age[s] + 1) \in 0..Sockets!Longest
      BY <3>1, AtMostBound
    <3>3. 0 \in 0..Sockets!Longest BY DEF Sockets!Longest
    <3> QED BY <2>1, <3>2, <3>3 DEF Sockets!Older
  <2>5. waits' \in [Connections -> 0..Sockets!IdentityTimeout]
    <3>1. \A s \in Connections : waits[s] > 0 => waits[s] - 1 \in 0..Sockets!IdentityTimeout
      BY DEF Sockets!IdentityTimeout
    <3>2. 0 \in 0..Sockets!IdentityTimeout BY DEF Sockets!IdentityTimeout
    <3> QED BY <2>1, <3>1, <3>2
  <2> QED BY <2>1, <2>2, <2>3, <2>4, <2>5
<1>8. ASSUME NEW n \in Sleeps, Sockets!Sleep(n) PROVE Watches'
  <2>1. /\ slept < MaxSleeps /\ slept' = slept + 1 /\ drift' = Sockets!AtMost(drift + n) /\ Sockets!Older(n)
        /\ checkIn' \in {checkIn, 0} /\ UNCHANGED <<alive, pinged, waits>>
    BY <1>8 DEF Sockets!Sleep
  <2>2. slept' \in 0..MaxSleeps BY <2>1
  <2>3. drift' \in 0..Sockets!Longest
    <3>1. drift + n \in Nat BY DEF Sockets!Longest
    <3> QED BY <2>1, <3>1, AtMostBound
  <2>4. age' \in [Connections -> 0..Sockets!Longest]
    <3>1. \A s \in Connections : age[s] + n \in Nat BY DEF Sockets!Longest
    <3>2. \A s \in Connections : Sockets!AtMost(age[s] + n) \in 0..Sockets!Longest
      BY <3>1, AtMostBound
    <3>3. 0 \in 0..Sockets!Longest BY DEF Sockets!Longest
    <3> QED BY <2>1, <3>2, <3>3 DEF Sockets!Older
  <2>5. checkIn' \in 0..Sockets!SleepCheck BY <2>1 DEF Sockets!SleepCheck
  <2> QED BY <2>1, <2>2, <2>3, <2>4, <2>5
<1> QED BY <1>1, <1>2, <1>3, <1>4, <1>5, <1>6, <1>7, <1>8 DEF Sockets!Next

LEMMA NewestStep ==
    ASSUME Inv, Newest, [Sockets!Next]_(Sockets!vars)
    PROVE  Newest'
<1>0. /\ Tables /\ sock \in [Connections -> {"unused", "new", "stored", "closing", "terminated", "closed"}]
      /\ table \in [Sockets!Devices -> Connections \union {Nothing}]
      /\ \A s \in Connections : DeviceOf[s] \in Sockets!Devices
  BY DEF Inv, Tables, Sockets!Devices
<1>1. ASSUME table' = table, \A t \in Connections : sock'[t] = "stored" => sock[t] = "stored"
      PROVE  Newest'
  BY <1>1 DEF Newest
<1>2. CASE UNCHANGED Sockets!vars BY <1>1, <1>2 DEF Sockets!vars
<1>3. ASSUME NEW s \in Connections, Sockets!Open(s) \/ Sockets!NotIdentified(s) \/ Sockets!DaemonCloses(s) \/ Sockets!PhoneVanishes(s) \/ Sockets!Pong(s)
      PROVE  Newest'
  BY <1>0, <1>1, <1>3 DEF Sockets!Open, Sockets!NotIdentified, Sockets!DaemonCloses,
    Sockets!PhoneVanishes, Sockets!Pong
<1>4. ASSUME NEW s \in Connections, Sockets!Identified(s) PROVE Newest'
  <2> DEFINE old == table[DeviceOf[s]]
  <2>1. /\ sock' = [t \in Connections |-> IF t = s THEN "stored"
                                          ELSE IF t = old /\ sock[t] = "stored" THEN "closing" ELSE sock[t]]
        /\ table' = [table EXCEPT ![DeviceOf[s]] = s]
    BY <1>4 DEF Sockets!Identified
  <2>2. ASSUME NEW t \in Connections, sock'[t] = "stored" PROVE table'[DeviceOf[t]] = t
    <3>1. CASE t = s BY <1>0, <2>1, <3>1
    <3>2. CASE t # s
      <4>1. sock[t] = "stored" /\ t # old BY <2>1, <2>2, <3>2
      <4>2. table[DeviceOf[t]] = t BY <4>1 DEF Newest
      <4>3. DeviceOf[t] # DeviceOf[s] BY <4>1, <4>2
      <4> QED BY <1>0, <2>1, <4>2, <4>3
    <3> QED BY <3>1, <3>2
  <2> QED BY <2>2 DEF Newest
<1>5. ASSUME NEW s \in Connections, Sockets!Closes(s) PROVE Newest'
  <2>1. /\ sock' = [sock EXCEPT ![s] = "closed"]
        /\ table' = table \/ (s \in Sockets!Stored /\ table' = [table EXCEPT ![DeviceOf[s]] = Nothing])
    BY <1>5 DEF Sockets!Closes
  <2>2. ASSUME NEW t \in Connections, sock'[t] = "stored" PROVE table'[DeviceOf[t]] = t
    <3>1. t # s /\ sock[t] = "stored" BY <1>0, <2>1, <2>2
    <3>2. table[DeviceOf[t]] = t BY <3>1 DEF Newest
    <3>3. CASE table' = table BY <3>2, <3>3
    <3>4. CASE s \in Sockets!Stored /\ table' = [table EXCEPT ![DeviceOf[s]] = Nothing]
      <4>1. PICK d \in Sockets!Devices : table[d] = s /\ s # Nothing BY <3>4 DEF Sockets!Stored
      <4>2. DeviceOf[s] = d BY <1>0, <4>1 DEF Tables
      <4>3. DeviceOf[t] # DeviceOf[s] BY <3>1, <3>2, <4>1, <4>2
      <4> QED BY <1>0, <3>2, <3>4, <4>3
    <3> QED BY <2>1, <3>3, <3>4
  <2> QED BY <2>2 DEF Newest
<1>6. CASE Sockets!PingTimer \/ Sockets!SleepTimer \/ Sockets!Resume
  <2>1. table' = table /\ (sock' = sock \/ \E S : sock' = Sockets!Terminated(S))
    BY <1>6 DEF Sockets!PingTimer, Sockets!SleepTimer, Sockets!Resume
  <2>2. \A S, t : t \in Connections /\ Sockets!Terminated(S)[t] = "stored" => sock[t] = "stored"
    BY DEF Sockets!Terminated
  <2> QED BY <1>1, <2>1, <2>2
<1>7. CASE Sockets!Tick \/ \E n \in Sleeps : Sockets!Sleep(n)
  <2>1. UNCHANGED <<table, sock>> BY <1>7 DEF Sockets!Tick, Sockets!Sleep
  <2> QED BY <1>1, <2>1
<1> QED BY <1>2, <1>3, <1>4, <1>5, <1>6, <1>7 DEF Sockets!Next

(* The clocks stay in their ranges, and at most one stored socket is of a *)
(* phone: the one in the table (websocket-server.ts, storeConnection). *)
THEOREM LinkTypesHold == Sleeps \subseteq Nat /\ MaxSleeps \in Nat => (Sockets!Spec => []Sockets!TypeOK)
<1> SUFFICES ASSUME Sleeps \subseteq Nat, MaxSleeps \in Nat PROVE Sockets!Spec => []Sockets!TypeOK
  OBVIOUS
<1> DEFINE TInv == Inv /\ Watches /\ Newest
<1>1. Sockets!Init => TInv
  <2> SUFFICES ASSUME Sockets!Init PROVE TInv
    OBVIOUS
  <2>1. Inv BY InvInit
  <2>2. Watches
    BY DEF Sockets!Init, Watches, Sockets!Longest, Sockets!IdentityTimeout, Sockets!SleepCheck
  <2>3. Newest BY DEF Sockets!Init, Newest
  <2> QED BY <2>1, <2>2, <2>3
<1>2. TInv /\ [Sockets!Next]_(Sockets!vars) => TInv' BY InvStep, WatchesStep, NewestStep
<1>3. TInv => Sockets!TypeOK BY DEF Sockets!TypeOK, Inv, Clocks, Tables, Watches, Newest
<1> HIDE DEF TInv
<1> QED BY <1>1, <1>2, <1>3, PTL DEF Sockets!Spec

(* A connection that has slept through more than the threshold is terminated *)
(* by whichever timer comes first, and no ping is sent on it *)
(* (websocket-server.ts, checkSleepDrift). *)
THEOREM SleepersAreLeft == Sockets!Spec => Sockets!SleepersAreNotPinged
<1>1. ASSUME [Sockets!Next]_(Sockets!vars), NEW s \in Sockets!Stored, drift > Sockets!SleepThreshold, s \notin pinged
      PROVE  s \notin pinged'
  <2>1. CASE Sockets!PingTimer
    <3>1. Sockets!Asleep BY <1>1 DEF Sockets!Asleep
    <3> QED BY <1>1, <2>1, <3>1 DEF Sockets!PingTimer
  <2>2. CASE ~Sockets!PingTimer
    <3>1. pinged' \subseteq pinged
      BY <1>1, <2>2 DEF Sockets!Next, Sockets!Open, Sockets!Identified, Sockets!NotIdentified,
        Sockets!DaemonCloses, Sockets!Closes, Sockets!PhoneVanishes, Sockets!Pong,
         Sockets!SleepTimer, Sockets!Resume, Sockets!Tick, Sockets!Sleep, Sockets!vars
    <3> QED BY <1>1, <3>1
  <2> QED BY <2>1, <2>2
<1>2. [Sockets!Next]_(Sockets!vars) => [\A s \in Sockets!Stored : drift > Sockets!SleepThreshold /\ s \notin pinged => s \notin pinged']_(Sockets!vars)
  BY <1>1
<1> QED BY <1>2, PTL DEF Sockets!Spec, Sockets!SleepersAreNotPinged

--------------------
(* Discovery: the list of phones, the beacon and the calls *)

Signs == [address : Addresses, age : 0..(LostAfter + 2)]
CallTimers == [address : Addresses, every : {3, 5}, left : 0..5]

FindTypes ==
    /\ udp \in {"off", "starting", "listening"}
    /\ beacon \in {Nothing} \union 0..1 /\ listCheck \in 0..1
    /\ devices \in [Phones -> {Nothing} \union Signs] /\ linked \in [Phones -> {Nothing} \union Addresses]
    /\ trusted \subseteq Phones /\ refused \subseteq Phones /\ removed \subseteq Phones
    /\ missed \subseteq Phones
    /\ known \in [Phones -> {Nothing} \union Addresses]
    /\ retry \in [Phones -> {Nothing} \union CallTimers]
    /\ ask \in {Nothing} \union [address : Addresses, left : 0..2]
    /\ heard \in [Phones -> {Nothing} \union Signs]
    /\ silence \in [Phones -> 0..7]
    /\ findTurns \in 0..MaxFindTurns /\ findStarts \in 0..MaxStarts

(* An entry of the list is the last sign, and it will be checked in time. *)
SignsListed ==
    /\ \A p \in Phones : devices[p] # Nothing =>
          /\ devices[p] = heard[p]
          /\ devices[p].age + listCheck <= LostAfter + 1
          /\ (udp # "listening" => devices[p].age = 0)
    /\ \A p \in Phones : heard[p] # Nothing /\ heard[p].age <= LostAfter => devices[p] # Nothing

(* The beacon runs while nobody is connected, and nobody waits for it long. *)
Lit ==
    /\ udp # "listening" => beacon = Nothing
    /\ udp = "listening" /\ (\A p \in Phones : linked[p] = Nothing) => beacon # Nothing
    /\ beacon # Nothing => \A p \in Phones : silence[p] + beacon <= 1

(* A paired phone of the list is in the file, or was taken out. *)
Filed == \A p \in Phones : p \in trusted /\ devices[p] # Nothing => known[p] # Nothing \/ p \in removed

(* Who left has a timer, which was started, or was due, when something was *)
(* sent. *)
Called ==
    /\ \A p \in Phones : linked[p] # Nothing => retry[p] = Nothing /\ p \notin missed
    /\ \A p \in Phones : retry[p] # Nothing => retry[p].left <= retry[p].every
    /\ \A p \in Phones : p \in missed /\ p \in trusted =>
          /\ retry[p] # Nothing
          /\ udp = "listening" => silence[p] + retry[p].left <= retry[p].every + 1

FindInv == FindTypes /\ SignsListed /\ Lit /\ Filed /\ Called

LEMMA FindTypesAre == FindTypes <=> Finding!TypeOK
  BY DEF FindTypes, Signs, CallTimers, Finding!TypeOK, Finding!Entries, Finding!Timers,
    Finding!Longest,
         Finding!BroadcastInterval, Finding!CheckInterval, Finding!ReconnectInterval,
         Finding!RecheckInterval, Finding!AskTimeout

LEMMA FindInit == Finding!DiscoveryConstants /\ Finding!Init => FindInv
<1> SUFFICES ASSUME Finding!DiscoveryConstants, Finding!Init PROVE FindInv
  OBVIOUS
<1>1. FindTypes BY DEF Finding!Init, FindTypes, Finding!DiscoveryConstants, Finding!CheckInterval
<1>2. SignsListed /\ Lit /\ Filed /\ Called BY DEF Finding!Init, SignsListed, Lit, Filed, Called
<1> QED BY <1>1, <1>2 DEF FindInv

(* To send something ends a silence. *)
LEMMA Sending ==
    ASSUME silence \in [Phones -> 0..7], NEW S, Finding!Silenced(S)
    PROVE  /\ silence' \in [Phones -> 0..7]
           /\ \A p \in Phones : silence'[p] = IF p \in S THEN 0 ELSE silence[p]
  BY DEF Finding!Silenced

(* Calls go on while something is sent and nobody comes or leaves. *)
LEMMA CallsGoOn ==
    ASSUME FindTypes, Called, trusted' \subseteq trusted, UNCHANGED <<linked, missed>>,
           \A p \in Phones : silence'[p] = silence[p] \/ silence'[p] = 0,
           \A p \in Phones : retry'[p] = retry[p] \/ (retry'[p] = Nothing /\ p \notin trusted'),
           udp' = udp \/ udp' # "listening" \/ \A p \in Phones : silence'[p] = 0
    PROVE  Called'
<1>1. ASSUME NEW p \in Phones, p \in missed', p \in trusted'
      PROVE  /\ retry'[p] # Nothing
             /\ udp' = "listening" => silence'[p] + retry'[p].left <= retry'[p].every + 1
  <2>1. p \in missed /\ p \in trusted /\ retry[p] # Nothing /\ retry'[p] = retry[p]
    BY <1>1 DEF Called
  <2>2. retry[p] \in CallTimers /\ silence[p] \in 0..7 BY <2>1 DEF FindTypes
  <2>3. retry[p].left <= retry[p].every BY <2>1 DEF Called
  <2>4. udp = "listening" => silence[p] + retry[p].left <= retry[p].every + 1 BY <2>1 DEF Called
  <2>5. retry[p].left \in 0..5 /\ retry[p].every \in {3, 5} BY <2>2 DEF CallTimers
  <2> QED BY <2>1, <2>2, <2>3, <2>4, <2>5
<1>2. \A p \in Phones : linked'[p] # Nothing => retry'[p] = Nothing /\ p \notin missed'
  BY DEF Called
<1>3. \A p \in Phones : retry'[p] # Nothing => retry'[p].left <= retry'[p].every BY DEF Called
<1> QED BY <1>1, <1>2, <1>3 DEF Called

LEMMA FindStart ==
    ASSUME Finding!DiscoveryConstants, FindInv, Finding!Start PROVE FindInv'
<1> DEFINE S == {p \in trusted : known[p] # Nothing}
<1>1. /\ udp = "off" /\ udp' = "starting" /\ Finding!Silenced(S)
      /\ findStarts < MaxStarts /\ findStarts' = findStarts + 1
      /\ UNCHANGED <<beacon, listCheck, devices, linked, trusted, refused, known, retry, ask, heard,
                     removed, missed, findTurns>>
  BY DEF Finding!Start
<1>2. /\ silence' \in [Phones -> 0..7]
      /\ \A p \in Phones : silence'[p] = silence[p] \/ silence'[p] = 0
  BY <1>1, Sending DEF FindInv, FindTypes
<1>3. FindTypes' BY <1>1, <1>2 DEF FindInv, FindTypes, Finding!DiscoveryConstants
<1>4. SignsListed' /\ Filed' BY <1>1 DEF FindInv, SignsListed, Filed
<1>5. Lit' BY <1>1 DEF FindInv, Lit
<1>6. Called' BY <1>1, <1>2, CallsGoOn DEF FindInv
<1> QED BY <1>3, <1>4, <1>5, <1>6 DEF FindInv

LEMMA FindListening ==
    ASSUME Finding!DiscoveryConstants, FindInv, Finding!Listening PROVE FindInv'
<1>1. /\ udp = "starting" /\ udp' = "listening" /\ Finding!Silenced(Phones)
      /\ beacon' = 1 /\ listCheck' = 1
      /\ UNCHANGED <<devices, linked, trusted, refused, known, retry, ask, heard, removed, missed, findTurns,
                     findStarts>>
  BY DEF Finding!Listening, Finding!BroadcastInterval, Finding!CheckInterval
<1>2. silence' \in [Phones -> 0..7] /\ \A p \in Phones : silence'[p] = 0
  BY <1>1, Sending DEF FindInv, FindTypes
<1>3. FindTypes' BY <1>1, <1>2 DEF FindInv, FindTypes
<1>4. SignsListed' BY <1>1 DEF FindInv, SignsListed, Finding!DiscoveryConstants
<1>5. Lit' BY <1>1, <1>2 DEF FindInv, Lit, Finding!DiscoveryConstants
<1>6. Filed' BY <1>1 DEF FindInv, Filed
<1>7. Called' BY <1>1, <1>2, CallsGoOn DEF FindInv
<1> QED BY <1>3, <1>4, <1>5, <1>6, <1>7 DEF FindInv

LEMMA FindStop ==
    ASSUME Finding!DiscoveryConstants, FindInv, Finding!Stop PROVE FindInv'
<1>1. /\ udp' = "off" /\ beacon' = Nothing /\ devices' = [p \in Phones |-> Nothing]
      /\ linked' = [p \in Phones |-> Nothing] /\ refused' = {} /\ retry' = [p \in Phones |-> Nothing]
      /\ ask' = Nothing /\ heard' = [p \in Phones |-> Nothing] /\ missed' = {}
      /\ UNCHANGED <<trusted, known, removed, silence, findTurns, listCheck, findStarts>>
  BY DEF Finding!Stop
<1>2. FindTypes' BY <1>1 DEF FindInv, FindTypes
<1>3. SignsListed' /\ Lit' /\ Filed' /\ Called' BY <1>1 DEF SignsListed, Lit, Filed, Called
<1> QED BY <1>2, <1>3 DEF FindInv

LEMMA FindBroadcast ==
    ASSUME Finding!DiscoveryConstants, FindInv, Finding!Broadcast PROVE FindInv'
<1>1. /\ beacon = 0 /\ beacon' = 1 /\ Finding!Silenced(Phones)
      /\ UNCHANGED <<udp, devices, linked, trusted, refused, known, retry, ask, heard, removed, findTurns,
                     listCheck, missed, findStarts>>
  BY DEF Finding!Broadcast, Finding!BroadcastInterval, Finding!rest
<1>2. silence' \in [Phones -> 0..7] /\ \A p \in Phones : silence'[p] = 0
  BY <1>1, Sending DEF FindInv, FindTypes
<1>3. FindTypes' BY <1>1, <1>2 DEF FindInv, FindTypes
<1>4. SignsListed' /\ Filed' BY <1>1 DEF FindInv, SignsListed, Filed
<1>5. Lit'
  <2>1. Nothing # 0 /\ Nothing # 1 BY DEF Finding!DiscoveryConstants
  <2> QED BY <1>1, <1>2, <2>1 DEF FindInv, Lit
<1>6. Called' BY <1>1, <1>2, CallsGoOn DEF FindInv
<1> QED BY <1>3, <1>4, <1>5, <1>6 DEF FindInv

(* What was not heard of for too long goes; the rest is good for one more *)
(* interval. *)
LEMMA FindCheck ==
    ASSUME Finding!DiscoveryConstants, FindInv, Finding!CheckReachability PROVE FindInv'
<1>1. /\ udp = "listening" /\ listCheck' = 1
      /\ devices' = [p \in Phones |->
                       IF devices[p] # Nothing /\ devices[p].age > LostAfter THEN Nothing ELSE devices[p]]
      /\ UNCHANGED <<udp, beacon, linked, trusted, refused, known, retry, ask, heard, removed, missed,
                     silence, findTurns, findStarts>>
  BY DEF Finding!CheckReachability, Finding!Running, Finding!CheckInterval
<1>2. devices' \in [Phones -> {Nothing} \union Signs] BY <1>1 DEF FindInv, FindTypes
<1>3. FindTypes' BY <1>1, <1>2 DEF FindInv, FindTypes
<1>4. SignsListed'
  <2>1. ASSUME NEW p \in Phones, devices'[p] # Nothing
        PROVE  devices'[p] = heard'[p] /\ devices'[p].age + listCheck' <= LostAfter + 1
    <3>1. devices[p] # Nothing /\ devices'[p] = devices[p] /\ ~(devices[p].age > LostAfter) BY <1>1, <2>1
    <3>2. devices[p].age \in 0..(LostAfter + 2) BY <3>1 DEF FindInv, FindTypes, Signs
    <3> QED BY <1>1, <3>1, <3>2 DEF FindInv, SignsListed, Finding!DiscoveryConstants
  <2>2. ASSUME NEW p \in Phones, heard'[p] # Nothing, heard'[p].age <= LostAfter PROVE devices'[p] # Nothing
    <3>1. devices[p] # Nothing /\ devices[p] = heard[p] BY <1>1, <2>2 DEF FindInv, SignsListed
    <3>2. devices[p].age \in 0..(LostAfter + 2) BY <3>1 DEF FindInv, FindTypes, Signs
    <3> QED BY <1>1, <2>2, <3>1, <3>2 DEF Finding!DiscoveryConstants
  <2> QED BY <1>1, <2>1, <2>2 DEF SignsListed
<1>5. Lit' BY <1>1 DEF FindInv, Lit
<1>6. Filed' BY <1>1 DEF FindInv, Filed
<1>7. Called' BY <1>1, CallsGoOn DEF FindInv
<1> QED BY <1>3, <1>4, <1>5, <1>6, <1>7 DEF FindInv

(* A sign of a phone. *)
LEMMA SignAdds ==
    ASSUME Finding!DiscoveryConstants, FindInv, NEW p \in Phones, NEW a \in Addresses,
           Finding!AddDevice(p, a), UNCHANGED <<udp, listCheck>>
    PROVE  /\ devices' \in [Phones -> {Nothing} \union Signs] /\ heard' \in [Phones -> {Nothing} \union Signs]
           /\ devices'[p] # Nothing /\ \A q \in Phones \ {p} : devices'[q] = devices[q]
           /\ SignsListed'
<1> DEFINE e == [address |-> a, age |-> 0]
<1>1. devices' = [devices EXCEPT ![p] = e] /\ heard' = [heard EXCEPT ![p] = e]
  BY DEF Finding!AddDevice, Finding!Sign
<1>2. e \in Signs /\ e.age = 0 BY DEF Signs, Finding!DiscoveryConstants
<1> HIDE DEF e
<1>3. e # Nothing BY <1>2 DEF Signs, Finding!DiscoveryConstants, Finding!Entries
<1>4. /\ devices' \in [Phones -> {Nothing} \union Signs] /\ heard' \in [Phones -> {Nothing} \union Signs]
      /\ devices'[p] = e /\ heard'[p] = e
      /\ \A q \in Phones \ {p} : devices'[q] = devices[q] /\ heard'[q] = heard[q]
  BY <1>1, <1>2 DEF FindInv, FindTypes
<1>5. SignsListed'
  <2>1. ASSUME NEW q \in Phones, devices'[q] # Nothing
        PROVE  /\ devices'[q] = heard'[q] /\ devices'[q].age + listCheck' <= LostAfter + 1
               /\ (udp' # "listening" => devices'[q].age = 0)
    <3>1. CASE q = p BY <1>2, <1>4, <3>1 DEF FindInv, FindTypes, Finding!DiscoveryConstants
    <3>2. CASE q # p BY <1>4, <2>1, <3>2 DEF FindInv, SignsListed
    <3> QED BY <3>1, <3>2
  <2>2. ASSUME NEW q \in Phones, heard'[q] # Nothing, heard'[q].age <= LostAfter PROVE devices'[q] # Nothing
    <3>1. CASE q = p BY <1>3, <1>4, <3>1
    <3>2. CASE q # p BY <1>4, <2>2, <3>2 DEF FindInv, SignsListed
    <3> QED BY <3>1, <3>2
  <2> QED BY <2>1, <2>2 DEF SignsListed
<1> QED BY <1>3, <1>4, <1>5

(* What is saved is in the file. *)
LEMMA SavesFiles ==
    ASSUME Finding!DiscoveryConstants, FindInv, NEW p \in Phones, NEW a \in Addresses,
           Finding!Saves(p, a)
    PROVE  /\ known' \in [Phones -> {Nothing} \union Addresses] /\ removed' \subseteq Phones
           /\ known'[p] # Nothing
           /\ \A q \in Phones \ {p} : known'[q] = known[q] /\ (q \in removed' <=> q \in removed)
<1>1. known' = [known EXCEPT ![p] = a] /\ removed' = removed \ {p} BY DEF Finding!Saves
<1>2. a # Nothing BY DEF Finding!DiscoveryConstants
<1> QED BY <1>1, <1>2 DEF FindInv, FindTypes

LEMMA FoundFiles ==
    ASSUME Finding!DiscoveryConstants, FindInv, NEW p \in Phones, NEW a \in Addresses,
           Finding!Found(p, a)
    PROVE  /\ known' \in [Phones -> {Nothing} \union Addresses] /\ removed' \subseteq Phones
           /\ p \in trusted => known'[p] # Nothing \/ p \in removed'
           /\ \A q \in Phones \ {p} : known'[q] = known[q] /\ (q \in removed' <=> q \in removed)
<1>1. CASE devices[p] = Nothing /\ p \in trusted
  <2>1. Finding!Saves(p, a) BY <1>1 DEF Finding!Found
  <2> QED BY <2>1, SavesFiles
<1>2. CASE ~(devices[p] = Nothing /\ p \in trusted)
  <2>1. UNCHANGED <<known, removed>> BY <1>2 DEF Finding!Found
  <2>2. p \in trusted => known[p] # Nothing \/ p \in removed BY <1>2 DEF FindInv, Filed
  <2> QED BY <2>1, <2>2 DEF FindInv, FindTypes
<1> QED BY <1>1, <1>2

LEMMA FindHears ==
    ASSUME Finding!DiscoveryConstants, FindInv, NEW p \in Phones, NEW a \in Addresses,
           Finding!Hears(p, a)
    PROVE  FindInv'
<1>1. /\ findTurns < MaxFindTurns /\ findTurns' = findTurns + 1
      /\ Finding!AddDevice(p, a) /\ Finding!Found(p, a)
      /\ UNCHANGED <<udp, beacon, linked, trusted, refused, retry, ask, silence, listCheck, missed, findStarts>>
  BY DEF Finding!Hears, Finding!Turn, Finding!rest
<1>2. /\ devices' \in [Phones -> {Nothing} \union Signs] /\ heard' \in [Phones -> {Nothing} \union Signs]
      /\ \A q \in Phones \ {p} : devices'[q] = devices[q]
      /\ SignsListed'
  BY <1>1, SignAdds
<1>3. /\ known' \in [Phones -> {Nothing} \union Addresses] /\ removed' \subseteq Phones
      /\ p \in trusted => known'[p] # Nothing \/ p \in removed'
      /\ \A q \in Phones \ {p} : known'[q] = known[q] /\ (q \in removed' <=> q \in removed)
  BY <1>1, FoundFiles
<1>4. FindTypes' BY <1>1, <1>2, <1>3 DEF FindInv, FindTypes, Finding!DiscoveryConstants
<1>5. Lit' BY <1>1 DEF FindInv, Lit
<1>6. Filed' BY <1>1, <1>2, <1>3 DEF FindInv, Filed
<1>7. Called' BY <1>1, CallsGoOn DEF FindInv
<1> QED BY <1>2, <1>4, <1>5, <1>6, <1>7 DEF FindInv

LEMMA FindConnects ==
    ASSUME Finding!DiscoveryConstants, FindInv, NEW p \in Phones, NEW a \in Addresses,
           NEW fits \in BOOLEAN, Finding!Connects(p, a, fits)
    PROVE  FindInv'
<1>1. /\ findTurns < MaxFindTurns /\ findTurns' = findTurns + 1
      /\ linked' = [linked EXCEPT ![p] = a] /\ ask' = Nothing
      /\ Finding!AddDevice(p, a) /\ Finding!Answered(p, a)
      /\ retry' = [retry EXCEPT ![p] = Nothing] /\ missed' = missed \ {p}
      /\ beacon' = Nothing \/ beacon' = beacon
      /\ refused' = refused \/ refused' = refused \ {p} \/ refused' = refused \union {p}
      /\ UNCHANGED <<udp, listCheck, trusted, silence, findStarts>>
  BY DEF Finding!Connects, Finding!Turn, Finding!StopBroadcasting
<1>2. /\ devices' \in [Phones -> {Nothing} \union Signs] /\ heard' \in [Phones -> {Nothing} \union Signs]
      /\ \A q \in Phones \ {p} : devices'[q] = devices[q]
      /\ SignsListed'
  BY <1>1, SignAdds
<1>3. /\ known' \in [Phones -> {Nothing} \union Addresses] /\ removed' \subseteq Phones
      /\ p \in trusted => known'[p] # Nothing \/ p \in removed'
      /\ \A q \in Phones \ {p} : known'[q] = known[q] /\ (q \in removed' <=> q \in removed)
  <2>1. CASE ask = Nothing
    <3>1. Finding!Found(p, a) BY <1>1, <2>1 DEF Finding!Answered
    <3> QED BY <3>1, FoundFiles
  <2>2. CASE ask # Nothing
    <3>1. Finding!Saves(p, ask.address) BY <1>1, <2>2 DEF Finding!Answered
    <3>2. ask.address \in Addresses BY <2>2 DEF FindInv, FindTypes
    <3> QED BY <3>1, <3>2, SavesFiles
  <2> QED BY <2>1, <2>2
<1>4. /\ linked' \in [Phones -> {Nothing} \union Addresses] /\ linked'[p] = a
      /\ retry' \in [Phones -> {Nothing} \union CallTimers] /\ retry'[p] = Nothing
      /\ \A q \in Phones \ {p} : linked'[q] = linked[q] /\ retry'[q] = retry[q]
      /\ a # Nothing
  BY <1>1 DEF FindInv, FindTypes, Finding!DiscoveryConstants
<1>5. FindTypes' BY <1>1, <1>2, <1>3, <1>4 DEF FindInv, FindTypes, Finding!DiscoveryConstants
<1>6. Lit' BY <1>1, <1>4 DEF FindInv, Lit
<1>7. Filed' BY <1>1, <1>2, <1>3 DEF FindInv, Filed
<1>8. Called' BY <1>1, <1>4 DEF FindInv, Called
<1> QED BY <1>2, <1>5, <1>6, <1>7, <1>8 DEF FindInv

LEMMA FindPairs ==
    ASSUME Finding!DiscoveryConstants, FindInv, NEW p \in Phones, NEW fits \in BOOLEAN,
           Finding!Pairs(p, fits)
    PROVE  FindInv'
<1>1. /\ linked[p] # Nothing /\ p \notin trusted /\ findTurns < MaxFindTurns /\ findTurns' = findTurns + 1
      /\ trusted' = trusted \union {p} /\ Finding!Saves(p, linked[p])
      /\ beacon' = Nothing \/ beacon' = beacon
      /\ refused' = refused \/ refused' = refused \union {p}
      /\ UNCHANGED <<udp, devices, linked, retry, ask, heard, silence, listCheck, missed, findStarts>>
  BY DEF Finding!Pairs, Finding!Linked, Finding!Turn, Finding!StopBroadcasting, Finding!rest
<1>2. linked[p] \in Addresses BY <1>1 DEF FindInv, FindTypes
<1>3. /\ known' \in [Phones -> {Nothing} \union Addresses] /\ removed' \subseteq Phones
      /\ known'[p] # Nothing
      /\ \A q \in Phones \ {p} : known'[q] = known[q] /\ (q \in removed' <=> q \in removed)
  BY <1>1, <1>2, SavesFiles
<1>4. FindTypes' BY <1>1, <1>3 DEF FindInv, FindTypes, Finding!DiscoveryConstants
<1>5. SignsListed' BY <1>1 DEF FindInv, SignsListed
<1>6. Lit' BY <1>1 DEF FindInv, Lit
<1>7. Filed' BY <1>1, <1>3 DEF FindInv, Filed
<1>8. Called' BY <1>1 DEF FindInv, Called
<1> QED BY <1>4, <1>5, <1>6, <1>7, <1>8 DEF FindInv

LEMMA FindDisconnects ==
    ASSUME Finding!DiscoveryConstants, FindInv, NEW p \in Phones, Finding!Disconnects(p)
    PROVE  FindInv'
<1> DEFINE t(n) == [address |-> known[p], every |-> n, left |-> n]
<1>1. /\ linked[p] # Nothing /\ linked' = [linked EXCEPT ![p] = Nothing] /\ Finding!StartBroadcasting
      /\ missed' = missed \union {q \in {p} \intersect trusted : known[q] # Nothing}
      /\ UNCHANGED <<udp, devices, trusted, refused, known, ask, heard, removed, findTurns, listCheck,
                     findStarts>>
  BY DEF Finding!Disconnects, Finding!Linked, Finding!Gone
<1>2. retry[p] = Nothing /\ p \notin missed BY <1>1 DEF FindInv, Called
<1>3. /\ retry' = retry \/ (known[p] # Nothing /\ \E n \in {3, 5} : retry' = [retry EXCEPT ![p] = t(n)])
      /\ p \in trusted /\ known[p] # Nothing => \E n \in {3, 5} : retry' = [retry EXCEPT ![p] = t(n)]
  BY <1>1, <1>2 DEF Finding!Disconnects, Finding!Timer, Finding!ReconnectInterval,
                    Finding!RecheckInterval
<1>4. \A n \in {3, 5} : known[p] # Nothing =>
         t(n) \in CallTimers /\ t(n).left = n /\ t(n).every = n /\ t(n) # Nothing
  <2>1. known[p] # Nothing => known[p] \in Addresses BY DEF FindInv, FindTypes
  <2>2. \A n \in {3, 5} : known[p] # Nothing => t(n) \in CallTimers BY <2>1 DEF CallTimers
  <2>3. CallTimers = Finding!Timers
    BY DEF CallTimers, Finding!Timers, Finding!ReconnectInterval, Finding!RecheckInterval
  <2>4. Nothing \notin CallTimers BY <2>3 DEF Finding!DiscoveryConstants
  <2> QED BY <2>2, <2>4
<1> HIDE DEF t
<1>5. /\ retry' \in [Phones -> {Nothing} \union CallTimers]
      /\ \A q \in Phones \ {p} : retry'[q] = retry[q]
      /\ retry'[p] # Nothing => retry'[p].left = retry'[p].every
      /\ p \in trusted /\ known[p] # Nothing => retry'[p] # Nothing
  BY <1>2, <1>3, <1>4 DEF FindInv, FindTypes
<1>6. /\ beacon' \in {Nothing} \union 0..1 /\ silence' \in [Phones -> 0..7]
      /\ \A q \in Phones : silence'[q] = silence[q] \/ silence'[q] = 0
      /\ udp # "listening" => beacon' = Nothing
      /\ udp = "listening" => beacon' # Nothing
      /\ beacon' # Nothing => \A q \in Phones : silence'[q] + beacon' <= 1
  <2>1. CASE beacon = Nothing /\ udp = "listening"
    <3>1. beacon' = 1 /\ Finding!Silenced(Phones)
      BY <1>1, <2>1 DEF Finding!StartBroadcasting, Finding!Running, Finding!BroadcastInterval
    <3>2. silence' \in [Phones -> 0..7] /\ \A q \in Phones : silence'[q] = 0
      BY <3>1, Sending DEF FindInv, FindTypes
    <3> QED BY <2>1, <3>1, <3>2 DEF Finding!DiscoveryConstants
  <2>2. CASE ~(beacon = Nothing /\ udp = "listening")
    <3>1. UNCHANGED <<beacon, silence>> BY <1>1, <2>2 DEF Finding!StartBroadcasting, Finding!Running
    <3> QED BY <2>2, <3>1 DEF FindInv, FindTypes, Lit
  <2> QED BY <2>1, <2>2
<1>7. /\ linked' \in [Phones -> {Nothing} \union Addresses] /\ linked'[p] = Nothing
      /\ \A q \in Phones \ {p} : linked'[q] = linked[q]
      /\ missed' \subseteq Phones
      /\ p \in missed' => p \in trusted /\ known[p] # Nothing
      /\ \A q \in Phones \ {p} : q \in missed' <=> q \in missed
  BY <1>1, <1>2 DEF FindInv, FindTypes
<1>8. FindTypes' BY <1>1, <1>5, <1>6, <1>7 DEF FindInv, FindTypes
<1>9. SignsListed' /\ Filed' BY <1>1 DEF FindInv, SignsListed, Filed
<1>10. Lit' BY <1>1, <1>6 DEF Lit
<1>11. Called'
  <2>1. \A q \in Phones : linked'[q] # Nothing => retry'[q] = Nothing /\ q \notin missed'
    BY <1>5, <1>7 DEF FindInv, Called
  <2>2. \A q \in Phones : retry'[q] # Nothing => retry'[q].left <= retry'[q].every
    <3>1. retry'[p] # Nothing => retry'[p].left <= retry'[p].every
      <4>1. retry'[p] # Nothing => retry'[p].left \in 0..5 BY <1>5 DEF CallTimers
      <4> QED BY <1>5, <4>1
    <3> QED BY <1>5, <3>1 DEF FindInv, Called
  <2>3. ASSUME NEW q \in Phones, q \in missed', q \in trusted'
        PROVE  /\ retry'[q] # Nothing
               /\ udp' = "listening" => silence'[q] + retry'[q].left <= retry'[q].every + 1
    <3>1. CASE q = p
      <4>1. retry'[q] # Nothing /\ retry'[q].left = retry'[q].every BY <1>5, <1>7, <2>3, <3>1
      <4>2. retry'[q].left \in 0..5 BY <1>5, <4>1 DEF CallTimers
      <4>3. udp' = "listening" => silence'[q] <= 1 BY <1>1, <1>6
      <4>4. silence'[q] \in 0..7 BY <1>6
      <4> QED BY <4>1, <4>2, <4>3, <4>4
    <3>2. CASE q # p
      <4>1. q \in missed /\ q \in trusted /\ retry[q] # Nothing /\ retry'[q] = retry[q]
        BY <1>1, <1>5, <1>7, <2>3, <3>2 DEF FindInv, Called
      <4>2. udp = "listening" => silence[q] + retry[q].left <= retry[q].every + 1
        BY <4>1 DEF FindInv, Called
      <4>3. retry[q].left <= retry[q].every BY <4>1 DEF FindInv, Called
      <4>4. retry[q].left \in 0..5 /\ retry[q].every \in {3, 5} /\ silence[q] \in 0..7
        BY <4>1 DEF FindInv, FindTypes, CallTimers
      <4> QED BY <1>1, <1>6, <4>1, <4>2, <4>3, <4>4
    <3> QED BY <3>1, <3>2
  <2> QED BY <2>1, <2>2, <2>3 DEF Called
<1> QED BY <1>8, <1>9, <1>10, <1>11 DEF FindInv

LEMMA FindCalls ==
    ASSUME Finding!DiscoveryConstants, FindInv, NEW p \in Phones, Finding!Calls(p)
    PROVE  FindInv'
<1> DEFINE t == [retry[p] EXCEPT !.left = retry[p].every]
           S == {p} \ Finding!Linked
<1>1. /\ retry[p] # Nothing /\ Finding!Silenced(S)
      /\ retry' = [retry EXCEPT ![p] = IF p \in Finding!Linked THEN Nothing ELSE t]
      /\ UNCHANGED <<udp, beacon, devices, linked, trusted, refused, known, ask, heard, removed, findTurns,
                     listCheck, missed, findStarts>>
  BY DEF Finding!Calls, Finding!Due, Finding!rest
<1>2. p \notin Finding!Linked BY <1>1 DEF Finding!Linked, FindInv, Called
<1>3. silence' \in [Phones -> 0..7] /\ silence'[p] = 0 /\ \A q \in Phones \ {p} : silence'[q] = silence[q]
  <2>1. p \in S BY <1>2
  <2>2. \A q \in Phones \ {p} : q \notin S OBVIOUS
  <2> HIDE DEF S
  <2> QED BY <1>1, <2>1, <2>2, Sending DEF FindInv, FindTypes
<1>4. retry[p] \in CallTimers BY <1>1 DEF FindInv, FindTypes
<1>5. t \in CallTimers /\ t.left = t.every BY <1>4 DEF CallTimers
<1>6. t # Nothing
  <2>1. CallTimers = Finding!Timers
    BY DEF CallTimers, Finding!Timers, Finding!ReconnectInterval, Finding!RecheckInterval
  <2> QED BY <1>5, <2>1 DEF Finding!DiscoveryConstants
<1>7. t.left \in 0..5 BY <1>5 DEF CallTimers
<1> HIDE DEF t
<1>8. /\ retry' \in [Phones -> {Nothing} \union CallTimers] /\ retry'[p] = t
      /\ \A q \in Phones \ {p} : retry'[q] = retry[q]
  BY <1>1, <1>2, <1>5 DEF FindInv, FindTypes
<1>9. FindTypes' BY <1>1, <1>3, <1>8 DEF FindInv, FindTypes
<1>10. SignsListed' /\ Filed' BY <1>1 DEF FindInv, SignsListed, Filed
<1>11. Lit'
  <2>1. ASSUME beacon' # Nothing, NEW q \in Phones PROVE silence'[q] + beacon' <= 1
    <3>1. silence[q] + beacon <= 1 /\ beacon \in 0..1 BY <1>1, <2>1 DEF FindInv, Lit, FindTypes
    <3>2. silence'[q] = 0 \/ silence'[q] = silence[q] BY <1>3
    <3> QED BY <1>1, <3>1, <3>2
  <2> QED BY <1>1, <2>1 DEF FindInv, Lit
<1>12. Called'
  <2>1. \A q \in Phones : linked'[q] # Nothing => retry'[q] = Nothing /\ q \notin missed'
    <3>1. linked'[p] = Nothing BY <1>1, <1>2 DEF Finding!Linked
    <3> QED BY <1>1, <1>8, <3>1 DEF FindInv, Called
  <2>2. \A q \in Phones : retry'[q] # Nothing => retry'[q].left <= retry'[q].every
    <3>1. retry'[p].left <= retry'[p].every BY <1>5, <1>7, <1>8
    <3> QED BY <1>8, <3>1 DEF FindInv, Called
  <2>3. ASSUME NEW q \in Phones, q \in missed', q \in trusted'
        PROVE  /\ retry'[q] # Nothing
               /\ udp' = "listening" => silence'[q] + retry'[q].left <= retry'[q].every + 1
    <3>1. CASE q = p BY <1>3, <1>5, <1>6, <1>7, <1>8, <3>1
    <3>2. CASE q # p BY <1>1, <1>3, <1>8, <2>3, <3>2 DEF FindInv, Called
    <3> QED BY <3>1, <3>2
  <2> QED BY <2>1, <2>2, <2>3 DEF Called
<1> QED BY <1>9, <1>10, <1>11, <1>12 DEF FindInv

LEMMA FindUnpairs ==
    ASSUME Finding!DiscoveryConstants, FindInv, NEW p \in Phones, NEW user \in BOOLEAN,
           Finding!Unpairs(p, user)
    PROVE  FindInv'
<1>1. /\ findTurns < MaxFindTurns /\ findTurns' = findTurns + 1
      /\ trusted' = trusted \ {p} /\ refused' = refused \ {p}
      /\ retry' = retry \/ retry' = [retry EXCEPT ![p] = Nothing]
      /\ \/ known' = [known EXCEPT ![p] = Nothing] /\ removed' = removed \union {p}
         \/ UNCHANGED <<known, removed>>
      /\ UNCHANGED <<udp, beacon, devices, linked, ask, heard, silence, listCheck, missed, findStarts>>
  <2>1. retry \in [Phones -> {Nothing} \union CallTimers] BY DEF FindInv, FindTypes
  <2>2. retry' = retry \/ retry' = [retry EXCEPT ![p] = Nothing] BY <2>1 DEF Finding!Unpairs
  <2> QED BY <2>2 DEF Finding!Unpairs, Finding!Removes, Finding!Turn, Finding!rest
<1>2. /\ retry' \in [Phones -> {Nothing} \union CallTimers] /\ retry'[p] \in {Nothing, retry[p]}
      /\ \A q \in Phones \ {p} : retry'[q] = retry[q]
  BY <1>1 DEF FindInv, FindTypes
<1>3. FindTypes' BY <1>1, <1>2 DEF FindInv, FindTypes, Finding!DiscoveryConstants
<1>4. SignsListed' BY <1>1 DEF FindInv, SignsListed
<1>5. Lit' BY <1>1 DEF FindInv, Lit
<1>6. Filed' BY <1>1 DEF FindInv, Filed, FindTypes
<1>7. Called' BY <1>1, <1>2, CallsGoOn DEF FindInv
<1> QED BY <1>3, <1>4, <1>5, <1>6, <1>7 DEF FindInv

LEMMA FindUser ==
    ASSUME Finding!DiscoveryConstants, FindInv,
           \/ \E a \in Addresses : Finding!Ask(a)
           \/ Finding!AskTimesOut
           \/ \E p \in Phones : Finding!Forgets(p)
    PROVE  FindInv'
<1>1. /\ findTurns' \in 0..MaxFindTurns /\ ask' \in {Nothing} \union [address : Addresses, left : 0..2]
      /\ \/ UNCHANGED <<known, removed>>
         \/ \E p \in Phones : known' = [known EXCEPT ![p] = Nothing] /\ removed' = removed \union {p}
      /\ UNCHANGED <<udp, beacon, devices, linked, trusted, refused, retry, heard, silence, listCheck,
                     missed, findStarts>>
  <2>1. findTurns \in 0..MaxFindTurns /\ ask \in {Nothing} \union [address : Addresses, left : 0..2]
    BY DEF FindInv, FindTypes
  <2>2. CASE \E a \in Addresses : Finding!Ask(a)
    BY <2>1, <2>2 DEF Finding!Ask, Finding!Turn, Finding!rest, Finding!AskTimeout,
                      Finding!DiscoveryConstants
  <2>3. CASE Finding!AskTimesOut BY <2>1, <2>3 DEF Finding!AskTimesOut, Finding!rest
  <2>4. CASE \E p \in Phones : Finding!Forgets(p)
    <3>1. PICK p \in Phones : Finding!Forgets(p) BY <2>4
    <3>2. known' = [known EXCEPT ![p] = Nothing] /\ removed' = removed \union {p}
      BY <3>1 DEF Finding!Forgets, Finding!Removes
    <3>3. /\ findTurns' \in 0..MaxFindTurns
          /\ UNCHANGED <<udp, beacon, devices, linked, trusted, refused, retry, ask, heard, silence,
                         listCheck, missed, findStarts>>
      BY <2>1, <3>1 DEF Finding!Forgets, Finding!Turn, Finding!rest, Finding!DiscoveryConstants
    <3> QED BY <2>1, <3>2, <3>3
  <2> QED BY <2>2, <2>3, <2>4
<1>2. FindTypes' BY <1>1 DEF FindInv, FindTypes
<1>3. SignsListed' BY <1>1 DEF FindInv, SignsListed
<1>4. Lit' BY <1>1 DEF FindInv, Lit
<1>5. Filed' BY <1>1 DEF FindInv, Filed, FindTypes
<1>6. Called' BY <1>1, CallsGoOn DEF FindInv
<1> QED BY <1>2, <1>3, <1>4, <1>5, <1>6 DEF FindInv

(* Five seconds: no timer is due, so each is still ahead of the silence it *)
(* will end. *)
LEMMA FindTick ==
    ASSUME Finding!DiscoveryConstants, FindInv, Finding!Tick PROVE FindInv'
<1> DEFINE OlderEntry(e) == IF e = Nothing THEN Nothing
                       ELSE [e EXCEPT !.age = IF e.age > LostAfter THEN LostAfter + 2 ELSE e.age + 1]
<1>1. /\ udp = "listening" /\ beacon # 0 /\ listCheck # 0
      /\ beacon' = IF beacon = Nothing THEN Nothing ELSE beacon - 1
      /\ listCheck' = listCheck - 1
      /\ ask' = IF ask = Nothing THEN Nothing ELSE [ask EXCEPT !.left = ask.left - 1]
      /\ retry' = [p \in Phones |->
                     IF retry[p] = Nothing THEN Nothing ELSE [retry[p] EXCEPT !.left = retry[p].left - 1]]
      /\ devices' = [p \in Phones |-> OlderEntry(devices[p])]
      /\ heard' = [p \in Phones |-> OlderEntry(heard[p])]
      /\ silence' = [p \in Phones |-> IF silence[p] < 7 THEN silence[p] + 1 ELSE 7]
      /\ UNCHANGED <<udp, linked, trusted, refused, known, removed, missed, findTurns, findStarts>>
      /\ ask # Nothing => ask.left # 0
      /\ \A p \in Phones : retry[p] # Nothing => retry[p].left # 0
  BY DEF Finding!Tick, Finding!Running, Finding!Due, Finding!Older, Finding!Longest,
         Finding!RecheckInterval, Finding!BroadcastInterval
<1>2. /\ LostAfter \in Nat /\ Nothing \notin Signs /\ Nothing \notin CallTimers
      /\ beacon \in {Nothing} \union 0..1 /\ listCheck = 1 /\ Nothing # 0 /\ Nothing # 1
  BY <1>1 DEF FindInv, FindTypes, Finding!DiscoveryConstants, Signs, Finding!Entries, CallTimers,
         Finding!Timers, Finding!ReconnectInterval, Finding!RecheckInterval
<1>3. \A e \in Signs : /\ OlderEntry(e) \in Signs /\ OlderEntry(e) # Nothing /\ e # Nothing
                       /\ e.age \in 0..(LostAfter + 2)
                       /\ e.age <= LostAfter => OlderEntry(e).age = e.age + 1
                       /\ OlderEntry(e).age <= LostAfter => e.age <= LostAfter
  <2> TAKE e \in Signs
  <2>1. e # Nothing /\ e.age \in 0..(LostAfter + 2) /\ e.address \in Addresses BY <1>2 DEF Signs
  <2>2. OlderEntry(e) = [e EXCEPT !.age = IF e.age > LostAfter THEN LostAfter + 2 ELSE e.age + 1] BY <2>1
  <2>3. OlderEntry(e) \in Signs BY <1>2, <2>1, <2>2 DEF Signs
  <2>4. OlderEntry(e).age = IF e.age > LostAfter THEN LostAfter + 2 ELSE e.age + 1 BY <2>2 DEF Signs
  <2> HIDE DEF OlderEntry
  <2> QED BY <1>2, <2>1, <2>3, <2>4
<1>4. OlderEntry(Nothing) = Nothing OBVIOUS
<1> HIDE DEF OlderEntry
<1>5. /\ devices' \in [Phones -> {Nothing} \union Signs] /\ heard' \in [Phones -> {Nothing} \union Signs]
      /\ \A p \in Phones : devices'[p] = OlderEntry(devices[p]) /\ heard'[p] = OlderEntry(heard[p])
  BY <1>1, <1>3, <1>4 DEF FindInv, FindTypes
<1>6. SignsListed'
  <2>1. ASSUME NEW p \in Phones, devices'[p] # Nothing
        PROVE  devices'[p] = heard'[p] /\ devices'[p].age + listCheck' <= LostAfter + 1
    <3>1. devices[p] # Nothing BY <1>4, <1>5, <2>1
    <3>2. devices[p] = heard[p] /\ devices[p] \in Signs /\ devices[p].age + listCheck <= LostAfter + 1
      BY <3>1 DEF FindInv, SignsListed, FindTypes
    <3>3. devices[p].age <= LostAfter BY <1>2, <1>3, <3>2
    <3>4. devices'[p].age = devices[p].age + 1 BY <1>3, <1>5, <3>2, <3>3
    <3> QED BY <1>1, <1>2, <1>3, <1>5, <3>2, <3>3, <3>4
  <2>2. ASSUME NEW p \in Phones, heard'[p] # Nothing, heard'[p].age <= LostAfter PROVE devices'[p] # Nothing
    <3>1. heard[p] # Nothing BY <1>4, <1>5, <2>2
    <3>2. heard[p] \in Signs BY <3>1 DEF FindInv, FindTypes
    <3>3. heard[p].age <= LostAfter BY <1>3, <1>5, <2>2, <3>2
    <3>4. devices[p] # Nothing BY <3>1, <3>3 DEF FindInv, SignsListed
    <3>5. devices[p] \in Signs BY <3>4 DEF FindInv, FindTypes
    <3> QED BY <1>3, <1>5, <3>5
  <2> QED BY <1>1, <2>1, <2>2 DEF SignsListed
<1>7. /\ retry' \in [Phones -> {Nothing} \union CallTimers]
      /\ \A p \in Phones : (retry'[p] # Nothing <=> retry[p] # Nothing)
      /\ \A p \in Phones : retry[p] # Nothing =>
            /\ retry[p].left \in 1..5 /\ retry[p].every \in {3, 5}
            /\ retry'[p].left = retry[p].left - 1 /\ retry'[p].every = retry[p].every
  <2>1. ASSUME NEW p \in Phones, retry[p] # Nothing
        PROVE  /\ retry'[p] \in CallTimers /\ retry[p].left \in 1..5 /\ retry[p].every \in {3, 5}
               /\ retry'[p].left = retry[p].left - 1 /\ retry'[p].every = retry[p].every
    <3>1. retry[p] \in CallTimers /\ retry[p].left # 0 BY <1>1, <2>1 DEF FindInv, FindTypes
    <3>2. retry'[p] = [retry[p] EXCEPT !.left = retry[p].left - 1] BY <1>1, <2>1
    <3>3. retry[p].left \in 1..5 /\ retry[p].every \in {3, 5} BY <3>1 DEF CallTimers
    <3>4. retry[p].left - 1 \in 0..5 BY <3>3
    <3> QED BY <3>1, <3>2, <3>3, <3>4 DEF CallTimers
  <2>2. \A p \in Phones : retry[p] = Nothing => retry'[p] = Nothing BY <1>1
  <2> QED BY <1>1, <1>2, <2>1, <2>2
<1>8. silence' \in [Phones -> 0..7] /\ \A p \in Phones : silence[p] < 7 => silence'[p] = silence[p] + 1
  BY <1>1 DEF FindInv, FindTypes
<1>9. FindTypes'
  <2>1. beacon' \in {Nothing} \union 0..1 /\ listCheck' \in 0..1 BY <1>1, <1>2
  <2>2. ask' \in {Nothing} \union [address : Addresses, left : 0..2] BY <1>1 DEF FindInv, FindTypes
  <2> QED BY <1>1, <1>5, <1>7, <1>8, <2>1, <2>2 DEF FindInv, FindTypes
<1>10. Lit'
  <2>1. ASSUME beacon' # Nothing
        PROVE  beacon # Nothing /\ \A p \in Phones : silence'[p] + beacon' <= 1
    <3>1. beacon = 1 /\ beacon' = 0 BY <1>1, <1>2, <2>1
    <3>2. \A p \in Phones : silence[p] + beacon <= 1 /\ silence[p] \in 0..7
      BY <1>2, <3>1 DEF FindInv, Lit, FindTypes
    <3> QED BY <1>2, <1>8, <3>1, <3>2
  <2>2. beacon # Nothing => beacon' # Nothing BY <1>1, <1>2
  <2> QED BY <1>1, <2>1, <2>2 DEF FindInv, Lit
<1>11. Filed' BY <1>1, <1>4, <1>5 DEF FindInv, Filed
<1>12. Called'
  <2>1. \A p \in Phones : linked'[p] # Nothing => retry'[p] = Nothing /\ p \notin missed'
    BY <1>1, <1>7 DEF FindInv, Called
  <2>2. \A p \in Phones : retry'[p] # Nothing => retry'[p].left <= retry'[p].every
    BY <1>7 DEF FindInv, Called
  <2>3. ASSUME NEW p \in Phones, p \in missed', p \in trusted'
        PROVE  retry'[p] # Nothing /\ silence'[p] + retry'[p].left <= retry'[p].every + 1
    <3>1. retry[p] # Nothing /\ silence[p] + retry[p].left <= retry[p].every + 1
      BY <1>1, <2>3 DEF FindInv, Called
    <3>2. silence[p] \in 0..7 BY DEF FindInv, FindTypes
    <3>3. silence[p] < 7 BY <1>7, <3>1, <3>2
    <3> QED BY <1>7, <1>8, <3>1, <3>2, <3>3
  <2> QED BY <1>1, <2>1, <2>2, <2>3 DEF Called
<1> QED BY <1>6, <1>9, <1>10, <1>11, <1>12 DEF FindInv

LEMMA FindKept ==
    ASSUME Finding!DiscoveryConstants, FindInv, [Finding!Next]_Finding!vars PROVE FindInv'
<1>1. CASE UNCHANGED Finding!vars
  <2>1. UNCHANGED <<udp, beacon, listCheck, devices, linked, trusted, refused, known, retry, ask, heard,
                    removed, missed, silence, findTurns, findStarts>>
    BY <1>1 DEF Finding!vars
  <2>2. FindTypes' BY <2>1 DEF FindInv, FindTypes
  <2>3. SignsListed' /\ Lit' BY <2>1 DEF FindInv, SignsListed, Lit
  <2>4. Filed' /\ Called' BY <2>1 DEF FindInv, Filed, Called
  <2> QED BY <2>2, <2>3, <2>4 DEF FindInv
<1> QED
  BY <1>1, FindStart, FindListening, FindStop, FindBroadcast, FindCheck, FindHears, FindConnects,
     FindPairs, FindDisconnects, FindCalls, FindUnpairs, FindUser, FindTick
     DEF Finding!Next

(* The list of phones is what was heard: who gave a sign in the last two *)
(* minutes is in it, with the address of that sign, and who gave none is gone *)
(* at the next check (ws-discovery.ts addDevice, handleIncomingPacket, *)
(* checkReachability): for any phones, addresses and restarts. *)
THEOREM ListStaysTrue ==
    ASSUME Finding!DiscoveryConstants
    PROVE  Finding!Spec => []Finding!ListIsTrue
<1>1. FindInv => Finding!ListIsTrue
  <2> SUFFICES ASSUME FindInv, NEW p \in Phones, devices[p] # Nothing
               PROVE  devices[p].age <= LostAfter + 1
    BY DEF Finding!ListIsTrue, Finding!CheckInterval, FindInv, SignsListed
  <2>1. devices[p] \in Signs /\ listCheck \in 0..1 BY DEF FindInv, FindTypes
  <2>2. devices[p].age \in 0..(LostAfter + 2) BY <2>1 DEF Signs
  <2>3. devices[p].age + listCheck <= LostAfter + 1 BY DEF FindInv, SignsListed
  <2> QED BY <2>1, <2>2, <2>3 DEF Finding!DiscoveryConstants
<1> QED BY <1>1, FindInit, FindKept, PTL DEF Finding!Spec

(* Who is looked for can find the desktop: it broadcasts while nobody is *)
(* connected, and sends something to a paired phone that left at least every *)
(* 30 seconds; and a paired phone that is listed is in the file, unless the *)
(* user took it out (ws-discovery.ts startBroadcasting; daemon.ts *)
(* onDisconnection, startReconnectTimer, startVersionCheckTimer). *)
THEOREM NobodyStaysAlone ==
    ASSUME Finding!DiscoveryConstants
    PROVE  Finding!Spec => []Finding!NobodyIsLeftAlone
<1>1. FindInv => Finding!NobodyIsLeftAlone
  <2> SUFFICES ASSUME FindInv PROVE Finding!NobodyIsLeftAlone
    OBVIOUS
  <2>1. ASSUME udp = "listening", Finding!Linked = {}
        PROVE  beacon # Nothing /\ \A p \in Phones : silence[p] <= 1
    <3>1. beacon # Nothing BY <2>1 DEF Finding!Linked, FindInv, Lit
    <3>2. beacon \in 0..1 /\ silence \in [Phones -> 0..7] BY <3>1 DEF FindInv, FindTypes
    <3>3. \A p \in Phones : silence[p] + beacon <= 1 BY <3>1 DEF FindInv, Lit
    <3>4. \A p \in Phones : silence[p] <= 1
      <4> TAKE p \in Phones
      <4>1. silence[p] \in 0..7 BY <3>2
      <4> QED BY <3>2, <3>3, <4>1
    <3> QED BY <3>1, <3>4
  <2>2. \A p \in Phones : p \in trusted /\ devices[p] # Nothing => known[p] # Nothing \/ p \in removed
    BY DEF FindInv, Filed
  <2>3. ASSUME udp = "listening", NEW p \in missed \intersect trusted PROVE silence[p] <= 6
    <3>1. p \in Phones /\ silence[p] \in 0..7 BY DEF FindInv, FindTypes
    <3>2. retry[p] # Nothing /\ silence[p] + retry[p].left <= retry[p].every + 1
      BY <2>3, <3>1 DEF FindInv, Called
    <3>3. retry[p].left \in 0..5 /\ retry[p].every \in {3, 5}
      BY <3>1, <3>2 DEF FindInv, FindTypes, CallTimers
    <3> QED BY <3>1, <3>2, <3>3
  <2> QED BY <2>1, <2>2, <2>3 DEF Finding!NobodyIsLeftAlone, Finding!Running,
             Finding!BroadcastInterval, Finding!RecheckInterval
<1> QED BY <1>1, FindInit, FindKept, PTL DEF Finding!Spec

(* Types of the list, the file, the timers and the beacon. *)
THEOREM FindTypesHold ==
    ASSUME Finding!DiscoveryConstants
    PROVE  Finding!Spec => []Finding!TypeOK
<1>1. FindInv => Finding!TypeOK BY FindTypesAre DEF FindInv
<1> QED BY <1>1, FindInit, FindKept, PTL DEF Finding!Spec

--------------------
(* FileDownload: a photo or video in full *)

Shows == {"idle", "downloading", "ready"}

(* Of saves, what is shown and the map: what is in the map is the download of *)
(* its file, under way and not cancelled; no download has all parts before its *)
(* reply; and a spinner has a download that was not cancelled. *)
Running(saves) == {c \in SaveCalls : saves[c] # Nothing}
Loads(saves, states, latest) ==
    /\ saves \in [SaveCalls -> {Nothing} \cup Downloads!Records]
    /\ states \in [Files -> Shows]
    /\ latest \in [Files -> SaveCalls \cup {Nothing}]
    /\ \A f \in Files : latest[f] # Nothing =>
          saves[latest[f]] # Nothing /\ saves[latest[f]].file = f /\ ~saves[latest[f]].aborted
    /\ \A c \in Running(saves) : saves[c].parts < Parts
    /\ \A f \in Files : states[f] = "downloading" =>
          \E c \in Running(saves) : saves[c].file = f /\ ~saves[c].aborted

FullInv ==
    /\ Downloads!DownloadAssumption
    /\ Loads(fileCall, fileShown, fileCurrent)
    /\ box \in [file : Files, full : BOOLEAN] \cup {Downloads!Closed}
    /\ cached \in [Files -> {0, Parts}] /\ fileUp \in BOOLEAN

LEMMA FullInit == Downloads!DownloadAssumption /\ Downloads!Init => FullInv
BY DEF Downloads!DownloadAssumption, Downloads!Init, FullInv, Loads, Running, Shows,
  Downloads!Closed

(* What a call is turned into, the rest staying as it is. *)
LEMMA CallTurns ==
    ASSUME NEW saves, NEW states, NEW latest, Loads(saves, states, latest),
           Downloads!DownloadAssumption, NEW c \in Running(saves), NEW r \in Downloads!Records,
           r.file = saves[c].file, r.aborted = saves[c].aborted, r.parts < Parts
    PROVE  Loads([saves EXCEPT ![c] = r], states, latest)
<1> DEFINE new == [saves EXCEPT ![c] = r]
<1>1. /\ new \in [SaveCalls -> {Nothing} \cup Downloads!Records]
      /\ \A b \in SaveCalls : new[b] = IF b = c THEN r ELSE saves[b]
  BY DEF Loads, Running
<1>2. r # Nothing /\ c \in SaveCalls /\ saves[c] # Nothing BY DEF Downloads!DownloadAssumption, Running
<1> HIDE DEF new
<1>3. Running(new) = Running(saves) BY <1>1, <1>2 DEF Running
<1>4. \A b \in Running(saves) : new[b].parts < Parts BY <1>1, <1>3 DEF Loads, Running
<1>5. \A b \in SaveCalls : saves[b] # Nothing =>
         new[b] # Nothing /\ new[b].file = saves[b].file /\ new[b].aborted = saves[b].aborted
  BY <1>1, <1>2
<1>6. \A f \in Files : latest[f] # Nothing =>
         new[latest[f]] # Nothing /\ new[latest[f]].file = f /\ ~new[latest[f]].aborted
  BY <1>5 DEF Loads
<1>7. \A f \in Files : states[f] = "downloading" =>
         \E b \in Running(new) : new[b].file = f /\ ~new[b].aborted
  BY <1>3, <1>5 DEF Loads, Running
<1> QED BY <1>1, <1>3, <1>4, <1>6, <1>7 DEF Loads, new

LEMMA RunningIs ==
    ASSUME NEW saves, NEW states, NEW latest, Loads(saves, states, latest), NEW c \in Running(saves)
    PROVE  /\ saves[c] \in Downloads!Records /\ saves[c] # Nothing
           /\ saves[c] = [file |-> saves[c].file, aborted |-> saves[c].aborted,
                          reopens |-> saves[c].reopens, parts |-> saves[c].parts, at |-> saves[c].at]
BY DEF Loads, Running, Downloads!Records

(* requestFullFile(): nothing, a waiter more, or a new download. *)
LEMMA RequestLoads ==
    ASSUME NEW saves, NEW states, NEW latest, Loads(saves, states, latest),
           Running(saves) = Downloads!Active, Downloads!DownloadAssumption, NEW f \in Files, NEW reopens \in BOOLEAN,
           Downloads!RequestFullFile(f, reopens, saves, states, latest)
    PROVE  Loads(fileCall', fileShown', fileCurrent')
<1>1. CASE states[f] = "ready" BY <1>1 DEF Downloads!RequestFullFile
<1>2. CASE states[f] # "ready" /\ latest[f] # Nothing
  <2>1. PICK c \in Running(saves) : c = latest[f] BY <1>2 DEF Loads, Running
  <2>2. saves[c] \in Downloads!Records BY RunningIs
  <2> DEFINE r == [saves[c] EXCEPT !.reopens = @ \/ reopens]
  <2>3. r \in Downloads!Records /\ r.file = saves[c].file /\ r.aborted = saves[c].aborted /\ r.parts = saves[c].parts
    BY <2>2 DEF Downloads!Records
  <2>4. r.parts < Parts BY <2>3 DEF Loads
  <2>5. fileCall' = [saves EXCEPT ![c] = r] /\ fileShown' = states /\ fileCurrent' = latest
    BY <1>2, <2>1 DEF Downloads!RequestFullFile, Loads
  <2> HIDE DEF r
  <2> QED BY <2>3, <2>4, <2>5, CallTurns
<1>3. CASE states[f] # "ready" /\ latest[f] = Nothing
  <2> DEFINE r == [file |-> f, aborted |-> FALSE, reopens |-> reopens, parts |-> 0, at |-> "made"]
  <2>1. PICK c \in SaveCalls \ Downloads!Active :
           /\ fileCall' = [saves EXCEPT ![c] = r]
           /\ fileCurrent' = [latest EXCEPT ![f] = c]
           /\ fileShown' = [states EXCEPT ![f] = "downloading"]
    BY <1>3 DEF Downloads!RequestFullFile
  <2> HIDE DEF r
  <2>2. /\ r \in Downloads!Records /\ r # Nothing /\ r.file = f /\ ~r.aborted /\ r.parts < Parts
    <3>1. Parts \in Nat /\ 0 < Parts /\ 0 \in 0..Parts BY DEF Downloads!DownloadAssumption
    <3>2. r \in Downloads!Records BY <3>1 DEF r, Downloads!Records, Downloads!Fates
    <3> QED BY <3>1, <3>2 DEF r, Downloads!DownloadAssumption
  <2>3. c \notin Running(saves) /\ c \in SaveCalls /\ c # Nothing
    BY <2>1 DEF Downloads!DownloadAssumption
  <2>4. saves[c] = Nothing /\ \A g \in Files : latest[g] # c BY <2>3 DEF Loads, Running
  <2>5. /\ fileCall' \in [SaveCalls -> {Nothing} \cup Downloads!Records]
        /\ \A b \in SaveCalls : fileCall'[b] = IF b = c THEN r ELSE saves[b]
    BY <2>1, <2>2 DEF Loads
  <2>6. Running(fileCall') = Running(saves) \cup {c} BY <2>2, <2>5, <2>4 DEF Running
  <2>7. fileCurrent' \in [Files -> SaveCalls \cup {Nothing}] /\ \A g \in Files : fileCurrent'[g] = IF g = f THEN c ELSE latest[g]
    BY <2>1 DEF Loads
  <2>8. \A g \in Files : fileCurrent'[g] # Nothing =>
           fileCall'[fileCurrent'[g]] # Nothing /\ fileCall'[fileCurrent'[g]].file = g /\ ~fileCall'[fileCurrent'[g]].aborted
    BY <2>2, <2>4, <2>5, <2>7 DEF Loads
  <2>9. \A b \in Running(fileCall') : fileCall'[b].parts < Parts
    BY <2>2, <2>5, <2>6 DEF Loads, Running
  <2>10. fileShown' \in [Files -> Shows] /\ \A g \in Files : fileShown'[g] = IF g = f THEN "downloading" ELSE states[g]
    BY <2>1 DEF Loads, Shows
  <2>11. ASSUME NEW g \in Files, fileShown'[g] = "downloading"
         PROVE  \E b \in Running(fileCall') : fileCall'[b].file = g /\ ~fileCall'[b].aborted
    <3>1. CASE g = f BY <3>1, <2>2, <2>3, <2>5, <2>6
    <3>2. CASE g # f
      <4>1. PICK b \in Running(saves) : saves[b].file = g /\ ~saves[b].aborted
        BY <3>2, <2>10, <2>11 DEF Loads
      <4> QED BY <4>1, <2>3, <2>5, <2>6 DEF Running
    <3> QED BY <3>1, <3>2
  <2> QED BY <2>5, <2>7, <2>8, <2>9, <2>10, <2>11 DEF Loads
<1> QED BY <1>1, <1>2, <1>3

LEMMA ActiveIs == Downloads!Active = Running(fileCall)
BY DEF Downloads!Active, Running

LEMMA CancelLoads ==
    ASSUME FullInv, NEW f \in Files, NEW left, left = Downloads!CancelOtherDownloads(f)
    PROVE  Loads(left.calls, left.states, left.latest) /\ Running(left.calls) = Running(fileCall)
<1> DEFINE others == {g \in Files \ {f} : fileCurrent[g] # Nothing}
           over(c) == \E g \in others : fileCurrent[g] = c
<1>1. /\ left.calls = [c \in SaveCalls |-> IF over(c) THEN [fileCall[c] EXCEPT !.aborted = TRUE] ELSE fileCall[c]]
      /\ left.latest = [g \in Files |-> IF g \in others THEN Nothing ELSE fileCurrent[g]]
      /\ left.states = [g \in Files |-> IF g \in others /\ fileShown[g] = "downloading" THEN "idle" ELSE fileShown[g]]
  BY DEF Downloads!CancelOtherDownloads
<1>2. Loads(fileCall, fileShown, fileCurrent) /\ Downloads!DownloadAssumption BY DEF FullInv
<1>3. \A g \in others : fileCall[fileCurrent[g]] # Nothing /\ fileCall[fileCurrent[g]].file = g /\ fileCurrent[g] \in SaveCalls
  BY <1>2 DEF Loads
<1>4. \A c \in SaveCalls : over(c) => fileCall[c] \in Downloads!Records /\ fileCall[c] # Nothing /\ fileCall[c].file \in others
  BY <1>2, <1>3 DEF Loads
<1>5. ASSUME NEW c \in SaveCalls, over(c)
      PROVE  LET r == [fileCall[c] EXCEPT !.aborted = TRUE]
             IN  r \in Downloads!Records /\ r # Nothing /\ r.file = fileCall[c].file /\ r.parts = fileCall[c].parts /\ r.aborted
  BY <1>2, <1>4, <1>5 DEF Downloads!Records, Downloads!DownloadAssumption
<1> HIDE DEF over, others
<1>6. \A c \in SaveCalls : ~over(c) => left.calls[c] = fileCall[c] BY <1>1
<1>7. ASSUME NEW c \in SaveCalls, over(c)
      PROVE  /\ left.calls[c] \in Downloads!Records /\ left.calls[c] # Nothing
             /\ left.calls[c].file = fileCall[c].file /\ left.calls[c].parts = fileCall[c].parts
  BY <1>1, <1>5, <1>7
<1>8. left.calls \in [SaveCalls -> {Nothing} \cup Downloads!Records]
  <2>1. \A c \in SaveCalls : left.calls[c] \in {Nothing} \cup Downloads!Records
    BY <1>2, <1>6, <1>7 DEF Loads
  <2>2. left.calls = [c \in SaveCalls |-> left.calls[c]] BY <1>1
  <2> QED BY <2>1, <2>2
<1>9. Running(left.calls) = Running(fileCall) BY <1>4, <1>6, <1>7 DEF Running
<1>10. \A c \in Running(left.calls) : left.calls[c].parts < Parts
  BY <1>2, <1>6, <1>7, <1>9 DEF Loads, Running
<1>11. /\ left.latest \in [Files -> SaveCalls \cup {Nothing}]
       /\ \A g \in Files : left.latest[g] # Nothing => left.latest[g] = fileCurrent[g] /\ g \notin others
  BY <1>1, <1>2 DEF Loads
<1>12. ASSUME NEW g \in Files, left.latest[g] # Nothing
       PROVE  /\ left.calls[left.latest[g]] # Nothing /\ left.calls[left.latest[g]].file = g
              /\ ~left.calls[left.latest[g]].aborted
  <2>1. left.latest[g] = fileCurrent[g] /\ g \notin others BY <1>11, <1>12
  <2>2. fileCurrent[g] \in SaveCalls /\ fileCall[fileCurrent[g]].file = g /\ fileCall[fileCurrent[g]] # Nothing /\ ~fileCall[fileCurrent[g]].aborted
    BY <2>1, <1>2, <1>12 DEF Loads
  <2>3. ~over(fileCurrent[g]) BY <2>1, <2>2, <1>4
  <2> QED BY <2>1, <2>2, <2>3, <1>6
<1>13. /\ left.states \in [Files -> Shows]
       /\ \A g \in Files : left.states[g] = "downloading" => fileShown[g] = "downloading" /\ g \notin others
  BY <1>1, <1>2 DEF Loads, Shows
<1>14. ASSUME NEW g \in Files, left.states[g] = "downloading"
       PROVE  \E c \in Running(left.calls) : left.calls[c].file = g /\ ~left.calls[c].aborted
  <2>1. PICK c \in Running(fileCall) : fileCall[c].file = g /\ ~fileCall[c].aborted
    BY <1>2, <1>13, <1>14 DEF Loads
  <2>2. ~over(c) BY <2>1, <1>4, <1>13, <1>14 DEF Running
  <2> QED BY <2>1, <2>2, <1>6, <1>9 DEF Running
<1> QED BY <1>8, <1>9, <1>10, <1>11, <1>12, <1>13, <1>14 DEF Loads

(* The lightbox shows a file that there is. *)
Boxes == [file : Files, full : BOOLEAN] \cup {Downloads!Closed}

LEMMA RendererActs ==
    ASSUME FullInv, NEW f \in Files, Downloads!Click(f) \/ Downloads!Navigate(f)
    PROVE  FullInv'
<1> USE DEF FullInv
<1>1. CASE Downloads!Click(f)
  <2>1. /\ Downloads!RequestFullFile(f, f \in Videos, fileCall, fileShown, fileCurrent)
        /\ box' \in Boxes /\ cached' = cached /\ fileUp' = fileUp
    BY <1>1 DEF Downloads!Click, Boxes
  <2>2. Loads(fileCall, fileShown, fileCurrent) /\ Running(fileCall) = Downloads!Active /\ Downloads!DownloadAssumption
    BY ActiveIs
  <2>3. ASSUME f \in Videos PROVE Loads(fileCall', fileShown', fileCurrent')
    <3>1. Downloads!RequestFullFile(f, TRUE, fileCall, fileShown, fileCurrent)
      BY <2>1, <2>3 DEF Downloads!RequestFullFile
    <3> QED BY <2>2, <3>1, RequestLoads
  <2>4. ASSUME f \notin Videos PROVE Loads(fileCall', fileShown', fileCurrent')
    <3>0. (f \in Videos) = FALSE BY <2>4
    <3>1. Downloads!RequestFullFile(f, FALSE, fileCall, fileShown, fileCurrent) BY <2>1, <3>0, Zenon
    <3> QED BY <2>2, <3>1, RequestLoads
  <2>5. Loads(fileCall', fileShown', fileCurrent') BY <2>3, <2>4
  <2> QED BY <2>1, <2>2, <2>5 DEF Boxes
<1>2. CASE Downloads!Navigate(f)
  <2>1. PICK left : left = Downloads!CancelOtherDownloads(f) OBVIOUS
  <2>2. /\ Downloads!RequestFullFile(f, FALSE, left.calls, left.states, left.latest)
        /\ box' \in Boxes /\ cached' = cached /\ fileUp' = fileUp
    BY <1>2, <2>1 DEF Downloads!Navigate, Downloads!NavigateLightbox, Boxes
  <2>3. Loads(left.calls, left.states, left.latest) /\ Running(left.calls) = Downloads!Active
    BY <2>1, CancelLoads, ActiveIs
  <2>4. Loads(fileCall', fileShown', fileCurrent') BY <2>2, <2>3, RequestLoads
  <2> QED BY <2>2, <2>4 DEF Boxes
<1> QED BY <1>1, <1>2

LEMMA PrefetchActs == FullInv /\ Downloads!PrefetchAhead => FullInv'
<1> SUFFICES ASSUME FullInv, Downloads!PrefetchAhead PROVE FullInv' OBVIOUS
<1> USE DEF FullInv
<1>1. PICK f \in Files : /\ Downloads!RequestFullFile(f, FALSE, fileCall, fileShown, fileCurrent)
                         /\ box' = box /\ cached' = cached /\ fileUp' = fileUp
  BY DEF Downloads!PrefetchAhead
<1>2. Loads(fileCall', fileShown', fileCurrent') BY <1>1, ActiveIs, RequestLoads
<1> QED BY <1>1, <1>2

LEMMA ResetActs == FullInv /\ (Downloads!CloseLightbox \/ Downloads!ResetDownloads \/ Downloads!Connect) => FullInv'
<1> SUFFICES ASSUME FullInv, Downloads!CloseLightbox \/ Downloads!ResetDownloads \/ Downloads!Connect PROVE FullInv'
  OBVIOUS
<1> USE DEF FullInv
<1>1. CASE Downloads!CloseLightbox BY <1>1 DEF Downloads!CloseLightbox
<1>2. CASE Downloads!ResetDownloads BY <1>2 DEF Downloads!ResetDownloads, Loads, Shows
<1>3. CASE Downloads!Connect BY <1>3 DEF Downloads!Connect, Downloads!renderer
<1> QED BY <1>1, <1>2, <1>3

LEMMA RepliedActs == ASSUME FullInv, NEW c \in Downloads!Active, Downloads!Replied(c) PROVE FullInv'
<1> DEFINE f == fileCall[c].file
           done == fileCall[c].at = "stored" /\ ~fileCall[c].aborted
<1>1. Loads(fileCall, fileShown, fileCurrent) /\ Downloads!DownloadAssumption BY DEF FullInv
<1>2. c \in SaveCalls /\ fileCall[c] # Nothing /\ fileCall[c] \in Downloads!Records /\ f \in Files /\ fileCall[c].reopens \in BOOLEAN
  BY <1>1 DEF Loads, Downloads!Active, Downloads!Records
<1>3. /\ fileShown' = IF fileCall[c].aborted THEN fileShown ELSE [fileShown EXCEPT ![f] = IF done THEN "ready" ELSE "idle"]
      /\ fileCurrent' = [fileCurrent EXCEPT ![f] = Nothing]
      /\ fileCall' = [fileCall EXCEPT ![c] = Nothing]
      /\ box' = IF done THEN Downloads!Upgraded(f, fileCall[c].reopens) ELSE box
      /\ cached' = cached /\ fileUp' = fileUp
  BY DEF Downloads!Replied
<1> HIDE DEF f, done
<1>4. box' \in [file : Files, full : BOOLEAN] \cup {Downloads!Closed}
  BY <1>2, <1>3 DEF FullInv, Downloads!Upgraded
<1>5. /\ fileCall' \in [SaveCalls -> {Nothing} \cup Downloads!Records]
      /\ \A b \in SaveCalls : fileCall'[b] = IF b = c THEN Nothing ELSE fileCall[b]
  BY <1>1, <1>3 DEF Loads
<1>6. Running(fileCall') = Running(fileCall) \ {c} BY <1>5 DEF Running
<1>7. fileCurrent' \in [Files -> SaveCalls \cup {Nothing}] /\ \A g \in Files : fileCurrent'[g] = IF g = f THEN Nothing ELSE fileCurrent[g]
  BY <1>1, <1>3 DEF Loads
<1>8. ASSUME NEW g \in Files, fileCurrent'[g] # Nothing
      PROVE  fileCall'[fileCurrent'[g]] # Nothing /\ fileCall'[fileCurrent'[g]].file = g /\ ~fileCall'[fileCurrent'[g]].aborted
  <2>1. g # f /\ fileCurrent'[g] = fileCurrent[g] BY <1>7, <1>8
  <2>2. fileCurrent[g] \in SaveCalls /\ fileCall[fileCurrent[g]] # Nothing /\ fileCall[fileCurrent[g]].file = g /\ ~fileCall[fileCurrent[g]].aborted
    BY <2>1, <1>1, <1>8 DEF Loads
  <2> QED BY <2>1, <2>2, <1>5 DEF f
<1>9. \A b \in Running(fileCall') : fileCall'[b].parts < Parts
  BY <1>1, <1>5, <1>6 DEF Loads, Running
<1>10. fileShown' \in [Files -> Shows] BY <1>1, <1>2, <1>3 DEF Loads, Shows
<1>11. ASSUME NEW g \in Files, fileShown'[g] = "downloading"
       PROVE  \E b \in Running(fileCall') : fileCall'[b].file = g /\ ~fileCall'[b].aborted
  <2>1. fileShown[g] = "downloading" /\ (g = f => fileCall[c].aborted)
    BY <1>1, <1>2, <1>3, <1>11 DEF Loads
  <2>2. PICK b \in Running(fileCall) : fileCall[b].file = g /\ ~fileCall[b].aborted
    BY <2>1, <1>1 DEF Loads
  <2>3. b # c BY <2>1, <2>2 DEF f
  <2> QED BY <2>2, <2>3, <1>5, <1>6 DEF Running
<1> QED BY <1>1, <1>3, <1>4, <1>5, <1>7, <1>8, <1>9, <1>10, <1>11 DEF Loads, FullInv

LEMMA DaemonActs ==
    ASSUME FullInv, NEW c \in Downloads!Active,
           Downloads!DownloadGalleryFile(c) \/ Downloads!PartRead(c) \/ Downloads!ReadFails(c)
    PROVE  FullInv'
<1>1. Loads(fileCall, fileShown, fileCurrent) /\ Downloads!DownloadAssumption /\ c \in Running(fileCall)
  BY ActiveIs DEF FullInv
<1>2. fileCall[c] \in Downloads!Records /\ fileCall[c].parts < Parts
  <2>1. fileCall[c] \in Downloads!Records BY <1>1, RunningIs
  <2> QED BY <1>1, <2>1 DEF Loads
<1>3. cached \in [Files -> {0, Parts}] /\ fileCall[c].file \in Files
  BY <1>2 DEF FullInv, Downloads!Records
<1>4. PICK n \in 0..Parts, p \in Downloads!Fates :
         /\ n < Parts /\ fileCall' = [fileCall EXCEPT ![c] = [fileCall[c] EXCEPT !.parts = n, !.at = p]]
         /\ cached' = cached \/ cached' = [cached EXCEPT ![fileCall[c].file] = Parts]
         /\ fileShown' = fileShown /\ fileCurrent' = fileCurrent /\ box' = box /\ fileUp' = fileUp
  <2> USE <1>1, <1>2 DEF Loads, Running, Downloads!Records, Downloads!Fates, Downloads!renderer, Downloads!DownloadAssumption
  <2>1. CASE Downloads!DownloadGalleryFile(c)
    <3> DEFINE p == IF Downloads!GetFullFilePath(fileCall[c].file) THEN "stored" ELSE Downloads!Sent
    <3>1. p \in Downloads!Fates BY DEF Downloads!Sent
    <3>2. fileCall' = [fileCall EXCEPT ![c] = [fileCall[c] EXCEPT !.parts = fileCall[c].parts, !.at = p]]
      BY <2>1 DEF Downloads!DownloadGalleryFile
    <3> QED BY <2>1, <3>1, <3>2 DEF Downloads!DownloadGalleryFile
  <2>2. CASE Downloads!PartRead(c)
    <3> DEFINE parts == fileCall[c].parts + 1
               n == IF parts = Parts THEN 0 ELSE parts
               p == IF parts = Parts THEN "stored" ELSE "asked"
    <3>1. n \in 0..Parts /\ n < Parts /\ p \in Downloads!Fates OBVIOUS
    <3>2. fileCall' = [fileCall EXCEPT ![c] = [fileCall[c] EXCEPT !.parts = n, !.at = p]]
      BY <2>2 DEF Downloads!PartRead
    <3>3. cached' = cached \/ cached' = [cached EXCEPT ![fileCall[c].file] = Parts]
      BY <2>2 DEF Downloads!PartRead, Downloads!StoreFullFile
    <3> QED BY <2>2, <3>1, <3>2, <3>3 DEF Downloads!PartRead
  <2>3. CASE Downloads!ReadFails(c)
    <3>1. fileCall' = [fileCall EXCEPT ![c] = [fileCall[c] EXCEPT !.parts = 0, !.at = "error"]]
      BY <2>3 DEF Downloads!ReadFails
    <3>2. 0 \in 0..Parts /\ 0 < Parts /\ "error" \in Downloads!Fates OBVIOUS
    <3>3. cached' = cached /\ fileShown' = fileShown /\ fileCurrent' = fileCurrent /\ box' = box /\ fileUp' = fileUp
      BY <2>3 DEF Downloads!ReadFails
    <3> QED BY <3>1, <3>2, <3>3
  <2> QED BY <2>1, <2>2, <2>3
<1> DEFINE r == [fileCall[c] EXCEPT !.parts = n, !.at = p]
<1>5. r \in Downloads!Records /\ r.file = fileCall[c].file /\ r.aborted = fileCall[c].aborted /\ r.parts < Parts
  BY <1>2, <1>4 DEF Downloads!Records
<1>6. fileCall' = [fileCall EXCEPT ![c] = r] BY <1>4
<1> HIDE DEF r
<1>7. Loads(fileCall', fileShown', fileCurrent')
  <2>1. Loads([fileCall EXCEPT ![c] = r], fileShown, fileCurrent) BY <1>1, <1>5, CallTurns
  <2> QED BY <1>4, <1>6, <2>1
<1> QED BY <1>1, <1>3, <1>4, <1>7 DEF FullInv

LEMMA DisconnectActs == FullInv /\ Downloads!Disconnect => FullInv'
<1> SUFFICES ASSUME FullInv, Downloads!Disconnect PROVE FullInv' OBVIOUS
<1>1. Loads(fileCall, fileShown, fileCurrent) /\ Downloads!DownloadAssumption BY DEF FullInv
<1>2. /\ fileCall' = [c \in SaveCalls |-> IF c \in Downloads!Active /\ fileCall[c].at = "asked"
                                 THEN [fileCall[c] EXCEPT !.at = "lost"] ELSE fileCall[c]]
      /\ cached' = [f \in Files |-> 0] /\ fileUp' = FALSE
      /\ fileShown' = fileShown /\ fileCurrent' = fileCurrent /\ box' = box
  BY DEF Downloads!Disconnect, Downloads!renderer
<1>3. ASSUME NEW c \in SaveCalls
      PROVE  /\ fileCall'[c] \in {Nothing} \cup Downloads!Records /\ (fileCall'[c] = Nothing <=> fileCall[c] = Nothing)
             /\ fileCall[c] # Nothing => /\ fileCall'[c].file = fileCall[c].file /\ fileCall'[c].parts = fileCall[c].parts
                                         /\ fileCall'[c].aborted = fileCall[c].aborted
  <2>1. CASE c \in Downloads!Active /\ fileCall[c].at = "asked"
    <3>1. fileCall'[c] = [fileCall[c] EXCEPT !.at = "lost"] BY <1>2, <2>1
    <3>2. fileCall[c] \in Downloads!Records /\ fileCall[c] # Nothing
      BY <2>1, <1>1 DEF Downloads!Active, Loads
    <3> QED BY <3>1, <3>2, <1>1 DEF Downloads!Records, Downloads!Fates, Downloads!DownloadAssumption
  <2>2. CASE ~(c \in Downloads!Active /\ fileCall[c].at = "asked")
    <3>1. fileCall'[c] = fileCall[c] BY <1>2, <2>2
    <3> QED BY <3>1, <1>1 DEF Loads
  <2> QED BY <2>1, <2>2
<1>4. fileCall' \in [SaveCalls -> {Nothing} \cup Downloads!Records]
  <2>1. fileCall' = [c \in SaveCalls |-> fileCall'[c]] BY <1>2
  <2> QED BY <2>1, <1>3
<1>5. Running(fileCall') = Running(fileCall) BY <1>3 DEF Running
<1>6. Loads(fileCall', fileShown, fileCurrent)
  <2>1. \A f \in Files : fileCurrent[f] # Nothing =>
           fileCall'[fileCurrent[f]] # Nothing /\ fileCall'[fileCurrent[f]].file = f /\ ~fileCall'[fileCurrent[f]].aborted
    BY <1>1, <1>3 DEF Loads
  <2>2. \A c \in Running(fileCall') : fileCall'[c].parts < Parts
    BY <1>1, <1>3, <1>5 DEF Loads, Running
  <2>3. \A f \in Files : fileShown[f] = "downloading" =>
           \E c \in Running(fileCall') : fileCall'[c].file = f /\ ~fileCall'[c].aborted
    BY <1>1, <1>3, <1>5 DEF Loads, Running
  <2> QED BY <1>1, <1>4, <2>1, <2>2, <2>3 DEF Loads
<1>7. cached' \in [Files -> {0, Parts}] /\ fileUp' \in BOOLEAN BY <1>2
<1> QED BY <1>1, <1>2, <1>6, <1>7 DEF FullInv

LEMMA FullNext == FullInv /\ [Downloads!Next]_Downloads!vars => FullInv'
<1> SUFFICES ASSUME FullInv, [Downloads!Next]_Downloads!vars PROVE FullInv' OBVIOUS
<1>1. CASE UNCHANGED Downloads!vars BY <1>1 DEF Downloads!vars, FullInv
<1>2. ASSUME NEW f \in Files, Downloads!Click(f) \/ Downloads!Navigate(f) PROVE FullInv'
  BY <1>2, RendererActs
<1>3. CASE Downloads!CloseLightbox \/ Downloads!ResetDownloads \/ Downloads!Connect
  BY <1>3, ResetActs
<1>4. CASE Downloads!PrefetchAhead BY <1>4, PrefetchActs
<1>5. ASSUME NEW c \in Downloads!Active, Downloads!Replied(c) PROVE FullInv' BY <1>5, RepliedActs
<1>6. ASSUME NEW c \in Downloads!Active, Downloads!DownloadGalleryFile(c) \/ Downloads!PartRead(c) \/ Downloads!ReadFails(c)
      PROVE  FullInv'
  BY <1>6, DaemonActs
<1>7. CASE Downloads!Disconnect BY <1>7, DisconnectActs
<1> QED BY <1>1, <1>2, <1>3, <1>4, <1>5, <1>6, <1>7 DEF Downloads!Next

LEMMA FullGives == FullInv => Downloads!TypeOK /\ Downloads!SpinnersAreLive
<1> SUFFICES ASSUME FullInv PROVE Downloads!TypeOK /\ Downloads!SpinnersAreLive OBVIOUS
<1>1. Downloads!TypeOK
  BY DEF FullInv, Loads, Running, Shows, Downloads!Records, Downloads!TypeOK,
    Downloads!DownloadAssumption
<1>2. Downloads!SpinnersAreLive BY ActiveIs DEF FullInv, Loads, Downloads!SpinnersAreLive
<1> QED BY <1>1, <1>2

(* A spinner over a photo or video stands for a download that will set the *)
(* state, however requests, cancels and replies overlap, and the cache holds *)
(* files whole only (the gallery store, gallery-handler.ts, gallery-cache.ts), *)
(* for any number of files, saves and parts. *)
THEOREM SpinnersStayLive ==
    Downloads!DownloadAssumption => (Downloads!Spec => [](Downloads!TypeOK /\ Downloads!SpinnersAreLive))
<1> SUFFICES ASSUME Downloads!DownloadAssumption
             PROVE  Downloads!Spec => [](Downloads!TypeOK /\ Downloads!SpinnersAreLive) OBVIOUS
<1>1. Downloads!Init => FullInv BY FullInit
<1>2. FullInv /\ [Downloads!Next]_Downloads!vars => FullInv' BY FullNext
<1>3. FullInv => Downloads!TypeOK /\ Downloads!SpinnersAreLive BY FullGives
<1> QED BY <1>1, <1>2, <1>3, PTL DEF Downloads!Spec

--------------------
(* Updater: updates of the application *)

Statuses == [state : Updates!States, version : Releases \cup {0}]

UpdateTypes ==
    /\ newest \in Releases /\ found \in Releases \cup {0} /\ fetching \subseteq Releases
    /\ status \in Statuses /\ updateShown \in Statuses /\ notes \in Seq(Statuses)
    /\ app \in {"running", "quitting", "gone"} /\ checking \in BOOLEAN /\ dismissed \in BOOLEAN

Installing ==
    /\ \A v, w \in fetching : v = w
    /\ app # "running" => fetching = {}
    /\ status.state = "installing" => app # "running" \/ fetching = {status.version}
    /\ status.state = "checking" => checking
    /\ status.state = "available" => status.version = found

(* The last message sent to the window is the status. *)
Told == IF notes = <<>> THEN updateShown = status ELSE notes[Len(notes)] = status

UpdateInv == UpdateTypes /\ Installing /\ Told

LEMMA UpdateInit == Updates!UpdaterConstants /\ Updates!Init => UpdateInv
<1> SUFFICES ASSUME Updates!Init  PROVE UpdateInv
  OBVIOUS
<1>1. /\ newest \in Releases /\ status = [state |-> "idle", version |-> 0] /\ updateShown = status
      /\ found = 0 /\ checking = FALSE /\ fetching = {} /\ app = "running" /\ notes = <<>>
      /\ dismissed = FALSE
  BY DEF Updates!Init, Updates!Status
<1>2. status \in Statuses BY <1>1 DEF Statuses, Updates!States
<1>3. UpdateTypes
  <2>1. notes \in Seq(Statuses) BY <1>1, EmptySeq
  <2> QED BY <1>1, <1>2, <2>1 DEF UpdateTypes
<1>4. Installing /\ Told BY <1>1 DEF Installing, Told
<1> QED BY <1>3, <1>4 DEF UpdateInv

LEMMA StatusIsTold ==
    ASSUME UpdateTypes, NEW s \in Statuses, Updates!SetStatus(s), UNCHANGED updateShown
    PROVE  status' = s /\ notes' \in Seq(Statuses) /\ Told'
<1>1. /\ status' = s /\ notes' = Append(notes, s) /\ notes \in Seq(Statuses)
      /\ Len(notes) \in Nat
  BY LenProperties DEF Updates!SetStatus, UpdateTypes
<1>2. /\ notes' \in Seq(Statuses) /\ Len(notes') = Len(notes) + 1
      /\ notes'[Len(notes) + 1] = s
  BY <1>1, AppendProperties
<1>3. notes' # <<>> BY <1>1, <1>2, EmptySeq
<1> QED BY <1>1, <1>2, <1>3 DEF Told

LEMMA UpdateStep ==
    ASSUME UpdateInv, [Updates!Next]_(Updates!vars)
    PROVE  UpdateInv'
<1> USE DEF UpdateInv, Installing
<1>0. /\ \A s \in Updates!States, v \in Releases \cup {0} : Updates!Status(s, v) \in Statuses
      /\ \A s, v : Updates!Status(s, v).state = s /\ Updates!Status(s, v).version = v
      /\ Updates!States = {"idle", "checking", "available", "not-available", "installing", "error"}
  BY DEF Updates!Status, Updates!States, Statuses
<1>s. UNCHANGED <<status, notes, updateShown>> => Told' BY DEF Told
<1>1. ASSUME Updates!StartupCheck \/ Updates!CheckForUpdates \/ Updates!InstallNow
      PROVE  UpdateInv'
  BY <1>1, <1>s DEF Updates!StartupCheck, Updates!CheckForUpdates, Updates!InstallNow,
                    Updates!Click, Updates!Calls, UpdateTypes
<1>2. CASE Updates!Dismiss BY <1>2, <1>s DEF Updates!Dismiss, Updates!Click, UpdateTypes
<1>3. CASE Updates!HandleStatus
  <2>0. /\ notes # <<>> /\ updateShown' = Head(notes) /\ notes' = Tail(notes) /\ dismissed' = FALSE
        /\ UNCHANGED <<newest, status, found, checking, fetching, app, updateAsked, updateClicks>>
    BY <1>3 DEF Updates!HandleStatus
  <2>1. notes \in Seq(Statuses) /\ Len(notes) \in Nat \ {0}
    BY <2>0, LenProperties, EmptySeq DEF UpdateTypes
  <2>2. /\ updateShown' = notes[1] /\ updateShown' \in Statuses /\ notes' \in Seq(Statuses)
        /\ Len(notes') = Len(notes) - 1
        /\ \A i \in 1..Len(notes') : notes'[i] = notes[i + 1]
    BY <2>0, <2>1, HeadTailProperties
  <2>3. Told'
    <3>1. CASE notes' = <<>>
      <4>1. Len(notes) = 1 BY <2>1, <2>2, <3>1
      <4> QED BY <2>0, <2>2, <3>1, <4>1 DEF Told
    <3>2. CASE notes' # <<>>
      <4>1. Len(notes') \in 1..Len(notes') BY <2>1, <2>2, <3>2, EmptySeq
      <4>2. notes'[Len(notes')] = notes[Len(notes)] BY <2>1, <2>2, <4>1
      <4> QED BY <2>0, <3>2, <4>2 DEF Told
    <3> QED BY <3>1, <3>2
  <2> QED BY <2>0, <2>2, <2>3 DEF UpdateTypes
<1>4. CASE Updates!Check
  <2>0. UNCHANGED <<newest, found, fetching, app, updateShown, dismissed, updateClicks>>
    BY <1>4 DEF Updates!Check
  <2>1. CASE checking BY <1>4, <1>s, <2>0, <2>1 DEF Updates!Check, UpdateTypes
  <2>2. CASE ~checking
    <3>1. Updates!SetStatus(Updates!Status("checking", 0)) /\ checking' = TRUE
      BY <1>4, <2>2 DEF Updates!Check
    <3>2. status' = Updates!Status("checking", 0) /\ notes' \in Seq(Statuses) /\ Told'
      BY <1>0, <2>0, <3>1, StatusIsTold
    <3> QED BY <1>0, <2>0, <3>1, <3>2 DEF UpdateTypes
  <2> QED BY <2>1, <2>2
<1>5. CASE Updates!InstallNowCall
  <2>0. UNCHANGED <<newest, found, checking, app, updateShown, dismissed, updateClicks>> /\ app # "gone"
    BY <1>5 DEF Updates!InstallNowCall, Updates!Serves
  <2>1. CASE found = 0
    <3>1. Updates!SetStatus(Updates!Status("error", 0)) /\ UNCHANGED fetching
      BY <1>5, <2>1 DEF Updates!InstallNowCall
    <3>2. status' = Updates!Status("error", 0) /\ notes' \in Seq(Statuses) /\ Told'
      BY <1>0, <2>0, <3>1, StatusIsTold
    <3> QED BY <1>0, <2>0, <3>1, <3>2 DEF UpdateTypes
  <2>2. CASE found # 0 /\ (fetching # {} \/ app = "quitting")
    BY <1>5, <1>s, <2>0, <2>2 DEF Updates!InstallNowCall, Updates!StartInstall, UpdateTypes
  <2>3. CASE found # 0 /\ ~(fetching # {} \/ app = "quitting")
    <3>1. /\ Updates!SetStatus(Updates!Status("installing", found)) /\ fetching' = {found}
          /\ app = "running" /\ found \in Releases
      BY <1>5, <2>0, <2>3 DEF Updates!InstallNowCall, Updates!StartInstall, UpdateTypes
    <3>2. status' = Updates!Status("installing", found) /\ notes' \in Seq(Statuses) /\ Told'
      BY <1>0, <2>0, <3>1, StatusIsTold
    <3> QED BY <1>0, <2>0, <3>1, <3>2 DEF UpdateTypes
  <2> QED BY <2>1, <2>2, <2>3
<1>6. CASE Updates!UpdateAvailable
  <2>0. /\ checking' = FALSE /\ found' = newest /\ newest \in Releases
        /\ Updates!SetStatus(Updates!Status("available", newest))
        /\ UNCHANGED <<newest, fetching, app, updateAsked, updateShown, dismissed, updateClicks>>
    BY <1>6 DEF Updates!UpdateAvailable, UpdateTypes
  <2>1. status' = Updates!Status("available", newest) /\ notes' \in Seq(Statuses) /\ Told'
    BY <1>0, <2>0, StatusIsTold
  <2> QED BY <1>0, <2>0, <2>1 DEF UpdateTypes
<1>7. CASE Updates!UpdateNotAvailable
  <2>0. /\ checking' = FALSE /\ newest \in Releases
        /\ Updates!SetStatus(Updates!Status("not-available", newest))
        /\ UNCHANGED <<newest, found, fetching, app, updateAsked, updateShown, dismissed, updateClicks>>
    BY <1>7 DEF Updates!UpdateNotAvailable, UpdateTypes
  <2>1. status' = Updates!Status("not-available", newest) /\ notes' \in Seq(Statuses) /\ Told'
    BY <1>0, <2>0, StatusIsTold
  <2>2. status' \in Statuses /\ status'.state \notin {"installing", "checking", "available"}
    BY <1>0, <2>0, <2>1
  <2> QED BY <2>0, <2>1, <2>2 DEF UpdateTypes
<1>8. CASE Updates!CheckFails
  <2>0. /\ checking' = FALSE /\ Updates!SetStatus(Updates!Status("error", 0))
        /\ UNCHANGED <<newest, found, fetching, app, updateAsked, updateShown, dismissed, updateClicks>>
    BY <1>8 DEF Updates!CheckFails
  <2>1. status' = Updates!Status("error", 0) /\ notes' \in Seq(Statuses) /\ Told'
    BY <1>0, <2>0, StatusIsTold
  <2>2. status' \in Statuses /\ status'.state \notin {"installing", "checking", "available"}
    BY <1>0, <2>0, <2>1
  <2> QED BY <2>0, <2>1, <2>2 DEF UpdateTypes
<1>9. ASSUME NEW v \in Releases, Updates!Progress(v)  PROVE UpdateInv'
  <2>0. /\ v \in fetching /\ Updates!SetStatus(Updates!Status("installing", v))
        /\ UNCHANGED <<newest, found, checking, fetching, app, updateAsked, updateShown, dismissed, updateClicks>>
    BY <1>9 DEF Updates!Progress
  <2>1. status' = Updates!Status("installing", v) /\ notes' \in Seq(Statuses) /\ Told'
    BY <1>0, <2>0, StatusIsTold
  <2>2. fetching = {v} BY <2>0
  <2> QED BY <1>0, <2>0, <2>1, <2>2 DEF UpdateTypes
<1>10. ASSUME NEW v \in Releases, Updates!InstallerFetched(v)  PROVE UpdateInv'
  <2>0. /\ v \in fetching /\ Updates!SetStatus(Updates!Status("installing", v))
        /\ fetching' = fetching \ {v} /\ app' = "quitting"
        /\ UNCHANGED <<newest, found, checking, updateAsked, updateShown, dismissed, updateClicks>>
    BY <1>10 DEF Updates!InstallerFetched
  <2>1. status' = Updates!Status("installing", v) /\ notes' \in Seq(Statuses) /\ Told'
    BY <1>0, <2>0, StatusIsTold
  <2>2. fetching' = {} BY <2>0
  <2> QED BY <1>0, <2>0, <2>1, <2>2 DEF UpdateTypes
<1>11. ASSUME NEW v \in Releases, Updates!InstallerFails(v)  PROVE UpdateInv'
  <2>0. /\ v \in fetching /\ Updates!SetStatus(Updates!Status("error", 0))
        /\ fetching' = fetching \ {v}
        /\ UNCHANGED <<newest, found, checking, app, updateAsked, updateShown, dismissed, updateClicks>>
    BY <1>11 DEF Updates!InstallerFails, Updates!FailsWith
  <2>1. status' = Updates!Status("error", 0) /\ notes' \in Seq(Statuses) /\ Told'
    BY <1>0, <2>0, StatusIsTold
  <2> QED BY <1>0, <2>0, <2>1 DEF UpdateTypes
<1>12. CASE Updates!Quit BY <1>12, <1>s DEF Updates!Quit, UpdateTypes
<1>13. CASE Updates!ReleasePublished BY <1>13, <1>s DEF Updates!ReleasePublished, UpdateTypes
<1>14. CASE UNCHANGED Updates!vars BY <1>14, <1>s DEF Updates!vars, UpdateTypes
<1> QED BY <1>1, <1>2, <1>3, <1>4, <1>5, <1>6, <1>7, <1>8, <1>9, <1>10, <1>11, <1>12, <1>13,
           <1>14 DEF Updates!Next

LEMMA UpdatesHold == UpdateInv => Updates!TypeOK /\ Updates!UpdatesAreSound
<1> SUFFICES ASSUME UpdateInv  PROVE Updates!TypeOK /\ Updates!UpdatesAreSound
  OBVIOUS
<1>1. Updates!TypeOK BY DEF UpdateInv, UpdateTypes, Updates!TypeOK, Statuses
<1>2. Updates!Cardinality(fetching) = Cardinality(fetching)
  BY DEF Updates!Cardinality, Updates!IsFiniteSet, Cardinality, IsFiniteSet
<1>3. Cardinality(fetching) <= 1
  <2>1. CASE fetching = {} BY <2>1, FS_EmptySet
  <2>2. CASE fetching # {}
    <3>1. PICK v \in fetching : fetching = {v} BY <2>2 DEF UpdateInv, Installing
    <3>2. Cardinality({v}) = 1 BY FS_Singleton
    <3> QED BY <3>1, <3>2
  <2> QED BY <2>1, <2>2
<1>4. Updates!StatusArrives BY DEF UpdateInv, Told, Updates!StatusArrives
<1> QED BY <1>1, <1>2, <1>3, <1>4
        DEF UpdateInv, Installing, Updates!UpdatesAreSound, Updates!InstallIsHonest

(* One installer is fetched at a time and none after one was started; the *)
(* status says "installing" or "checking" only while that is true of the main *)
(* process; the version offered is the one that would be installed; and the *)
(* window's copy is that status once what is under way has arrived *)
(* (UpdatesAreSound): for every number of releases, clicks and messages. *)
THEOREM UpdatesStaySound ==
    Updates!UpdaterConstants =>
        (Updates!Spec => [](Updates!TypeOK /\ Updates!UpdatesAreSound))
<1> SUFFICES ASSUME Updates!UpdaterConstants
             PROVE  Updates!Spec => [](Updates!TypeOK /\ Updates!UpdatesAreSound)
  OBVIOUS
<1>1. Updates!Init => UpdateInv BY UpdateInit
<1>2. UpdateInv /\ [Updates!Next]_(Updates!vars) => UpdateInv' BY UpdateStep
<1>3. UpdateInv => Updates!TypeOK /\ Updates!UpdatesAreSound BY UpdatesHold
<1> QED BY <1>1, <1>2, <1>3, PTL DEF Updates!Spec

--------------------
(* VersionLock *)

(* compareSemver agrees with the order of versions, first difference first. *)
LEMMA SemverOrder ==
    ASSUME NEW a \in Lock!Semver, NEW b \in Lock!Semver, Lock!Lexicographic(a, b)
    PROVE  Lock!CompareSemver(a, b) < 0
<1>1. PICK i \in 1..3 : a[i] < b[i] /\ \A j \in 1..(i - 1) : a[j] = b[j] BY DEF Lock!Lexicographic
<1> DEFINE D == {j \in 1..3 : a[j] # b[j]}
           Least(k) == k \in D /\ \A j \in D : k <= j
<1>2. a[1] \in Nat /\ a[2] \in Nat /\ a[3] \in Nat /\ b[1] \in Nat /\ b[2] \in Nat /\ b[3] \in Nat
  BY DEF Lock!Semver
<1>3. i \in D
  <2>1. i = 1 \/ i = 2 \/ i = 3 OBVIOUS
  <2> QED BY <1>1, <1>2, <2>1
<1>4. \A j \in D : i <= j
  <2> SUFFICES ASSUME NEW j \in D, j < i PROVE FALSE
    OBVIOUS
  <2>1. j \in 1..(i - 1) OBVIOUS
  <2> QED BY <1>1, <2>1
<1> DEFINE k == CHOOSE k \in D : \A j \in D : k <= j
<1>5. k \in D /\ \A j \in D : k <= j BY <1>3, <1>4
<1>6. k = i BY <1>3, <1>4, <1>5
<1>7. Lock!CompareSemver(a, b) = a[k] - b[k] BY <1>3 DEF Lock!CompareSemver
<1>8. a[i] - b[i] < 0
  <2>1. i = 1 \/ i = 2 \/ i = 3 OBVIOUS
  <2> QED BY <1>1, <1>2, <2>1
<1> QED BY <1>6, <1>7, <1>8

(* What the window will have seen when it has heard everything. *)
Latest == IF news = <<>> THEN seen ELSE news[Len(news)]

(* A refusal is noted together with the context that says so. *)
LockTypes ==
    /\ version \in Versions /\ paired \in BOOLEAN /\ conn \in {"none", "open", "closing"}
    /\ context \in Lock!Contexts /\ versionCheckInfo \in Lock!Contexts /\ seen \in Lock!Contexts
    /\ news \in Seq(Lock!Contexts)
    /\ shownFor \in Versions \union {Lock!None}
Noted == versionCheckInfo # Lock!Unknown => Lock!Warns(versionCheckInfo)
Served == subscribed => conn # "none" /\ Lock!Verdict(version) = "fits"
LatestIsTrue ==
    paired /\ conn # "closing" =>
        IF versionCheckInfo = Lock!Unknown THEN ~Lock!Warns(Latest) ELSE Latest = versionCheckInfo
Shown == Lock!Warns(seen) => shownFor = seen.version
LockInv == LockTypes /\ Noted /\ Served /\ LatestIsTrue /\ Shown /\ Lock!RefusedIsCalled

LEMMA LockInit == Lock!Init => LockInv
<1> SUFFICES ASSUME Lock!Init PROVE LockInv
  OBVIOUS
<1>1. Lock!Unknown \in Lock!Contexts /\ ~Lock!Warns(Lock!Unknown)
  BY DEF Lock!Contexts, Lock!Unknown, Lock!Warns
<1>2. <<>> \in Seq(Lock!Contexts) OBVIOUS
<1> QED BY <1>1, <1>2
        DEF Lock!Init, LockInv, LockTypes, Noted, Served, LatestIsTrue, Shown, Latest,
            Lock!RefusedIsCalled

LEMMA LatestAppended ==
    ASSUME news \in Seq(Lock!Contexts), NEW c \in Lock!Contexts, news' = Append(news, c)
    PROVE  news' \in Seq(Lock!Contexts) /\ Latest' = c
  BY DEF Latest

(* A connection that does not fit is noted, one that fits clears the note. *)
LEMMA MeetStep ==
    ASSUME LockInv, Lock!Connects \/ Lock!PairingSucceeds
    PROVE  LockInv'
<1> DEFINE v == Lock!Verdict(version)
           c == [verdict |-> v, version |-> version]
<1>1. /\ LockTypes /\ Shown
      /\ context' = c /\ news' = Append(news, c)
      /\ versionCheckInfo' = IF v = "fits" THEN Lock!Unknown ELSE c
      /\ conn' = IF v = "fits" THEN "open" ELSE "closing"
      /\ subscribed' = (v = "fits")
      /\ paired' \in BOOLEAN
      /\ UNCHANGED <<version, seen, shownFor>>
  BY DEF LockInv, LockTypes, Lock!Connects, Lock!PairingSucceeds, Lock!Meets
<1>2. v \in {"selfTooOld", "peerTooOld", "fits"} BY DEF Lock!Verdict
<1>3. c \in Lock!Contexts BY <1>1, <1>2 DEF LockTypes, Lock!Contexts
<1>4. Lock!Unknown \in Lock!Contexts BY DEF Lock!Contexts, Lock!Unknown
<1>5. c.verdict = v OBVIOUS
<1>6. Lock!Verdict(version)' = v BY <1>1 DEF Lock!Verdict, Lock!CompareSemver
<1> HIDE DEF v, c
<1>7. news' \in Seq(Lock!Contexts) /\ Latest' = c BY <1>1, <1>3, LatestAppended DEF LockTypes
<1>8. LockTypes' BY <1>1, <1>3, <1>4, <1>7 DEF LockTypes
<1>9. Noted' /\ LatestIsTrue' BY <1>1, <1>2, <1>5, <1>7 DEF Noted, LatestIsTrue, Lock!Warns
<1>10. Served' BY <1>1, <1>6 DEF Served
<1>11. Shown' BY <1>1 DEF Shown, Lock!Warns
<1>12. Lock!RefusedIsCalled' BY <1>1 DEF Lock!RefusedIsCalled
<1> QED BY <1>8, <1>9, <1>10, <1>11, <1>12 DEF LockInv

LEMMA LeaveStep ==
    ASSUME LockInv, Lock!Disconnects
    PROVE  LockInv'
<1> DEFINE c == Lock!Cleared(context)
           tail == IF versionCheckInfo = Lock!Unknown THEN <<>> ELSE <<versionCheckInfo>>
<1>1. /\ LockTypes /\ Noted /\ Shown
      /\ conn' = "none" /\ subscribed' = FALSE
      /\ context' = IF versionCheckInfo = Lock!Unknown THEN c ELSE versionCheckInfo
      /\ news' = (news \o <<c, c>>) \o tail
      /\ versionTimer' = (versionTimer \/ (versionCheckInfo # Lock!Unknown /\ paired))
      /\ UNCHANGED <<version, paired, versionCheckInfo, seen, shownFor>>
  BY DEF LockInv, Lock!Disconnects
<1>2. c \in Lock!Contexts /\ c.verdict = "unknown"
  BY <1>1 DEF LockTypes, Lock!Cleared, Lock!Contexts
<1> HIDE DEF c
<1>3. news \in Seq(Lock!Contexts) /\ versionCheckInfo \in Lock!Contexts BY <1>1 DEF LockTypes
<1>4. news' \in Seq(Lock!Contexts) /\ news' # <<>> BY <1>1, <1>2, <1>3
<1>5. ASSUME versionCheckInfo = Lock!Unknown PROVE LatestIsTrue'
  <2>1. news' = news \o <<c, c>> BY <1>1, <1>2, <1>3, <1>5
  <2>2. Len(news') = Len(news) + 2 /\ news'[Len(news) + 2] = c BY <1>2, <1>3, <2>1
  <2>3. Latest' = c BY <1>3, <1>4, <2>2 DEF Latest
  <2> QED BY <1>1, <1>2, <1>5, <2>3 DEF LatestIsTrue, Lock!Warns
<1>6. ASSUME versionCheckInfo # Lock!Unknown PROVE LatestIsTrue'
  <2>1. news' = (news \o <<c, c>>) \o <<versionCheckInfo>> BY <1>1, <1>6
  <2>2. Len(news') = Len(news) + 3 /\ news'[Len(news) + 3] = versionCheckInfo BY <1>2, <1>3, <2>1
  <2>3. Latest' = versionCheckInfo BY <1>3, <1>4, <2>2 DEF Latest
  <2> QED BY <1>1, <1>6, <2>3 DEF LatestIsTrue
<1>7. LatestIsTrue' BY <1>5, <1>6
<1>8. LockTypes' BY <1>1, <1>2, <1>4 DEF LockTypes
<1>9. Noted' /\ Served' /\ Shown' BY <1>1 DEF Noted, Served, Shown, Lock!Warns
<1>10. Lock!RefusedIsCalled' BY <1>1 DEF Lock!RefusedIsCalled
<1> QED BY <1>7, <1>8, <1>9, <1>10 DEF LockInv

(* The window takes the oldest notification; the latest stays the latest. *)
LEMMA HearStep ==
    ASSUME LockInv, Lock!StateChanged
    PROVE  LockInv'
<1> DEFINE warns == Lock!Warns(seen') /\ seen'.version # shownFor
<1>1. /\ LockTypes /\ Shown /\ Noted /\ Served /\ LatestIsTrue /\ Lock!RefusedIsCalled
      /\ news # <<>> /\ news' = Tail(news) /\ seen' = Head(news)
      /\ shownFor' = IF warns THEN seen'.version ELSE shownFor
      /\ UNCHANGED <<version, paired, conn, context, versionCheckInfo, versionTimer, subscribed>>
  BY DEF LockInv, Lock!StateChanged, Lock!Warns
<1>2. news \in Seq(Lock!Contexts) BY <1>1 DEF LockTypes
<1>3. seen' \in Lock!Contexts /\ news' \in Seq(Lock!Contexts) BY <1>1, <1>2
<1>4. Latest' = Latest
  <2>1. CASE Len(news) = 1
    <3>1. news' = <<>> /\ news[Len(news)] = Head(news) BY <1>1, <1>2, <2>1
    <3> QED BY <1>1, <3>1 DEF Latest
  <2>2. CASE Len(news) > 1
    <3>1. Len(news') = Len(news) - 1 /\ news'[Len(news) - 1] = news[Len(news)] BY <1>1, <1>2, <2>2
    <3>2. news' # <<>> BY <1>2, <2>2, <3>1
    <3> QED BY <1>1, <3>1, <3>2 DEF Latest
  <2>3. Len(news) \in Nat /\ Len(news) # 0 BY <1>1, <1>2
  <2> QED BY <2>1, <2>2, <2>3
<1>5. shownFor' \in Versions \union {Lock!None} BY <1>1, <1>3 DEF LockTypes, Lock!Contexts
<1>6. LockTypes' BY <1>1, <1>3, <1>5 DEF LockTypes
<1>7. LatestIsTrue' BY <1>1, <1>4 DEF LatestIsTrue, Lock!Warns
<1>8. Shown' BY <1>1 DEF Shown, Lock!Warns
<1>9. Noted' BY <1>1 DEF Noted, Lock!Warns
<1>10. Served' BY <1>1 DEF Served, Lock!Verdict, Lock!CompareSemver
<1>11. Lock!RefusedIsCalled' BY <1>1 DEF Lock!RefusedIsCalled
<1> QED BY <1>6, <1>7, <1>8, <1>9, <1>10, <1>11 DEF LockInv

LEMMA LockStep == LockInv /\ [Lock!Next]_(Lock!vars) => LockInv'
<1> SUFFICES ASSUME LockInv, [Lock!Next]_(Lock!vars) PROVE LockInv'
  OBVIOUS
<1>1. ASSUME NEW v \in Versions, Lock!Upgraded(v) PROVE LockInv'
  BY <1>1 DEF Lock!Upgraded, LockInv, LockTypes, Noted, Served, LatestIsTrue, Shown, Latest,
              Lock!RefusedIsCalled, Lock!Warns
<1>2. CASE Lock!Unpaired
  <2>1. Lock!Unknown \in Lock!Contexts BY DEF Lock!Contexts, Lock!Unknown
  <2>2. conn' \in {"none", "open", "closing"} /\ (conn # "none" => conn' # "none")
    BY <1>2 DEF Lock!Unpaired, LockInv, LockTypes
  <2> QED BY <1>2, <2>1, <2>2
          DEF Lock!Unpaired, LockInv, LockTypes, Noted, Served, LatestIsTrue, Shown,
              Lock!RefusedIsCalled, Lock!Warns, Lock!Verdict, Lock!CompareSemver
<1>3. CASE Lock!ClosePopup \/ Lock!HandleVersionStatusClick \/ UNCHANGED Lock!vars
  <2>1. UNCHANGED <<version, paired, conn, context, versionCheckInfo, versionTimer, subscribed,
                    news, seen, shownFor>>
    BY <1>3 DEF Lock!ClosePopup, Lock!HandleVersionStatusClick, Lock!vars
  <2> QED BY <2>1 DEF LockInv, LockTypes, Noted, Served, LatestIsTrue, Shown, Latest,
                      Lock!RefusedIsCalled, Lock!Warns, Lock!Verdict, Lock!CompareSemver
<1> QED BY <1>1, <1>2, <1>3, MeetStep, LeaveStep, HearStep DEF Lock!Next

(* Both sides of a served phone are new enough for the other, the window *)
(* that has heard everything warns of a paired phone exactly when its last *)
(* connection was refused, and a refused phone that is away is called *)
(* (daemon.ts checkVersionCompatibility, state-machine.ts, App.svelte): for *)
(* any set of versions and any number of connections and upgrades. *)
THEOREM LockHolds ==
    ASSUME Lock!VersionConstants
    PROVE  Lock!Spec => []Lock!LockIsTrue
<1>1. LockInv => Lock!WarningIsTrue
  BY DEF LockInv, LockTypes, Noted, LatestIsTrue, Latest, Shown, Lock!WarningIsTrue
<1>2. LockInv => Lock!ServedPhonesFit
  <2> SUFFICES ASSUME LockInv, subscribed
               PROVE  /\ ~Lock!Lexicographic(version, MinPeerVersion)
                      /\ ~Lock!Lexicographic(ClientVersion, Demands[version])
    BY DEF Lock!ServedPhonesFit
  <2>1. /\ version \in Lock!Semver /\ MinPeerVersion \in Lock!Semver
        /\ ClientVersion \in Lock!Semver /\ Demands[version] \in Lock!Semver
    BY DEF LockInv, LockTypes, Lock!VersionConstants
  <2>2. /\ ~(Lock!CompareSemver(ClientVersion, Demands[version]) < 0)
        /\ ~(Lock!CompareSemver(version, MinPeerVersion) < 0)
    BY DEF LockInv, Served, Lock!Verdict
  <2> QED BY <2>1, <2>2, SemverOrder
<1>3. LockInv => Lock!LockIsTrue BY <1>1, <1>2 DEF LockInv, Lock!LockIsTrue
<1> QED BY <1>3, LockInit, LockStep, PTL DEF Lock!Spec

(* Types of the versions, the verdicts and what the window has seen of them *)
(* (daemon.ts checkVersionCompatibility, state-machine.ts). *)
THEOREM LockTypesHold ==
    ASSUME Lock!VersionConstants
    PROVE  Lock!Spec => []Lock!TypeOK
<1>1. LockInv => Lock!TypeOK BY DEF LockInv, LockTypes, Lock!TypeOK
<1> QED BY <1>1, LockInit, LockStep, PTL DEF Lock!Spec

--------------------
(* CommandLine: the daemon as a process, and the commands that talk to it *)

(* Who has begun and not stopped its server holds the port; who is not in the *)
(* window and has got past the check is the one the file names, until it has *)
(* ended; and the commands' socket is that of one that runs, or has crashed. *)
DaemonsOK ==
    /\ life \in [Cli!Daemons -> Cli!Phases] /\ embedded \subseteq Cli!Daemons
    /\ {port, pidFile, socketFile} \subseteq Cli!Daemons \union {0}
    /\ \A d \in Cli!Daemons :
          /\ life[d] \in {"init", "starting", "running", "stopping"} => port = d
          /\ d \notin embedded /\ life[d] \in {"starting", "running", "stopping", "closing"} => pidFile = d
          /\ d \notin embedded /\ life[d] = "running" => socketFile = d
          /\ life[d] = "starting" => d \notin embedded
          /\ socketFile = d => d \notin embedded /\ life[d] \in {"running", "dead"}

(* What a command no longer waits for was run. *)
CommandOK ==
    /\ command \in Cli!Commands \union {"none", "watch"}
    /\ commandServer \in Cli!Daemons \union {0} /\ (~Cli!Busy => commandServer = 0)
    /\ pending \subseteq Cli!Calls(command)
    /\ answers \subseteq Cli!Calls(command) \X {"result", "error", "not found"}
    /\ waiting \in BOOLEAN
    /\ waiting => command = "pair" /\ pending = {} /\ Cli!Busy
    /\ outcome \in {"none", "done", "failed", "not running", "not found"}
    /\ commandServer = 0 => pending = {} /\ answers = {}
    /\ commandServer # 0 => Cli!Calls(command) \ pending \subseteq ran
    /\ waiting \/ outcome = "done" => Cli!Calls(command) \subseteq ran
    /\ \A m : <<m, "result">> \in answers => m \in ran

Connected == commandServer # 0 => life[commandServer] = "running" /\ commandServer \notin embedded

ProcessInv == DaemonsOK /\ CommandOK /\ Connected

LEMMA WatchCalls == Cli!Calls("watch") = {}
<1>1. \A t \in Cli!Tables : "watch" \notin DOMAIN t
  BY DEF Cli!Tables, Cli!DeviceCommands, Cli!PairingCommands, Cli!KnownCommands,
         Cli!MessageCommands, Cli!DataCommands, Cli!FileCommands,
         Cli!PhoneCommands, Cli!Pair
<1> QED BY <1>1 DEF Cli!Calls

LEMMA ProcessInit == MaxDaemons \in Nat /\ Cli!Init => ProcessInv
<1> SUFFICES ASSUME MaxDaemons \in Nat, Cli!Init  PROVE ProcessInv
  OBVIOUS
<1>1. \A d \in Cli!Daemons : d # 0 BY DEF Cli!Daemons
<1>2. DaemonsOK BY <1>1 DEF DaemonsOK, Cli!Init, Cli!Phases
<1>3. CommandOK /\ Connected BY DEF CommandOK, Connected, Cli!Init, Cli!Busy
<1> QED BY <1>2, <1>3 DEF ProcessInv

--------------------
(* The daemons: what a step does to the one it is about. *)
LEMMA DaemonsStep ==
    ASSUME MaxDaemons \in Nat, DaemonsOK, NEW d \in Cli!Daemons,
           \/ \E w \in BOOLEAN : Cli!InitDaemon(d, w)
           \/ Cli!StartDaemon(d) \/ Cli!StartIpc(d) \/ Cli!StopDaemon(d)
           \/ Cli!StopWsServer(d) \/ Cli!RemovePidFile(d) \/ Cli!Crash(d)
    PROVE  DaemonsOK' /\ \A e \in Cli!Daemons : e # d => life'[e] = life[e] /\ (e \in embedded' <=> e \in embedded)
<1>0. /\ \A e \in Cli!Daemons : e # 0
      /\ life \in [Cli!Daemons -> Cli!Phases] /\ embedded \subseteq Cli!Daemons
      /\ {port, pidFile, socketFile} \subseteq Cli!Daemons \union {0}
  BY DEF Cli!Daemons, DaemonsOK
<1>1. ASSUME NEW w \in BOOLEAN, Cli!InitDaemon(d, w)
      PROVE  DaemonsOK' /\ \A e \in Cli!Daemons : e # d => life'[e] = life[e] /\ (e \in embedded' <=> e \in embedded)
  BY <1>0, <1>1 DEF DaemonsOK, Cli!InitDaemon, Cli!Phases
<1>2. CASE Cli!StartDaemon(d) BY <1>0, <1>2 DEF DaemonsOK, Cli!StartDaemon, Cli!Phases, Cli!Alive
<1>3. CASE Cli!StartIpc(d) BY <1>0, <1>3 DEF DaemonsOK, Cli!StartIpc, Cli!Phases
<1>4. CASE Cli!StopDaemon(d) BY <1>0, <1>4 DEF DaemonsOK, Cli!StopDaemon, Cli!Phases
<1>5. CASE Cli!StopWsServer(d) BY <1>0, <1>5 DEF DaemonsOK, Cli!StopWsServer, Cli!Phases
<1>6. CASE Cli!RemovePidFile(d) BY <1>0, <1>6 DEF DaemonsOK, Cli!RemovePidFile, Cli!Phases
<1>7. CASE Cli!Crash(d) BY <1>0, <1>7 DEF DaemonsOK, Cli!Crash, Cli!Phases, Cli!Alive
<1> QED BY <1>1, <1>2, <1>3, <1>4, <1>5, <1>6, <1>7

(* The command, when its connection ends with the daemon's, and otherwise. *)
LEMMA ConnectionEnds ==
    ASSUME CommandOK, Cli!ConnectionLost, commandServer # 0
    PROVE  CommandOK' /\ commandServer' = 0
<1>1. commandServer' = 0 /\ pending' = {} /\ answers' = {} /\ ran' = ran /\ command' = command
      /\ waiting' = waiting
  BY DEF Cli!ConnectionLost
<1>2. CASE waiting
  <2>1. outcome' = outcome BY <1>2 DEF Cli!ConnectionLost
  <2> QED BY <1>1, <1>2, <2>1 DEF CommandOK, Cli!Busy
<1>3. CASE ~waiting
  <2>1. outcome' = IF command = "watch" THEN "done" ELSE "failed" BY <1>3 DEF Cli!ConnectionLost
  <2> QED BY <1>1, <1>3, <2>1, WatchCalls DEF CommandOK, Cli!Busy
<1> QED BY <1>2, <1>3, <1>1

LEMMA CommandStays ==
    ASSUME CommandOK, UNCHANGED Cli!client
    PROVE  CommandOK' /\ commandServer' = commandServer
<1>1. /\ command' = command /\ commandServer' = commandServer /\ pending' = pending /\ answers' = answers
      /\ waiting' = waiting /\ outcome' = outcome /\ ran' = ran
  BY DEF Cli!client
<1> QED BY <1>1 DEF CommandOK, Cli!Busy

LEMMA DaemonKeeps ==
    ASSUME MaxDaemons \in Nat, ProcessInv, Cli!DaemonStep
    PROVE  ProcessInv'
<1>a. \A d \in Cli!Daemons : d # 0 BY DEF Cli!Daemons
<1>0. DaemonsOK /\ CommandOK /\ Connected /\ commandServer \in Cli!Daemons \union {0}
      /\ \A d \in Cli!Daemons : d # 0
  BY <1>a DEF ProcessInv, CommandOK
<1>1. PICK d \in Cli!Daemons :
       \/ \E w \in BOOLEAN : Cli!InitDaemon(d, w)
       \/ Cli!StartDaemon(d) \/ Cli!StartIpc(d)
       \/ Cli!StopDaemon(d) \/ Cli!StopWsServer(d) \/ Cli!RemovePidFile(d) \/ Cli!Crash(d)
  BY DEF Cli!DaemonStep
<1>2. DaemonsOK' /\ \A e \in Cli!Daemons : e # d => life'[e] = life[e] /\ (e \in embedded' <=> e \in embedded)
  BY <1>0, <1>1, DaemonsStep
<1>3. CASE Cli!StopDaemon(d) \/ Cli!Crash(d)
  <2>1. Cli!Lost(d) BY <1>3 DEF Cli!StopDaemon, Cli!Crash
  <2>2. CASE commandServer = d
    <3>1. Cli!ConnectionLost /\ commandServer # 0 BY <1>0, <2>1, <2>2 DEF Cli!Lost
    <3>2. CommandOK' /\ commandServer' = 0 BY <1>0, <3>1, ConnectionEnds
    <3> QED BY <1>2, <3>2 DEF ProcessInv, Connected
  <2>3. CASE commandServer # d
    <3>1. UNCHANGED Cli!client BY <2>1, <2>3 DEF Cli!Lost
    <3>2. CommandOK' /\ commandServer' = commandServer BY <1>0, <3>1, CommandStays
    <3> QED BY <1>0, <1>2, <2>3, <3>2 DEF ProcessInv, Connected
  <2> QED BY <2>2, <2>3
<1>4. CASE ~(Cli!StopDaemon(d) \/ Cli!Crash(d))
  <2>1. UNCHANGED Cli!client /\ life[d] # "running"
    BY <1>1, <1>4 DEF Cli!InitDaemon, Cli!StartDaemon, Cli!StartIpc,
                      Cli!StopWsServer, Cli!RemovePidFile
  <2>2. CommandOK' /\ commandServer' = commandServer BY <1>0, <2>1, CommandStays
  <2> QED BY <1>0, <1>2, <2>1, <2>2 DEF ProcessInv, Connected
<1> QED BY <1>3, <1>4

LEMMA EndsWell ==
    ASSUME CommandOK, NEW how \in {"done", "failed", "not found"}, Cli!End(how), UNCHANGED ran,
           how = "done" => Cli!Calls(command) \subseteq ran
    PROVE  CommandOK' /\ commandServer' = 0
BY DEF CommandOK, Cli!End, Cli!Busy

LEMMA CommandKeeps ==
    ASSUME MaxDaemons \in Nat, ProcessInv, Cli!CommandStep
    PROVE  ProcessInv'
<1>a. \A d \in Cli!Daemons : d # 0 BY DEF Cli!Daemons
<1>0. DaemonsOK /\ CommandOK /\ Connected /\ commandServer \in Cli!Daemons \union {0}
      /\ \A d \in Cli!Daemons : d # 0
  BY <1>a DEF ProcessInv, CommandOK
<1>1. UNCHANGED Cli!daemon
  BY DEF Cli!CommandStep, Cli!Run, Cli!HandleMessage, Cli!HandleResponse,
         Cli!PairingResult, Cli!RequestTimeout, Cli!PairingTimeout, Cli!Interrupt
<1>2. DaemonsOK' BY <1>0, <1>1 DEF DaemonsOK, Cli!daemon
<1>3. ASSUME CommandOK', commandServer' \in {0, commandServer}  PROVE ProcessInv'
  BY <1>0, <1>1, <1>2, <1>3 DEF ProcessInv, Connected, Cli!daemon
<1>4. ASSUME NEW c \in Cli!Commands \union {"watch"}, Cli!Run(c)
      PROVE  ProcessInv'
  <2>1. ~Cli!Busy /\ commandServer = 0 /\ pending = {} /\ answers = {} /\ ~waiting
    BY <1>0, <1>4 DEF Cli!Run, CommandOK
  <2>2. command' = c /\ ran' = {} /\ answers' = {} /\ waiting' = waiting BY <1>4 DEF Cli!Run
  <2>3. CASE Cli!Alive(socketFile)
    <3>1. commandServer' = socketFile /\ outcome' = "none" /\ pending' = Cli!Calls(c)
      BY <1>4, <2>3 DEF Cli!Run
    <3>2. socketFile # 0 /\ socketFile \in Cli!Daemons /\ life[socketFile] = "running"
          /\ socketFile \notin embedded
      BY <1>0, <2>3 DEF DaemonsOK, Cli!Alive
    <3>3. Connected' BY <1>1, <3>1, <3>2 DEF Connected, Cli!daemon
    <3>4. c # "none"
      BY DEF Cli!Commands, Cli!Tables, Cli!DeviceCommands, Cli!PairingCommands,
             Cli!KnownCommands, Cli!MessageCommands, Cli!DataCommands,
             Cli!FileCommands, Cli!PhoneCommands, Cli!Pair
    <3>5. CommandOK' BY <1>0, <2>1, <2>2, <3>1, <3>2, <3>4 DEF CommandOK, Cli!Busy
    <3> QED BY <1>2, <3>3, <3>5 DEF ProcessInv
  <2>4. CASE ~Cli!Alive(socketFile)
    <3>1. outcome' = "not running" /\ commandServer' = commandServer /\ pending' = pending
      BY <1>4, <2>4 DEF Cli!Run
    <3>2. CommandOK' BY <1>0, <2>1, <2>2, <3>1 DEF CommandOK, Cli!Busy
    <3> QED BY <1>3, <3>1, <3>2
  <2> QED BY <2>3, <2>4
<1>5. ASSUME NEW m \in Cli!Calls(command), NEW ok \in BOOLEAN, Cli!HandleMessage(m, ok)
      PROVE  ProcessInv'
  <2> DEFINE kind == IF m \notin Cli!Served THEN "not found" ELSE IF ok THEN "result" ELSE "error"
  <2>1. /\ commandServer # 0 /\ answers' = answers \union {<<m, kind>>}
        /\ ran' = IF m \in Cli!Served /\ ok THEN ran \union {m} ELSE ran
        /\ UNCHANGED <<command, commandServer, pending, waiting, outcome>>
    BY <1>5 DEF Cli!HandleMessage
  <2>2. kind \in {"result", "error", "not found"} /\ (kind = "result" => m \in ran') BY <2>1
  <2> HIDE DEF kind
  <2>3. ran \subseteq ran' BY <2>1
  <2>4. \A n : <<n, "result">> \in answers' => n \in ran' BY <1>0, <2>1, <2>2, <2>3 DEF CommandOK
  <2>5. answers' \subseteq Cli!Calls(command) \X {"result", "error", "not found"}
    <3>1. <<m, kind>> \in Cli!Calls(command) \X {"result", "error", "not found"} BY <2>2
    <3> QED BY <1>0, <2>1, <3>1 DEF CommandOK
  <2>6. CommandOK' BY <1>0, <2>1, <2>3, <2>4, <2>5 DEF CommandOK, Cli!Busy
  <2> QED BY <1>3, <2>1, <2>6
<1>6. ASSUME NEW m \in Cli!Calls(command), Cli!HandleResponse(m)
      PROVE  ProcessInv'
  <2>0. m \in pending /\ ran' = ran /\ commandServer # 0
    BY <1>0, <1>6 DEF Cli!HandleResponse, CommandOK
  <2>1. CASE <<m, "result">> \in answers /\ pending # {m}
             /\ pending' = pending \ {m} /\ UNCHANGED <<command, commandServer, answers, waiting, outcome>>
    <3>1. m \in ran /\ ~waiting BY <1>0, <2>0, <2>1 DEF CommandOK
    <3>2. CommandOK' BY <1>0, <2>0, <2>1, <3>1 DEF CommandOK, Cli!Busy
    <3> QED BY <1>3, <2>1, <3>2
  <2>2. CASE <<m, "result">> \in answers /\ pending = {m} /\ command = "pair"
             /\ pending' = {} /\ waiting' = TRUE /\ UNCHANGED <<command, commandServer, answers, outcome>>
    <3>1. Cli!Calls(command) \subseteq ran /\ Cli!Busy BY <1>0, <2>0, <2>2 DEF CommandOK
    <3>2. CommandOK' BY <1>0, <2>0, <2>2, <3>1 DEF CommandOK, Cli!Busy
    <3> QED BY <1>3, <2>2, <3>2
  <2>3. CASE <<m, "result">> \in answers /\ pending = {m} /\ Cli!End("done")
    <3>1. Cli!Calls(command) \subseteq ran BY <1>0, <2>0, <2>3 DEF CommandOK
    <3>2. CommandOK' /\ commandServer' = 0 BY <1>0, <2>0, <2>3, <3>1, EndsWell
    <3> QED BY <1>3, <3>2
  <2>4. CASE Cli!End("failed") \/ Cli!End("not found")
    <3>1. CommandOK' /\ commandServer' = 0 BY <1>0, <2>0, <2>4, EndsWell
    <3> QED BY <1>3, <3>1
  <2> QED BY <1>6, <2>1, <2>2, <2>3, <2>4 DEF Cli!HandleResponse
<1>7. ASSUME NEW ok \in BOOLEAN, Cli!PairingResult(ok)
      PROVE  ProcessInv'
  <2>1. Cli!Calls(command) \subseteq ran /\ ran' = ran
    BY <1>0, <1>7 DEF CommandOK, Cli!PairingResult
  <2>2. Cli!End("done") \/ Cli!End("failed") BY <1>7 DEF Cli!PairingResult
  <2>3. CommandOK' /\ commandServer' = 0 BY <1>0, <2>1, <2>2, EndsWell
  <2> QED BY <1>3, <2>3
<1>8. CASE Cli!RequestTimeout \/ Cli!PairingTimeout
  <2>1. Cli!End("failed") /\ ran' = ran BY <1>8 DEF Cli!RequestTimeout, Cli!PairingTimeout
  <2>2. CommandOK' /\ commandServer' = 0 BY <1>0, <2>1, EndsWell
  <2> QED BY <1>3, <2>2
<1>9. CASE Cli!Interrupt
  <2>1. Cli!End("done") /\ ran' = ran /\ command = "watch" BY <1>9 DEF Cli!Interrupt
  <2>2. CommandOK' /\ commandServer' = 0 BY <1>0, <2>1, EndsWell, WatchCalls
  <2> QED BY <1>3, <2>2
<1> QED BY <1>4, <1>5, <1>6, <1>7, <1>8, <1>9 DEF Cli!CommandStep

LEMMA ProcessGives ==
    ASSUME MaxDaemons \in Nat, ProcessInv
    PROVE  Cli!TypeOK /\ Cli!OneDaemonServes /\ Cli!CommandsAreHonest
<1>1. Cli!TypeOK BY DEF ProcessInv, DaemonsOK, CommandOK, Connected, Cli!TypeOK
<1>2. Cli!OneDaemonServes BY DEF ProcessInv, DaemonsOK, Cli!OneDaemonServes
<1>3. Cli!CommandsAreHonest BY DEF ProcessInv, CommandOK, Cli!CommandsAreHonest
<1> QED BY <1>1, <1>2, <1>3

(* However daemons are started, stopped and killed, at most one is at work, *)
(* one that runs for commands is the one that both files name, and a command *)
(* that reports success had everything it called run (daemon.ts, pid.ts, the *)
(* IPC server and cli/): for every number of daemons, one after the other or *)
(* at once. *)
THEOREM DaemonsStayApart ==
    MaxDaemons \in Nat =>
        (Cli!Spec => [](Cli!TypeOK /\ Cli!OneDaemonServes /\ Cli!CommandsAreHonest))
<1> SUFFICES ASSUME MaxDaemons \in Nat
             PROVE  Cli!Spec => [](Cli!TypeOK /\ Cli!OneDaemonServes /\ Cli!CommandsAreHonest)
  OBVIOUS
<1>1. Cli!Init => ProcessInv BY ProcessInit
<1>2. ProcessInv /\ [Cli!Next]_Cli!vars => ProcessInv'
  <2> SUFFICES ASSUME ProcessInv, [Cli!Next]_Cli!vars  PROVE ProcessInv'
    OBVIOUS
  <2>1. CASE Cli!DaemonStep BY <2>1, DaemonKeeps
  <2>2. CASE Cli!CommandStep BY <2>2, CommandKeeps
  <2>3. CASE UNCHANGED Cli!vars
    BY <2>3 DEF Cli!vars, ProcessInv, DaemonsOK, CommandOK, Connected, Cli!Busy
  <2> QED BY <2>1, <2>2, <2>3 DEF Cli!Next
<1>3. ProcessInv => Cli!TypeOK /\ Cli!OneDaemonServes /\ Cli!CommandsAreHonest BY ProcessGives
<1> QED BY <1>1, <1>2, <1>3, PTL DEF Cli!Spec

--------------------
(* WebdavMount: the life of the file server *)

Panels == [open : BOOLEAN, running : BOOLEAN, loading : BOOLEAN]

(* One server listens at a time, as they share a port; a server that outlives *)
(* its phone is one that began to listen without it, or has its timer. *)
MountInv ==
    /\ mountUp \in BOOLEAN /\ timer \in BOOLEAN
    /\ mountServer \in [Servers -> Mounts!States] /\ mountCurrent \in Servers \cup {0}
    /\ created \in 0..Cardinality(Servers) /\ panel \in Panels
    /\ \A s, t \in Servers : mountServer[s] = "running" /\ mountServer[t] = "running" => s = t
    /\ timer => ~mountUp
    /\ ~mountUp /\ mountCurrent # 0 /\ mountServer[mountCurrent] = "running" /\ mountCurrent \notin alone => timer

LEMMA ServerNumbers ==
    /\ \A S : Mounts!Cardinality(S) = Cardinality(S) /\ Mounts!IsFiniteSet(S) = IsFiniteSet(S)
    /\ Mounts!WebdavConstants =>
          Cardinality(Servers) \in Nat /\ Servers = 1..Cardinality(Servers) /\ 0 \notin Servers
<1>1. \A S : Mounts!Cardinality(S) = Cardinality(S) /\ Mounts!IsFiniteSet(S) = IsFiniteSet(S)
  BY DEF Mounts!Cardinality, Mounts!IsFiniteSet, Cardinality, IsFiniteSet
<1>2. ASSUME Mounts!WebdavConstants
      PROVE  Cardinality(Servers) \in Nat /\ Servers = 1..Cardinality(Servers)
  BY <1>1, <1>2, FS_CardinalityType DEF Mounts!WebdavConstants
<1>3. Mounts!WebdavConstants => 0 \notin Servers
  <2> DEFINE n == Cardinality(Servers)
  <2>1. Mounts!WebdavConstants => n \in Nat /\ Servers = 1..n BY <1>2
  <2> HIDE DEF n
  <2> QED BY <2>1
<1> QED BY <1>1, <1>2, <1>3

LEMMA MountInit == Mounts!WebdavConstants /\ Mounts!Init => MountInv
<1> SUFFICES ASSUME Mounts!WebdavConstants, Mounts!Init  PROVE MountInv
  OBVIOUS
<1>1. panel \in Panels BY DEF Mounts!Init, Mounts!Closed, Panels
<1>2. created \in 0..Cardinality(Servers) BY ServerNumbers DEF Mounts!Init
<1>3. mountServer \in [Servers -> Mounts!States] /\ \A s \in Servers : mountServer[s] = "none"
  BY DEF Mounts!Init, Mounts!States
<1>4. mountUp \in BOOLEAN /\ timer = FALSE /\ mountCurrent = 0 BY DEF Mounts!Init
<1> QED BY <1>1, <1>2, <1>3, <1>4 DEF MountInv

(* Whoever waits for a server is told, in the panel or the gallery. *)
LEMMA ToldPanel ==
    ASSUME panel \in Panels, NEW who, NEW ok \in BOOLEAN, Mounts!Told(who, ok)
    PROVE  panel' \in Panels
<1>1. panel.running \/ ok \in BOOLEAN BY DEF Panels
<1> QED BY <1>1 DEF Mounts!Told, Panels

LEMMA StartKeepsMount ==
    ASSUME Mounts!WebdavConstants, MountInv, NEW who, Mounts!StartWebdav(who),
           UNCHANGED <<mountUp, timer, alone>>
    PROVE  MountInv'
<1>0. /\ Cardinality(Servers) \in Nat /\ Servers = 1..Cardinality(Servers) /\ 0 \notin Servers
      /\ Mounts!Cardinality(Servers) = Cardinality(Servers)
  BY ServerNumbers
<1>1. CASE Mounts!IsRunning
  <2>1. Mounts!Told(who, TRUE) /\ UNCHANGED <<created, mountServer, mountCurrent>>
    BY <1>1 DEF Mounts!StartWebdav
  <2>2. panel' \in Panels BY <2>1, ToldPanel DEF MountInv
  <2> QED BY <2>1, <2>2 DEF MountInv
<1>2. CASE ~Mounts!IsRunning
  <2> DEFINE n == created + 1
  <2>1. /\ created < Cardinality(Servers) /\ created' = n /\ mountCurrent' = n
        /\ mountServer' = [mountServer EXCEPT ![n] = "binding"]
        /\ panel' = panel \/ panel' = [panel EXCEPT !.loading = TRUE]
    BY <1>0, <1>2 DEF Mounts!StartWebdav
  <2>2. n \in Servers /\ n \in 0..Cardinality(Servers) BY <1>0, <2>1 DEF MountInv
  <2> HIDE DEF n
  <2>3. panel' \in Panels BY <2>1 DEF MountInv, Panels
  <2>4. /\ mountServer' \in [Servers -> Mounts!States] /\ mountServer'[n] = "binding"
        /\ \A s \in Servers : mountServer'[s] = "running" => mountServer[s] = "running"
    BY <2>1, <2>2 DEF MountInv, Mounts!States
  <2> QED BY <1>0, <2>1, <2>2, <2>3, <2>4 DEF MountInv
<1> QED BY <1>1, <1>2

LEMMA MountKeeps ==
    ASSUME Mounts!WebdavConstants, MountInv, [Mounts!Next]_Mounts!vars
    PROVE  MountInv'
<1>0. /\ 0 \notin Servers /\ panel \in Panels /\ Cardinality(Servers) \in Nat
  BY ServerNumbers DEF MountInv
<1>1. CASE Mounts!Connection \/ Mounts!Disconnection
  BY <1>0, <1>1 DEF MountInv, Mounts!Connection, Mounts!Disconnection, Mounts!StopsTimer,
                    Mounts!IsRunning
<1>2. CASE Mounts!DisconnectTimer
  <2>1. timer' = FALSE /\ UNCHANGED <<mountUp, created, panel, alone>>
    BY <1>2 DEF Mounts!DisconnectTimer
  <2>2. CASE Mounts!IsRunning
    <3>1. mountServer' = [mountServer EXCEPT ![mountCurrent] = "closing"] /\ mountCurrent' = 0
      BY <1>2, <2>2 DEF Mounts!DisconnectTimer
    <3> QED BY <1>0, <2>1, <3>1 DEF MountInv, Mounts!States
  <2>3. CASE ~Mounts!IsRunning
    <3>1. UNCHANGED <<mountServer, mountCurrent>> BY <1>2, <2>3 DEF Mounts!DisconnectTimer
    <3> QED BY <1>0, <2>1, <2>3, <3>1 DEF MountInv, Mounts!IsRunning
  <2> QED BY <2>2, <2>3
<1>3. ASSUME NEW s \in Servers, Mounts!Bound(s)  PROVE MountInv'
  <2> DEFINE free == Mounts!Listening = {}
  <2>1. /\ mountServer[s] = "binding" /\ mountServer' = [mountServer EXCEPT ![s] = IF free THEN "running" ELSE "gone"]
        /\ Mounts!Told(starter[s], free) /\ alone' = IF mountUp THEN alone ELSE alone \cup {s}
        /\ UNCHANGED <<mountUp, timer, created, mountCurrent>>
    BY <1>3 DEF Mounts!Bound
  <2>2. free <=> \A t \in Servers : mountServer[t] # "running" BY DEF Mounts!Listening
  <2>3. free \in BOOLEAN OBVIOUS
  <2> HIDE DEF free
  <2>4. panel' \in Panels BY <1>0, <2>1, <2>3, ToldPanel
  <2>5. mountServer' \in [Servers -> Mounts!States]
        /\ \A t \in Servers : mountServer'[t] = IF t = s THEN (IF free THEN "running" ELSE "gone") ELSE mountServer[t]
    BY <2>1 DEF MountInv, Mounts!States
  <2>6. \A t, u \in Servers : mountServer'[t] = "running" /\ mountServer'[u] = "running" => t = u
    BY <2>2, <2>5 DEF MountInv
  <2> QED BY <2>1, <2>4, <2>5, <2>6 DEF MountInv
<1>4. ASSUME NEW s \in Servers, Mounts!Close(s)  PROVE MountInv'
  <2>1. /\ mountServer[s] = "closing" /\ mountServer' = [mountServer EXCEPT ![s] = "gone"]
        /\ UNCHANGED <<mountUp, timer, created, alone>>
        /\ mountCurrent' \in {0, mountCurrent}
        /\ panel' = panel \/ panel' = [panel EXCEPT !.running = FALSE, !.loading = FALSE]
    BY <1>4 DEF Mounts!Close
  <2>2. panel' \in Panels BY <1>0, <2>1 DEF Panels
  <2>3. mountServer' \in [Servers -> Mounts!States]
        /\ \A t \in Servers : mountServer'[t] = IF t = s THEN "gone" ELSE mountServer[t]
    BY <2>1 DEF MountInv, Mounts!States
  <2> QED BY <2>1, <2>2, <2>3 DEF MountInv
<1>5. CASE Mounts!OpenSettings \/ Mounts!CloseSettings
  <2>1. UNCHANGED <<mountUp, timer, created, mountServer, mountCurrent, alone>>
    BY <1>5 DEF Mounts!OpenSettings, Mounts!CloseSettings
  <2>2. Mounts!IsRunning \in BOOLEAN BY DEF Mounts!IsRunning
  <2>3. CASE Mounts!OpenSettings
    <3>1. panel' = [open |-> TRUE, running |-> Mounts!IsRunning, loading |-> FALSE]
      BY <2>3 DEF Mounts!OpenSettings
    <3> QED BY <2>1, <2>2, <3>1 DEF MountInv, Panels
  <2>4. CASE Mounts!CloseSettings
    <3>1. panel' \in Panels BY <2>4 DEF Mounts!CloseSettings, Mounts!Closed, Panels
    <3> QED BY <2>1, <3>1 DEF MountInv
  <2> QED BY <1>5, <2>3, <2>4
<1>6. CASE Mounts!Mount \/ Mounts!ShowInExplorer
  BY <1>6, StartKeepsMount DEF Mounts!Mount, Mounts!ShowInExplorer
<1>7. CASE Mounts!Unmount
  <2>1. Mounts!StopWebdav /\ UNCHANGED <<mountUp, timer, created, alone>> BY <1>7 DEF Mounts!Unmount
  <2>2. CASE mountCurrent # 0 /\ mountServer[mountCurrent] = "running"
    <3>1. mountServer' = [mountServer EXCEPT ![mountCurrent] = "closing"] /\ mountCurrent' = mountCurrent
          /\ panel' = [panel EXCEPT !.loading = TRUE]
      BY <2>1, <2>2 DEF Mounts!StopWebdav
    <3>2. panel' \in Panels BY <1>0, <3>1 DEF Panels
    <3> QED BY <2>1, <2>2, <3>1, <3>2 DEF MountInv, Mounts!States
  <2>3. CASE ~(mountCurrent # 0 /\ mountServer[mountCurrent] = "running")
    <3>1. mountServer' = mountServer /\ mountCurrent' = 0 /\ panel' = [panel EXCEPT !.running = FALSE]
      BY <2>1, <2>3 DEF Mounts!StopWebdav
    <3>2. panel' \in Panels BY <1>0, <3>1 DEF Panels
    <3> QED BY <2>1, <3>1, <3>2 DEF MountInv
  <2> QED BY <2>2, <2>3
<1>8. CASE UNCHANGED Mounts!vars BY <1>8 DEF MountInv, Mounts!vars
<1> QED BY <1>1, <1>2, <1>3, <1>4, <1>5, <1>6, <1>7, <1>8 DEF Mounts!Next

LEMMA MountGives ==
    ASSUME Mounts!WebdavConstants, MountInv
    PROVE  Mounts!TypeOK /\ Mounts!ServedWithPhone
<1>1. Mounts!ServedWithPhone BY ServerNumbers DEF MountInv, Mounts!ServedWithPhone, Mounts!Listening
<1>2. Cardinality(Mounts!Listening) <= 1
  <2>1. CASE Mounts!Listening = {} BY <2>1, FS_EmptySet
  <2>2. CASE Mounts!Listening # {}
    <3>1. PICK s : s \in Mounts!Listening BY <2>2
    <3>2. Mounts!Listening = {s} BY <3>1 DEF MountInv, Mounts!Listening
    <3> QED BY <3>2, FS_Singleton
  <2> QED BY <2>1, <2>2
<1>3. Mounts!TypeOK BY <1>2, ServerNumbers DEF MountInv, Mounts!TypeOK, Panels
<1> QED BY <1>1, <1>3

(* The timer that stops the file server runs only while the phone is away, a *)
(* server that listened before the phone left has one, and no two servers *)
(* listen on the port (daemon.ts onDisconnection, startWebdav, stopWebdav): *)
(* for any number of servers, clicks and connections. *)
THEOREM ServersFollowPhone ==
    Mounts!WebdavConstants => (Mounts!Spec => [](Mounts!TypeOK /\ Mounts!ServedWithPhone))
<1> SUFFICES ASSUME Mounts!WebdavConstants
             PROVE  Mounts!Spec => [](Mounts!TypeOK /\ Mounts!ServedWithPhone)
  OBVIOUS
<1>1. Mounts!Init => MountInv BY MountInit
<1>2. MountInv /\ [Mounts!Next]_Mounts!vars => MountInv' BY MountKeeps
<1>3. MountInv => Mounts!TypeOK /\ Mounts!ServedWithPhone BY MountGives
<1> QED BY <1>1, <1>2, <1>3, PTL DEF Mounts!Spec

--------------------
(* GalleryScan: the scans and the media of a conversation *)

Queries == [kind : Gallery!Kinds, heard : BOOLEAN]
ScanNotes == Gallery!Replies \cup Gallery!Notifications
Stores == [open : BOOLEAN, mode : Gallery!Modes, scanState : Gallery!ScanStates,
           items : SUBSET (Photos \cup Media), scanned : (SUBSET Photos) \cup {Nothing}, watching : BOOLEAN]

Ends == {"scanned", "scanFailed", "media", "mediaFailed"}
Looks == {"dcim", "all", "media"}
UnderWay(l, w) ==
    \/ \E i \in DOMAIN l : l[i].kind \in Looks
    \/ \E i \in DOMAIN w : w[i].type \in Ends

(* Without a connection nothing waits at the daemon, a batch callback is that *)
(* of a scan in the line, and a gallery that scans has something under way. *)
ScanInv ==
    /\ gui \in Stores /\ line \in Seq(Queries) /\ Len(line) <= MaxLine /\ rest \subseteq Photos
    /\ batching \in BOOLEAN /\ scanWire \in Seq(ScanNotes) /\ scanPhone \subseteq Photos
    /\ link \in [up : BOOLEAN, watching : BOOLEAN] /\ scanTrouble \in 0..MaxScanTrouble
    /\ ~link.up => line = <<>>
    /\ batching => \E i \in DOMAIN line : line[i].kind \in {"dcim", "all"}
    /\ gui.scanState = "scanning" => UnderWay(line, scanWire)

LEMMA ScanInit == Gallery!ScanAssumption /\ Gallery!Init => ScanInv
<1> SUFFICES ASSUME Gallery!ScanAssumption, Gallery!Init  PROVE ScanInv
  OBVIOUS
<1>1. gui \in Stores /\ gui.scanState = "idle"
  BY DEF Gallery!Init, Stores, Gallery!Modes, Gallery!ScanStates
<1>2. /\ line = <<>> /\ rest = {} /\ batching = FALSE /\ scanWire = <<>> /\ scanPhone \subseteq Photos
      /\ link = [up |-> TRUE, watching |-> FALSE] /\ scanTrouble = 0
  BY DEF Gallery!Init
<1>3. <<>> \in Seq(Queries) /\ <<>> \in Seq(ScanNotes) /\ Len(<<>>) = 0 BY EmptySeq
<1>4. MaxLine \in Nat /\ MaxScanTrouble \in Nat BY DEF Gallery!ScanAssumption
<1>5. 0 \in 0..MaxScanTrouble /\ 0 <= MaxLine /\ link \in [up : BOOLEAN, watching : BOOLEAN] /\ link.up
  BY <1>2, <1>4
<1>6. line \in Seq(Queries) /\ Len(line) = 0 /\ scanWire \in Seq(ScanNotes) BY <1>2, <1>3
<1> QED BY <1>1, <1>2, <1>5, <1>6 DEF ScanInv

(* What is told of a query that ends. *)
LEMMA ReplyIs ==
    ASSUME NEW kind \in Gallery!Kinds, NEW ok \in BOOLEAN
    PROVE  /\ Gallery!Reply(kind, ok) \in Seq(ScanNotes)
           /\ kind = "other" => Gallery!Reply(kind, ok) = <<>>
           /\ kind # "other" => /\ kind \in Looks
                                /\ Len(Gallery!Reply(kind, ok)) = 1
                                /\ Gallery!Reply(kind, ok)[1] \in ScanNotes
                                /\ Gallery!Reply(kind, ok)[1].type \in Ends
<1>1. ASSUME NEW t \in Ends
      PROVE  /\ [type |-> t] \in ScanNotes /\ <<[type |-> t]>> \in Seq(ScanNotes)
             /\ Len(<<[type |-> t]>>) = 1 /\ <<[type |-> t]>>[1] = [type |-> t]
  <2>1. [type |-> t] \in ScanNotes BY DEF Ends, ScanNotes, Gallery!Replies
  <2> DEFINE n == [type |-> t]
  <2> HIDE DEF n
  <2>2. n \in ScanNotes => <<n>> \in Seq(ScanNotes) OBVIOUS
  <2> QED BY <2>1, <2>2 DEF n
<1>2. CASE kind \in {"dcim", "all"}
  <2>1. \E t \in Ends : Gallery!Reply(kind, ok) = <<[type |-> t]>>
    BY <1>2 DEF Gallery!Reply, Gallery!IsScan, Gallery!ScanReply, Ends
  <2> QED BY <1>1, <1>2, <2>1 DEF Looks
<1>3. CASE kind = "media"
  <2>1. \E t \in Ends : Gallery!Reply(kind, ok) = <<[type |-> t]>>
    BY <1>3 DEF Gallery!Reply, Gallery!IsScan, Gallery!MediaReply, Ends
  <2>2. kind \in Looks /\ kind # "other" BY <1>3 DEF Looks
  <2> QED BY <1>1, <2>1, <2>2
<1>4. CASE kind = "other"
  <2>1. Gallery!Reply(kind, ok) = <<>> BY <1>4 DEF Gallery!Reply, Gallery!IsScan
  <2> QED BY <1>4, <2>1, EmptySeq
<1> QED BY <1>2, <1>3, <1>4 DEF Gallery!Kinds

(* Two sequences of notes, one behind the other. *)
LEMMA Behind ==
    ASSUME NEW a \in Seq(ScanNotes), NEW b \in Seq(ScanNotes)
    PROVE  /\ a \o b \in Seq(ScanNotes)
           /\ \A i \in DOMAIN a : \E k \in DOMAIN (a \o b) : (a \o b)[k] = a[i]
           /\ \A i \in DOMAIN b : \E k \in DOMAIN (a \o b) : (a \o b)[k] = b[i]
<1>1. /\ a \o b \in Seq(ScanNotes) /\ Len(a \o b) = Len(a) + Len(b) /\ Len(a) \in Nat /\ Len(b) \in Nat
      /\ \A k \in 1..(Len(a) + Len(b)) : (a \o b)[k] = IF k <= Len(a) THEN a[k] ELSE b[k - Len(a)]
  BY ConcatProperties, LenProperties
<1>2. DOMAIN a = 1..Len(a) /\ DOMAIN b = 1..Len(b) /\ DOMAIN (a \o b) = 1..(Len(a) + Len(b))
  BY <1>1, LenProperties
<1> DEFINE m == Len(a)
           n == Len(b)
           c == a \o b
<1> HIDE DEF m, n, c
<1>3. m \in Nat /\ n \in Nat BY <1>1 DEF m, n
<1>4. ASSUME NEW i \in 1..m  PROVE \E k \in 1..(m + n) : c[k] = a[i]
  <2>1. i \in 1..(m + n) /\ i <= m BY <1>3
  <2> QED BY <1>1, <2>1 DEF c, m, n
<1>5. ASSUME NEW i \in 1..n  PROVE \E k \in 1..(m + n) : c[k] = b[i]
  <2>1. m + i \in 1..(m + n) /\ ~(m + i <= m) /\ (m + i) - m = i BY <1>3
  <2> QED BY <1>1, <2>1 DEF c, m, n
<1> QED BY <1>1, <1>2, <1>4, <1>5 DEF c, m, n

(* A query is made: what was under way still is, and so is a look at photos. *)
LEMMA Asks ==
    ASSUME ScanInv, Gallery!ScanAssumption, NEW kind \in Gallery!Kinds, Gallery!Ask(kind),
           Len(line) < MaxLine, UNCHANGED scanPhone
    PROVE  /\ line' \in Seq(Queries) /\ Len(line') <= MaxLine /\ rest' \subseteq Photos
           /\ batching' \in BOOLEAN /\ scanWire' \in Seq(ScanNotes)
           /\ ~link.up => line' = <<>>
           /\ batching' => \E i \in DOMAIN line' : line'[i].kind \in {"dcim", "all"}
           /\ UnderWay(line, scanWire) => UnderWay(line', scanWire')
           /\ kind \in Looks => UnderWay(line', scanWire')
<1>1. /\ line \in Seq(Queries) /\ Len(line) \in Nat /\ DOMAIN line = 1..Len(line)
      /\ scanWire \in Seq(ScanNotes) /\ MaxLine \in Nat
  BY LenProperties DEF ScanInv, Gallery!ScanAssumption
<1>2. CASE ~link.up
  <2>1. /\ scanWire' = scanWire \o Gallery!Reply(kind, FALSE) /\ UNCHANGED <<line, rest>>
        /\ batching' = (batching /\ ~Gallery!IsScan(kind))
    BY <1>2 DEF Gallery!Ask
  <2> DEFINE r == Gallery!Reply(kind, FALSE)
  <2>2. r \in Seq(ScanNotes) /\ (kind # "other" => Len(r) = 1 /\ r[1].type \in Ends) BY ReplyIs
  <2> HIDE DEF r
  <2>3. /\ scanWire' \in Seq(ScanNotes)
        /\ \A i \in DOMAIN scanWire : \E k \in DOMAIN scanWire' : scanWire'[k] = scanWire[i]
        /\ \A i \in DOMAIN r : \E k \in DOMAIN scanWire' : scanWire'[k] = r[i]
    BY <1>1, <2>1, <2>2, Behind DEF r
  <2>4. line = <<>> /\ ~batching BY <1>2 DEF ScanInv
  <2>5. kind \in Looks => UnderWay(line', scanWire')
    <3>1. kind \in Looks => 1 \in DOMAIN r /\ r[1].type \in Ends BY <2>2, LenProperties DEF Looks
    <3> QED BY <2>3, <3>1 DEF UnderWay
  <2>6. UnderWay(line, scanWire) => UnderWay(line', scanWire') BY <2>1, <2>3 DEF UnderWay
  <2> QED BY <1>2, <2>1, <2>3, <2>4, <2>5, <2>6 DEF ScanInv
<1>3. CASE link.up
  <2> DEFINE q == [kind |-> kind, heard |-> line = <<>>]
  <2>1. /\ line' = Append(line, q) /\ scanWire' = scanWire
        /\ rest' = IF line = <<>> THEN Gallery!Scope(kind) ELSE rest
        /\ batching' = (batching \/ Gallery!IsScan(kind))
    BY <1>3 DEF Gallery!Ask
  <2>2. q \in Queries /\ q.kind = kind BY DEF Queries
  <2> HIDE DEF q
  <2> DEFINE n == Len(line)
  <2>3. /\ line' \in Seq(Queries) /\ Len(line') = n + 1 /\ DOMAIN line' = 1..(n + 1)
        /\ line'[n + 1] = q /\ \A i \in 1..n : line'[i] = line[i]
    BY <1>1, <2>1, <2>2, AppendProperties, LenProperties
  <2>4. n \in Nat /\ n + 1 \in DOMAIN line' /\ DOMAIN line = 1..n /\ n + 1 <= MaxLine
        /\ \A i \in 1..n : i \in DOMAIN line'
    BY <1>1, <2>3
  <2> HIDE DEF n
  <2>5. rest' \subseteq Photos BY <2>1 DEF ScanInv, Gallery!Scope
  <2>6. batching' \in BOOLEAN /\ (batching' => \E i \in DOMAIN line' : line'[i].kind \in {"dcim", "all"})
    BY <2>1, <2>2, <2>3, <2>4 DEF ScanInv, Gallery!IsScan
  <2>7. UnderWay(line, scanWire) => UnderWay(line', scanWire') BY <2>1, <2>3, <2>4 DEF UnderWay
  <2>8. kind \in Looks => UnderWay(line', scanWire') BY <2>2, <2>3, <2>4 DEF UnderWay
  <2>9. Len(line') <= MaxLine BY <2>3, <2>4 DEF n
  <2> QED BY <1>1, <1>3, <2>1, <2>3, <2>5, <2>6, <2>7, <2>8, <2>9
<1> QED BY <1>2, <1>3 DEF ScanInv

(* The first query ends: what was under way still is, or has been answered. *)
LEMMA QueryEnds ==
    ASSUME ScanInv, Gallery!ScanAssumption, NEW ok \in BOOLEAN, NEW posts \in Seq(ScanNotes),
           line # <<>>, Gallery!Ended(ok, posts), UNCHANGED <<scanPhone, link, gui>>, scanTrouble' \in 0..MaxScanTrouble
    PROVE  ScanInv'
<1> DEFINE h == line[1]
           r == Gallery!Reply(h.kind, ok)
           n == Len(line)
<1>1. /\ line \in Seq(Queries) /\ n \in Nat /\ n >= 1 /\ DOMAIN line = 1..n /\ h \in Queries
      /\ scanWire \in Seq(ScanNotes) /\ Head(line) = h
  BY EmptySeq, LenProperties DEF ScanInv
<1>2. /\ line' \in Seq(Queries) /\ Len(line') = n - 1 /\ DOMAIN line' = 1..(n - 1)
      /\ \A i \in 1..(n - 1) : line'[i] = line[i + 1]
  <2>1. line' = Tail(line) BY DEF Gallery!Ended
  <2> QED BY <1>1, <2>1, HeadTailProperties, LenProperties
<1>3. scanWire' = (scanWire \o posts) \o r /\ batching' = (batching /\ ~Gallery!IsScan(h.kind))
      /\ rest' = IF n > 1 THEN Gallery!Scope(line[2].kind) ELSE {}
  BY <1>1 DEF Gallery!Ended
<1>4. h.kind \in Gallery!Kinds BY <1>1 DEF Queries
<1>5. r \in Seq(ScanNotes) /\ (h.kind \in Looks => Len(r) = 1 /\ r[1].type \in Ends)
  BY <1>4, ReplyIs DEF Looks
<1> HIDE DEF r
<1>6. /\ scanWire' \in Seq(ScanNotes)
      /\ \A i \in DOMAIN scanWire : \E k \in DOMAIN scanWire' : scanWire'[k] = scanWire[i]
      /\ \A i \in DOMAIN r : \E k \in DOMAIN scanWire' : scanWire'[k] = r[i]
  <2>1. /\ scanWire \o posts \in Seq(ScanNotes)
        /\ \A i \in DOMAIN scanWire : \E k \in DOMAIN (scanWire \o posts) : (scanWire \o posts)[k] = scanWire[i]
    BY <1>1, Behind
  <2> DEFINE w == scanWire \o posts
  <2> HIDE DEF w
  <2>2. /\ w \o r \in Seq(ScanNotes)
        /\ \A i \in DOMAIN w : \E k \in DOMAIN (w \o r) : (w \o r)[k] = w[i]
        /\ \A i \in DOMAIN r : \E k \in DOMAIN (w \o r) : (w \o r)[k] = r[i]
    BY <1>5, <2>1, Behind DEF w
  <2>3. scanWire' = w \o r BY <1>3 DEF w
  <2>4. \A i \in DOMAIN scanWire : \E k \in DOMAIN w : w[k] = scanWire[i] BY <2>1 DEF w
  <2> DEFINE v == w \o r
  <2> HIDE DEF v
  <2>5. ASSUME NEW i \in DOMAIN scanWire  PROVE \E k \in DOMAIN v : v[k] = scanWire[i]
    <3>1. PICK j \in DOMAIN w : w[j] = scanWire[i] BY <2>4
    <3>2. PICK k \in DOMAIN v : v[k] = w[j] BY <2>2 DEF v
    <3> QED BY <3>1, <3>2
  <2> QED BY <2>2, <2>3, <2>5 DEF v
<1>7. \A i \in DOMAIN line : i = 1 \/ \E k \in DOMAIN line' : line'[k] = line[i]
  <2> SUFFICES ASSUME NEW i \in DOMAIN line, i # 1  PROVE \E k \in DOMAIN line' : line'[k] = line[i]
    OBVIOUS
  <2>1. i - 1 \in 1..(n - 1) /\ (i - 1) + 1 = i BY <1>1
  <2> QED BY <1>2, <2>1
<1>8. UnderWay(line, scanWire) => UnderWay(line', scanWire')
  <2> SUFFICES ASSUME UnderWay(line, scanWire)  PROVE UnderWay(line', scanWire')
    OBVIOUS
  <2>1. CASE \E i \in DOMAIN scanWire : scanWire[i].type \in Ends BY <1>6, <2>1 DEF UnderWay
  <2>2. ASSUME NEW i \in DOMAIN line, line[i].kind \in Looks  PROVE UnderWay(line', scanWire')
    <3>1. CASE i = 1
      <4>1. 1 \in DOMAIN r /\ r[1].type \in Ends BY <1>5, <2>2, <3>1, LenProperties
      <4> QED BY <1>6, <4>1 DEF UnderWay
    <3>2. CASE i # 1 BY <1>7, <2>2, <3>2 DEF UnderWay
    <3> QED BY <3>1, <3>2
  <2> QED BY <2>1, <2>2 DEF UnderWay
<1>9. batching' \in BOOLEAN /\ (batching' => \E i \in DOMAIN line' : line'[i].kind \in {"dcim", "all"})
  <2> SUFFICES ASSUME batching'  PROVE \E i \in DOMAIN line' : line'[i].kind \in {"dcim", "all"}
    BY <1>3 DEF ScanInv
  <2>1. PICK i \in DOMAIN line : line[i].kind \in {"dcim", "all"} BY <1>3 DEF ScanInv
  <2>2. i # 1 BY <1>3, <2>1 DEF Gallery!IsScan
  <2> QED BY <1>7, <2>1, <2>2
<1>10. rest' \subseteq Photos BY <1>3 DEF ScanInv, Gallery!Scope
<1>11. Len(line') <= MaxLine /\ (~link'.up => line' = <<>>)
  <2>1. n - 1 <= MaxLine BY <1>1 DEF ScanInv, Gallery!ScanAssumption
  <2> QED BY <1>2, <2>1 DEF ScanInv
<1> QED BY <1>2, <1>6, <1>8, <1>9, <1>10, <1>11 DEF ScanInv

(* Every query is refused at once: each look that waited has its reply. *)
LEMMA AllRefused ==
    ASSUME ScanInv, Gallery!ScanAssumption, Gallery!Disconnect
    PROVE  ScanInv'
<1> DEFINE S == {i \in DOMAIN line : line[i].kind # "other"}
           told == Gallery!InOrder(S)
           r == [k \in DOMAIN told |-> Gallery!Reply(line[told[k]].kind, FALSE)[1]]
<1>1. /\ scanWire' = scanWire \o r /\ line' = <<>> /\ rest' = {} /\ batching' = FALSE
      /\ link' = [up |-> FALSE, watching |-> FALSE] /\ UNCHANGED <<gui, scanPhone>>
  BY DEF Gallery!Disconnect
<1>a. scanTrouble' \in 0..MaxScanTrouble
  <2>1. scanTrouble < MaxScanTrouble /\ scanTrouble' = scanTrouble + 1
    BY DEF Gallery!Disconnect, Gallery!Troubled
  <2>2. scanTrouble \in 0..MaxScanTrouble /\ MaxScanTrouble \in Nat
    BY DEF Gallery!ScanAssumption, ScanInv
  <2> QED BY <2>1, <2>2
<1>2. /\ line \in Seq(Queries) /\ Len(line) \in Nat /\ DOMAIN line = 1..Len(line) /\ scanWire \in Seq(ScanNotes)
  BY LenProperties DEF ScanInv
<1>3. S \in SUBSET Nat /\ IsFiniteSet(S)
  <2>1. IsFiniteSet(DOMAIN line) /\ DOMAIN line \subseteq Nat BY <1>2, FS_Interval
  <2> QED BY <2>1, FS_Subset
<1>4. Ascending(told, S)
  <2>1. Gallery!Cardinality(S) = Cardinality(S)
    BY DEF Gallery!Cardinality, Gallery!IsFiniteSet, Cardinality, IsFiniteSet
  <2>2. \E s : Ascending(s, S) BY <1>3, HasAscending
  <2> HIDE DEF S
  <2> QED BY <2>1, <2>2 DEF Ascending, Gallery!InOrder
<1>5. told \in Seq(S) /\ Lists(told, S) BY <1>3, <1>4, AscendingLists
<1> HIDE DEF told
<1>6. \A i \in S : /\ Gallery!Reply(line[i].kind, FALSE)[1] \in ScanNotes
                   /\ Gallery!Reply(line[i].kind, FALSE)[1].type \in Ends
  <2> TAKE i \in S
  <2>1. line[i] \in Queries /\ line[i].kind # "other" BY <1>2, ElementOfSeq
  <2>2. line[i].kind \in Gallery!Kinds BY <2>1 DEF Queries
  <2> QED BY <2>1, <2>2, ReplyIs
<1>7. r \in Seq(ScanNotes) /\ \A i \in S : \E k \in DOMAIN r : r[k].type \in Ends
  <2>1. Len(told) \in Nat /\ DOMAIN told = 1..Len(told) /\ \A k \in 1..Len(told) : told[k] \in S
    BY <1>5, LenProperties, ElementOfSeq
  <2>2. r \in [1..Len(told) -> ScanNotes] BY <1>6, <2>1
  <2>3. r \in Seq(ScanNotes)
    <3> HIDE DEF r
    <3> QED BY <2>1, <2>2, SeqDef
  <2>4. \A i \in S : \E k \in DOMAIN r : r[k].type \in Ends BY <1>5, <1>6, <2>1 DEF Lists
  <2> QED BY <2>3, <2>4
<1>8. UnderWay(line, scanWire) => UnderWay(line', scanWire')
  <2> DEFINE q == r
  <2> HIDE DEF q
  <2>1. /\ \A i \in DOMAIN scanWire : \E k \in DOMAIN scanWire' : scanWire'[k] = scanWire[i]
        /\ \A i \in DOMAIN q : \E k \in DOMAIN scanWire' : scanWire'[k] = q[i]
    <3>1. q \in Seq(ScanNotes) /\ scanWire' = scanWire \o q BY <1>1, <1>7 DEF q
    <3>2. /\ \A i \in DOMAIN scanWire : \E k \in DOMAIN (scanWire \o q) : (scanWire \o q)[k] = scanWire[i]
          /\ \A i \in DOMAIN q : \E k \in DOMAIN (scanWire \o q) : (scanWire \o q)[k] = q[i]
      BY <1>2, <3>1, Behind
    <3> QED BY <3>1, <3>2
  <2>2. ASSUME NEW i \in DOMAIN line, line[i].kind \in Looks  PROVE UnderWay(line', scanWire')
    <3>1. i \in S BY <2>2 DEF Looks
    <3>2. PICK k \in DOMAIN q : q[k].type \in Ends BY <1>7, <3>1 DEF q
    <3> QED BY <2>1, <3>2 DEF UnderWay
  <2> QED BY <2>1, <2>2 DEF UnderWay
<1>9. scanWire' \in Seq(ScanNotes)
  <2> HIDE DEF r
  <2> QED BY <1>1, <1>2, <1>7, Behind
<1>10. <<>> \in Seq(Queries) /\ Len(<<>>) = 0 /\ MaxLine \in Nat
  BY EmptySeq DEF Gallery!ScanAssumption
<1> HIDE DEF r
<1>11. /\ line' \in Seq(Queries) /\ Len(line') <= MaxLine /\ ~batching' /\ batching' \in BOOLEAN
       /\ link' \in [up : BOOLEAN, watching : BOOLEAN] /\ rest' \subseteq Photos
  <2>1. MaxLine \in Nat /\ 0 <= MaxLine BY DEF Gallery!ScanAssumption
  <2>2. line' = <<>> /\ rest' = {} /\ batching' = FALSE BY <1>1
  <2>3. link' \in [up : BOOLEAN, watching : BOOLEAN] BY <1>1
  <2> QED BY <1>10, <2>1, <2>2, <2>3
<1>12. gui' \in Stores /\ scanPhone' \subseteq Photos /\ (gui'.scanState = "scanning" => UnderWay(line', scanWire'))
  BY <1>1, <1>8 DEF ScanInv
<1> QED BY <1>1, <1>a, <1>9, <1>11, <1>12 DEF ScanInv

(* The view: what it shows of a record is what the record says. *)
LEMMA Renders ==
    ASSUME link \in [up : BOOLEAN, watching : BOOLEAN], gui.watching \in BOOLEAN,
           NEW g \in Stores, Gallery!Rendered(g)
    PROVE  /\ gui' \in Stores /\ gui'.scanState = g.scanState
           /\ link' \in [up : BOOLEAN, watching : BOOLEAN] /\ link'.up = link.up
<1> DEFINE w == Gallery!Watches(g)
<1>1. w \in BOOLEAN
  <2>1. g.open \in BOOLEAN /\ g.watching \in BOOLEAN BY DEF Stores
  <2> QED BY <2>1 DEF Gallery!Watches
<1>2. /\ gui' = [g EXCEPT !.watching = w]
      /\ link' = [link EXCEPT !.watching = IF w = gui.watching THEN @ ELSE link.up /\ w]
  BY DEF Gallery!Rendered
<1> HIDE DEF w
<1>3. gui' \in Stores /\ gui'.scanState = g.scanState BY <1>1, <1>2 DEF Stores
<1>4. CASE w = gui.watching
  <2>1. link' = [link EXCEPT !.watching = link.watching] BY <1>2, <1>4
  <2> QED BY <1>3, <2>1
<1>5. CASE w # gui.watching
  <2>1. link' = [link EXCEPT !.watching = link.up /\ w] BY <1>2, <1>5
  <2>2. (link.up /\ w) \in BOOLEAN OBVIOUS
  <2> QED BY <1>3, <2>1, <2>2
<1> QED BY <1>4, <1>5

(* A scan begins, and what ends it is under way. *)
LEMMA ScanBegins ==
    ASSUME ScanInv, Gallery!ScanAssumption, NEW g \in Stores, Gallery!ScanGallery(g),
           UNCHANGED <<scanPhone, scanTrouble>>
    PROVE  ScanInv'
<1> DEFINE h == [g EXCEPT !.scanState = "scanning", !.scanned = {}]
           kind == IF g.mode = "dcim" THEN "dcim" ELSE "all"
<1>1. h \in Stores BY DEF Stores, Gallery!ScanStates
<1>2. kind \in Looks /\ kind \in Gallery!Kinds BY DEF Looks, Gallery!Kinds
<1>3. Len(line) < MaxLine /\ Gallery!Rendered(h) /\ Gallery!Ask(kind) BY DEF Gallery!ScanGallery
<1>4. link \in [up : BOOLEAN, watching : BOOLEAN] /\ gui.watching \in BOOLEAN BY DEF ScanInv, Stores
<1> HIDE DEF h, kind
<1>5. gui' \in Stores /\ link' \in [up : BOOLEAN, watching : BOOLEAN] /\ link'.up = link.up
  BY <1>1, <1>3, <1>4, Renders
<1>6. /\ line' \in Seq(Queries) /\ Len(line') <= MaxLine /\ rest' \subseteq Photos
      /\ batching' \in BOOLEAN /\ scanWire' \in Seq(ScanNotes)
      /\ ~link.up => line' = <<>>
      /\ batching' => \E i \in DOMAIN line' : line'[i].kind \in {"dcim", "all"}
      /\ UnderWay(line', scanWire')
  BY <1>2, <1>3, Asks
<1> QED BY <1>5, <1>6 DEF ScanInv

(* The view changes, and a scan it shows it showed before. *)
LEMMA ViewChanges ==
    ASSUME ScanInv, NEW g \in Stores, Gallery!Rendered(g),
           g.scanState = "scanning" => gui.scanState = "scanning",
           UNCHANGED <<line, rest, batching, scanWire, scanPhone, scanTrouble>>
    PROVE  ScanInv'
<1>1. link \in [up : BOOLEAN, watching : BOOLEAN] /\ gui.watching \in BOOLEAN BY DEF ScanInv, Stores
<1>2. /\ gui' \in Stores /\ gui'.scanState = g.scanState
      /\ link' \in [up : BOOLEAN, watching : BOOLEAN] /\ link'.up = link.up
  BY <1>1, Renders
<1> QED BY <1>2 DEF ScanInv

(* What arrives is taken, and a scan that goes on is still under way. *)
LEMMA NoteTaken ==
    ASSUME ScanInv, Gallery!ScanAssumption, Gallery!Receive
    PROVE  ScanInv'
<1> DEFINE m == Head(scanWire)
           g == Gallery!Received(m)
<1>1. /\ scanWire # <<>> /\ scanWire' = Tail(scanWire) /\ Gallery!Rendered(g)
      /\ UNCHANGED <<line, rest, batching, scanPhone, scanTrouble>>
  BY DEF Gallery!Receive, Gallery!daemon
<1>2. /\ scanWire \in Seq(ScanNotes) /\ m \in ScanNotes /\ m = scanWire[1] /\ scanWire' \in Seq(ScanNotes)
      /\ Len(scanWire) \in Nat /\ DOMAIN scanWire = 1..Len(scanWire) /\ Len(scanWire) >= 1
      /\ DOMAIN scanWire' = 1..(Len(scanWire) - 1) /\ \A i \in 1..(Len(scanWire) - 1) : scanWire'[i] = scanWire[i + 1]
  BY <1>1, EmptySeq, HeadTailProperties, LenProperties DEF ScanInv
<1>3. \A i \in DOMAIN scanWire : i = 1 \/ \E k \in DOMAIN scanWire' : scanWire'[k] = scanWire[i]
  <2> SUFFICES ASSUME NEW i \in DOMAIN scanWire, i # 1  PROVE \E k \in DOMAIN scanWire' : scanWire'[k] = scanWire[i]
    OBVIOUS
  <2>1. i - 1 \in 1..(Len(scanWire) - 1) /\ (i - 1) + 1 = i BY <1>2
  <2> QED BY <1>2, <2>1
<1> HIDE DEF m
<1>4. gui \in Stores /\ m.type \in Ends \cup {"batch", "added", "deleted"}
      /\ (m.type \notin Ends => m.path \in Photos)
  BY <1>2 DEF ScanInv, ScanNotes, Gallery!Replies, Gallery!Notifications, Ends
<1>5. g \in Stores /\ (g.scanState = "scanning" => gui.scanState = "scanning")
                  /\ (m.type \in Ends => g.scanState # "scanning")
  <2>1. CASE m.type = "batch"
    <3>1. g = Gallery!ScanBatch(m.path) /\ m.path \in Photos /\ m.type \notin Ends
      BY <1>4, <2>1 DEF Gallery!Received, Ends
    <3>2. CASE ~gui.open BY <1>4, <3>1, <3>2 DEF Gallery!ScanBatch
    <3>3. CASE gui.open
      <4> DEFINE scanned == IF gui.scanned = Nothing THEN Nothing ELSE gui.scanned \cup {m.path}
                 state == IF gui.scanState = "scanning" THEN "ready" ELSE gui.scanState
      <4>1. g = [gui EXCEPT !.items = gui.items \cup {m.path}, !.scanned = scanned, !.scanState = state]
        BY <3>1, <3>3 DEF Gallery!ScanBatch
      <4>2. /\ scanned \in (SUBSET Photos) \cup {Nothing} /\ state \in Gallery!ScanStates /\ state # "scanning"
            /\ gui.items \cup {m.path} \subseteq Photos \cup Media
        BY <1>4, <3>1 DEF Stores, Gallery!ScanStates
      <4> HIDE DEF scanned, state
      <4> QED BY <1>4, <3>1, <4>1, <4>2 DEF Stores
    <3> QED BY <3>2, <3>3
  <2>2. CASE m.type = "scanned"
    <3> DEFINE items == IF gui.scanned \in {Nothing, {}} THEN gui.items ELSE gui.items \cap gui.scanned
    <3>1. g = [gui EXCEPT !.items = items, !.scanned = Nothing, !.scanState = "ready"]
      BY <2>2 DEF Gallery!Received, Gallery!ScanComplete
    <3>2. items \subseteq Photos \cup Media BY <1>4 DEF Stores
    <3> HIDE DEF items
    <3> QED BY <1>4, <3>1, <3>2 DEF Stores, Gallery!ScanStates
  <2>3. CASE m.type = "scanFailed"
    <3>1. g = [gui EXCEPT !.scanned = Nothing, !.scanState = "error"] BY <2>3 DEF Gallery!Received
    <3> QED BY <1>4, <3>1 DEF Stores, Gallery!ScanStates
  <2>4. CASE m.type \in {"media", "mediaFailed"}
    <3>1. g = [gui EXCEPT !.items = Media, !.scanState = "ready"] \/ g = [gui EXCEPT !.scanState = "error"]
      BY <2>4 DEF Gallery!Received, Gallery!MediaLoaded
    <3> QED BY <1>4, <3>1 DEF Stores, Gallery!ScanStates
  <2>5. CASE m.type \in {"added", "deleted"}
    <3>1. g = Gallery!Announced(m) /\ m.path \in Photos /\ m.type \notin Ends
      BY <1>4, <2>5 DEF Gallery!Received, Ends
    <3>2. g = gui \/ g = [gui EXCEPT !.items = gui.items \cup {m.path}]
          \/ g = [gui EXCEPT !.items = gui.items \ {m.path}]
      BY <3>1 DEF Gallery!Announced
    <3>3. gui.items \cup {m.path} \subseteq Photos \cup Media /\ gui.items \ {m.path} \subseteq Photos \cup Media
      BY <1>4, <3>1 DEF Stores
    <3> QED BY <1>4, <3>1, <3>2, <3>3 DEF Stores
  <2> QED BY <1>4, <2>1, <2>2, <2>3, <2>4, <2>5 DEF Ends
<1> HIDE DEF g
<1>6. link \in [up : BOOLEAN, watching : BOOLEAN] /\ gui.watching \in BOOLEAN
  BY <1>4 DEF ScanInv, Stores
<1>7. /\ gui' \in Stores /\ gui'.scanState = g.scanState
      /\ link' \in [up : BOOLEAN, watching : BOOLEAN] /\ link'.up = link.up
  BY <1>1, <1>5, <1>6, Renders
<1>8. gui'.scanState = "scanning" => UnderWay(line', scanWire')
  <2> SUFFICES ASSUME gui'.scanState = "scanning"  PROVE UnderWay(line', scanWire')
    OBVIOUS
  <2>1. gui.scanState = "scanning" /\ m.type \notin Ends BY <1>5, <1>7
  <2>2. UnderWay(line, scanWire) BY <2>1 DEF ScanInv
  <2>3. CASE \E i \in DOMAIN line : line[i].kind \in Looks BY <1>1, <2>3 DEF UnderWay
  <2>4. ASSUME NEW i \in DOMAIN scanWire, scanWire[i].type \in Ends  PROVE UnderWay(line', scanWire')
    <3>1. i # 1 BY <1>2, <2>1, <2>4 DEF m
    <3> QED BY <1>3, <2>4, <3>1 DEF UnderWay
  <2> QED BY <2>2, <2>3, <2>4 DEF UnderWay
<1> QED BY <1>1, <1>2, <1>7, <1>8 DEF ScanInv

(* A page of the first query, heard or not. *)
LEMMA PageComes ==
    ASSUME ScanInv, Gallery!ScanAssumption, Gallery!Page
    PROVE  ScanInv'
<1>0. line # <<>> /\ UNCHANGED <<gui, scanPhone, link, scanTrouble>> /\ <<>> \in Seq(ScanNotes)
      /\ scanTrouble' \in 0..MaxScanTrouble
  BY EmptySeq DEF Gallery!Page, ScanInv
<1>1. CASE Gallery!Ended(TRUE, <<>>) BY <1>0, <1>1, QueryEnds
<1>2. ASSUME NEW p \in rest,
             LET posts == IF Head(line).heard /\ batching THEN <<[type |-> "batch", path |-> p]>> ELSE <<>>
             IN  IF rest = {p} THEN Gallery!Ended(TRUE, posts)
                 ELSE /\ rest' = rest \ {p}
                      /\ scanWire' = scanWire \o posts
                      /\ UNCHANGED <<line, batching>>
      PROVE  ScanInv'
  <2> DEFINE note == [type |-> "batch", path |-> p]
             posts == IF Head(line).heard /\ batching THEN <<note>> ELSE <<>>
  <2>1. note \in ScanNotes BY DEF ScanInv, ScanNotes, Gallery!Notifications
  <2> HIDE DEF note
  <2>2. <<note>> \in Seq(ScanNotes) BY <2>1
  <2>3. posts \in Seq(ScanNotes) BY <1>0, <2>2
  <2>4. \/ Gallery!Ended(TRUE, posts)
        \/ rest' = rest \ {p} /\ scanWire' = scanWire \o posts /\ UNCHANGED <<line, batching>>
    BY <1>2 DEF note
  <2> HIDE DEF posts
  <2>5. CASE Gallery!Ended(TRUE, posts) BY <1>0, <2>3, <2>5, QueryEnds
  <2>6. CASE rest' = rest \ {p} /\ scanWire' = scanWire \o posts /\ UNCHANGED <<line, batching>>
    <3>1. /\ scanWire' \in Seq(ScanNotes)
          /\ \A i \in DOMAIN scanWire : \E k \in DOMAIN scanWire' : scanWire'[k] = scanWire[i]
      BY <2>3, <2>6, Behind DEF ScanInv
    <3>2. UnderWay(line, scanWire) => UnderWay(line', scanWire') BY <2>6, <3>1 DEF UnderWay
    <3> QED BY <1>0, <2>6, <3>1, <3>2 DEF ScanInv
  <2> QED BY <2>4, <2>5, <2>6
<1> QED BY <1>1, <1>2 DEF Gallery!Page

(* The phone tells of a photo, or cannot. *)
LEMMA PhoneTells ==
    ASSUME ScanInv, Gallery!ScanAssumption, NEW n \in ScanNotes, scanPhone' \subseteq Photos,
           scanWire' = Append(scanWire, n) \/ scanWire' = scanWire, scanTrouble' \in 0..MaxScanTrouble,
           UNCHANGED <<gui, line, rest, batching, link>>
    PROVE  ScanInv'
<1>1. /\ scanWire' \in Seq(ScanNotes)
      /\ \A i \in DOMAIN scanWire : \E k \in DOMAIN scanWire' : scanWire'[k] = scanWire[i]
  <2>1. CASE scanWire' = Append(scanWire, n)
    <3>1. scanWire \in Seq(ScanNotes) /\ Len(scanWire) \in Nat /\ DOMAIN scanWire = 1..Len(scanWire)
      BY LenProperties DEF ScanInv
    <3>2. /\ scanWire' \in Seq(ScanNotes) /\ Len(scanWire') = Len(scanWire) + 1
          /\ \A i \in 1..Len(scanWire) : scanWire'[i] = scanWire[i]
      BY <2>1, <3>1, AppendProperties
    <3>3. DOMAIN scanWire' = 1..(Len(scanWire) + 1) BY <3>2, LenProperties
    <3>4. \A i \in 1..Len(scanWire) : i \in 1..(Len(scanWire) + 1) BY <3>1
    <3> QED BY <3>1, <3>2, <3>3, <3>4
  <2>2. CASE scanWire' = scanWire BY <2>2 DEF ScanInv
  <2> QED BY <2>1, <2>2
<1>2. UnderWay(line, scanWire) => UnderWay(line', scanWire') BY <1>1 DEF UnderWay
<1> QED BY <1>1, <1>2 DEF ScanInv

LEMMA TroubleCounts ==
    ASSUME ScanInv, Gallery!ScanAssumption, Gallery!Troubled
    PROVE  scanTrouble' \in 0..MaxScanTrouble
<1>1. scanTrouble < MaxScanTrouble /\ scanTrouble' = scanTrouble + 1 BY DEF Gallery!Troubled
<1>2. scanTrouble \in 0..MaxScanTrouble /\ MaxScanTrouble \in Nat
  BY DEF Gallery!ScanAssumption, ScanInv
<1> QED BY <1>1, <1>2

LEMMA ScanKeeps ==
    ASSUME ScanInv, Gallery!ScanAssumption, [Gallery!Next]_Gallery!vars
    PROVE  ScanInv'
<1>0. gui \in Stores /\ <<>> \in Seq(ScanNotes) BY EmptySeq DEF ScanInv
<1>1. CASE Gallery!Page BY <1>1, PageComes
<1>2. CASE Gallery!QueryFails
  <2>1. scanTrouble' \in 0..MaxScanTrouble BY <1>2, TroubleCounts DEF Gallery!QueryFails
  <2>2. line # <<>> /\ Gallery!Ended(FALSE, <<>>) /\ UNCHANGED <<scanPhone, link, gui>>
    BY <1>2 DEF Gallery!QueryFails
  <2> QED BY <1>0, <2>1, <2>2, QueryEnds
<1>3. CASE Gallery!OtherQuery
  <2>1. scanTrouble' \in 0..MaxScanTrouble BY <1>3, TroubleCounts DEF Gallery!OtherQuery
  <2>2. link.up /\ Len(line) < MaxLine /\ Gallery!Ask("other") /\ UNCHANGED <<gui, scanPhone, link>>
    BY <1>3 DEF Gallery!OtherQuery
  <2>3. "other" \in Gallery!Kinds BY DEF Gallery!Kinds
  <2>4. /\ line' \in Seq(Queries) /\ Len(line') <= MaxLine /\ rest' \subseteq Photos
        /\ batching' \in BOOLEAN /\ scanWire' \in Seq(ScanNotes)
        /\ batching' => \E i \in DOMAIN line' : line'[i].kind \in {"dcim", "all"}
        /\ UnderWay(line, scanWire) => UnderWay(line', scanWire')
    BY <2>2, <2>3, Asks
  <2> QED BY <2>1, <2>2, <2>4 DEF ScanInv
<1>4. CASE Gallery!Disconnect BY <1>4, AllRefused
<1>5. CASE Gallery!Connect
  <2>1. ~link.up /\ link' = [link EXCEPT !.up = TRUE] /\ UNCHANGED <<gui, line, rest, batching, scanWire, scanPhone, scanTrouble>>
    BY <1>5 DEF Gallery!Connect, Gallery!daemon
  <2>2. link' \in [up : BOOLEAN, watching : BOOLEAN] /\ link'.up BY <2>1 DEF ScanInv
  <2> QED BY <2>1, <2>2 DEF ScanInv
<1>6. ASSUME NEW p \in Photos, Gallery!PhoneAdds(p) \/ Gallery!PhoneDeletes(p)  PROVE ScanInv'
  <2>1. scanTrouble' \in 0..MaxScanTrouble
    BY <1>6, TroubleCounts DEF Gallery!PhoneAdds, Gallery!PhoneDeletes
  <2>2. scanPhone' \subseteq Photos /\ UNCHANGED <<gui, line, rest, batching, link>>
    BY <1>6 DEF Gallery!PhoneAdds, Gallery!PhoneDeletes, Gallery!daemon, ScanInv
  <2>3. \E t \in {"added", "deleted"} : scanWire' = Append(scanWire, [type |-> t, path |-> p]) \/ scanWire' = scanWire
    BY <1>6 DEF Gallery!PhoneAdds, Gallery!PhoneDeletes
  <2>4. \A t \in {"added", "deleted"} : [type |-> t, path |-> p] \in ScanNotes
    BY DEF ScanNotes, Gallery!Notifications
  <2> QED BY <2>1, <2>2, <2>3, <2>4, PhoneTells
<1>7. CASE Gallery!Open
  <2>1. [gui EXCEPT !.open = TRUE] \in Stores BY <1>0 DEF Stores
  <2> QED BY <1>7, <2>1, ScanBegins DEF Gallery!Open
<1>8. CASE Gallery!Close
  <2>1. [gui EXCEPT !.open = FALSE] \in Stores /\ [gui EXCEPT !.open = FALSE].scanState = gui.scanState
    BY <1>0 DEF Stores
  <2> QED BY <1>8, <2>1, ViewChanges DEF Gallery!Close, Gallery!daemon
<1>9. ASSUME NEW v \in Gallery!Modes, Gallery!SetViewMode(v)  PROVE ScanInv'
  <2>1. [gui EXCEPT !.mode = v] \in Stores BY <1>0 DEF Stores
  <2> QED BY <1>9, <2>1, ScanBegins DEF Gallery!SetViewMode
<1>10. CASE Gallery!LoadThreadMedia
  <2> DEFINE g == [gui EXCEPT !.open = TRUE, !.mode = "thread_media", !.scanState = "scanning", !.items = {}]
  <2>1. Len(line) < MaxLine /\ Gallery!Rendered(g) /\ Gallery!Ask("media") /\ UNCHANGED <<scanPhone, scanTrouble>>
    BY <1>10 DEF Gallery!LoadThreadMedia
  <2>2. g \in Stores BY <1>0 DEF Stores, Gallery!Modes, Gallery!ScanStates
  <2>3. link \in [up : BOOLEAN, watching : BOOLEAN] /\ gui.watching \in BOOLEAN
    BY DEF ScanInv, Stores
  <2> HIDE DEF g
  <2>4. gui' \in Stores /\ link' \in [up : BOOLEAN, watching : BOOLEAN] /\ link'.up = link.up
    BY <2>1, <2>2, <2>3, Renders
  <2>5. "media" \in Gallery!Kinds /\ "media" \in Looks BY DEF Gallery!Kinds, Looks
  <2>6. /\ line' \in Seq(Queries) /\ Len(line') <= MaxLine /\ rest' \subseteq Photos
        /\ batching' \in BOOLEAN /\ scanWire' \in Seq(ScanNotes)
        /\ ~link.up => line' = <<>>
        /\ batching' => \E i \in DOMAIN line' : line'[i].kind \in {"dcim", "all"}
        /\ UnderWay(line', scanWire')
    BY <2>1, <2>5, Asks
  <2> QED BY <2>1, <2>4, <2>6 DEF ScanInv
<1>11. CASE Gallery!ExitThreadMedia
  <2>1. [gui EXCEPT !.mode = "dcim", !.items = {}, !.scanState = "idle", !.open = FALSE] \in Stores
    BY <1>0 DEF Stores, Gallery!Modes, Gallery!ScanStates
  <2> QED BY <1>11, <2>1, ScanBegins DEF Gallery!ExitThreadMedia
<1>12. CASE Gallery!Retry BY <1>0, <1>12, ScanBegins DEF Gallery!Retry
<1>13. CASE Gallery!ResetGallery
  <2> DEFINE g == [gui EXCEPT !.open = FALSE, !.items = {}, !.scanState = "idle"]
  <2>1. g \in Stores /\ g.scanState = "idle" BY <1>0 DEF Stores, Gallery!ScanStates
  <2>2. Gallery!Rendered(g) /\ UNCHANGED <<line, rest, batching, scanWire, scanPhone, scanTrouble>>
    BY <1>13 DEF Gallery!ResetGallery, Gallery!daemon
  <2> HIDE DEF g
  <2> QED BY <2>1, <2>2, ViewChanges
<1>14. CASE Gallery!Receive BY <1>14, NoteTaken
<1>15. CASE UNCHANGED Gallery!vars BY <1>15 DEF ScanInv, UnderWay, Gallery!vars
<1> QED BY <1>1, <1>2, <1>3, <1>4, <1>5, <1>6, <1>7, <1>8, <1>9, <1>10, <1>11, <1>12, <1>13, <1>14,
    <1>15
        DEF Gallery!Next

(* While the gallery shows a scan, something under way will end it *)
(* (gallery.svelte.ts scanGallery, loadThreadMedia), whatever the phone, the *)
(* connection, other queries and the user have done meanwhile: for any *)
(* photos, any length of the line and any number of failures. *)
THEOREM ScansStayLive ==
    Gallery!ScanAssumption => (Gallery!Spec => [](Gallery!TypeOK /\ Gallery!ScanningEnds))
<1> SUFFICES ASSUME Gallery!ScanAssumption
             PROVE  Gallery!Spec => [](Gallery!TypeOK /\ Gallery!ScanningEnds)
  OBVIOUS
<1>1. Gallery!Init => ScanInv BY ScanInit
<1>2. ScanInv /\ [Gallery!Next]_Gallery!vars => ScanInv' BY ScanKeeps
<1>3. ScanInv => Gallery!TypeOK /\ Gallery!ScanningEnds
  <2> SUFFICES ASSUME ScanInv  PROVE Gallery!TypeOK /\ Gallery!ScanningEnds
    OBVIOUS
  <2>1. Gallery!ScanningEnds
    BY DEF ScanInv, UnderWay, Looks, Ends, Gallery!ScanningEnds, Gallery!InLine, Gallery!OnTheWay
  <2>2. Gallery!TypeOK BY DEF ScanInv, Stores, Queries, ScanNotes, Gallery!TypeOK
  <2> QED BY <2>1, <2>2
<1> QED BY <1>1, <1>2, <1>3, PTL DEF Gallery!Spec

--------------------
(* ThumbnailPool: the two pools of thumbnails *)

ThumbCalls == [Requests -> {Nothing} \cup Pools!Made]
Atwhere(asks, stages) == {r \in Requests : asks[r] # Nothing /\ asks[r].at \in stages}
ByStore(asks) == {r \in Requests : asks[r] # Nothing /\ asks[r].by = "store"}

(* The handler counts the requests at the phone, and its queue has each *)
(* request that waits once, while there is no room. *)
Counted(asks, p) ==
    /\ p \in [active : 0..Limit, queue : Seq(Requests)]
    /\ p.active = Cardinality(Atwhere(asks, Pools!InFlight))
    /\ \A i, j \in DOMAIN p.queue : p.queue[i] = p.queue[j] => i = j
    /\ \A r \in Requests : r \in Atwhere(asks, {"queued"}) <=> \E i \in DOMAIN p.queue : p.queue[i] = r
Crowded(p) == p.queue # <<>> => p.active = Limit

(* The store counts at most its asks, and less only for what a reset forgot. *)
StoreCount(n, w, asks) ==
    /\ n \in Int /\ n <= Limit /\ w \in Seq(Photos)
    /\ n <= Cardinality(ByStore(asks)) /\ n >= Cardinality(ByStore(asks)) - Cardinality(Requests)
    /\ w # <<>> => ByStore(asks) # {}

PoolInv ==
    /\ thumbShown \in [Photos -> {"idle", "loading", "ready", "failed"}]
    /\ thumbCall \in ThumbCalls /\ urls \subseteq Photos
    /\ cache \in [thumbs : SUBSET Photos, failed : SUBSET Photos, files : SUBSET Photos]
    /\ thumbUp \in BOOLEAN /\ thumbTrouble \in 0..MaxThumbTrouble
    /\ Counted(thumbCall, pool) /\ Crowded(pool)
    /\ StoreCount(active, wanted, thumbCall)

(* Sets of requests are finite, and the library's operators are one. *)
LEMMA PoolSets ==
    ASSUME Pools!PoolAssumption
    PROVE  /\ IsFiniteSet(Requests) /\ Requests \subseteq Nat /\ Limit \in Nat /\ Limit >= 1
           /\ MaxThumbTrouble \in Nat /\ Cardinality(Requests) \in Nat
           /\ \A S : Pools!Cardinality(S) = Cardinality(S)
           /\ \A S \in SUBSET Requests : IsFiniteSet(S) /\ Cardinality(S) \in Nat
                                         /\ Cardinality(S) <= Cardinality(Requests)
<1>1. \A S : Pools!Cardinality(S) = Cardinality(S) /\ Pools!IsFiniteSet(S) = IsFiniteSet(S)
  BY DEF Pools!Cardinality, Pools!IsFiniteSet, Cardinality, IsFiniteSet
<1>2. IsFiniteSet(Requests) /\ Requests \subseteq Nat /\ Limit \in Nat /\ Limit >= 1 /\ MaxThumbTrouble \in Nat
  BY <1>1 DEF Pools!PoolAssumption
<1>3. \A S \in SUBSET Requests : IsFiniteSet(S) /\ Cardinality(S) <= Cardinality(Requests)
  BY <1>2, FS_Subset
<1>4. \A S \in SUBSET Requests : Cardinality(S) \in Nat BY <1>3, FS_CardinalityType
<1>5. Cardinality(Requests) \in Nat BY <1>2, FS_CardinalityType
<1> QED BY <1>1, <1>2, <1>3, <1>4, <1>5

LEMMA PoolInit == Pools!PoolAssumption /\ Pools!Init => PoolInv
<1> SUFFICES ASSUME Pools!PoolAssumption, Pools!Init  PROVE PoolInv
  OBVIOUS
<1>1. thumbCall = [r \in Requests |-> Nothing] /\ pool = [active |-> 0, queue |-> <<>>] /\ active = 0 /\ wanted = <<>>
  BY DEF Pools!Init
<1>2. Atwhere(thumbCall, Pools!InFlight) = {} /\ Atwhere(thumbCall, {"queued"}) = {} /\ ByStore(thumbCall) = {}
  BY <1>1 DEF Atwhere, ByStore
<1>3. Cardinality({}) = 0 BY FS_EmptySet
<1>4. <<>> \in Seq(Requests) /\ <<>> \in Seq(Photos) /\ DOMAIN <<>> = {} BY EmptySeq
<1>5. 0 \in 0..Limit /\ 0 \in 0..MaxThumbTrouble /\ 0 <= Limit /\ 0 >= 0 - Cardinality(Requests) /\ 0 \in Int
  BY PoolSets
<1>6. Counted(thumbCall, pool) /\ Crowded(pool)
  <2>1. pool.active = 0 /\ pool.queue = <<>> /\ pool \in [active : 0..Limit, queue : Seq(Requests)]
    BY <1>1, <1>4, <1>5
  <2> QED BY <1>2, <1>3, <1>4, <2>1 DEF Counted, Crowded
<1>7. StoreCount(active, wanted, thumbCall)
  <2>1. Cardinality(ByStore(thumbCall)) = 0 BY <1>2, <1>3
  <2>2. active \in Int /\ active <= Limit /\ active <= 0 /\ active >= 0 - Cardinality(Requests)
    BY <1>1, <1>5
  <2>3. wanted \in Seq(Photos) /\ wanted = <<>> BY <1>1, <1>4
  <2> QED BY <2>1, <2>2, <2>3 DEF StoreCount
<1>8. /\ thumbShown \in [Photos -> {"idle", "loading", "ready", "failed"}] /\ thumbCall \in ThumbCalls /\ urls = {}
      /\ thumbUp = TRUE /\ thumbTrouble = 0
  BY <1>1 DEF Pools!Init, ThumbCalls
<1>9. cache = [thumbs |-> {}, failed |-> {}, files |-> {}] BY DEF Pools!Init
<1> QED BY <1>5, <1>6, <1>7, <1>8, <1>9 DEF PoolInv

--------------------
(* A step that moves one call from a stage to another. *)
LEMMA Moves ==
    ASSUME Pools!PoolAssumption, NEW asks \in ThumbCalls, NEW r \in Requests, asks[r] # Nothing,
           NEW at \in Pools!Stages
    PROVE  LET next == [asks EXCEPT ![r].at = at]
           IN  /\ next \in ThumbCalls /\ ByStore(next) = ByStore(asks)
               /\ \A stages : Atwhere(next, stages) =
                     IF at \in stages THEN Atwhere(asks, stages) \cup {r} ELSE Atwhere(asks, stages) \ {r}
<1> DEFINE next == [asks EXCEPT ![r].at = at]
           c == [asks[r] EXCEPT !.at = at]
<1>1. asks[r] \in Pools!Made /\ Nothing \notin Pools!Made BY DEF ThumbCalls, Pools!PoolAssumption
<1>2. next = [asks EXCEPT ![r] = [asks[r] EXCEPT !.at = at]] OBVIOUS
<1>3. c \in Pools!Made /\ c.at = at /\ c.by = asks[r].by BY <1>1 DEF Pools!Made
<1> HIDE DEF c, next
<1>4. /\ next \in ThumbCalls /\ next[r] = c /\ c # Nothing
      /\ \A q \in Requests : q # r => next[q] = asks[q]
  BY <1>1, <1>2, <1>3 DEF ThumbCalls, c
<1>5. /\ next \in ThumbCalls /\ ByStore(next) = ByStore(asks)
      /\ \A stages : Atwhere(next, stages) =
            IF at \in stages THEN Atwhere(asks, stages) \cup {r} ELSE Atwhere(asks, stages) \ {r}
  BY <1>3, <1>4 DEF Atwhere, ByStore
<1> QED BY <1>5 DEF next

(* The queue is served: what is taken from its head goes to the phone, or all *)
(* of it fails. *)
LEMMA ServedCounts ==
    ASSUME Pools!PoolAssumption, NEW asks \in ThumbCalls, NEW p, Counted(asks, p), thumbUp \in BOOLEAN,
           Pools!Served(asks, p)
    PROVE  thumbCall' \in ThumbCalls /\ Counted(thumbCall', pool') /\ Crowded(pool') /\ ByStore(thumbCall') = ByStore(asks)
<1> DEFINE Q == p.queue
           L == Len(Q)
           n == IF thumbUp /\ L > Limit - p.active THEN Limit - p.active ELSE L
           taken == {Q[i] : i \in 1..n}
           at == IF thumbUp THEN "asked" ELSE "error"
<1>1. /\ Q \in Seq(Requests) /\ L \in Nat /\ DOMAIN Q = 1..L /\ \A i \in 1..L : Q[i] \in Requests
      /\ p.active \in 0..Limit /\ Limit \in Nat
  BY PoolSets, LenProperties, ElementOfSeq DEF Counted
<1>2. n \in 0..L /\ (thumbUp => n <= Limit - p.active) /\ (thumbUp /\ n # L => n = Limit - p.active) /\ (~thumbUp => n = L)
  BY <1>1
<1>3. /\ thumbCall' = [r \in Requests |-> IF r \in taken THEN [asks[r] EXCEPT !.at = at] ELSE asks[r]]
      /\ pool' = [active |-> IF thumbUp THEN p.active + n ELSE p.active, queue |-> SubSeq(Q, n + 1, L)]
  BY DEF Pools!Served
<1> HIDE DEF n
<1>4. taken \subseteq Atwhere(asks, {"queued"}) /\ taken \subseteq Requests
  BY <1>1, <1>2 DEF Counted
<1>5. \A r \in Requests : r \in taken <=> \E i \in 1..n : Q[i] = r OBVIOUS
<1>6. /\ thumbCall' \in ThumbCalls
      /\ \A r \in Requests : r \notin taken => thumbCall'[r] = asks[r]
      /\ \A r \in taken : thumbCall'[r] # Nothing /\ thumbCall'[r].at = at /\ thumbCall'[r].by = asks[r].by
                          /\ asks[r] # Nothing /\ asks[r].at = "queued"
  <2>1. \A r \in taken : asks[r] \in Pools!Made /\ asks[r].at = "queued" /\ asks[r] # Nothing
    BY <1>4 DEF Atwhere, ThumbCalls
  <2>2. \A r \in taken : [asks[r] EXCEPT !.at = at] \in Pools!Made
    BY <2>1 DEF Pools!Made, Pools!Stages, Pools!InFlight, Pools!Outcomes
  <2>3. \A r \in taken : [asks[r] EXCEPT !.at = at].at = at /\ [asks[r] EXCEPT !.at = at].by = asks[r].by
    BY <2>1 DEF Pools!Made
  <2>4. Nothing \notin Pools!Made BY DEF Pools!PoolAssumption
  <2> HIDE DEF taken, at
  <2> QED BY <1>3, <1>4, <2>1, <2>2, <2>3, <2>4 DEF ThumbCalls
<1> HIDE DEF taken
<1>7. ByStore(thumbCall') = ByStore(asks) BY <1>4, <1>6 DEF ByStore
<1>8. Atwhere(thumbCall', {"queued"}) = Atwhere(asks, {"queued"}) \ taken BY <1>4, <1>6 DEF Atwhere
<1> DEFINE R == pool'.queue
<1>9. /\ R \in Seq(Requests) /\ Len(R) = L - n /\ DOMAIN R = 1..(L - n)
      /\ \A i \in 1..(L - n) : R[i] = Q[n + i]
  <2>1. R = SubSeq(Q, n + 1, L) BY <1>3
  <2>2. CASE n = L
    <3>1. R = <<>> BY <1>1, <2>1, <2>2, SubSeqEmpty
    <3>2. L - n = 0 BY <1>1, <2>2
    <3> HIDE DEF R
    <3> QED BY <3>1, <3>2, EmptySeq
  <2>3. CASE n # L
    <3>1. n + 1 \in 1..L /\ n \in Nat /\ L \in 1..L /\ L - (n + 1) + 1 = L - n BY <1>1, <1>2, <2>3
    <3>2. /\ SubSeq(Q, n + 1, L) \in Seq(Requests) /\ Len(SubSeq(Q, n + 1, L)) = L - n
          /\ \A i \in 1..(L - n) : SubSeq(Q, n + 1, L)[i] = Q[n + 1 + i - 1]
      BY <1>1, <3>1, SubSeqProperties
    <3>3. \A i \in 1..(L - n) : n + 1 + i - 1 = n + i BY <1>1, <1>2
    <3> HIDE DEF R
    <3> QED BY <2>1, <3>2, <3>3, LenProperties
  <2> QED BY <2>2, <2>3
<1>10. \A i \in 1..(L - n) : n + i \in 1..L BY <1>1, <1>2
<1>11. \A i, j \in DOMAIN R : R[i] = R[j] => i = j
  <2> SUFFICES ASSUME NEW i \in 1..(L - n), NEW j \in 1..(L - n), R[i] = R[j]  PROVE i = j
    BY <1>9
  <2>1. n + i \in DOMAIN Q /\ n + j \in DOMAIN Q /\ Q[n + i] = Q[n + j] BY <1>1, <1>9, <1>10
  <2>2. n + i = n + j BY <2>1 DEF Counted
  <2> QED BY <1>1, <1>2, <2>2
<1>12. \A r \in Requests : r \in Atwhere(thumbCall', {"queued"}) <=> \E i \in DOMAIN R : R[i] = r
  <2> TAKE r \in Requests
  <2>1. ASSUME r \in Atwhere(thumbCall', {"queued"})  PROVE \E i \in DOMAIN R : R[i] = r
    <3>1. r \in Atwhere(asks, {"queued"}) /\ r \notin taken BY <1>8, <2>1
    <3>2. PICK k \in 1..L : Q[k] = r BY <1>1, <3>1 DEF Counted
    <3>3. ~(k \in 1..n) BY <1>5, <3>1, <3>2
    <3>4. k - n \in 1..(L - n) /\ n + (k - n) = k BY <1>1, <1>2, <3>3
    <3> QED BY <1>9, <3>2, <3>4
  <2>2. ASSUME NEW i \in DOMAIN R, R[i] = r  PROVE r \in Atwhere(thumbCall', {"queued"})
    <3>1. n + i \in 1..L /\ Q[n + i] = r /\ i \in 1..(L - n) BY <1>9, <1>10, <2>2
    <3>2. r \in Atwhere(asks, {"queued"}) BY <1>1, <3>1 DEF Counted
    <3>3. r \notin taken
      <4> SUFFICES ASSUME r \in taken  PROVE FALSE
        OBVIOUS
      <4>1. PICK k \in 1..n : Q[k] = r BY <1>5
      <4>2. k \in DOMAIN Q /\ n + i \in DOMAIN Q /\ k # n + i BY <1>1, <1>2, <3>1
      <4> QED BY <3>1, <4>1, <4>2 DEF Counted
    <3> QED BY <1>8, <3>2, <3>3
  <2> QED BY <2>1, <2>2
<1>13. pool'.active \in 0..Limit /\ pool'.active = Cardinality(Atwhere(thumbCall', Pools!InFlight))
  <2> DEFINE F == Atwhere(asks, Pools!InFlight)
             G == Atwhere(thumbCall', Pools!InFlight)
  <2>1. p.active = Cardinality(F) /\ F \in SUBSET Requests /\ IsFiniteSet(F)
    BY PoolSets DEF Counted, Atwhere
  <2>2. CASE thumbUp
    <3>1. G = F \cup taken /\ F \cap taken = {} BY <1>4, <1>6, <2>2 DEF Atwhere, Pools!InFlight
    <3>2. Cardinality(taken) = n /\ IsFiniteSet(taken)
      <4> DEFINE f == [i \in 1..n |-> Q[i]]
      <4>1. \A i \in 1..n : i \in 1..L BY <1>1, <1>2
      <4>2. f \in Surjection(1..n, taken) BY <1>5, <1>4, <4>1, <1>1 DEF Surjection, taken
      <4>3. f \in Injection(1..n, taken)
        BY <4>1, <4>2, <1>1 DEF Injection, IsInjective, Surjection, Counted
      <4>4. f \in Bijection(1..n, taken) BY <4>2, <4>3 DEF Bijection
      <4>5. IsFiniteSet(1..n) /\ Cardinality(1..n) = n BY <1>1, <1>2, FS_Interval
      <4> QED BY <4>4, <4>5, FS_Bijection DEF ExistsBijection
    <3>3. Cardinality(G) = Cardinality(F) + n
      <4>1. Cardinality(F \cap taken) = 0 BY <3>1, FS_EmptySet
      <4>2. Cardinality(F \cup taken) = Cardinality(F) + Cardinality(taken) - Cardinality(F \cap taken)
        BY <2>1, <3>2, FS_Union
      <4>3. Cardinality(F) \in Nat BY <2>1, FS_CardinalityType
      <4> QED BY <1>1, <1>2, <3>1, <3>2, <4>1, <4>2, <4>3
    <3>4. pool'.active = p.active + n BY <1>3, <2>2
    <3> QED BY <1>1, <1>2, <2>1, <2>2, <3>3, <3>4
  <2>3. CASE ~thumbUp
    <3>1. G = F BY <1>4, <1>6, <2>3 DEF Atwhere, Pools!InFlight
    <3> QED BY <1>1, <1>3, <2>1, <2>3, <3>1
  <2> QED BY <2>2, <2>3
<1>14. Crowded(pool')
  <2> SUFFICES ASSUME R # <<>>  PROVE pool'.active = Limit
    BY DEF Crowded
  <2>1. n # L
    <3> SUFFICES ASSUME n = L  PROVE R = <<>>
      OBVIOUS
    <3>1. Len(R) = 0 /\ R \in Seq(Requests) BY <1>1, <1>9
    <3> HIDE DEF R
    <3> QED BY <3>1, EmptySeq
  <2>2. thumbUp /\ n = Limit - p.active BY <1>2, <2>1
  <2> QED BY <1>1, <1>2, <1>3, <2>2
<1>15. pool' \in [active : 0..Limit, queue : Seq(Requests)] BY <1>3, <1>9, <1>13
<1> QED BY <1>6, <1>7, <1>11, <1>12, <1>13, <1>14, <1>15 DEF Counted

(* The numbers of a set in order, as the store takes identities and places. *)
LEMMA InOrderIs ==
    ASSUME NEW S \in SUBSET Nat, IsFiniteSet(S)
    PROVE  /\ Pools!InOrder(S) \in Seq(S) /\ Len(Pools!InOrder(S)) = Cardinality(S)
           /\ DOMAIN Pools!InOrder(S) = 1..Cardinality(S) /\ Cardinality(S) \in Nat
           /\ \A i, j \in DOMAIN Pools!InOrder(S) : Pools!InOrder(S)[i] = Pools!InOrder(S)[j] => i = j
<1> DEFINE s == Pools!InOrder(S)
<1>1. Ascending(s, S)
  <2>1. Pools!Cardinality(S) = Cardinality(S)
    BY DEF Pools!Cardinality, Pools!IsFiniteSet, Cardinality, IsFiniteSet
  <2>2. \E q : Ascending(q, S) BY HasAscending
  <2> QED BY <2>1, <2>2 DEF Ascending, Pools!InOrder
<1> HIDE DEF s
<1>2. s \in Seq(S) /\ \A i, j \in DOMAIN s : s[i] = s[j] => i = j BY <1>1, AscendingLists
<1>3. DOMAIN s = 1..Cardinality(S) /\ Cardinality(S) \in Nat
  BY <1>1, FS_CardinalityType DEF Ascending
<1>4. Len(s) = Cardinality(S) BY <1>2, <1>3, LenProperties
<1> QED BY <1>2, <1>3, <1>4 DEF s

(* The store's asks: one more for each path, nothing else. *)
LEMMA FetchCounts ==
    ASSUME Pools!PoolAssumption, NEW asks \in ThumbCalls, NEW paths \in Seq(Photos),
           Pools!Fetch(asks, paths)
    PROVE  /\ thumbCall' \in ThumbCalls
           /\ Cardinality(ByStore(thumbCall')) = Cardinality(ByStore(asks)) + Len(paths)
           /\ \A stages : "made" \notin stages => Atwhere(thumbCall', stages) = Atwhere(asks, stages)
<1> DEFINE S == {r \in Requests : asks[r] = Nothing}
           free == Pools!InOrder(S)
           n == Len(paths)
           taken == {free[i] : i \in 1..n}
           New(r) == {i \in 1..n : free[i] = r}
           pick(r) == CHOOSE i \in New(r) : TRUE
           new(r) == [path |-> paths[pick(r)], by |-> "store", at |-> "made"]
<1>1. S \in SUBSET Nat /\ S \in SUBSET Requests /\ IsFiniteSet(S) /\ Cardinality(S) \in Nat
  BY PoolSets
<1>2. /\ free \in Seq(S) /\ DOMAIN free = 1..Cardinality(S) /\ Len(free) = Cardinality(S)
      /\ \A i, j \in DOMAIN free : free[i] = free[j] => i = j
  <2> HIDE DEF S
  <2> QED BY <1>1, InOrderIs
<1>3. n \in Nat /\ DOMAIN paths = 1..n /\ \A i \in 1..n : paths[i] \in Photos
  BY LenProperties, ElementOfSeq
<1>4. /\ n <= Len(free)
      /\ thumbCall' = [r \in Requests |-> IF New(r) = {} THEN asks[r] ELSE new(r)]
  BY <1>3 DEF Pools!Fetch, Pools!Free
<1> HIDE DEF free
<1>5. \A i \in 1..n : i \in DOMAIN free /\ free[i] \in S BY <1>1, <1>2, <1>3, <1>4, ElementOfSeq
<1>6. taken \subseteq S /\ \A r \in Requests : r \in taken <=> New(r) # {} BY <1>5
<1>7. \A r \in taken : new(r) \in Pools!Made /\ new(r).by = "store" /\ new(r).at = "made"
  <2> TAKE r \in taken
  <2>1. pick(r) \in 1..n BY <1>6
  <2>2. paths[pick(r)] \in Photos BY <1>3, <2>1
  <2> HIDE DEF pick
  <2> QED BY <2>2 DEF Pools!Made, Pools!Stages
<1> HIDE DEF new, New
<1>8. /\ thumbCall' \in ThumbCalls
      /\ \A r \in Requests : r \notin taken => thumbCall'[r] = asks[r]
      /\ \A r \in taken : thumbCall'[r] # Nothing /\ thumbCall'[r].by = "store" /\ thumbCall'[r].at = "made" /\ asks[r] = Nothing
  <2>1. Nothing \notin Pools!Made BY DEF Pools!PoolAssumption
  <2>2. \A r \in taken : asks[r] = Nothing /\ r \in Requests BY <1>6
  <2> HIDE DEF taken
  <2> QED BY <1>4, <1>6, <1>7, <2>1, <2>2 DEF ThumbCalls
<1>9. Cardinality(taken) = n /\ IsFiniteSet(taken)
  <2> DEFINE f == [i \in 1..n |-> free[i]]
  <2>1. f \in Surjection(1..n, taken) BY DEF Surjection
  <2>2. f \in Injection(1..n, taken) BY <1>2, <1>5, <2>1 DEF Injection, IsInjective, Surjection
  <2>3. f \in Bijection(1..n, taken) BY <2>1, <2>2 DEF Bijection
  <2>4. IsFiniteSet(1..n) /\ Cardinality(1..n) = n
    <3> HIDE DEF n
    <3> QED BY <1>3, FS_Interval
  <2> QED BY <2>3, <2>4, FS_Bijection DEF ExistsBijection
<1>10. taken \subseteq Requests BY <1>6
<1> HIDE DEF taken
<1>11. ByStore(thumbCall') = ByStore(asks) \cup taken /\ ByStore(asks) \cap taken = {}
  BY <1>8, <1>10 DEF ByStore
<1>12. Cardinality(ByStore(thumbCall')) = Cardinality(ByStore(asks)) + n
  <2>1. IsFiniteSet(ByStore(asks)) /\ Cardinality(ByStore(asks)) \in Nat BY PoolSets DEF ByStore
  <2>2. Cardinality(ByStore(asks) \cap taken) = 0 BY <1>11, FS_EmptySet
  <2>3. Cardinality(ByStore(asks) \cup taken)
           = Cardinality(ByStore(asks)) + Cardinality(taken) - Cardinality(ByStore(asks) \cap taken)
    BY <1>9, <2>1, FS_Union
  <2> QED BY <1>3, <1>9, <1>11, <2>1, <2>2, <2>3
<1>13. \A stages : "made" \notin stages => Atwhere(thumbCall', stages) = Atwhere(asks, stages)
  BY <1>8, <1>10 DEF Atwhere
<1> QED BY <1>8, <1>12, <1>13

(* The store's queue: no more are taken than there is room for, and one that *)
(* stays waits behind one that is taken. *)
LEMMA DrainedIs ==
    ASSUME wanted \in Seq(Photos), NEW states, NEW room \in Nat, room >= 1
    PROVE  LET D == Pools!Drained(states, room)
               K == {i \in D : states[wanted[i]] = "idle"}
           IN  /\ D \subseteq DOMAIN wanted /\ IsFiniteSet(D) /\ Cardinality(D) \in Nat
               /\ K \in SUBSET Nat /\ IsFiniteSet(K) /\ Cardinality(K) <= room
               /\ Cardinality(D) < Len(wanted) => K # {}
<1> DEFINE n == Len(wanted)
           Idle(m) == {i \in 1..(m - 1) : states[wanted[i]] = "idle"}
           D == {m \in 1..n : Cardinality(Idle(m)) < room}
           K == {i \in D : states[wanted[i]] = "idle"}
<1>1. n \in Nat /\ DOMAIN wanted = 1..n BY LenProperties
<1>2. Pools!Drained(states, room) = D
  <2>1. \A S : Pools!Cardinality(S) = Cardinality(S)
    BY DEF Pools!Cardinality, Pools!IsFiniteSet, Cardinality, IsFiniteSet
  <2> QED BY <1>1, <2>1 DEF Pools!Drained
<1>3. \A m \in 1..n : IsFiniteSet(Idle(m)) /\ Cardinality(Idle(m)) \in Nat
  <2> TAKE m \in 1..n
  <2>1. IsFiniteSet(1..(m - 1)) BY <1>1, FS_Interval
  <2>2. IsFiniteSet(Idle(m)) BY <2>1, FS_Subset
  <2> QED BY <2>2, FS_CardinalityType
<1>4. D \subseteq 1..n /\ K \subseteq D /\ IsFiniteSet(1..n) /\ Cardinality(1..n) = n
  BY <1>1, FS_Interval
<1>5. IsFiniteSet(D) /\ IsFiniteSet(K) /\ Cardinality(D) \in Nat /\ Cardinality(K) \in Nat /\ K \in SUBSET Nat
  <2> HIDE DEF D, K
  <2>1. IsFiniteSet(D) BY <1>4, FS_Subset
  <2>2. IsFiniteSet(K) BY <1>4, <2>1, FS_Subset
  <2>3. Cardinality(D) \in Nat /\ Cardinality(K) \in Nat BY <2>1, <2>2, FS_CardinalityType
  <2>4. \A i \in K : i \in 1..n BY <1>4
  <2> QED BY <1>1, <2>1, <2>2, <2>3, <2>4
<1> HIDE DEF Idle
<1>6. Cardinality(K) <= room
  <2>1. CASE K = {}
    <3>1. Cardinality(K) = 0 BY <2>1, FS_EmptySet
    <3> QED BY <3>1
  <2>2. CASE K # {}
    <3>1. PICK x \in K : \A y \in K : y <= x
      <4> HIDE DEF K
      <4> QED BY <1>5, <2>2, HasMax
    <3>2. x \in 1..n /\ Cardinality(Idle(x)) < room BY <3>1
    <3>3. K \subseteq Idle(x) \cup {x} BY <1>1, <3>1, <3>2 DEF Idle
    <3>4. IsFiniteSet(Idle(x)) /\ Cardinality(Idle(x)) \in Nat BY <1>3, <3>2
    <3>5. /\ IsFiniteSet(Idle(x) \cup {x}) /\ Cardinality(Idle(x) \cup {x}) <= Cardinality(Idle(x)) + 1
          /\ Cardinality(Idle(x) \cup {x}) \in Nat
      <4>1. Cardinality(Idle(x) \cup {x}) = IF x \in Idle(x) THEN Cardinality(Idle(x)) ELSE Cardinality(Idle(x)) + 1
        BY <3>4, FS_AddElement
      <4>2. IsFiniteSet(Idle(x) \cup {x}) BY <3>4, FS_AddElement
      <4> QED BY <3>4, <4>1, <4>2
    <3>6. Cardinality(K) <= Cardinality(Idle(x) \cup {x})
      <4> HIDE DEF K
      <4> QED BY <3>3, <3>5, FS_Subset
    <3> HIDE DEF K
    <3> QED BY <1>5, <3>2, <3>4, <3>5, <3>6
  <2> QED BY <2>1, <2>2
<1>7. Cardinality(D) < n => K # {}
  <2> SUFFICES ASSUME Cardinality(D) < n  PROVE K # {}
    OBVIOUS
  <2>1. D # 1..n
    <3> HIDE DEF D, n
    <3> QED BY <1>1, <1>4
  <2>2. PICK m \in 1..n : ~(Cardinality(Idle(m)) < room) BY <2>1
  <2>3. Idle(m) # {}
    <3> SUFFICES ASSUME Idle(m) = {}  PROVE FALSE
      OBVIOUS
    <3>1. Cardinality(Idle(m)) = 0 BY FS_EmptySet
    <3> QED BY <2>2, <3>1
  <2> DEFINE T == {i \in 1..n : states[wanted[i]] = "idle"}
  <2>4. T # {} /\ T \subseteq Nat BY <1>1, <2>3 DEF Idle
  <2>5. PICK x \in T : \A y \in T : x <= y
    <3> HIDE DEF T
    <3> QED BY <2>4, LeastNat
  <2>6. Idle(x) = {}
    <3>1. \A i \in 1..(x - 1) : i \in 1..n /\ i < x BY <1>1, <2>5
    <3>2. \A i \in 1..(x - 1) : i \notin T BY <1>1, <2>5, <3>1
    <3> QED BY <3>1, <3>2 DEF Idle
  <2>7. Cardinality(Idle(x)) = 0 BY <2>6, FS_EmptySet
  <2>8. x \in D BY <2>5, <2>7
  <2> QED BY <2>5, <2>8
<1> HIDE DEF D
<1> QED BY <1>1, <1>2, <1>4, <1>5, <1>6, <1>7

--------------------
(* What the steps leave to show: the handler's side, and the store's. *)
LEMMA HandlerSide ==
    ASSUME PoolInv, thumbCall' \in ThumbCalls, Counted(thumbCall', pool'), Crowded(pool'),
           ByStore(thumbCall') = ByStore(thumbCall), UNCHANGED <<thumbShown, wanted, active, urls>>,
           cache' \in [thumbs : SUBSET Photos, failed : SUBSET Photos, files : SUBSET Photos],
           thumbUp' \in BOOLEAN, thumbTrouble' \in 0..MaxThumbTrouble
    PROVE  PoolInv'
BY DEF PoolInv, StoreCount

LEMMA StoreSide ==
    ASSUME PoolInv, thumbCall' \in ThumbCalls, UNCHANGED <<pool, cache, thumbUp>>, thumbTrouble' \in 0..MaxThumbTrouble,
           \A stages : "made" \notin stages /\ stages \cap Pools!Outcomes = {}
                          => Atwhere(thumbCall', stages) = Atwhere(thumbCall, stages),
           thumbShown' \in [Photos -> {"idle", "loading", "ready", "failed"}], urls' \subseteq Photos,
           StoreCount(active', wanted', thumbCall')
    PROVE  PoolInv'
<1>1. /\ Atwhere(thumbCall', Pools!InFlight) = Atwhere(thumbCall, Pools!InFlight)
      /\ Atwhere(thumbCall', {"queued"}) = Atwhere(thumbCall, {"queued"})
  BY DEF Pools!InFlight, Pools!Outcomes
<1>2. Counted(thumbCall', pool') /\ Crowded(pool') BY <1>1 DEF PoolInv, Counted, Crowded
<1> QED BY <1>2 DEF PoolInv

LEMMA PoolTrouble ==
    ASSUME PoolInv, Pools!PoolAssumption, Pools!Troubled
    PROVE  thumbTrouble' \in 0..MaxThumbTrouble
<1>1. thumbTrouble < MaxThumbTrouble /\ thumbTrouble' = thumbTrouble + 1 BY DEF Pools!Troubled
<1>2. thumbTrouble \in 0..MaxThumbTrouble /\ MaxThumbTrouble \in Nat BY PoolSets DEF PoolInv
<1> QED BY <1>1, <1>2

(* A cell scrolls into view. *)
LEMMA Requested ==
    ASSUME PoolInv, Pools!PoolAssumption, NEW p \in Photos, Pools!RequestThumbnail(p)
    PROVE  PoolInv'
<1> DEFINE n == Cardinality(ByStore(thumbCall))
           z == Cardinality(Requests)
<1>1. /\ UNCHANGED <<pool, cache, urls, thumbUp, thumbTrouble>> /\ wanted \in Seq(Photos) /\ active \in Int
      /\ n \in Nat /\ z \in Nat /\ active <= n /\ active >= n - z /\ active <= Limit
      /\ Limit \in Nat /\ Limit >= 1
  BY PoolSets DEF Pools!RequestThumbnail, PoolInv, StoreCount, ByStore
<1>2. CASE /\ active >= Limit
           /\ wanted' = IF \E i \in DOMAIN wanted : wanted[i] = p THEN wanted ELSE Append(wanted, p)
           /\ UNCHANGED <<thumbShown, active, thumbCall>>
  <2>1. wanted' \in Seq(Photos) BY <1>1, <1>2, AppendProperties
  <2>2. n # 0 BY <1>1, <1>2
  <2>3. ByStore(thumbCall) # {} BY <2>2, FS_EmptySet
  <2>4. StoreCount(active', wanted', thumbCall') BY <1>2, <2>1, <2>3 DEF PoolInv, StoreCount
  <2> QED BY <1>1, <1>2, <2>4, StoreSide DEF PoolInv
<1>3. CASE /\ active < Limit
           /\ Pools!Fetch(thumbCall, <<p>>)
           /\ thumbShown' = [thumbShown EXCEPT ![p] = "loading"]
           /\ active' = active + 1
           /\ UNCHANGED wanted
  <2>1. <<p>> \in Seq(Photos) /\ Len(<<p>>) = 1 OBVIOUS
  <2>2. /\ thumbCall' \in ThumbCalls /\ Cardinality(ByStore(thumbCall')) = n + 1
        /\ \A stages : "made" \notin stages => Atwhere(thumbCall', stages) = Atwhere(thumbCall, stages)
    BY <1>3, <2>1, FetchCounts DEF PoolInv
  <2> HIDE DEF n, z
  <2>3. active' \in Int /\ active' <= Limit /\ active' <= n + 1 /\ active' >= n + 1 - z /\ n + 1 # 0
    BY <1>1, <1>3
  <2>4. ByStore(thumbCall') # {} BY <2>2, <2>3, FS_EmptySet
  <2>5. StoreCount(active', wanted', thumbCall') BY <1>1, <1>3, <2>2, <2>3, <2>4 DEF StoreCount, z
  <2>6. thumbShown' \in [Photos -> {"idle", "loading", "ready", "failed"}] BY <1>3 DEF PoolInv
  <2> QED BY <1>1, <2>2, <2>5, <2>6, StoreSide DEF PoolInv
<1> QED BY <1>2, <1>3 DEF Pools!RequestThumbnail

(* A call of the store or of an image has its reply, and is over. *)
LEMMA CallEnds ==
    ASSUME Pools!PoolAssumption, NEW asks \in ThumbCalls, NEW r \in Requests,
           asks[r] # Nothing, asks[r].at \in Pools!Outcomes, NEW next, next = [asks EXCEPT ![r] = Nothing]
    PROVE  /\ next \in ThumbCalls
           /\ ByStore(next) = ByStore(asks) \ {r}
           /\ \A stages : stages \cap Pools!Outcomes = {} => Atwhere(next, stages) = Atwhere(asks, stages)
<1>1. next \in ThumbCalls /\ next[r] = Nothing /\ \A q \in Requests : q # r => next[q] = asks[q]
  BY DEF ThumbCalls
<1> QED BY <1>1 DEF Atwhere, ByStore

LEMMA StoreReplied ==
    ASSUME PoolInv, Pools!PoolAssumption, NEW r \in Requests, thumbCall[r] # Nothing, Pools!ThumbnailReply(r)
    PROVE  PoolInv'
<1> DEFINE now == [thumbShown EXCEPT ![thumbCall[r].path] = IF thumbCall[r].at = "ready" THEN "ready" ELSE "failed"]
           room == Limit - (active - 1)
           D == Pools!Drained(now, room)
           K == {i \in D : now[wanted[i]] = "idle"}
           places == Pools!InOrder(K)
           next == [i \in DOMAIN places |-> wanted[places[i]]]
           ended == [thumbCall EXCEPT ![r] = Nothing]
           n == Cardinality(ByStore(thumbCall))
           z == Cardinality(Requests)
<1>1. /\ thumbCall[r].by = "store" /\ thumbCall[r].at \in Pools!Outcomes
      /\ Pools!Fetch(ended, next)
      /\ thumbShown' = [p \in Photos |-> IF \E i \in DOMAIN next : next[i] = p THEN "loading" ELSE now[p]]
      /\ active' = active - 1 + Len(next)
      /\ wanted' = SubSeq(wanted, Pools!Cardinality(D) + 1, Len(wanted))
      /\ UNCHANGED <<pool, cache, urls, thumbUp, thumbTrouble>>
  BY DEF Pools!ThumbnailReply
<1>2. /\ wanted \in Seq(Photos) /\ active \in Int /\ n \in Nat /\ z \in Nat
      /\ active <= n /\ active >= n - z /\ active <= Limit /\ Limit \in Nat
      /\ thumbCall \in ThumbCalls
      /\ Len(wanted) \in Nat /\ DOMAIN wanted = 1..Len(wanted)
  BY PoolSets, LenProperties DEF PoolInv, StoreCount, ByStore
<1>3. now \in [Photos -> {"idle", "loading", "ready", "failed"}]
  <2>1. thumbCall[r].path \in Photos BY <1>2 DEF ThumbCalls, Pools!Made
  <2> QED BY <2>1 DEF PoolInv
<1> HIDE DEF now
<1>4. room \in Nat /\ room >= 1 BY <1>2
<1> HIDE DEF room
<1>5. /\ D \subseteq DOMAIN wanted /\ IsFiniteSet(D) /\ Cardinality(D) \in Nat
      /\ K \in SUBSET Nat /\ IsFiniteSet(K) /\ Cardinality(K) <= room
      /\ Cardinality(D) < Len(wanted) => K # {}
  BY <1>2, <1>4, DrainedIs
<1>6. /\ places \in Seq(K) /\ Len(places) = Cardinality(K) /\ DOMAIN places = 1..Cardinality(K)
      /\ Cardinality(K) \in Nat
  <2> HIDE DEF K
  <2> QED BY <1>5, InOrderIs
<1> HIDE DEF places
<1>7. next \in Seq(Photos) /\ Len(next) = Cardinality(K)
  <2>1. \A i \in 1..Cardinality(K) : places[i] \in K BY <1>6, ElementOfSeq
  <2>2. \A i \in K : wanted[i] \in Photos BY <1>2, <1>5, ElementOfSeq
  <2>3. next \in [1..Cardinality(K) -> Photos] BY <1>6, <2>1, <2>2
  <2> HIDE DEF next, K
  <2>4. next \in Seq(Photos) BY <1>6, <2>3, SeqDef
  <2> QED BY <1>6, <2>3, <2>4, LenProperties
<1> DEFINE m == Cardinality(K)
<1>8. /\ ended \in ThumbCalls /\ ByStore(ended) = ByStore(thumbCall) \ {r}
      /\ \A stages : stages \cap Pools!Outcomes = {} => Atwhere(ended, stages) = Atwhere(thumbCall, stages)
  BY <1>1, <1>2, CallEnds
<1> HIDE DEF ended, next, D, K
<1>9. Cardinality(ByStore(ended)) = n - 1
  <2>1. r \in ByStore(thumbCall) BY <1>1 DEF ByStore
  <2>2. IsFiniteSet(ByStore(thumbCall)) BY PoolSets DEF ByStore
  <2> QED BY <1>8, <2>1, <2>2, FS_RemoveElement
<1>10. /\ thumbCall' \in ThumbCalls /\ Cardinality(ByStore(thumbCall')) = n - 1 + m
       /\ \A stages : "made" \notin stages => Atwhere(thumbCall', stages) = Atwhere(ended, stages)
  BY <1>1, <1>7, <1>8, <1>9, FetchCounts
<1>11. thumbShown' \in [Photos -> {"idle", "loading", "ready", "failed"}] BY <1>1, <1>3
<1>12. wanted' \in Seq(Photos) /\ (wanted' # <<>> => K # {})
  <2>1. Pools!Cardinality(D) = Cardinality(D) BY PoolSets
  <2> DEFINE c == Cardinality(D)
             l == Len(wanted)
  <2>2. wanted' = SubSeq(wanted, c + 1, l) /\ c \in Nat /\ l \in Nat /\ (c < l => K # {})
    BY <1>1, <1>2, <1>5, <2>1
  <2> HIDE DEF c
  <2>3. CASE c < l
    <3>1. \A i \in (c + 1)..l : wanted[i] \in Photos BY <1>2, <2>2, ElementOfSeq
    <3>2. SubSeq(wanted, c + 1, l) \in Seq(Photos) BY <1>2, <2>2, <2>3, <3>1, SubSeqProperties
    <3> QED BY <2>2, <2>3, <3>2
  <2>4. CASE ~(c < l)
    <3>1. c + 1 \in Int /\ l \in Int /\ c + 1 > l BY <2>2, <2>4
    <3>2. wanted' = <<>> BY <2>2, <3>1, SubSeqEmpty
    <3> QED BY <3>2, EmptySeq
  <2> QED BY <2>3, <2>4
<1>13. K # {} => m # 0 BY <1>5, FS_EmptySet
<1>14. active' = active - 1 + m /\ m \in Nat /\ m <= room BY <1>1, <1>5, <1>6, <1>7
<1> HIDE DEF m, n, z
<1>15. active' \in Int /\ active' <= Limit /\ active' <= n - 1 + m /\ active' >= n - 1 + m - z
  BY <1>2, <1>14 DEF room
<1>16. n >= 1
  <2>1. n # 0
    <3>1. r \in ByStore(thumbCall) /\ IsFiniteSet(ByStore(thumbCall)) BY <1>1, PoolSets DEF ByStore
    <3> QED BY <3>1, FS_EmptySet DEF n
  <2> QED BY <1>2, <2>1
<1>17. wanted' # <<>> => ByStore(thumbCall') # {}
  <2> SUFFICES ASSUME wanted' # <<>>, ByStore(thumbCall') = {}  PROVE FALSE
    OBVIOUS
  <2>1. n - 1 + m # 0 BY <1>2, <1>12, <1>13, <1>14, <1>16
  <2> QED BY <1>10, <2>1, FS_EmptySet
<1>18. StoreCount(active', wanted', thumbCall')
  <2>1. /\ active' <= Cardinality(ByStore(thumbCall'))
        /\ active' >= Cardinality(ByStore(thumbCall')) - Cardinality(Requests)
    <3> DEFINE k == n - 1 + m
    <3>1. k \in Int /\ z \in Nat /\ active' <= k /\ active' >= k - z /\ Cardinality(ByStore(thumbCall')) = k
      BY <1>2, <1>10, <1>14, <1>15
    <3> HIDE DEF k
    <3> QED BY <3>1 DEF z
  <2> QED BY <1>12, <1>15, <1>17, <2>1 DEF StoreCount
<1>19. \A stages : "made" \notin stages /\ stages \cap Pools!Outcomes = {}
                      => Atwhere(thumbCall', stages) = Atwhere(thumbCall, stages)
  BY <1>8, <1>10
<1> QED BY <1>1, <1>10, <1>11, <1>18, <1>19, StoreSide DEF PoolInv

(* An image asks by its URL, and is told. *)
LEMMA ImageAsks ==
    ASSUME PoolInv, Pools!PoolAssumption, NEW p \in Photos, Pools!LoadImage(p)
    PROVE  PoolInv'
<1> DEFINE c == [path |-> p, by |-> "image", at |-> "made"]
<1>1. PICK r \in Requests : thumbCall[r] = Nothing /\ thumbCall' = [thumbCall EXCEPT ![r] = c]
  BY DEF Pools!LoadImage
<1>2. UNCHANGED <<thumbShown, wanted, active, urls, pool, cache, thumbUp, thumbTrouble>>
  BY DEF Pools!LoadImage, Pools!renderer
<1>3. c \in Pools!Made /\ c.at = "made" /\ c.by = "image" /\ c # Nothing
  BY DEF Pools!Made, Pools!Stages, Pools!PoolAssumption
<1> HIDE DEF c
<1>4. /\ thumbCall' \in ThumbCalls /\ thumbCall'[r] = c /\ \A q \in Requests : q # r => thumbCall'[q] = thumbCall[q]
  BY <1>1, <1>3 DEF PoolInv, ThumbCalls
<1>5. ByStore(thumbCall') = ByStore(thumbCall) BY <1>1, <1>3, <1>4 DEF ByStore
<1>6. \A stages : "made" \notin stages => Atwhere(thumbCall', stages) = Atwhere(thumbCall, stages)
  BY <1>1, <1>3, <1>4 DEF Atwhere
<1>7. StoreCount(active', wanted', thumbCall') BY <1>2, <1>5 DEF PoolInv, StoreCount
<1> QED BY <1>2, <1>4, <1>6, <1>7, StoreSide DEF PoolInv

LEMMA ImageTold ==
    ASSUME PoolInv, Pools!PoolAssumption, NEW r \in Requests, thumbCall[r] # Nothing, Pools!ImageReply(r)
    PROVE  PoolInv'
<1>1. /\ thumbCall[r].by = "image" /\ thumbCall[r].at \in Pools!Outcomes /\ thumbCall' = [thumbCall EXCEPT ![r] = Nothing]
      /\ urls' = IF thumbCall[r].at = "ready" THEN urls \cup {thumbCall[r].path} ELSE urls
      /\ UNCHANGED <<thumbShown, wanted, active, pool, cache, thumbUp, thumbTrouble>>
  BY DEF Pools!ImageReply
<1>2. /\ thumbCall' \in ThumbCalls /\ ByStore(thumbCall') = ByStore(thumbCall) \ {r}
      /\ \A stages : stages \cap Pools!Outcomes = {} => Atwhere(thumbCall', stages) = Atwhere(thumbCall, stages)
  BY <1>1, CallEnds DEF PoolInv
<1>3. ByStore(thumbCall') = ByStore(thumbCall) BY <1>1, <1>2 DEF ByStore
<1>4. urls' \subseteq Photos BY <1>1 DEF PoolInv, ThumbCalls, Pools!Made
<1>5. StoreCount(active', wanted', thumbCall') BY <1>1, <1>3 DEF PoolInv, StoreCount
<1> QED BY <1>1, <1>2, <1>4, <1>5, StoreSide DEF PoolInv

(* The store forgets, its asks go on. *)
LEMMA StoreForgets ==
    ASSUME PoolInv, Pools!PoolAssumption, Pools!ResetThumbnails
    PROVE  PoolInv'
<1>1. /\ thumbShown' = [p \in Photos |-> "idle"] /\ wanted' = <<>> /\ active' = 0
      /\ UNCHANGED <<thumbCall, pool, cache, urls, thumbUp>> /\ thumbTrouble' \in 0..MaxThumbTrouble
  BY PoolTrouble DEF Pools!ResetThumbnails
<1>2. Cardinality(ByStore(thumbCall)) \in Nat /\ Cardinality(ByStore(thumbCall)) <= Cardinality(Requests)
      /\ Cardinality(Requests) \in Nat /\ Limit \in Nat
  BY PoolSets DEF ByStore
<1>3. StoreCount(active', wanted', thumbCall')
  <2>1. active' \in Int /\ active' <= Limit /\ active' <= Cardinality(ByStore(thumbCall))
        /\ active' >= Cardinality(ByStore(thumbCall)) - Cardinality(Requests)
    BY <1>1, <1>2
  <2>2. wanted' \in Seq(Photos) /\ wanted' = <<>> /\ thumbCall' = thumbCall BY <1>1, EmptySeq
  <2> QED BY <2>1, <2>2 DEF StoreCount
<1> QED BY <1>1, <1>3, StoreSide DEF PoolInv

(* A request at the handler. *)
LEMMA Gets ==
    ASSUME PoolInv, Pools!PoolAssumption, NEW r \in Requests, thumbCall[r] # Nothing, Pools!GetThumbnail(r)
    PROVE  PoolInv'
<1> DEFINE Become(at) == [thumbCall EXCEPT ![r].at = at]
<1>1. /\ thumbCall[r].at = "made" /\ UNCHANGED <<thumbShown, wanted, active, urls, cache, thumbUp, thumbTrouble>>
      /\ \/ \E at \in {"ready", "failed"} : thumbCall' = Become(at) /\ UNCHANGED pool
         \/ /\ pool.active >= Limit
            /\ thumbCall' = Become("queued") /\ pool' = [pool EXCEPT !.queue = Append(pool.queue, r)]
         \/ /\ pool.active < Limit /\ thumbUp
            /\ thumbCall' = Become("asked") /\ pool' = [pool EXCEPT !.active = pool.active + 1]
         \/ /\ Pools!Served(Become("error"), pool)
  <2>1. pool.active \in Nat /\ Limit \in Nat BY PoolSets DEF PoolInv, Counted
  <2> QED BY <2>1 DEF Pools!GetThumbnail, Pools!renderer
<1>2. /\ thumbCall \in ThumbCalls /\ Counted(thumbCall, pool) /\ Crowded(pool) /\ thumbUp \in BOOLEAN
      /\ pool \in [active : 0..Limit, queue : Seq(Requests)]
      /\ pool.active \in 0..Limit /\ pool.queue \in Seq(Requests) /\ Limit \in Nat
      /\ Len(pool.queue) \in Nat /\ DOMAIN pool.queue = 1..Len(pool.queue)
  BY PoolSets, LenProperties DEF PoolInv, Counted
<1>3. \A at \in Pools!Stages :
         /\ Become(at) \in ThumbCalls /\ ByStore(Become(at)) = ByStore(thumbCall)
         /\ \A stages : Atwhere(Become(at), stages) =
               IF at \in stages THEN Atwhere(thumbCall, stages) \cup {r} ELSE Atwhere(thumbCall, stages) \ {r}
  <2> TAKE at \in Pools!Stages
  <2> QED BY <1>2, Moves
<1>4. /\ r \notin Atwhere(thumbCall, Pools!InFlight) /\ r \notin Atwhere(thumbCall, {"queued"})
  BY <1>1 DEF Atwhere, Pools!InFlight
<1>5. /\ {"ready", "failed", "error", "asked", "queued"} \subseteq Pools!Stages
      /\ \A at \in {"ready", "failed", "error", "queued"} : at \notin Pools!InFlight
      /\ "asked" \in Pools!InFlight
  BY DEF Pools!Stages, Pools!InFlight, Pools!Outcomes
<1> HIDE DEF Become
<1>6. ASSUME NEW at \in {"ready", "failed", "error"}
      PROVE  Counted(Become(at), pool) /\ Become(at) \in ThumbCalls /\ ByStore(Become(at)) = ByStore(thumbCall)
  <2>1. at \in Pools!Stages /\ at \notin Pools!InFlight /\ at \notin {"queued"} BY <1>5
  <2>2. /\ Atwhere(Become(at), Pools!InFlight) = Atwhere(thumbCall, Pools!InFlight)
        /\ Atwhere(Become(at), {"queued"}) = Atwhere(thumbCall, {"queued"})
    BY <1>3, <1>4, <2>1
  <2> QED BY <1>2, <1>3, <2>1, <2>2 DEF Counted
<1>7. cache' \in [thumbs : SUBSET Photos, failed : SUBSET Photos, files : SUBSET Photos]
      /\ thumbUp' \in BOOLEAN /\ thumbTrouble' \in 0..MaxThumbTrouble
  BY <1>1 DEF PoolInv
<1>8. ASSUME NEW at \in {"ready", "failed"}, thumbCall' = Become(at), UNCHANGED pool  PROVE PoolInv'
  <2>1. Counted(thumbCall', pool') /\ Crowded(pool') /\ thumbCall' \in ThumbCalls /\ ByStore(thumbCall') = ByStore(thumbCall)
    BY <1>2, <1>6, <1>8
  <2> QED BY <1>1, <1>7, <2>1, HandlerSide
<1>9. CASE /\ pool.active >= Limit
           /\ thumbCall' = Become("queued") /\ pool' = [pool EXCEPT !.queue = Append(pool.queue, r)]
  <2> DEFINE q == pool.queue
             l == Len(q)
  <2>1. /\ thumbCall' \in ThumbCalls /\ ByStore(thumbCall') = ByStore(thumbCall)
        /\ Atwhere(thumbCall', Pools!InFlight) = Atwhere(thumbCall, Pools!InFlight)
        /\ Atwhere(thumbCall', {"queued"}) = Atwhere(thumbCall, {"queued"}) \cup {r}
    <3>1. "queued" \in Pools!Stages /\ thumbCall' = Become("queued") BY <1>5, <1>9
    <3>2. /\ thumbCall' \in ThumbCalls /\ ByStore(thumbCall') = ByStore(thumbCall)
          /\ \A stages : Atwhere(thumbCall', stages) =
                IF "queued" \in stages THEN Atwhere(thumbCall, stages) \cup {r} ELSE Atwhere(thumbCall, stages) \ {r}
      BY <1>3, <3>1
    <3> QED BY <1>4, <1>5, <3>2
  <2>2. /\ pool'.queue \in Seq(Requests) /\ DOMAIN pool'.queue = 1..(l + 1)
        /\ pool'.queue[l + 1] = r /\ \A i \in 1..l : pool'.queue[i] = q[i]
    <3>1. pool'.queue = Append(q, r) BY <1>2, <1>9
    <3> QED BY <1>2, <3>1, AppendProperties, LenProperties
  <2>3. pool'.active = pool.active /\ pool.active = Limit BY <1>2, <1>9
  <2>4. \A i \in 1..(l + 1) : i = l + 1 \/ i \in 1..l BY <1>2
  <2>5. \A i \in 1..l : q[i] # r /\ i \in 1..(l + 1) BY <1>2, <1>4 DEF Counted
  <2>6. \A i, j \in DOMAIN pool'.queue : pool'.queue[i] = pool'.queue[j] => i = j
    <3> SUFFICES ASSUME NEW i \in 1..(l + 1), NEW j \in 1..(l + 1), pool'.queue[i] = pool'.queue[j]
                 PROVE  i = j
      BY <2>2
    <3>1. CASE i \in 1..l /\ j \in 1..l
      <4>1. q[i] = q[j] /\ i \in DOMAIN q /\ j \in DOMAIN q BY <1>2, <2>2, <3>1
      <4> QED BY <1>2, <4>1 DEF Counted
    <3>2. CASE i = l + 1 \/ j = l + 1 BY <2>2, <2>4, <2>5, <3>2
    <3> QED BY <2>4, <3>1, <3>2
  <2>7. \A p \in Requests : p \in Atwhere(thumbCall', {"queued"}) <=> \E i \in DOMAIN pool'.queue : pool'.queue[i] = p
    <3> TAKE p \in Requests
    <3>1. CASE p = r
      <4>1. l + 1 \in DOMAIN pool'.queue BY <1>2, <2>2
      <4> QED BY <2>1, <2>2, <3>1, <4>1
    <3>2. CASE p # r
      <4>1. p \in Atwhere(thumbCall', {"queued"}) <=> p \in Atwhere(thumbCall, {"queued"})
        BY <2>1, <3>2
      <4>2. p \in Atwhere(thumbCall, {"queued"}) <=> \E i \in 1..l : q[i] = p BY <1>2 DEF Counted
      <4>3. (\E i \in 1..l : q[i] = p) <=> \E i \in DOMAIN pool'.queue : pool'.queue[i] = p
        BY <2>2, <2>4, <2>5, <3>2
      <4> QED BY <4>1, <4>2, <4>3
    <3> QED BY <3>1, <3>2
  <2>8. pool' \in [active : 0..Limit, queue : Seq(Requests)] BY <1>2, <1>9, <2>2
  <2>9. Counted(thumbCall', pool') /\ Crowded(pool')
    BY <1>2, <2>1, <2>3, <2>6, <2>7, <2>8 DEF Counted, Crowded
  <2> QED BY <1>1, <1>7, <2>1, <2>9, HandlerSide
<1>10. CASE /\ pool.active < Limit /\ thumbUp
            /\ thumbCall' = Become("asked") /\ pool' = [pool EXCEPT !.active = pool.active + 1]
  <2>1. /\ thumbCall' \in ThumbCalls /\ ByStore(thumbCall') = ByStore(thumbCall)
        /\ Atwhere(thumbCall', Pools!InFlight) = Atwhere(thumbCall, Pools!InFlight) \cup {r}
        /\ Atwhere(thumbCall', {"queued"}) = Atwhere(thumbCall, {"queued"})
    <3>1. "asked" \in Pools!Stages /\ thumbCall' = Become("asked") BY <1>5, <1>10
    <3>2. /\ thumbCall' \in ThumbCalls /\ ByStore(thumbCall') = ByStore(thumbCall)
          /\ \A stages : Atwhere(thumbCall', stages) =
                IF "asked" \in stages THEN Atwhere(thumbCall, stages) \cup {r} ELSE Atwhere(thumbCall, stages) \ {r}
      BY <1>3, <3>1
    <3> QED BY <1>4, <1>5, <3>2
  <2>2. Cardinality(Atwhere(thumbCall', Pools!InFlight)) = Cardinality(Atwhere(thumbCall, Pools!InFlight)) + 1
    <3>1. IsFiniteSet(Atwhere(thumbCall, Pools!InFlight)) BY PoolSets DEF Atwhere
    <3> QED BY <1>4, <2>1, <3>1, FS_AddElement
  <2>3. /\ pool' \in [active : 0..Limit, queue : Seq(Requests)] /\ pool'.queue = pool.queue
        /\ pool'.active = pool.active + 1
    BY <1>2, <1>10
  <2>4. pool.queue = <<>> BY <1>2, <1>10 DEF Crowded
  <2>5. Counted(thumbCall', pool') /\ Crowded(pool')
    BY <1>2, <2>1, <2>2, <2>3, <2>4 DEF Counted, Crowded
  <2> QED BY <1>1, <1>7, <2>1, <2>5, HandlerSide
<1>11. CASE Pools!Served(Become("error"), pool)
  <2>1. Counted(Become("error"), pool) /\ Become("error") \in ThumbCalls /\ ByStore(Become("error")) = ByStore(thumbCall)
    BY <1>6
  <2>2. thumbCall' \in ThumbCalls /\ Counted(thumbCall', pool') /\ Crowded(pool') /\ ByStore(thumbCall') = ByStore(Become("error"))
    BY <1>2, <1>11, <2>1, ServedCounts
  <2> QED BY <1>1, <1>7, <2>1, <2>2, HandlerSide
<1> QED BY <1>1, <1>8, <1>9, <1>10, <1>11

(* A request to the phone has ended. *)
LEMMA EndKeeps ==
    ASSUME PoolInv, Pools!PoolAssumption, NEW r \in Requests, thumbCall[r] # Nothing, thumbCall[r].at \in Pools!InFlight,
           NEW at \in Pools!Outcomes, Pools!Ended(r, at), UNCHANGED <<thumbShown, wanted, active, urls, thumbUp, thumbTrouble>>,
           cache' \in [thumbs : SUBSET Photos, failed : SUBSET Photos, files : SUBSET Photos]
    PROVE  PoolInv'
<1> DEFINE asks == [thumbCall EXCEPT ![r].at = at]
           p == [pool EXCEPT !.active = pool.active - 1]
           F == Atwhere(thumbCall, Pools!InFlight)
<1>1. Pools!Served(asks, p) BY DEF Pools!Ended
<1>2. /\ thumbCall \in ThumbCalls /\ Counted(thumbCall, pool) /\ thumbUp \in BOOLEAN /\ Limit \in Nat
      /\ pool \in [active : 0..Limit, queue : Seq(Requests)] /\ pool.active = Cardinality(F)
  BY PoolSets DEF PoolInv, Counted
<1>3. at \in Pools!Stages /\ at \notin Pools!InFlight /\ at # "queued"
  BY DEF Pools!Stages, Pools!InFlight, Pools!Outcomes
<1>4. /\ asks \in ThumbCalls /\ ByStore(asks) = ByStore(thumbCall)
      /\ Atwhere(asks, Pools!InFlight) = F \ {r}
      /\ Atwhere(asks, {"queued"}) = Atwhere(thumbCall, {"queued"}) \ {r}
  <2>1. at \in Pools!Stages /\ thumbCall \in ThumbCalls BY <1>2, <1>3
  <2>2. /\ asks \in ThumbCalls /\ ByStore(asks) = ByStore(thumbCall)
        /\ \A stages : Atwhere(asks, stages) =
              IF at \in stages THEN Atwhere(thumbCall, stages) \cup {r} ELSE Atwhere(thumbCall, stages) \ {r}
    <3> HIDE DEF F
    <3> QED BY <2>1, Moves
  <2> HIDE DEF asks
  <2> QED BY <1>3, <2>2
<1>5. r \in F /\ r \notin Atwhere(thumbCall, {"queued"}) BY DEF Atwhere, Pools!InFlight
<1> HIDE DEF asks
<1>6. Cardinality(Atwhere(asks, Pools!InFlight)) = pool.active - 1 /\ pool.active >= 1
  <2>1. IsFiniteSet(F) /\ Cardinality(F) \in Nat BY PoolSets DEF Atwhere
  <2>2. Cardinality(F \ {r}) = Cardinality(F) - 1 /\ Cardinality(F) # 0
    BY <1>5, <2>1, FS_RemoveElement, FS_EmptySet
  <2> HIDE DEF F
  <2> QED BY <1>2, <1>4, <2>1, <2>2
<1>7. p \in [active : 0..Limit, queue : Seq(Requests)] /\ p.active = pool.active - 1 /\ p.queue = pool.queue
  <2>1. pool.active - 1 \in 0..Limit BY <1>2, <1>6
  <2> QED BY <1>2, <2>1
<1> HIDE DEF p
<1>8. Counted(asks, p)
  <2>1. Atwhere(asks, {"queued"}) = Atwhere(thumbCall, {"queued"}) BY <1>4, <1>5
  <2> QED BY <1>2, <1>6, <1>7, <2>1 DEF Counted
<1>9. thumbCall' \in ThumbCalls /\ Counted(thumbCall', pool') /\ Crowded(pool') /\ ByStore(thumbCall') = ByStore(asks)
  BY <1>1, <1>2, <1>4, <1>8, ServedCounts
<1> QED BY <1>4, <1>9, HandlerSide DEF PoolInv

(* The phone leaves, and what it was asked is lost. *)
LEMMA PhoneLeaves ==
    ASSUME PoolInv, Pools!PoolAssumption, Pools!Disconnect
    PROVE  PoolInv'
<1> DEFINE A == Pools!At({"asked"})
<1>1. /\ thumbCall' = [r \in Requests |-> IF r \in A THEN [thumbCall[r] EXCEPT !.at = "lost"] ELSE thumbCall[r]]
      /\ cache' = [cache EXCEPT !.thumbs = {}, !.failed = {}] /\ thumbUp' = FALSE
      /\ UNCHANGED <<thumbShown, wanted, active, urls, pool>> /\ thumbTrouble' \in 0..MaxThumbTrouble
  BY PoolTrouble DEF Pools!Disconnect, Pools!renderer
<1>2. \A r \in Requests : r \in A => thumbCall[r] \in Pools!Made /\ thumbCall[r] # Nothing /\ thumbCall[r].at = "asked"
  BY DEF PoolInv, ThumbCalls, Pools!At, Pools!Calls
<1>3. \A r \in Requests : r \in A => /\ [thumbCall[r] EXCEPT !.at = "lost"] \in Pools!Made
                                     /\ [thumbCall[r] EXCEPT !.at = "lost"].at = "lost"
                                     /\ [thumbCall[r] EXCEPT !.at = "lost"].by = thumbCall[r].by
  BY <1>2 DEF Pools!Made, Pools!Stages, Pools!InFlight
<1>4. Nothing \notin Pools!Made BY DEF Pools!PoolAssumption
<1> HIDE DEF A
<1>5. /\ thumbCall' \in ThumbCalls
      /\ \A r \in Requests : r \notin A => thumbCall'[r] = thumbCall[r]
      /\ \A r \in Requests : r \in A => thumbCall'[r] # Nothing /\ thumbCall'[r].at = "lost" /\ thumbCall'[r].by = thumbCall[r].by
  BY <1>1, <1>3, <1>4 DEF PoolInv, ThumbCalls
<1>6. ByStore(thumbCall') = ByStore(thumbCall) BY <1>2, <1>5 DEF ByStore
<1>7. /\ Atwhere(thumbCall', Pools!InFlight) = Atwhere(thumbCall, Pools!InFlight)
      /\ Atwhere(thumbCall', {"queued"}) = Atwhere(thumbCall, {"queued"})
  BY <1>2, <1>5 DEF Atwhere, Pools!InFlight
<1>8. Counted(thumbCall', pool') /\ Crowded(pool') BY <1>1, <1>7 DEF PoolInv, Counted, Crowded
<1>9. cache' \in [thumbs : SUBSET Photos, failed : SUBSET Photos, files : SUBSET Photos]
  BY <1>1 DEF PoolInv
<1> QED BY <1>1, <1>5, <1>6, <1>8, <1>9, HandlerSide

LEMMA PoolKeeps ==
    ASSUME PoolInv, Pools!PoolAssumption, [Pools!Next]_Pools!vars
    PROVE  PoolInv'
<1> DEFINE Caches == [thumbs : SUBSET Photos, failed : SUBSET Photos, files : SUBSET Photos]
<1>0. cache \in Caches /\ \A r \in Requests : thumbCall[r] # Nothing => thumbCall[r].path \in Photos
  BY DEF PoolInv, ThumbCalls, Pools!Made
<1>1. ASSUME NEW p \in Photos, Pools!RequestThumbnail(p)  PROVE PoolInv'
  BY <1>1, Requested
<1>2. ASSUME NEW p \in Photos, Pools!LoadImage(p)  PROVE PoolInv'
  BY <1>2, ImageAsks
<1>3. ASSUME NEW p \in Photos, Pools!Evict(p)  PROVE PoolInv'
  <2>1. /\ cache' = [thumbs |-> cache.thumbs \ {p}, failed |-> cache.failed \ {p}, files |-> cache.files \ {p}]
        /\ UNCHANGED <<thumbShown, wanted, active, urls, thumbCall, pool, thumbUp>> /\ thumbTrouble' \in 0..MaxThumbTrouble
    BY <1>3, PoolTrouble DEF Pools!Evict, Pools!renderer
  <2>2. cache' \in Caches BY <1>0, <2>1
  <2> QED BY <2>1, <2>2, HandlerSide DEF PoolInv
<1>4. ASSUME NEW r \in Requests, thumbCall[r] # Nothing, Pools!GetThumbnail(r)  PROVE PoolInv'
  BY <1>4, Gets
<1>5. ASSUME NEW r \in Requests, thumbCall[r] # Nothing, Pools!ThumbnailReply(r)  PROVE PoolInv'
  BY <1>5, StoreReplied
<1>6. ASSUME NEW r \in Requests, thumbCall[r] # Nothing, Pools!ImageReply(r)  PROVE PoolInv'
  BY <1>6, ImageTold
<1>7. ASSUME NEW r \in Requests, thumbCall[r] # Nothing, Pools!ThumbnailTimeout(r)  PROVE PoolInv'
  <2>1. /\ thumbCall[r].at \in Pools!InFlight /\ Pools!Ended(r, "error")
        /\ UNCHANGED <<thumbShown, wanted, active, urls, cache, thumbUp, thumbTrouble>>
    BY <1>7 DEF Pools!ThumbnailTimeout, Pools!renderer
  <2>2. "error" \in Pools!Outcomes BY DEF Pools!Outcomes
  <2> QED BY <1>0, <1>7, <2>1, <2>2, EndKeeps
<1>8. ASSUME NEW r \in Requests, thumbCall[r] # Nothing, NEW at \in Pools!Outcomes, Pools!ThumbnailAnswer(r, at)
      PROVE  PoolInv'
  <2>1. /\ thumbCall[r].at \in Pools!InFlight /\ Pools!Ended(r, at)
        /\ UNCHANGED <<thumbShown, wanted, active, urls, thumbUp, thumbTrouble>>
    BY <1>8 DEF Pools!ThumbnailAnswer, Pools!renderer, Pools!InFlight
  <2>2. cache' \in {Pools!StoreThumbnail(thumbCall[r].path), Pools!MarkThumbnailFailed(thumbCall[r].path), cache}
    BY <1>8 DEF Pools!ThumbnailAnswer
  <2>3. \A p \in Photos : Pools!StoreThumbnail(p) \in Caches /\ Pools!MarkThumbnailFailed(p) \in Caches
    BY <1>0 DEF Pools!StoreThumbnail, Pools!MarkThumbnailFailed
  <2>4. cache' \in Caches BY <1>0, <1>8, <2>2, <2>3
  <2> QED BY <1>8, <2>1, <2>4, EndKeeps
<1>9. CASE Pools!ResetThumbnails BY <1>9, StoreForgets
<1>10. CASE Pools!Disconnect BY <1>10, PhoneLeaves
<1>11. CASE Pools!Connect
  <2>1. thumbUp' = TRUE /\ UNCHANGED <<thumbShown, wanted, active, urls, thumbCall, pool, cache, thumbTrouble>>
    BY <1>11 DEF Pools!Connect, Pools!renderer
  <2> QED BY <2>1, HandlerSide DEF PoolInv
<1>12. CASE Pools!Resync
  <2>1. /\ cache' = [thumbs |-> {}, failed |-> {}, files |-> {}]
        /\ UNCHANGED <<thumbShown, wanted, active, urls, thumbCall, pool, thumbUp>> /\ thumbTrouble' \in 0..MaxThumbTrouble
    BY <1>12, PoolTrouble DEF Pools!Resync, Pools!renderer
  <2>2. cache' \in Caches BY <2>1
  <2> QED BY <2>1, <2>2, HandlerSide DEF PoolInv
<1>13. CASE UNCHANGED Pools!vars
  BY <1>13 DEF PoolInv, Counted, Crowded, StoreCount, Atwhere, ByStore, Pools!vars
<1>14. CASE \E r \in Pools!Calls :
              \/ Pools!GetThumbnail(r) \/ Pools!ThumbnailReply(r) \/ Pools!ImageReply(r) \/ Pools!ThumbnailTimeout(r)
              \/ \E at \in Pools!Outcomes : Pools!ThumbnailAnswer(r, at)
  BY <1>4, <1>5, <1>6, <1>7, <1>8, <1>14 DEF Pools!Calls
<1> QED BY <1>1, <1>2, <1>3, <1>9, <1>10, <1>11, <1>12, <1>13, <1>14 DEF Pools!Next

(* Neither pool of thumbnails leaks a slot or leaves its queue behind *)
(* (gallery.svelte.ts drainThumbQueue, gallery-handler.ts *)
(* drainThumbnailQueue), through time-outs, lost answers, disconnections, *)
(* wipes and resets: for any photos, any limit and any number of asks. *)
THEOREM PoolsStayServed ==
    Pools!PoolAssumption => (Pools!Spec => [](Pools!TypeOK /\ Pools!PoolsAreServed))
<1> SUFFICES ASSUME Pools!PoolAssumption
             PROVE  Pools!Spec => [](Pools!TypeOK /\ Pools!PoolsAreServed)
  OBVIOUS
<1>1. Pools!Init => PoolInv BY PoolInit
<1>2. PoolInv /\ [Pools!Next]_Pools!vars => PoolInv' BY PoolKeeps
<1>3. PoolInv => Pools!TypeOK /\ Pools!PoolsAreServed
  <2> SUFFICES ASSUME PoolInv  PROVE Pools!TypeOK /\ Pools!PoolsAreServed
    OBVIOUS
  <2>1. \A stages : Pools!At(stages) = Atwhere(thumbCall, stages)
    BY DEF Pools!At, Pools!Calls, Atwhere
  <2>2. Pools!ToSet(pool.queue) = Atwhere(thumbCall, {"queued"})
    <3>1. \A i \in DOMAIN pool.queue : pool.queue[i] \in Requests
      BY ElementOfSeq, LenProperties DEF PoolInv, Counted
    <3> QED BY <3>1 DEF PoolInv, Counted, Atwhere, Pools!ToSet
  <2>3. wanted # <<>> => \E r \in Pools!Calls : thumbCall[r].by = "store"
    BY DEF PoolInv, StoreCount, ByStore, Pools!Calls
  <2>4. pool.active = Pools!Cardinality(Pools!At(Pools!InFlight))
    BY <2>1, PoolSets DEF PoolInv, Counted
  <2>5. pool.queue # <<>> => pool.active = Limit BY DEF PoolInv, Crowded
  <2>6. Pools!PoolsAreServed BY <2>1, <2>2, <2>3, <2>4, <2>5 DEF Pools!PoolsAreServed
  <2>7. active \in (-Pools!Cardinality(Requests))..Limit
    <3>1. Pools!Cardinality(Requests) = Cardinality(Requests) /\ Cardinality(Requests) \in Nat
          /\ Cardinality(ByStore(thumbCall)) \in Nat /\ Limit \in Nat
      BY PoolSets DEF ByStore
    <3> QED BY <3>1 DEF PoolInv, StoreCount
  <2>8. Pools!TypeOK BY <2>7 DEF PoolInv, Counted, StoreCount, ThumbCalls, Pools!TypeOK
  <2> QED BY <2>6, <2>8
<1> QED BY <1>1, <1>2, <1>3, PTL DEF Pools!Spec

--------------------
(* Relays and Shell, whose proofs are in AttachmentDownload_proofs: Heard is *)
(* that module with the variables of Status and Bridge, and with no download, *)
(* spinner or preview, which the two know nothing of. *)

Heard == INSTANCE AttachmentDownload_proofs WITH
        Callers <- {}, Attachments <- {}, Videos <- {}, MaxBreaks <- 0, None <- Nothing, Rows <-
        {}, MaxRetries <- 0, MaxClicks <- 0, MaxTrouble <- 0, MaxCalls <- 0, Links <- {}, Refused
        <- {}, Calls <- {}, MaxConcurrent <- 0, MaxResets <- 0, MaxEdits <- 0, connected <- FALSE,
        breaks <- 0, row <- {}, disk <- {}, calls <- {}, downloads <- {}, sockets <- {}, videos <-
        {}, stored <- {}, sel <- {}, flagged <- {}, range <- {}, states <- {}, timers <- {},
        notices <- {}, up <- {}, clicks <- {}, trouble <- {}, store <- {}, made <- {}, url <- {},
        phase <- {}, active <- {}, queue <- {}, cached <- {}, draft <- {}, resets <- {}, edits <-
        {}

(* Heard defines Relays as MCDesktop does. *)
LEMMA StatusSame ==
    /\ Heard!Status!Init = Status!Init /\ Heard!Status!Next = Status!Next /\ Heard!Status!vars = Status!vars
    /\ Heard!Status!RelayConstants = Status!RelayConstants /\ Heard!Status!TypeOK = Status!TypeOK /\ Heard!Status!RelaysAreTrue = Status!RelaysAreTrue
<1> USE DEF Status!vars, Heard!Status!vars, Status!Unknown, Heard!Status!Unknown, Status!Good,
        Heard!Status!Good, Status!States, Heard!Status!States, Status!RelayConstants,
        Heard!Status!RelayConstants, Status!TypeOK, Heard!Status!TypeOK, Status!Init,
        Heard!Status!Init, Status!Sends, Heard!Status!Sends, Status!Tells, Heard!Status!Tells,
        Status!Told, Heard!Status!Told, Status!BatteryChanges, Heard!Status!BatteryChanges,
        Status!BatteryAnswered, Heard!Status!BatteryAnswered, Status!Posts, Heard!Status!Posts,
        Status!Cancels, Heard!Status!Cancels, Status!Emits, Heard!Status!Emits, Status!Moves,
        Heard!Status!Moves, Status!Connects, Heard!Status!Connects, Status!Disconnects,
        Heard!Status!Disconnects, Status!Syncs, Heard!Status!Syncs, Status!Battery,
        Heard!Status!Battery, Status!Notification, Heard!Status!Notification, Status!Route,
        Heard!Status!Route, Status!Display, Heard!Status!Display, Status!Mount,
        Heard!Status!Mount, Status!Receive, Heard!Status!Receive, Status!Degrade,
        Heard!Status!Degrade, Status!Next, Heard!Status!Next, Status!Settled,
        Heard!Status!Settled, Status!TellsArrive, Heard!Status!TellsArrive, Status!StatusIsBacked,
        Heard!Status!StatusIsBacked, Status!RelaysAreTrue, Heard!Status!RelaysAreTrue
<1>1. Heard!Status!Init = Status!Init OBVIOUS
<1>2. Heard!Status!Next = Status!Next OBVIOUS
<1>3. Heard!Status!vars = Status!vars OBVIOUS
<1>4. Heard!Status!RelayConstants = Status!RelayConstants OBVIOUS
<1>5. Heard!Status!TypeOK = Status!TypeOK OBVIOUS
<1>6. Heard!Status!RelaysAreTrue = Status!RelaysAreTrue OBVIOUS
<1> QED BY <1>1, <1>2, <1>3, <1>4, <1>5, <1>6

(* Heard defines Shell as MCDesktop does. *)
LEMMA BridgeSame ==
    /\ Heard!Bridge!Init = Bridge!Init /\ Heard!Bridge!Next = Bridge!Next /\ Heard!Bridge!vars = Bridge!vars
    /\ Heard!Bridge!TypeOK = Bridge!TypeOK /\ Heard!Bridge!WindowCatchesUp = Bridge!WindowCatchesUp
<1> USE DEF Bridge!vars, Heard!Bridge!vars, Bridge!States, Heard!Bridge!States, Bridge!Range,
        Heard!Bridge!Range, Bridge!TypeOK, Heard!Bridge!TypeOK, Bridge!NewWindow,
        Heard!Bridge!NewWindow, Bridge!Init, Heard!Bridge!Init, Bridge!Note, Heard!Bridge!Note,
        Bridge!State, Heard!Bridge!State, Bridge!Sends, Heard!Bridge!Sends, Bridge!Quiet,
        Heard!Bridge!Quiet, Bridge!Event, Heard!Bridge!Event, Bridge!EventOnOpen,
        Heard!Bridge!EventOnOpen, Bridge!Back, Heard!Bridge!Back, Bridge!Found,
        Heard!Bridge!Found, Bridge!PhoneDiscovered, Heard!Bridge!PhoneDiscovered,
        Bridge!PhoneLost, Heard!Bridge!PhoneLost, Bridge!NewCode, Heard!Bridge!NewCode,
        Bridge!CodeNote, Heard!Bridge!CodeNote, Bridge!PhoneConnects, Heard!Bridge!PhoneConnects,
        Bridge!Succeeds, Heard!Bridge!Succeeds, Bridge!Fails, Heard!Bridge!Fails,
        Bridge!PhoneRequestsPair, Heard!Bridge!PhoneRequestsPair, Bridge!PhoneConfirms,
        Heard!Bridge!PhoneConfirms, Bridge!PhoneRejects, Heard!Bridge!PhoneRejects,
        Bridge!CodeTimeout, Heard!Bridge!CodeTimeout, Bridge!Unpair, Heard!Bridge!Unpair,
        Bridge!PhoneUnpairs, Heard!Bridge!PhoneUnpairs, Bridge!Disconnected,
        Heard!Bridge!Disconnected, Bridge!RequestTimeout, Heard!Bridge!RequestTimeout,
        Bridge!DaemonStarted, Heard!Bridge!DaemonStarted, Bridge!StartFails,
        Heard!Bridge!StartFails, Bridge!Answer, Heard!Bridge!Answer, Bridge!Serve,
        Heard!Bridge!Serve, Bridge!Known, Heard!Bridge!Known, Bridge!InSession,
        Heard!Bridge!InSession, Bridge!Shows, Heard!Bridge!Shows, Bridge!Keeps,
        Heard!Bridge!Keeps, Bridge!Asks, Heard!Bridge!Asks, Bridge!Changed, Heard!Bridge!Changed,
        Bridge!Handle, Heard!Bridge!Handle, Bridge!Receive, Heard!Bridge!Receive, Bridge!Mount,
        Heard!Bridge!Mount, Bridge!Poll, Heard!Bridge!Poll, Bridge!Conversations,
        Heard!Bridge!Conversations, Bridge!PairingPage, Heard!Bridge!PairingPage, Bridge!Click,
        Heard!Bridge!Click, Bridge!RequestPairing, Heard!Bridge!RequestPairing,
        Bridge!AcceptIncoming, Heard!Bridge!AcceptIncoming, Bridge!RejectIncoming,
        Heard!Bridge!RejectIncoming, Bridge!CancelOutgoing, Heard!Bridge!CancelOutgoing,
        Bridge!UnpairInSettings, Heard!Bridge!UnpairInSettings, Bridge!Next, Heard!Bridge!Next,
        Bridge!Coming, Heard!Bridge!Coming, Bridge!WindowCatchesUp, Heard!Bridge!WindowCatchesUp
<1>1. Heard!Bridge!Init = Bridge!Init OBVIOUS
<1>2. Heard!Bridge!Next = Bridge!Next OBVIOUS
<1>3. Heard!Bridge!vars = Bridge!vars OBVIOUS
<1>4. Heard!Bridge!TypeOK = Bridge!TypeOK OBVIOUS
<1>5. Heard!Bridge!WindowCatchesUp = Bridge!WindowCatchesUp OBVIOUS
<1> QED BY <1>1, <1>2, <1>3, <1>4, <1>5

(* What AttachmentDownload_proofs proves of Relays, of the one here. *)
LEMMA StatusPromise ==
    Status!RelayConstants => (Status!Spec => [](Status!TypeOK /\ Status!RelaysAreTrue))
<1>1. Heard!AttachmentAssumption
  BY FS_EmptySet DEF Heard!AttachmentAssumption, Heard!IsFiniteSet, IsFiniteSet
<1>2. Heard!Status!RelayConstants =>
          (Heard!Status!Spec => [](Heard!Status!TypeOK /\ Heard!Status!RelaysAreTrue))
  BY <1>1, Heard!RelaysStayTrue
<1>3. /\ Status!Init => Heard!Status!Init
      /\ [Status!Next]_(Status!vars) => [Heard!Status!Next]_(Heard!Status!vars)
      /\ Heard!Status!TypeOK => Status!TypeOK
      /\ Heard!Status!RelaysAreTrue => Status!RelaysAreTrue
      /\ Status!RelayConstants => Heard!Status!RelayConstants
  BY StatusSame DEF Heard!Status!vars, Status!vars
<1> QED BY <1>2, <1>3, PTL DEF Status!Spec, Heard!Status!Spec

(* What AttachmentDownload_proofs proves of Shell, of the one here. *)
LEMMA BridgePromise ==
    MaxEvents \in Nat /\ MaxGuiClicks \in Nat =>
        (Bridge!Spec => [](Bridge!TypeOK /\ Bridge!WindowCatchesUp))
<1>1. Heard!AttachmentAssumption
  BY FS_EmptySet DEF Heard!AttachmentAssumption, Heard!IsFiniteSet, IsFiniteSet
<1>2. MaxEvents \in Nat /\ MaxGuiClicks \in Nat =>
          (Heard!Bridge!Spec => []Heard!Bridge!TypeOK)
  BY <1>1, Heard!CodesAreMade
<1>3. Heard!Bridge!Spec => []Heard!Bridge!WindowCatchesUp BY <1>1, Heard!WindowStaysTrue
<1>4. /\ Bridge!Init => Heard!Bridge!Init
      /\ [Bridge!Next]_(Bridge!vars) => [Heard!Bridge!Next]_(Heard!Bridge!vars)
      /\ Heard!Bridge!TypeOK => Bridge!TypeOK
      /\ Heard!Bridge!WindowCatchesUp => Bridge!WindowCatchesUp
  BY BridgeSame DEF Heard!Bridge!vars, Bridge!vars
<1> QED BY <1>2, <1>3, <1>4, PTL DEF Bridge!Spec, Heard!Bridge!Spec

--------------------
(* The desktop: the part that runs takes its own steps, and none other does. *)

LEMMA OwnSteps ==
    [Next]_vars =>
        /\ part = "Bridge" => (part = "Bridge")' /\ [Bridge!Next]_(Bridge!vars)
        /\ part = "Sockets" => (part = "Sockets")' /\ [Sockets!Next]_(Sockets!vars)
        /\ part = "Updates" => (part = "Updates")' /\ [Updates!Next]_(Updates!vars)
        /\ part = "Lock" => (part = "Lock")' /\ [Lock!Next]_(Lock!vars)
        /\ part = "Status" => (part = "Status")' /\ [Status!Next]_(Status!vars)
        /\ part = "Cli" => (part = "Cli")' /\ [Cli!Next]_(Cli!vars)
        /\ part = "Mounts" => (part = "Mounts")' /\ [Mounts!Next]_(Mounts!vars)
        /\ part = "Gallery" => (part = "Gallery")' /\ [Gallery!Next]_(Gallery!vars)
        /\ part = "Pools" => (part = "Pools")' /\ [Pools!Next]_(Pools!vars)
        /\ part = "Downloads" => (part = "Downloads")' /\ [Downloads!Next]_(Downloads!vars)
        /\ part = "Finding" => (part = "Finding")' /\ [Finding!Next]_(Finding!vars)
BY DEF Next, vars, guiVars, socketVars, updateVars, versionVars, statusVars, commandVars,
  mountVars, scanVars, thumbVars, fileVars, findVars, Bridge!vars, Sockets!vars, Updates!vars,
  Lock!vars, Status!vars, Cli!vars, Mounts!vars, Gallery!vars, Pools!vars, Downloads!vars,
  Finding!vars

(* A behaviour is one of the part that it starts with. *)
LEMMA PartRuns ==
    Spec =>
        \/ [](part = "Bridge") /\ Bridge!Spec
        \/ [](part = "Sockets") /\ Sockets!Spec
        \/ [](part = "Updates") /\ Updates!Spec
        \/ [](part = "Lock") /\ Lock!Spec
        \/ [](part = "Status") /\ Status!Spec
        \/ [](part = "Cli") /\ Cli!Spec
        \/ [](part = "Mounts") /\ Mounts!Spec
        \/ [](part = "Gallery") /\ Gallery!Spec
        \/ [](part = "Pools") /\ Pools!Spec
        \/ [](part = "Downloads") /\ Downloads!Spec
        \/ [](part = "Finding") /\ Finding!Spec
<1>1. Init => part = "Bridge" \/ part = "Sockets" \/ part = "Updates" \/ part = "Lock"
              \/ part = "Status" \/ part = "Cli" \/ part = "Mounts" \/ part = "Gallery"
              \/ part = "Pools" \/ part = "Downloads" \/ part = "Finding"
  BY DEF Init
<1>2. Init => Bridge!Init /\ Sockets!Init /\ Updates!Init /\ Lock!Init /\ Status!Init /\ Cli!Init
              /\ Mounts!Init /\ Gallery!Init /\ Pools!Init /\ Downloads!Init /\ Finding!Init
  BY DEF Init
<1> QED
  BY OwnSteps, <1>1, <1>2, PTL
  DEF Spec, Bridge!Spec, Sockets!Spec, Updates!Spec, Lock!Spec, Status!Spec, Cli!Spec,
  Mounts!Spec, Gallery!Spec, Pools!Spec, Downloads!Spec, Finding!Spec

(* All that holds in every state: the invariants of the run, and what holds of *)
(* the servers. *)
ServersHold ==
    /\ part = "Sockets" => Sockets!DeadAreDropped
    /\ part = "Cli" => Cli!OneDaemonServes /\ Cli!CommandsAreHonest
    /\ part = "Mounts" => Mounts!ServedWithPhone
    /\ part = "Finding" => Finding!NobodyIsLeftAlone
Promises == TypeOK /\ CopiesCatchUp /\ WaitsEnd /\ ServersHold

(* Whichever part runs keeps its promises. *)
LEMMA PartsKeep == Spec => []Promises
<1>1. Bridge!Spec => [](Bridge!TypeOK /\ Bridge!WindowCatchesUp) BY PartConstants, BridgePromise
<1>2. Sockets!Spec => [](Sockets!TypeOK /\ Sockets!DeadAreDropped)
  <2>1. Sockets!Spec => []Sockets!TypeOK BY PartConstants, LinkTypesHold
  <2>2. Sockets!Spec => []Sockets!DeadAreDropped BY PartConstants, DeadLeave
  <2> QED BY <2>1, <2>2, PTL
<1>3. Updates!Spec => [](Updates!TypeOK /\ Updates!UpdatesAreSound)
  BY PartConstants, UpdatesStaySound
<1>4. Lock!Spec => [](Lock!TypeOK /\ Lock!LockIsTrue)
  <2>1. Lock!Spec => []Lock!TypeOK BY PartConstants, LockTypesHold
  <2>2. Lock!Spec => []Lock!LockIsTrue BY PartConstants, LockHolds
  <2> QED BY <2>1, <2>2, PTL
<1>5. Status!Spec => [](Status!TypeOK /\ Status!RelaysAreTrue) BY PartConstants, StatusPromise
<1>6. Cli!Spec => [](Cli!TypeOK /\ Cli!OneDaemonServes /\ Cli!CommandsAreHonest)
  BY PartConstants, DaemonsStayApart
<1>7. Mounts!Spec => [](Mounts!TypeOK /\ Mounts!ServedWithPhone)
  BY PartConstants, ServersFollowPhone
<1>8. Gallery!Spec => [](Gallery!TypeOK /\ Gallery!ScanningEnds) BY PartConstants, ScansStayLive
<1>9. Pools!Spec => [](Pools!TypeOK /\ Pools!PoolsAreServed) BY PartConstants, PoolsStayServed
<1>10. Downloads!Spec => [](Downloads!TypeOK /\ Downloads!SpinnersAreLive)
  BY PartConstants, SpinnersStayLive
<1>11. Finding!Spec => [](Finding!TypeOK /\ Finding!ListIsTrue /\ Finding!NobodyIsLeftAlone)
  <2>1. Finding!Spec => []Finding!TypeOK BY PartConstants, FindTypesHold
  <2>2. Finding!Spec => []Finding!ListIsTrue BY PartConstants, ListStaysTrue
  <2>3. Finding!Spec => []Finding!NobodyIsLeftAlone BY PartConstants, NobodyStaysAlone
  <2> QED BY <2>1, <2>2, <2>3, PTL
<1>12. /\ part = "Bridge" /\ Bridge!TypeOK /\ Bridge!WindowCatchesUp => Promises
       /\ part = "Sockets" /\ Sockets!TypeOK /\ Sockets!DeadAreDropped => Promises
       /\ part = "Updates" /\ Updates!TypeOK /\ Updates!UpdatesAreSound => Promises
       /\ part = "Lock" /\ Lock!TypeOK /\ Lock!LockIsTrue => Promises
       /\ part = "Status" /\ Status!TypeOK /\ Status!RelaysAreTrue => Promises
       /\ part = "Cli" /\ Cli!TypeOK /\ Cli!OneDaemonServes /\ Cli!CommandsAreHonest => Promises
       /\ part = "Mounts" /\ Mounts!TypeOK /\ Mounts!ServedWithPhone => Promises
       /\ part = "Gallery" /\ Gallery!TypeOK /\ Gallery!ScanningEnds => Promises
       /\ part = "Pools" /\ Pools!TypeOK /\ Pools!PoolsAreServed => Promises
       /\ part = "Downloads" /\ Downloads!TypeOK /\ Downloads!SpinnersAreLive => Promises
       /\ part = "Finding" /\ Finding!TypeOK /\ Finding!ListIsTrue /\ Finding!NobodyIsLeftAlone => Promises
  BY DEF Promises, TypeOK, CopiesCatchUp, WaitsEnd, ServersHold
<1> QED BY PartRuns, <1>1, <1>2, <1>3, <1>4, <1>5, <1>6, <1>7, <1>8, <1>9, <1>10, <1>11, <1>12,
  PTL

(* Every part keeps its types, whatever the constants. *)
THEOREM DesktopTypes == Spec => []TypeOK
<1>1. Promises => TypeOK BY DEF Promises
<1> QED BY PartsKeep, <1>1, PTL

(* What the window shows of the daemon, the phone and the releases is true, or *)
(* the correction is on its way (CopiesCatchUp). *)
THEOREM CopiesStayTrue == Spec => []CopiesCatchUp
<1>1. Promises => CopiesCatchUp BY DEF Promises
<1> QED BY PartsKeep, <1>1, PTL

(* A spinner of the gallery has something under way that ends it. *)
THEOREM WaitsHaveAnEnd == Spec => []WaitsEnd
<1>1. Promises => WaitsEnd BY DEF Promises
<1> QED BY PartsKeep, <1>1, PTL

(* Connections, daemons and servers that are over are gone, the others stay, *)
(* a sleeper is never pinged again, and who is looked for is called. *)
THEOREM ServersStaySound == Spec => ServersAreSound
<1>1. Promises => ServersHold BY DEF Promises
<1>2. /\ part = "Sockets" /\ [Next]_vars => (part = "Sockets")' /\ [Sockets!Next]_(Sockets!vars)
      /\ ~(part = "Sockets") /\ [Next]_vars =>
            /\ ~(part = "Sockets")'
            /\ [\A s \in Sockets!Stored : drift > Sockets!SleepThreshold /\ s \notin pinged =>
                    s \notin pinged']_(Sockets!vars)
  BY OwnSteps DEF Next, vars, socketVars, Sockets!vars
<1>3. Init => Sockets!Init BY DEF Init
<1>4. Spec => Sockets!SleepersAreNotPinged
  BY <1>2, <1>3, SleepersAreLeft, PTL DEF Spec, Sockets!Spec, Sockets!SleepersAreNotPinged
<1> QED BY PartsKeep, <1>1, <1>4, PTL DEF ServersAreSound, ServersHold
====================
