---------- MODULE Services_proofs ----------
(* MCServices keeps its promises for every value of the constants: its parts *)
(* one after another, then the three statements about all of them. *)
(*                                                                            *)
(* A behaviour is one of a single part (PartRuns): "part" never changes, the *)
(* others stay as they are, and each starts in one of its own initial states. *)
(* So each statement follows from those of the parts: Backup, EventAcks, *)
(* PendingOperations and ContactMigration, which stand here, PhoneFiles with *)
(* and without attachments (ConnectionLifecycle_proofs, instantiated as Shelf *)
(* and Disk), Contacts and MessageStore (MessageSync_proofs, as Kept). That *)
(* the definitions of those instances are MCServices' is shown one by one. *)
EXTENDS MCServices, FiniteSets, FiniteSetTheorems, SequenceTheorems, FunctionTheorems, TLAPS

--------------------
(* Sets of natural numbers *)

(* A finite set of numbers has a greatest one: the one with the fewest above. *)
LEMMA HasMax ==
    ASSUME NEW S \in SUBSET Nat, IsFiniteSet(S), S # {}
    PROVE  \E x \in S : \A y \in S : y <= x
<1> DEFINE Above(x) == {y \in S : x < y}
           F == {Above(x) : x \in S}
           R == StrictSubsetOrdering(Nat)
<1>1. IsWellFoundedOn(R, FiniteSubsetsOf(Nat)) BY FS_StrictSubsetOrderingWellFounded
<1>2. \A x \in S : Above(x) \in FiniteSubsetsOf(Nat)
  <2> TAKE x \in S
  <2>1. IsFiniteSet(Above(x)) BY FS_Subset, Above(x) \in SUBSET S
  <2> QED BY <2>1 DEF FiniteSubsetsOf
<1>3. F \subseteq FiniteSubsetsOf(Nat) /\ F # {} BY <1>2
<1>4. \E f \in F : \A g \in F : ~ (<<g, f>> \in R)
  <2> HIDE DEF F, R
  <2> QED BY <1>1, <1>3, WFMin
<1>5. PICK x \in S : \A g \in F : ~ (<<g, Above(x)>> \in R) BY <1>4
<1>6. ASSUME NEW y \in S, x < y PROVE FALSE
  <2>1. \A z \in S : z \in Nat OBVIOUS
  <2>2. \A z \in S : y < z => x < z BY <1>6, <2>1
  <2>3. y \in Above(x) /\ y \notin Above(y) BY <1>6, <2>1
  <2>4. Above(y) \subseteq Above(x) /\ Above(y) # Above(x) BY <2>2, <2>3
  <2>5. <<Above(y), Above(x)>> \in R BY <2>4 DEF StrictSubsetOrdering
  <2> QED BY <1>5, <2>5
<1> QED BY <1>6

(* So is a set of numbers that is not empty least somewhere. *)
LEMMA LeastNat ==
    ASSUME NEW T, T \subseteq Nat, T # {}
    PROVE  \E x \in T : \A y \in T : x <= y
<1> DEFINE Upto(x) == 0..x
           F == {Upto(x) : x \in T}
           R == StrictSubsetOrdering(Nat)
<1>1. IsWellFoundedOn(R, FiniteSubsetsOf(Nat)) BY FS_StrictSubsetOrderingWellFounded
<1>2. \A x \in T : Upto(x) \in FiniteSubsetsOf(Nat)
  <2> TAKE x \in T
  <2>1. IsFiniteSet(0..x) BY FS_Interval
  <2> QED BY <2>1 DEF FiniteSubsetsOf
<1>3. F \subseteq FiniteSubsetsOf(Nat) /\ F # {} BY <1>2
<1>4. \E f \in F : \A g \in F : ~ (<<g, f>> \in R)
  <2> HIDE DEF F, R
  <2> QED BY <1>1, <1>3, WFMin
<1>5. PICK x \in T : \A g \in F : ~ (<<g, Upto(x)>> \in R) BY <1>4
<1>6. ASSUME NEW y \in T, y < x PROVE FALSE
  <2>1. x \in Nat /\ y \in Nat OBVIOUS
  <2>2. x \in Upto(x) /\ x \notin Upto(y) BY <2>1, <1>6
  <2>3. Upto(y) \subseteq Upto(x) /\ Upto(y) # Upto(x) BY <2>1, <1>6, <2>2
  <2>4. <<Upto(y), Upto(x)>> \in R BY <2>1, <2>3 DEF StrictSubsetOrdering
  <2> QED BY <1>5, <2>4
<1> QED BY <1>6

Ascending(s, S) ==
    /\ s \in [1..Cardinality(S) -> S]
    /\ \A i, j \in DOMAIN s : i < j => s[i] < s[j]

Lists(s, S) == \A x \in S : \E i \in DOMAIN s : s[i] = x

(* Every finite set of numbers can be listed in ascending order: a smallest *)
(* one that cannot would lack its greatest element, and be listed before it. *)
LEMMA HasAscending ==
    ASSUME NEW S \in SUBSET Nat, IsFiniteSet(S)
    PROVE  \E s : Ascending(s, S) /\ Lists(s, S)
<1> DEFINE Ordered(T) == \E s : Ascending(s, T) /\ Lists(s, T)
           Bad == {n \in Nat : \E T \in SUBSET Nat :
                                  IsFiniteSet(T) /\ Cardinality(T) = n /\ ~Ordered(T)}
<1>1. ASSUME Bad # {} PROVE FALSE
  <2>1. PICK n \in Bad : \A m \in Bad : n <= m BY <1>1, LeastNat
  <2>2. PICK T \in SUBSET Nat : IsFiniteSet(T) /\ Cardinality(T) = n /\ ~Ordered(T) BY <2>1
  <2>3. CASE T = {}
    <3>1. Cardinality(T) = 0 BY <2>3, FS_EmptySet
    <3>2. Ascending([i \in 1..0 |-> 0], T) /\ Lists([i \in 1..0 |-> 0], T)
      BY <2>3, <3>1 DEF Ascending, Lists
    <3> QED BY <2>2, <3>2
  <2>4. CASE T # {}
    <3>1. PICK x \in T : \A y \in T : y <= x BY <2>2, <2>4, HasMax
    <3> DEFINE U == T \ {x}
    <3>2. IsFiniteSet(U) /\ Cardinality(U) = n - 1 /\ n \in Nat
      BY <2>2, FS_RemoveElement, FS_CardinalityType
    <3>3. Cardinality(U) \in Nat BY <3>2, FS_CardinalityType
    <3>4. n - 1 \notin Bad BY <2>1, <3>2, <3>3
    <3>5. PICK s : Ascending(s, U) /\ Lists(s, U) BY <3>2, <3>3, <3>4
    <3>6. s \in [1..(n - 1) -> U] BY <3>2, <3>5 DEF Ascending
    <3> DEFINE r == [i \in 1..n |-> IF i = n THEN x ELSE s[i]]
    <3>7. n \in 1..n /\ \A i \in 1..n : i # n => i \in 1..(n - 1) BY <3>2, <3>3
    <3>8. r \in [1..n -> T] BY <3>6, <3>7
    <3>9. ASSUME NEW i \in 1..n, NEW j \in 1..n, i < j PROVE r[i] < r[j]
      <4>1. i # n /\ i \in 1..(n - 1) /\ r[i] = s[i] /\ s[i] \in U BY <3>2, <3>6, <3>7, <3>9
      <4>2. CASE j = n
        <5>1. r[j] = x /\ s[i] # x /\ s[i] <= x BY <4>1, <4>2, <3>1
        <5>2. s[i] \in Nat /\ x \in Nat BY <4>1
        <5> QED BY <4>1, <5>1, <5>2
      <4>3. CASE j # n
        <5>1. j \in 1..(n - 1) BY <3>7, <4>3
        <5> QED BY <3>5, <3>6, <3>9, <4>1, <4>3, <5>1 DEF Ascending
      <4> QED BY <4>2, <4>3
    <3>10. ASSUME NEW y \in T PROVE \E i \in 1..n : r[i] = y
      <4>1. CASE y = x BY <3>7, <4>1
      <4>2. CASE y # x
        <5>1. PICK i \in 1..(n - 1) : s[i] = y BY <3>5, <3>6, <4>2 DEF Lists
        <5>2. i \in 1..n /\ i # n BY <3>2
        <5> QED BY <5>1, <5>2
      <4> QED BY <4>1, <4>2
    <3>11. Ascending(r, T) BY <2>2, <3>8, <3>9 DEF Ascending
    <3>12. Lists(r, T) BY <3>10 DEF Lists
    <3> QED BY <2>2, <3>11, <3>12
  <2> QED BY <2>3, <2>4
<1>2. Cardinality(S) \in Nat BY FS_CardinalityType
<1> QED BY <1>1, <1>2

(* A list in ascending order leaves no number out. *)
LEMMA AscendingLists ==
    ASSUME NEW S \in SUBSET Nat, IsFiniteSet(S), NEW s, Ascending(s, S)
    PROVE  s \in Seq(S) /\ Lists(s, S) /\ \A i, j \in DOMAIN s : s[i] = s[j] => i = j
<1> DEFINE n == Cardinality(S)
<1>1. n \in Nat BY FS_CardinalityType
<1>2. s \in [1..n -> S] /\ \A i, j \in 1..n : i < j => s[i] < s[j] BY DEF Ascending
<1>3. \A i \in 1..n : s[i] \in Nat BY <1>2
<1>4. \A i, j \in 1..n : s[i] = s[j] => i = j
  <2> TAKE i, j \in 1..n
  <2>1. i < j \/ j < i \/ i = j BY <1>1
  <2> QED BY <1>2, <1>3, <2>1
<1>5. s \in Injection(1..n, S) BY <1>2, <1>4 DEF Injection, IsInjective
<1>6. IsFiniteSet(1..n) /\ Cardinality(1..n) = n BY <1>1, FS_Interval
<1>7. s \in Surjection(1..n, S) BY <1>5, FS_Injection, <1>6
<1>8. s \in Seq(S) BY <1>1, <1>2
<1> QED BY <1>2, <1>4, <1>7, <1>8 DEF Surjection, Lists

--------------------
(* Backup *)

Attachments == (UNION {Backups!Range(Atts[t]) : t \in Threads}) \ {"text"}
NameMaps == UNION {[S -> Backups!Names] : S \in SUBSET Threads}
InItem == {"messages", "sizes", "atts", "download"}
Places == Backups!Awaits \union Backups!Ended \union {"head", "atts"}
Whole(k, c) == k \in DOMAIN folder /\ folder[k] = <<c, TRUE>>

(* The export that runs, its place in the list, and the directories it has *)
(* given to the conversations up to there. *)
RunTypes ==
    run \in [id : 0..MaxRuns, pc : Places, media : BOOLEAN, with : BOOLEAN,
             order : Seq(Threads \union Media), at : Nat \ {0}, left : Seq(Attachments),
             sized : SUBSET Attachments, names : NameMaps,
             errors : SUBSET (Threads \union Media \union Attachments \union {0})]
Listed ==
    /\ \A i \in DOMAIN run.order : run.order[i] \in (IF run.media THEN Media ELSE Threads)
    /\ \A i, j \in DOMAIN run.order : i # j => run.order[i] # run.order[j]
Placed ==
    /\ run.pc \in {"messages", "sizes", "atts"} => ~run.media
    /\ run.pc \in InItem => run.at <= Len(run.order)
    /\ run.pc = "complete" => run.at > Len(run.order)
    /\ run.pc = "head" => run.at <= Len(run.order) + 1
    /\ run.pc = "download" /\ ~run.media => run.left # <<>>
    /\ run.pc \in {"list", "contacts"} => run.at = 1
    /\ run.pc = "list" => run.order = <<>> /\ run.names = <<>> /\ run.errors = {}
Named ==
    /\ ~run.media /\ run.pc \notin Backups!Ended =>
          DOMAIN run.names = {run.order[j] : j \in 1..(IF run.pc \in InItem THEN run.at
                                                                           ELSE run.at - 1)}
    /\ \A u, w \in DOMAIN run.names : u # w => run.names[u] # run.names[w]

(* The slot is taken as long as the export runs. *)
Slotted ==
    /\ (backupSlot = None) <=> (run.pc \in Backups!Ended)
    /\ backupSlot # None => backupSlot \in [id : 1..MaxRuns, aborted : BOOLEAN] /\ backupSlot.id = run.id

(* Whatever stopped earlier, a file under the name of an attachment or of a *)
(* media file comes from there, whole or not. *)
Content(k, c) ==
    /\ k[1] \in Backups!Names /\ k[2] \in Attachments => c = k[2]
    /\ k[1] = <<"media", 0>> => c \in Media /\ Path[c] = k[2]
FolderOK ==
    /\ DOMAIN folder \subseteq Backups!Keys
    /\ \A k \in DOMAIN folder :
          /\ folder[k] = <<folder[k][1], folder[k][2]>> /\ folder[k][2] \in BOOLEAN
          /\ Content(k, folder[k][1])

(* While there was no error, all that lies behind the export is in the folder. *)
Exported(x) ==
    IF run.media
    THEN LET k == <<<<"media", 0>>, Path[x]>> IN k \in DOMAIN folder /\ folder[k][2]
    ELSE /\ Whole(<<run.names[x], "text">>, x)
         /\ run.with => \A y \in Backups!Range(Atts[x]) : Whole(<<run.names[x], y>>, y)
Progress ==
    run.errors = {} /\ run.pc \notin {"list", "cancelled", "error"} =>
        /\ \A j \in 1..(run.at - 1) : j \in DOMAIN run.order => Exported(run.order[j])
        /\ run.pc \in {"sizes", "atts", "download"} /\ ~run.media /\ run.with =>
              \A y \in Backups!Range(Atts[run.order[run.at]]) :
                  \/ y \in Backups!Range(run.left)
                  \/ Whole(<<run.names[run.order[run.at]], y>>, y)

ExportInv == RunTypes /\ Listed /\ Placed /\ Named /\ Slotted /\ FolderOK /\ Progress

LEMMA BackupInit == Backups!BackupConstants /\ Backups!Init => ExportInv
<1> SUFFICES ASSUME Backups!BackupConstants, Backups!Init PROVE ExportInv
  OBVIOUS
<1> DEFINE none == [x \in {} |-> 0]
<1>1. <<>> \in Seq(Threads \union Media) /\ <<>> \in Seq(Attachments) OBVIOUS
<1>2. DOMAIN <<>> = {} /\ Len(<<>>) = 0 OBVIOUS
<1>3. <<>> \in NameMaps
  <2>1. <<>> \in [{} -> Backups!Names] BY <1>2
  <2> QED BY <2>1 DEF NameMaps
<1>4. run = [id |-> 0, pc |-> "complete", media |-> FALSE, with |-> FALSE, order |-> <<>>,
             at |-> 1, left |-> <<>>, sized |-> {}, names |-> <<>>, errors |-> {0}]
  BY DEF Backups!Init, Backups!NoRun
<1>5. RunTypes BY <1>1, <1>3, <1>4 DEF RunTypes, Places, Backups!Ended, Backups!BackupConstants
<1>6. Listed /\ Placed /\ Named /\ Progress
  BY <1>2, <1>4 DEF Listed, Placed, Named, Progress, InItem, Backups!Ended
<1>7. Slotted /\ FolderOK BY <1>2, <1>4 DEF Slotted, FolderOK, Backups!Init, Backups!Ended
<1> QED BY <1>5, <1>6, <1>7 DEF ExportInv

(* disambiguate(): a conversation without a name finds one, and nobody else *)
(* has it, as there are no more names of one base than conversations. *)
LEMMA NameIsNew ==
    ASSUME Backups!BackupConstants, run.names \in NameMaps,
           NEW t \in Threads, t \notin DOMAIN run.names
    PROVE  /\ Backups!Disambiguate(t) \in Backups!Names
           /\ \A u \in DOMAIN run.names : run.names[u] # Backups!Disambiguate(t)
<1> DEFINE N == Cardinality(Threads)
           D == DOMAIN run.names
           used == {run.names[u] : u \in D}
           Free == {i \in 1..N : <<Base[t], i>> \notin used}
<1>1. IsFiniteSet(Threads) /\ N \in Nat
  BY FS_CardinalityType DEF Backups!BackupConstants, Backups!IsFiniteSet, IsFiniteSet
<1>2. Backups!Cardinality(Threads) = N
  BY DEF Backups!Cardinality, Cardinality, Backups!IsFiniteSet, IsFiniteSet
<1>3. D \subseteq Threads /\ D \subseteq Threads \ {t} BY DEF NameMaps
<1>4. Free # {}
  <2> SUFFICES ASSUME Free = {} PROVE FALSE
    OBVIOUS
  <2>1. \A i \in 1..N : \E u \in D : run.names[u] = <<Base[t], i>> OBVIOUS
  <2> DEFINE f == [i \in 1..N |-> CHOOSE u \in D : run.names[u] = <<Base[t], i>>]
             R == Threads \ {t}
  <2>2. \A i \in 1..N : f[i] \in D /\ run.names[f[i]] = <<Base[t], i>> BY <2>1
  <2>3. f \in Injection(1..N, R)
    <3>1. f \in [1..N -> R] BY <1>3, <2>2
    <3> HIDE DEF f
    <3>2. ASSUME NEW i \in 1..N, NEW j \in 1..N, f[i] = f[j] PROVE i = j
      <4>1. <<Base[t], i>> = <<Base[t], j>> BY <2>2, <3>2
      <4> QED BY <4>1
    <3> QED BY <3>1, <3>2 DEF Injection, IsInjective
  <2>4. IsFiniteSet(R) /\ Cardinality(R) = N - 1 BY <1>1, FS_RemoveElement
  <2>5. IsFiniteSet(1..N) /\ Cardinality(1..N) = N BY <1>1, FS_Interval
  <2>6. Cardinality(1..N) <= Cardinality(R)
    <3> HIDE DEF f, R
    <3> QED BY <2>3, <2>4, FS_Injection
  <2> QED BY <1>1, <2>4, <2>5, <2>6
<1> DEFINE Is(i) == i \in 1..N /\ <<Base[t], i>> \notin used
                    /\ \A j \in 1..(i - 1) : <<Base[t], j>> \in used
           n == CHOOSE i \in 1..N : <<Base[t], i>> \notin used
                                    /\ \A j \in 1..(i - 1) : <<Base[t], j>> \in used
<1>5. \E i \in 1..N : Is(i)
  <2>1. Free \subseteq Nat BY <1>1
  <2>2. PICK i \in Free : \A j \in Free : i <= j BY <1>4, <2>1, LeastNat
  <2>3. i \in 1..N /\ <<Base[t], i>> \notin used BY <2>2
  <2>4. ASSUME NEW j \in 1..(i - 1) PROVE <<Base[t], j>> \in used
    <3>1. j \in 1..N /\ j < i /\ j \in Nat /\ i \in Nat BY <1>1, <2>3
    <3>2. ~(i <= j) BY <3>1
    <3>3. j \notin Free BY <2>2, <3>2
    <3> QED BY <3>1, <3>3
  <2> QED BY <2>3, <2>4
<1>6. Is(n) BY <1>5
<1>7. Backups!Disambiguate(t) = <<Base[t], n>> BY <1>2 DEF Backups!Disambiguate
<1> HIDE DEF n
<1>8. Backups!Disambiguate(t) \in Backups!Names BY <1>2, <1>6, <1>7 DEF Backups!Names
<1> QED BY <1>6, <1>7, <1>8

LEMMA SameFolder == ASSUME ExportInv, UNCHANGED folder PROVE FolderOK'
  BY DEF ExportInv, FolderOK, Content, Backups!Keys, Backups!Copies

LEMMA SameExported ==
    ASSUME UNCHANGED folder, run'.media = run.media, run'.with = run.with, run'.names = run.names
    PROVE  \A x : Exported(x)' <=> Exported(x)
<1>1. \A k, c : Whole(k, c)' <=> Whole(k, c) BY DEF Whole
<1> QED BY <1>1 DEF Exported

(* What has been exported stays so when only the place changes. *)
LEMMA ProgressKept ==
    ASSUME Progress, UNCHANGED folder, run.pc \notin {"list", "cancelled", "error"},
           run'.media = run.media, run'.with = run.with, run'.order = run.order,
           run'.at = run.at, run'.left = run.left, run'.names = run.names,
           run'.errors = run.errors,
           run'.pc \in {"sizes", "atts", "download"} /\ ~run.media =>
              run.pc \in {"sizes", "atts", "download"}
    PROVE  Progress'
<1>1. \A k, c : Whole(k, c)' <=> Whole(k, c) BY DEF Whole
<1>2. \A x : Exported(x)' <=> Exported(x) BY SameExported
<1> SUFFICES ASSUME run.errors = {}
             PROVE  /\ \A j \in 1..(run.at - 1) :
                          j \in DOMAIN run.order => Exported(run.order[j])'
                    /\ run'.pc \in {"sizes", "atts", "download"} /\ ~run.media /\ run.with =>
                          \A y \in Backups!Range(Atts[run.order[run.at]]) :
                             \/ y \in Backups!Range(run.left)
                             \/ Whole(<<run.names[run.order[run.at]], y>>, y)'
  BY DEF Progress, Backups!Range
<1> QED BY <1>1, <1>2 DEF Progress

(* The export ends: its slot is free, and no end but a crash writes. *)
LEMMA EndStep ==
    ASSUME ExportInv, NEW what \in Backups!Ended, run' = [run EXCEPT !.pc = what], backupSlot' = None,
           UNCHANGED folder \/ (FolderOK' /\ what # "complete"),
           what = "complete" => run.pc = "head" /\ run.at > Len(run.order)
    PROVE  ExportInv'
<1>1. RunTypes' BY DEF ExportInv, RunTypes, Places
<1>2. /\ run'.pc = what /\ run'.media = run.media /\ run'.with = run.with
      /\ run'.order = run.order /\ run'.at = run.at /\ run'.left = run.left
      /\ run'.names = run.names /\ run'.errors = run.errors
  BY DEF ExportInv, RunTypes
<1>3. what \in {"complete", "cancelled", "error"} BY DEF Backups!Ended
<1>4. Listed' BY <1>2 DEF ExportInv, Listed
<1>5. Placed' BY <1>2, <1>3 DEF Placed, InItem
<1>6. Named' BY <1>2 DEF ExportInv, Named, Backups!Ended
<1>7. Slotted' BY <1>2 DEF Slotted, Backups!Ended
<1>8. FolderOK' BY SameFolder
<1>9. Progress'
  <2>1. CASE what = "complete" BY <1>2, <2>1, ProgressKept DEF ExportInv
  <2>2. CASE what # "complete" BY <1>2, <1>3, <2>2 DEF Progress
  <2> QED BY <2>1, <2>2
<1> QED BY <1>1, <1>4, <1>5, <1>6, <1>7, <1>8, <1>9 DEF ExportInv

(* A step of a loop that touches neither the slot nor the folder. *)
LEMMA SameSlot ==
    ASSUME ExportInv, UNCHANGED backupSlot, run'.id = run.id, run.pc \notin Backups!Ended,
           run'.pc \notin Backups!Ended
    PROVE  Slotted'
  BY DEF ExportInv, Slotted

LEMMA PlacesAre == /\ Backups!Ended = {"complete", "cancelled", "error"}
                   /\ Backups!Awaits = {"list", "contacts", "messages", "sizes", "download"}
  BY DEF Backups!Ended, Backups!Awaits

LEMMA ListStep ==
    ASSUME Backups!BackupConstants, ExportInv,
           NEW order, Backups!ListAnswers(order)
    PROVE  ExportInv'
<1> DEFINE S == IF run.media THEN Media ELSE Threads
<1>1. /\ run.pc = "list" /\ order \in Backups!Orders(S)
      /\ RunTypes /\ Placed /\ Named
  BY DEF Backups!ListAnswers, ExportInv
<1>2. CASE Backups!Aborted /\ Backups!Finish("cancelled")
  BY <1>2, EndStep, PlacesAre DEF Backups!Finish
<1>3. CASE run' = [run EXCEPT !.order = order,
                              !.pc = IF run.media THEN "head" ELSE "contacts"]
           /\ UNCHANGED <<backupSlot, folder>>
  <2>1. /\ order \in Seq(Threads \union Media)
        /\ \A i \in DOMAIN order : order[i] \in S
        /\ \A i, j \in DOMAIN order : i # j => order[i] # order[j]
    <3>1. Backups!Cardinality(S) = Cardinality(S)
      BY DEF Backups!Cardinality, Cardinality, Backups!IsFiniteSet, IsFiniteSet
    <3>2. IsFiniteSet(S) BY DEF Backups!BackupConstants, Backups!IsFiniteSet, IsFiniteSet
    <3>3. Cardinality(S) \in Nat BY <3>2, FS_CardinalityType
    <3>4. order \in [1..Cardinality(S) -> S]
          /\ \A i, j \in DOMAIN order : i # j => order[i] # order[j]
      BY <1>1, <3>1 DEF Backups!Orders
    <3> QED BY <3>3, <3>4
  <2>2. /\ run'.pc = IF run.media THEN "head" ELSE "contacts"
        /\ run'.id = run.id /\ run'.media = run.media /\ run'.with = run.with
        /\ run'.order = order /\ run'.at = run.at /\ run'.left = run.left
        /\ run'.names = run.names /\ run'.errors = run.errors
    BY <1>1, <1>3 DEF RunTypes
  <2>3. RunTypes' BY <1>1, <1>3, <2>1, PlacesAre DEF RunTypes, Places
  <2>4. Listed' BY <2>1, <2>2 DEF Listed
  <2>5. run'.pc \in {"head", "contacts"} /\ run'.at = 1 BY <1>1, <2>2 DEF Placed
  <2>6. Placed' BY <2>1, <2>2, <2>5 DEF Placed, InItem, Backups!Ended
  <2>7. Named'
    <3>1. DOMAIN run.names = {} BY <1>1 DEF Placed
    <3> QED BY <2>2, <2>5, <3>1 DEF Named, InItem
  <2>8. Slotted' BY <1>1, <1>3, <2>2, <2>5, SameSlot, PlacesAre
  <2>9. Progress' BY <2>5 DEF Progress
  <2> QED BY <1>3, <2>3, <2>4, <2>6, <2>7, <2>8, <2>9, SameFolder DEF ExportInv
<1> QED BY <1>2, <1>3 DEF Backups!ListAnswers, Backups!Moves, Backups!Goto

(* Awaits that only change the place: contacts, sizes, a fetch that starts. *)
LEMMA PlaceStep ==
    ASSUME ExportInv,
           Backups!ContactsSettle \/ Backups!FetchAttachment \/ Backups!FetchFile
             \/ \E ok \in BOOLEAN : Backups!SizesSettle(ok)
    PROVE  ExportInv'
<1>1. CASE Backups!Finish("cancelled") BY <1>1, EndStep, PlacesAre DEF Backups!Finish
<1>2. CASE Backups!ContactsSettle /\ ~Backups!Finish("cancelled")
  <2>1. run.pc = "contacts" /\ run' = [run EXCEPT !.pc = "head"] /\ UNCHANGED <<backupSlot, folder>>
    BY <1>2 DEF Backups!ContactsSettle, Backups!Moves, Backups!Goto
  <2>2. /\ run'.pc = "head" /\ run'.id = run.id /\ run'.media = run.media
        /\ run'.with = run.with /\ run'.order = run.order /\ run'.at = run.at
        /\ run'.left = run.left /\ run'.names = run.names /\ run'.errors = run.errors
    BY <2>1 DEF ExportInv, RunTypes
  <2>3. RunTypes' BY <2>1 DEF ExportInv, RunTypes, Places
  <2>4. Len(run.order) \in Nat /\ run.at = 1 BY <2>1 DEF ExportInv, RunTypes, Placed
  <2>5. Placed' BY <2>1, <2>2, <2>4 DEF Placed, InItem
  <2>6. Listed' /\ Named' BY <2>1, <2>2, PlacesAre DEF ExportInv, Listed, Named, InItem
  <2>7. Progress' BY <2>2, <2>4 DEF Progress
  <2> QED BY <2>1, <2>2, <2>3, <2>5, <2>6, <2>7, SameSlot, SameFolder, PlacesAre DEF ExportInv
<1>3. CASE Backups!FetchAttachment
  <2>1. /\ run.pc = "atts" /\ run.left # <<>> /\ run' = [run EXCEPT !.pc = "download"]
        /\ UNCHANGED <<backupSlot, folder>>
    BY <1>3 DEF Backups!FetchAttachment, Backups!AttsLeft, Backups!Moves, Backups!Goto
  <2>2. /\ run'.pc = "download" /\ run'.id = run.id /\ run'.media = run.media
        /\ run'.with = run.with /\ run'.order = run.order /\ run'.at = run.at
        /\ run'.left = run.left /\ run'.names = run.names /\ run'.errors = run.errors
    BY <2>1 DEF ExportInv, RunTypes
  <2>3. RunTypes' BY <2>1, PlacesAre DEF ExportInv, RunTypes, Places
  <2>4. Placed' BY <2>1, <2>2 DEF ExportInv, Placed, InItem
  <2>5. Listed' /\ Named' BY <2>1, <2>2, PlacesAre DEF ExportInv, Listed, Named, InItem
  <2>6. Progress' BY <2>1, <2>2, ProgressKept DEF ExportInv
  <2> QED BY <2>1, <2>2, <2>3, <2>4, <2>5, <2>6, SameSlot, SameFolder, PlacesAre DEF ExportInv
<1>4. CASE Backups!FetchFile
  <2>1. /\ run.pc = "head" /\ run.at <= Len(run.order) /\ run.media
        /\ run' = [run EXCEPT !.pc = "download"] /\ UNCHANGED <<backupSlot, folder>>
    BY <1>4 DEF Backups!FetchFile, Backups!LoopHead, Backups!Moves, Backups!Goto
  <2>2. /\ run'.pc = "download" /\ run'.id = run.id /\ run'.media = run.media
        /\ run'.with = run.with /\ run'.order = run.order /\ run'.at = run.at
        /\ run'.left = run.left /\ run'.names = run.names /\ run'.errors = run.errors
    BY <2>1 DEF ExportInv, RunTypes
  <2>3. RunTypes' BY <2>1, PlacesAre DEF ExportInv, RunTypes, Places
  <2>4. Placed' BY <2>1, <2>2 DEF ExportInv, Placed, InItem
  <2>5. Listed' /\ Named' BY <2>1, <2>2, PlacesAre DEF ExportInv, Listed, Named, InItem
  <2>6. Progress' BY <2>1, <2>2, ProgressKept DEF ExportInv
  <2> QED BY <2>1, <2>2, <2>3, <2>4, <2>5, <2>6, SameSlot, SameFolder, PlacesAre DEF ExportInv
<1>5. ASSUME NEW ok \in BOOLEAN, Backups!SizesSettle(ok) PROVE ExportInv'
  <2> DEFINE measured == IF ok
                         THEN {x \in Backups!Range(run.left) :
                                 Backups!Holds(<<run.names[Backups!Item], x>>)}
                         ELSE {}
  <2>1. /\ run.pc = "sizes" /\ run' = [run EXCEPT !.pc = "atts", !.sized = measured]
        /\ UNCHANGED <<backupSlot, folder>>
    BY <1>5 DEF Backups!SizesSettle, Backups!Moves, Backups!Goto
  <2>2. measured \in SUBSET Attachments
    <3>1. run.left \in Seq(Attachments) BY DEF ExportInv, RunTypes
    <3> QED BY <3>1 DEF Backups!Range
  <2> HIDE DEF measured
  <2>3. /\ run'.pc = "atts" /\ run'.id = run.id /\ run'.media = run.media
        /\ run'.with = run.with /\ run'.order = run.order /\ run'.at = run.at
        /\ run'.left = run.left /\ run'.names = run.names /\ run'.errors = run.errors
    BY <2>1 DEF ExportInv, RunTypes
  <2>4. RunTypes' BY <2>1, <2>2 DEF ExportInv, RunTypes, Places
  <2>5. Placed' BY <2>1, <2>3 DEF ExportInv, Placed, InItem
  <2>6. Listed' /\ Named' BY <2>1, <2>3, PlacesAre DEF ExportInv, Listed, Named, InItem
  <2>7. Progress' BY <2>1, <2>3, ProgressKept DEF ExportInv
  <2> QED BY <2>1, <2>3, <2>4, <2>5, <2>6, <2>7, SameSlot, SameFolder, PlacesAre DEF ExportInv
<1> QED BY <1>1, <1>2, <1>3, <1>4, <1>5
(* A file is written: the others stay. *)
LEMMA PutStep ==
    ASSUME FolderOK, NEW k \in Backups!Keys, NEW c, NEW w \in BOOLEAN, Content(k, c),
           folder' = Backups!Put(k, <<c, w>>)
    PROVE  /\ FolderOK'
           /\ DOMAIN folder' = DOMAIN folder \union {k} /\ folder'[k] = <<c, w>>
           /\ \A x \in DOMAIN folder : x # k => folder'[x] = folder[x]
<1>1. /\ DOMAIN folder' = DOMAIN folder \union {k} /\ folder'[k] = <<c, w>>
      /\ \A x \in DOMAIN folder : x # k => folder'[x] = folder[x]
  BY DEF Backups!Put
<1>2. \A x \in DOMAIN folder' : x = k \/ (x \in DOMAIN folder /\ folder'[x] = folder[x]) BY <1>1
<1>3. <<c, w>>[1] = c /\ <<c, w>>[2] = w OBVIOUS
<1>4. ASSUME NEW x \in DOMAIN folder'
      PROVE  /\ folder'[x] = <<folder'[x][1], folder'[x][2]>> /\ folder'[x][2] \in BOOLEAN
             /\ Content(x, folder'[x][1])
  <2>1. CASE x = k BY <1>1, <1>3, <2>1
  <2>2. CASE x # k BY <1>2, <2>2 DEF FolderOK
  <2> QED BY <2>1, <2>2
<1>5. Backups!Keys' = Backups!Keys BY DEF Backups!Keys, Backups!Copies
<1>6. DOMAIN folder' \subseteq Backups!Keys BY <1>1 DEF FolderOK
<1>7. FolderOK' BY <1>4, <1>5, <1>6 DEF FolderOK, Content
<1> QED BY <1>1, <1>7

(* Where the conversation, the attachment and the media file in hand go. *)
LEMMA TextKeyIs ==
    ASSUME Backups!BackupConstants, ExportInv, run.pc \in InItem, ~run.media
    PROVE  /\ Backups!Item \in Threads /\ Backups!Item \in DOMAIN run.names
           /\ run.names[Backups!Item] \in Backups!Names
           /\ run.names[Backups!Item] # <<"media", 0>>
           /\ <<run.names[Backups!Item], "text">> \in Backups!Keys
           /\ \A c : Content(<<run.names[Backups!Item], "text">>, c)
<1> DEFINE t == Backups!Item
<1>1. run.at \in 1..Len(run.order) /\ run.at \in DOMAIN run.order BY DEF ExportInv, RunTypes, Placed
<1>2. t = run.order[run.at] BY DEF Backups!Item
<1>3. t \in Threads BY <1>1, <1>2 DEF ExportInv, Listed
<1>4. t \in DOMAIN run.names
  <2>1. run.pc \notin Backups!Ended BY PlacesAre DEF InItem
  <2> QED BY <1>1, <1>2, <2>1 DEF ExportInv, Named
<1>5. run.names[t] \in Backups!Names BY <1>4 DEF ExportInv, RunTypes, NameMaps
<1>6. run.names[t] # <<"media", 0>>
  <2>1. Backups!Cardinality(Threads) = Cardinality(Threads)
    BY DEF Backups!Cardinality, Cardinality, Backups!IsFiniteSet, IsFiniteSet
  <2>2. IsFiniteSet(Threads) BY DEF Backups!BackupConstants, Backups!IsFiniteSet, IsFiniteSet
  <2>3. Cardinality(Threads) \in Nat BY <2>2, FS_CardinalityType
  <2>4. 0 \notin 1..Cardinality(Threads) BY <2>3
  <2> HIDE DEF t
  <2> QED BY <1>5, <2>1, <2>4 DEF Backups!Names
<1>7. <<run.names[t], "text">> \in Backups!Keys BY <1>5 DEF Backups!Keys
<1>8. \A c : Content(<<run.names[t], "text">>, c)
  <2>1. "text" \notin Attachments BY DEF Attachments
  <2> QED BY <1>6, <2>1 DEF Content
<1> QED BY <1>3, <1>4, <1>5, <1>6, <1>7, <1>8

LEMMA AttKeyIs ==
    ASSUME Backups!BackupConstants, ExportInv, run.pc \in InItem, ~run.media, run.left # <<>>
    PROVE  /\ Head(run.left) \in Attachments /\ Tail(run.left) \in Seq(Attachments)
           /\ \A y : y \in Backups!Range(run.left) =>
                        y = Head(run.left) \/ y \in Backups!Range(Tail(run.left))
           /\ Backups!AttKey = <<run.names[Backups!Item], Head(run.left)>>
           /\ Backups!AttKey \in Backups!Keys
           /\ Content(Backups!AttKey, Head(run.left))
<1>1. run.left \in Seq(Attachments) BY DEF ExportInv, RunTypes
<1>2. Head(run.left) \in Attachments /\ Tail(run.left) \in Seq(Attachments) BY <1>1
<1>3. ASSUME NEW y \in Backups!Range(run.left)
      PROVE  y = Head(run.left) \/ y \in Backups!Range(Tail(run.left))
  <2>1. PICK i \in DOMAIN run.left : y = run.left[i] BY <1>3 DEF Backups!Range
  <2>2. i \in 1..Len(run.left) BY <1>1
  <2>3. CASE i = 1 BY <1>1, <2>1, <2>3
  <2>4. CASE i # 1
    <3>1. i - 1 \in DOMAIN Tail(run.left) /\ Tail(run.left)[i - 1] = run.left[i] BY <1>1, <2>2, <2>4
    <3> QED BY <2>1, <3>1 DEF Backups!Range
  <2> QED BY <2>3, <2>4
<1>4. Backups!AttKey = <<run.names[Backups!Item], Head(run.left)>> BY DEF Backups!AttKey
<1>5. Backups!AttKey \in Backups!Copies BY <1>2, <1>4, TextKeyIs DEF Backups!Copies, Attachments
<1>6. Content(Backups!AttKey, Head(run.left)) BY <1>4, TextKeyIs DEF Content
<1> QED BY <1>2, <1>3, <1>4, <1>5, <1>6 DEF Backups!Keys

LEMMA MediaKeyIs ==
    ASSUME Backups!BackupConstants, ExportInv, run.media,
           run.pc \in InItem \/ (run.pc = "head" /\ run.at <= Len(run.order))
    PROVE  /\ Backups!Item \in Media
           /\ Backups!MediaKey = <<<<"media", 0>>, Path[Backups!Item]>>
           /\ Backups!MediaKey \in Backups!Keys
           /\ Content(Backups!MediaKey, Backups!Item)
<1>1. run.at \in DOMAIN run.order BY DEF ExportInv, RunTypes, Placed
<1>2. Backups!Item \in Media BY <1>1 DEF ExportInv, Listed, Backups!Item
<1>3. Backups!MediaKey = <<<<"media", 0>>, Path[Backups!Item]>> BY DEF Backups!MediaKey
<1>4. Backups!MediaKey \in Backups!Copies BY <1>2, <1>3 DEF Backups!Copies
<1>5. <<"media", 0>> \notin Backups!Names
  <2>1. Backups!Cardinality(Threads) = Cardinality(Threads)
    BY DEF Backups!Cardinality, Cardinality, Backups!IsFiniteSet, IsFiniteSet
  <2>2. IsFiniteSet(Threads) BY DEF Backups!BackupConstants, Backups!IsFiniteSet, IsFiniteSet
  <2>3. Cardinality(Threads) \in Nat BY <2>2, FS_CardinalityType
  <2>4. 0 \notin 1..Cardinality(Threads) BY <2>3
  <2> QED BY <2>1, <2>4 DEF Backups!Names
<1>6. Content(Backups!MediaKey, Backups!Item) BY <1>2, <1>3, <1>5 DEF Content
<1> QED BY <1>2, <1>3, <1>4, <1>6 DEF Backups!Keys

(* What lies behind has directories of its own: the item in hand takes none *)
(* of it away. *)
LEMMA EarlierStays ==
    ASSUME ExportInv, run.pc \in InItem, ~run.media, NEW f,
           \A x \in DOMAIN folder : x # <<run.names[Backups!Item], f>> =>
               x \in DOMAIN folder' /\ folder'[x] = folder[x],
           run'.media = run.media, run'.with = run.with, run'.names = run.names,
           NEW j \in 1..(run.at - 1), NEW u, u = run.order[j], Exported(u)
    PROVE  Exported(u)'
<1>1. run.at \in 1..Len(run.order) /\ j \in DOMAIN run.order /\ run.at \in DOMAIN run.order
      /\ j # run.at
  BY DEF ExportInv, RunTypes, Placed
<1>2. u # Backups!Item BY <1>1 DEF ExportInv, Listed, Backups!Item
<1>3. u \in DOMAIN run.names /\ Backups!Item \in DOMAIN run.names
  <2>1. run.pc \notin Backups!Ended BY PlacesAre DEF InItem
  <2>2. DOMAIN run.names = {run.order[i] : i \in 1..run.at} BY <2>1 DEF ExportInv, Named
  <2> QED BY <1>1, <2>2 DEF Backups!Item
<1>4. run.names[u] # run.names[Backups!Item] BY <1>2, <1>3 DEF ExportInv, Named
<1>5. ASSUME NEW g, NEW c, Whole(<<run.names[u], g>>, c)
      PROVE  Whole(<<run.names[u], g>>, c)'
  <2>1. <<run.names[u], g>> # <<run.names[Backups!Item], f>> BY <1>4
  <2>2. <<run.names[u], g>> \in DOMAIN folder' /\ folder'[<<run.names[u], g>>] = <<c, TRUE>>
    BY <1>5, <2>1 DEF Whole
  <2> QED BY <2>2 DEF Whole
<1>6. /\ Whole(<<run.names[u], "text">>, u)
      /\ run.with => \A y \in Backups!Range(Atts[u]) : Whole(<<run.names[u], y>>, y)
  BY DEF Exported
<1>7. /\ Whole(<<run.names[u], "text">>, u)'
      /\ run.with => \A y \in Backups!Range(Atts[u]) : Whole(<<run.names[u], y>>, y)'
  BY <1>5, <1>6
<1> QED BY <1>7 DEF Exported, Backups!Range
(* A conversation is named and its messages are asked for. *)
LEMMA AskStep ==
    ASSUME Backups!BackupConstants, ExportInv, Backups!AskMessages
    PROVE  ExportInv'
<1> DEFINE t == Backups!Item
           D == DOMAIN run.names \union {t}
           d == Backups!Disambiguate(t)
           names == [u \in D |-> IF u = t THEN d ELSE run.names[u]]
<1>1. /\ run.pc = "head" /\ run.at <= Len(run.order) /\ ~run.media
      /\ run' = [run EXCEPT !.pc = "messages", !.names = names]
      /\ UNCHANGED <<backupSlot, folder>>
  BY DEF Backups!AskMessages, Backups!LoopHead, Backups!Moves, Backups!Goto
<1>2. run.at \in 1..Len(run.order) /\ run.at \in DOMAIN run.order /\ run.order[run.at] = t
  BY <1>1 DEF ExportInv, RunTypes, Backups!Item
<1>3. t \in Threads BY <1>1, <1>2 DEF ExportInv, Listed
<1>4. DOMAIN run.names = {run.order[j] : j \in 1..(run.at - 1)}
  BY <1>1, PlacesAre DEF ExportInv, Named, InItem
<1>5. t \notin DOMAIN run.names
  <2>1. \A j \in 1..(run.at - 1) : j \in DOMAIN run.order /\ j # run.at
    BY <1>2 DEF ExportInv, RunTypes
  <2> HIDE DEF t
  <2> QED BY <1>2, <1>4, <2>1 DEF ExportInv, Listed
<1>6. run.names \in NameMaps /\ DOMAIN run.names \subseteq Threads
  BY DEF ExportInv, RunTypes, NameMaps
<1>7. d \in Backups!Names /\ \A u \in DOMAIN run.names : run.names[u] # d
  BY <1>3, <1>5, <1>6, NameIsNew
<1> HIDE DEF t, d
<1>8. names \in NameMaps
  <2>1. \A u \in DOMAIN run.names : run.names[u] \in Backups!Names BY <1>6 DEF NameMaps
  <2>2. names \in [D -> Backups!Names] /\ D \in SUBSET Threads BY <1>3, <1>6, <1>7, <2>1
  <2> QED BY <2>2 DEF NameMaps
<1>9. \A u, w \in DOMAIN names : u # w => names[u] # names[w]
  <2>1. \A u, w \in DOMAIN run.names : u # w => run.names[u] # run.names[w] BY DEF ExportInv, Named
  <2> QED BY <1>5, <1>7, <2>1
<1>10. \A u \in DOMAIN run.names : names[u] = run.names[u] BY <1>5
<1>11. DOMAIN names = {run.order[j] : j \in 1..run.at}
  <2>1. 1..run.at = (1..(run.at - 1)) \union {run.at} BY <1>2
  <2> QED BY <1>2, <1>4, <2>1
<1> HIDE DEF names
<1>12. /\ run'.pc = "messages" /\ run'.id = run.id /\ run'.media = run.media
       /\ run'.with = run.with /\ run'.order = run.order /\ run'.at = run.at
       /\ run'.left = run.left /\ run'.names = names /\ run'.errors = run.errors
  BY <1>1 DEF ExportInv, RunTypes
<1>13. RunTypes' BY <1>1, <1>8, PlacesAre DEF ExportInv, RunTypes, Places
<1>14. Listed' BY <1>12 DEF ExportInv, Listed
<1>15. Placed' BY <1>1, <1>12 DEF Placed, InItem
<1>16. Named' BY <1>9, <1>11, <1>12 DEF Named, InItem
<1>17. Progress'
  <2>1. ASSUME run.errors = {}, NEW j \in 1..(run.at - 1), NEW u, u = run.order[j],
               Exported(u)
        PROVE  Exported(u)'
    <3>1. u \in DOMAIN run.names BY <1>4, <2>1
    <3>2. names[u] = run.names[u] BY <1>10, <3>1
    <3>3. \A k, c : Whole(k, c)' <=> Whole(k, c) BY <1>1 DEF Whole
    <3> QED BY <1>1, <1>12, <2>1, <3>2, <3>3 DEF Exported, Backups!Range
  <2> SUFFICES ASSUME run.errors = {}, NEW j \in 1..(run.at - 1), j \in DOMAIN run.order,
                      NEW u, u = run.order[j]
               PROVE  Exported(u)'
    BY <1>12 DEF Progress
  <2>2. Exported(u) BY <1>1 DEF ExportInv, Progress
  <2> QED BY <2>1, <2>2
<1> QED BY <1>1, <1>12, <1>13, <1>14, <1>15, <1>16, <1>17, SameSlot, SameFolder, PlacesAre
        DEF ExportInv

(* Its messages are there: its attachments, when wanted, are still to come. *)
LEMMA MessagesStep ==
    ASSUME Backups!BackupConstants, ExportInv, Backups!MessagesAnswer
    PROVE  ExportInv'
<1>1. CASE Backups!Finish("cancelled") BY <1>1, EndStep, PlacesAre DEF Backups!Finish
<1>2. CASE ~Backups!Finish("cancelled")
  <2> DEFINE t == run.order[run.at]
             pieces == IF run.with THEN Atts[t] ELSE <<>>
  <2>1. /\ run.pc = "messages" /\ UNCHANGED <<backupSlot, folder>>
        /\ \E pc \in {"atts", "sizes"} :
              run' = [run EXCEPT !.left = pieces, !.sized = {}, !.pc = pc]
    BY <1>2 DEF Backups!MessagesAnswer, Backups!Moves, Backups!Goto, Backups!Item
  <2>2. t \in Threads /\ ~run.media
    <3>1. ~run.media BY <2>1 DEF ExportInv, Placed
    <3> QED BY <2>1, <3>1, TextKeyIs DEF InItem, Backups!Item
  <2>3. pieces \in Seq(Attachments)
    <3>1. <<>> \in Seq(Attachments) OBVIOUS
    <3> QED BY <2>2, <3>1 DEF Backups!BackupConstants, Attachments
  <2>4. run.with => pieces = Atts[t] OBVIOUS
  <2> HIDE DEF pieces
  <2>5. PICK pc \in {"atts", "sizes"} :
           run' = [run EXCEPT !.left = pieces, !.sized = {}, !.pc = pc]
    BY <2>1
  <2>6. /\ run'.pc = pc /\ run'.id = run.id /\ run'.media = run.media
        /\ run'.with = run.with /\ run'.order = run.order /\ run'.at = run.at
        /\ run'.left = pieces /\ run'.names = run.names /\ run'.errors = run.errors
    BY <2>5 DEF ExportInv, RunTypes
  <2>7. RunTypes' BY <2>3, <2>5, PlacesAre DEF ExportInv, RunTypes, Places
  <2>8. Listed' /\ Named' BY <2>1, <2>6, PlacesAre DEF ExportInv, Listed, Named, InItem
  <2>9. Placed' BY <2>1, <2>6 DEF ExportInv, Placed, InItem
  <2>10. Progress'
    <3>1. \A x : Exported(x)' <=> Exported(x) BY <2>1, <2>6, SameExported
    <3>2. ASSUME run.errors = {}, NEW j \in 1..(run.at - 1), j \in DOMAIN run.order,
                 NEW u, u = run.order[j]
          PROVE  Exported(u)'
      <4>1. Exported(u) BY <2>1, <3>2 DEF ExportInv, Progress
      <4> QED BY <3>1, <4>1
    <3>3. run.with => \A y \in Backups!Range(Atts[t]) : \E i \in DOMAIN pieces : y = pieces[i]
      BY <2>4 DEF Backups!Range
    <3> QED BY <2>6, <3>2, <3>3 DEF Progress, Backups!Range
  <2> QED BY <2>1, <2>6, <2>7, <2>8, <2>9, <2>10, SameSlot, SameFolder, PlacesAre
          DEF ExportInv
<1> QED BY <1>1, <1>2

(* The item in hand is done, and in the folder unless there was an error. *)
LEMMA NextItem ==
    ASSUME ExportInv, UNCHANGED backupSlot, FolderOK',
           run.pc \in InItem \/ (run.pc = "head" /\ run.media /\ run.at <= Len(run.order)),
           NEW errors \in SUBSET (Threads \union Media \union Attachments \union {0}),
           run' = [run EXCEPT !.pc = "head", !.at = @ + 1, !.errors = errors],
           errors = {} =>
              /\ run.errors = {}
              /\ \A j \in 1..run.at : \A u : u = run.order[j] /\ (j < run.at => Exported(u))
                                                => Exported(u)'
    PROVE  ExportInv'
<1>1. /\ run'.pc = "head" /\ run'.id = run.id /\ run'.media = run.media
      /\ run'.with = run.with /\ run'.order = run.order /\ run'.at = run.at + 1
      /\ run'.left = run.left /\ run'.names = run.names /\ run'.errors = errors
  BY DEF ExportInv, RunTypes
<1>2. run.at \in Nat \ {0} /\ Len(run.order) \in Nat BY DEF ExportInv, RunTypes
<1>3. run.at <= Len(run.order) BY DEF ExportInv, Placed
<1>4. RunTypes'
  <2>1. run.at + 1 \in Nat \ {0} BY <1>2
  <2>2. "head" \in Places BY DEF Places
  <2> QED BY <2>1, <2>2 DEF ExportInv, RunTypes
<1>5. Listed' BY <1>1 DEF ExportInv, Listed
<1>6. Placed' BY <1>1, <1>2, <1>3 DEF Placed, InItem
<1>7. Named'
  <2>1. \A u, w \in DOMAIN run.names : u # w => run.names[u] # run.names[w] BY DEF ExportInv, Named
  <2>2. CASE run.media BY <1>1, <2>1, <2>2 DEF Named
  <2>3. CASE ~run.media
    <3>1. run.pc \in InItem /\ run.pc \notin Backups!Ended BY <2>3, PlacesAre DEF InItem
    <3>2. DOMAIN run.names = {run.order[j] : j \in 1..run.at} BY <2>3, <3>1 DEF ExportInv, Named
    <3>3. run'.at - 1 = run.at BY <1>1, <1>2
    <3> QED BY <1>1, <2>1, <3>2, <3>3 DEF Named, InItem
  <2> QED BY <2>2, <2>3
<1>8. run.pc \notin Backups!Ended /\ run.pc # "list" BY PlacesAre DEF InItem
<1>9. Slotted' BY <1>1, <1>8, SameSlot, PlacesAre
<1>10. Progress'
  <2> SUFFICES ASSUME errors = {}, NEW j \in 1..run.at, j \in DOMAIN run.order,
                      NEW u, u = run.order[j]
               PROVE  Exported(u)'
    <3>1. run'.at - 1 = run.at BY <1>1, <1>2
    <3> QED BY <1>1, <3>1 DEF Progress
  <2>1. j < run.at => j \in 1..(run.at - 1) BY <1>2
  <2>2. j < run.at => Exported(u) BY <1>8, <2>1, PlacesAre DEF ExportInv, Progress
  <2> QED BY <2>2
<1> QED BY <1>4, <1>5, <1>6, <1>7, <1>9, <1>10 DEF ExportInv

(* An attachment is done, and in the folder unless there was an error. *)
LEMMA NextAttachment ==
    ASSUME Backups!BackupConstants, ExportInv, UNCHANGED backupSlot, FolderOK',
           run.pc \in {"atts", "download"}, ~run.media, run.left # <<>>,
           NEW errors \in SUBSET (Threads \union Media \union Attachments \union {0}),
           run' = [run EXCEPT !.pc = "atts", !.left = Tail(@), !.errors = errors],
           errors = {} =>
              /\ run.errors = {} /\ Backups!AttKey \in DOMAIN folder'
              /\ folder'[Backups!AttKey] = <<Head(run.left), TRUE>>
              /\ \A x \in DOMAIN folder : x # Backups!AttKey =>
                    x \in DOMAIN folder' /\ folder'[x] = folder[x]
    PROVE  ExportInv'
<1>1. /\ run'.pc = "atts" /\ run'.id = run.id /\ run'.media = run.media
      /\ run'.with = run.with /\ run'.order = run.order /\ run'.at = run.at
      /\ run'.left = Tail(run.left) /\ run'.names = run.names /\ run'.errors = errors
  BY DEF ExportInv, RunTypes
<1>2. /\ Tail(run.left) \in Seq(Attachments)
      /\ \A y : y \in Backups!Range(run.left) =>
                   y = Head(run.left) \/ y \in Backups!Range(Tail(run.left))
      /\ Backups!AttKey = <<run.names[Backups!Item], Head(run.left)>>
  BY AttKeyIs DEF InItem
<1>3. RunTypes' BY <1>2 DEF ExportInv, RunTypes, Places
<1>4. Listed' /\ Named' BY <1>1, PlacesAre DEF ExportInv, Listed, Named, InItem
<1>5. Placed' BY <1>1 DEF ExportInv, Placed, InItem
<1>6. Slotted' BY <1>1, SameSlot, PlacesAre
<1>7. Progress'
  <2> DEFINE t == run.order[run.at]
  <2>1. ASSUME errors = {}, NEW j \in 1..(run.at - 1), j \in DOMAIN run.order,
               NEW u, u = run.order[j]
        PROVE  Exported(u)'
    <3>1. Exported(u) BY <2>1 DEF ExportInv, Progress
    <3> QED BY <1>1, <1>2, <2>1, <3>1, EarlierStays DEF InItem
  <2>2. ASSUME errors = {}, run.with, NEW y \in Backups!Range(Atts[t]),
               y \notin Backups!Range(Tail(run.left))
        PROVE  <<run.names[t], y>> \in DOMAIN folder'
               /\ folder'[<<run.names[t], y>>] = <<y, TRUE>>
    <3>1. CASE y = Head(run.left) BY <1>2, <2>2, <3>1 DEF Backups!Item
    <3>2. CASE y # Head(run.left)
      <4>1. Whole(<<run.names[t], y>>, y) BY <1>2, <2>2, <3>2 DEF ExportInv, Progress
      <4>2. <<run.names[t], y>> # Backups!AttKey BY <1>2, <3>2
      <4> QED BY <2>2, <4>1, <4>2 DEF Whole
    <3> QED BY <3>1, <3>2
  <2>3. errors = {} /\ run.with =>
           \A y \in Backups!Range(Atts[t]) :
              \/ \E i \in DOMAIN Tail(run.left) : y = Tail(run.left)[i]
              \/ <<run.names[t], y>> \in DOMAIN folder'
                  /\ folder'[<<run.names[t], y>>] = <<y, TRUE>>
    BY <2>2 DEF Backups!Range
  <2>4. ASSUME errors = {}, run.with, NEW y \in Backups!Range(Atts[t])
        PROVE  \/ y \in Backups!Range(run.left)'
               \/ Whole(<<run.names[run.order[run.at]], y>>, y)'
    <3>1. CASE \E i \in DOMAIN Tail(run.left) : y = Tail(run.left)[i]
      BY <1>1, <3>1 DEF Backups!Range
    <3>2. CASE <<run.names[t], y>> \in DOMAIN folder'
               /\ folder'[<<run.names[t], y>>] = <<y, TRUE>>
      BY <1>1, <3>2 DEF Whole
    <3> QED BY <2>3, <2>4, <3>1, <3>2
  <2>5. ASSUME errors = {}
        PROVE  \A j \in 1..(run.at - 1)' :
                  j \in (DOMAIN run.order)' => Exported(run.order[j])'
    BY <1>1, <2>1, <2>5
  <2> QED BY <1>1, <2>4, <2>5 DEF Progress, Backups!Range
<1> QED BY <1>3, <1>4, <1>5, <1>6, <1>7 DEF ExportInv
(* A conversation is done: written, or given up with an error. *)
LEMMA ConversationStep ==
    ASSUME Backups!BackupConstants, ExportInv,
           Backups!MessagesFail \/ Backups!WriteConversation \/ Backups!WriteFails
    PROVE  ExportInv'
<1> DEFINE t == Backups!Item
           k == <<run.names[Backups!Item], "text">>
<1>1. /\ run.pc \in {"messages", "atts"} /\ run.pc \in InItem /\ ~run.media
      /\ UNCHANGED backupSlot
  BY DEF Backups!MessagesFail, Backups!WriteConversation, Backups!WriteFails, Backups!Moves,
         Backups!Goto, InItem, ExportInv, Placed
<1>2. /\ t \in Threads /\ t = run.order[run.at] /\ k \in Backups!Keys
      /\ \A c : Content(k, c)
  BY <1>1, TextKeyIs DEF Backups!Item
<1>3. CASE Backups!MessagesFail \/ Backups!WriteFails
  <2>1. run' = [run EXCEPT !.pc = "head", !.at = @ + 1, !.errors = @ \union {t}]
    BY <1>3 DEF Backups!MessagesFail, Backups!WriteFails, Backups!Moves, Backups!Goto,
                Backups!Next1, ExportInv, RunTypes
  <2>2. FolderOK'
    <3>1. CASE UNCHANGED folder BY <3>1, SameFolder
    <3>2. CASE folder' = Backups!Put(k, <<t, FALSE>>) BY <1>2, <3>2, PutStep DEF ExportInv
    <3> QED BY <1>3, <3>1, <3>2
            DEF Backups!MessagesFail, Backups!WriteFails, Backups!Moves, Backups!Goto
  <2> DEFINE errors == run.errors \union {t}
  <2>3. errors \in SUBSET (Threads \union Media \union Attachments \union {0})
        /\ errors # {}
    BY <1>2 DEF ExportInv, RunTypes
  <2>4. run' = [run EXCEPT !.pc = "head", !.at = @ + 1, !.errors = errors] BY <2>1
  <2> HIDE DEF errors, t
  <2> QED BY <1>1, <2>2, <2>3, <2>4, NextItem
<1>4. CASE Backups!WriteConversation
  <2>1. /\ run.pc = "atts" /\ run.left = <<>>
        /\ run' = [run EXCEPT !.pc = "head", !.at = @ + 1]
        /\ folder' = Backups!Put(k, <<t, TRUE>>)
    BY <1>4 DEF Backups!WriteConversation, Backups!Goto, Backups!Next1, ExportInv, RunTypes
  <2>2. /\ FolderOK'
        /\ DOMAIN folder' = DOMAIN folder \union {k} /\ folder'[k] = <<t, TRUE>>
        /\ \A x \in DOMAIN folder : x # k => folder'[x] = folder[x]
    BY <1>2, <2>1, PutStep DEF ExportInv
  <2>3. run' = [run EXCEPT !.pc = "head", !.at = @ + 1, !.errors = run.errors]
        /\ run.errors \in SUBSET (Threads \union Media \union Attachments \union {0})
    BY <2>1 DEF ExportInv, RunTypes
  <2>4. run'.media = run.media /\ run'.with = run.with /\ run'.names = run.names
    BY <2>1 DEF ExportInv, RunTypes
  <2>5. ASSUME NEW j \in 1..run.at, NEW u, u = run.order[j], j < run.at => Exported(u),
               run.errors = {}
        PROVE  Exported(u)'
    <3>1. run.at \in Nat BY DEF ExportInv, RunTypes
    <3>2. CASE j < run.at
      <4>1. j \in 1..(run.at - 1) BY <3>1, <3>2
      <4>2. \A x \in DOMAIN folder : x # k => x \in DOMAIN folder' /\ folder'[x] = folder[x] BY <2>2
      <4> QED BY <1>1, <2>4, <2>5, <3>2, <4>1, <4>2, EarlierStays
    <3>3. CASE j = run.at
      <4>1. u = t BY <1>2, <2>5, <3>3
      <4>2. ASSUME run.with, NEW y \in Backups!Range(Atts[u])
            PROVE  Whole(<<run.names[u], y>>, y)
        <5>1. Backups!Range(run.left) = {} BY <2>1 DEF Backups!Range
        <5> QED BY <1>1, <1>2, <2>1, <2>5, <4>1, <4>2, <5>1 DEF ExportInv, Progress
      <4>3. ASSUME run.with, NEW y \in Backups!Range(Atts[u])
            PROVE  <<run.names[u], y>> \in DOMAIN folder'
                   /\ folder'[<<run.names[u], y>>] = <<y, TRUE>>
        <5>1. y # "text"
          <6>1. Atts[u] \in Seq(Attachments) BY <1>2, <4>1 DEF Backups!BackupConstants, Attachments
          <6>2. y \in Attachments BY <4>3, <6>1 DEF Backups!Range
          <6> QED BY <6>2 DEF Attachments
        <5>2. <<run.names[u], y>> # k BY <5>1
        <5> QED BY <2>2, <4>2, <4>3, <5>2 DEF Whole
      <4>4. <<run.names[u], "text">> \in DOMAIN folder'
            /\ folder'[<<run.names[u], "text">>] = <<u, TRUE>>
        BY <2>2, <4>1
      <4> HIDE DEF t, k
      <4> QED BY <1>1, <2>4, <4>3, <4>4 DEF Exported, Whole, Backups!Range
    <3> QED BY <3>1, <3>2, <3>3
  <2> QED BY <1>1, <2>2, <2>3, <2>5, NextItem
<1> QED BY <1>3, <1>4

(* A media file is skipped, copied or given up. *)
LEMMA FileStep ==
    ASSUME Backups!BackupConstants, ExportInv,
           Backups!SkipFile \/ Backups!FileDownloaded \/ Backups!FileFails
    PROVE  ExportInv'
<1> DEFINE t == Backups!Item
           k == Backups!MediaKey
<1>1. CASE Backups!Finish("cancelled") BY <1>1, EndStep, PlacesAre DEF Backups!Finish
<1>2. CASE ~Backups!Finish("cancelled")
  <2>1. /\ run.media /\ UNCHANGED backupSlot
        /\ run.pc \in InItem \/ (run.pc = "head" /\ run.at <= Len(run.order))
    BY <1>2 DEF Backups!SkipFile, Backups!FileDownloaded, Backups!FileFails, Backups!Moves,
                Backups!LoopHead, Backups!Goto, InItem
  <2>2. /\ t \in Media /\ t = run.order[run.at] /\ k = <<<<"media", 0>>, Path[t]>>
        /\ k \in Backups!Keys /\ Content(k, t)
    BY <2>1, MediaKeyIs DEF Backups!Item
  <2>3. CASE Backups!FileFails
    <3> DEFINE errors == run.errors \union {t}
    <3>1. run' = [run EXCEPT !.pc = "head", !.at = @ + 1, !.errors = errors]
      BY <2>3 DEF Backups!FileFails, Backups!Goto, Backups!Next1, ExportInv, RunTypes
    <3>2. FolderOK'
      <4>1. CASE UNCHANGED folder BY <4>1, SameFolder
      <4>2. CASE folder' = Backups!Put(k, <<t, FALSE>>) BY <2>2, <4>2, PutStep DEF ExportInv
      <4> QED BY <2>3, <4>1, <4>2 DEF Backups!FileFails
    <3>3. errors \in SUBSET (Threads \union Media \union Attachments \union {0})
          /\ errors # {}
      BY <2>2 DEF ExportInv, RunTypes
    <3> HIDE DEF errors, t
    <3> QED BY <2>1, <3>1, <3>2, <3>3, NextItem
  <2>4. CASE Backups!SkipFile \/ Backups!FileDownloaded
    <3>1. run' = [run EXCEPT !.pc = "head", !.at = @ + 1]
      BY <1>2, <2>4 DEF Backups!SkipFile, Backups!FileDownloaded, Backups!Moves,
                        Backups!Goto, Backups!Next1
    <3>2. run' = [run EXCEPT !.pc = "head", !.at = @ + 1, !.errors = run.errors]
          /\ run.errors \in SUBSET (Threads \union Media \union Attachments \union {0})
      BY <3>1 DEF ExportInv, RunTypes
    <3>3. /\ FolderOK' /\ k \in DOMAIN folder' /\ folder'[k][2]
          /\ \A x \in DOMAIN folder : x \in DOMAIN folder' /\ (x # k => folder'[x] = folder[x])
      <4>1. CASE Backups!SkipFile
        <5>1. UNCHANGED folder /\ k \in DOMAIN folder
              /\ (IF folder[k][2] THEN Size[folder[k][1]] ELSE 0) = Size[t]
          BY <4>1 DEF Backups!SkipFile, Backups!Moves, Backups!HasSize, Backups!Holds,
                      Backups!FileSize
        <5>2. Size[t] # 0 BY <2>2 DEF Backups!BackupConstants
        <5>3. folder[k][2] BY <5>1, <5>2
        <5> QED BY <5>1, <5>3, SameFolder
      <4>2. CASE Backups!FileDownloaded
        <5>1. folder' = Backups!Put(k, <<t, TRUE>>) BY <1>2, <4>2 DEF Backups!FileDownloaded
        <5>2. /\ FolderOK'
              /\ DOMAIN folder' = DOMAIN folder \union {k} /\ folder'[k] = <<t, TRUE>>
              /\ \A x \in DOMAIN folder : x # k => folder'[x] = folder[x]
          BY <2>2, <5>1, PutStep DEF ExportInv
        <5> HIDE DEF t, k
        <5> QED BY <5>2
      <4> QED BY <2>4, <4>1, <4>2
    <3>4. run'.media BY <2>1, <3>1 DEF ExportInv, RunTypes
    <3>5. ASSUME NEW j \in 1..run.at, NEW u, u = run.order[j], j < run.at => Exported(u)
          PROVE  Exported(u)'
      <4> DEFINE l == <<<<"media", 0>>, Path[u]>>
      <4>1. l = k \/ (l \in DOMAIN folder /\ folder[l][2])
        <5>1. run.at \in Nat BY DEF ExportInv, RunTypes
        <5>2. CASE j < run.at BY <2>1, <3>5, <5>2 DEF Exported
        <5>3. CASE j = run.at BY <2>2, <3>5, <5>3
        <5> QED BY <5>1, <5>2, <5>3
      <4> HIDE DEF t, k
      <4>2. l \in DOMAIN folder' /\ folder'[l][2] BY <3>3, <4>1
      <4> QED BY <3>4, <4>2 DEF Exported
    <3> QED BY <2>1, <3>2, <3>3, <3>5, NextItem
  <2> QED BY <2>3, <2>4
<1> QED BY <1>1, <1>2

(* An attachment is skipped, copied or given up. *)
LEMMA AttachmentStep ==
    ASSUME Backups!BackupConstants, ExportInv,
           Backups!SkipAttachment \/ Backups!AttachmentDownloaded \/ Backups!AttachmentFails
    PROVE  ExportInv'
<1> DEFINE h == Head(run.left)
           k == Backups!AttKey
           E == Threads \union Media \union Attachments \union {0}
<1>1. /\ run.pc \in {"atts", "download"} /\ run.pc \in InItem /\ ~run.media
      /\ run.left # <<>> /\ UNCHANGED backupSlot
  BY DEF Backups!SkipAttachment, Backups!AttachmentDownloaded, Backups!AttachmentFails,
         Backups!AttsLeft, Backups!Moves, Backups!Goto, InItem, ExportInv, Placed
<1>2. h \in Attachments /\ k \in Backups!Keys /\ Content(k, h)
      /\ k[1] \in Backups!Names /\ k[2] = h
  BY <1>1, AttKeyIs, TextKeyIs
<1>3. run.errors \in SUBSET E BY DEF ExportInv, RunTypes
<1>4. ASSUME run' = Backups!AttError, FolderOK' PROVE ExportInv'
  <2> DEFINE errors == run.errors \union {h}
  <2>1. run' = [run EXCEPT !.pc = "atts", !.left = Tail(@), !.errors = errors]
    BY <1>4 DEF Backups!AttError, Backups!NextAtt, ExportInv, RunTypes
  <2>2. errors \in SUBSET E /\ errors # {} BY <1>2, <1>3
  <2> HIDE DEF errors
  <2> QED BY <1>1, <1>4, <2>1, <2>2, NextAttachment
<1>5. CASE Backups!SkipAttachment
  <2>1. /\ run' = [run EXCEPT !.left = Tail(@)] /\ UNCHANGED folder /\ run.pc = "atts"
        /\ k \in DOMAIN folder /\ folder[k][2]
    BY <1>5 DEF Backups!SkipAttachment, Backups!AttsLeft, Backups!SameSize, Backups!Holds,
                Backups!Moves, Backups!Goto
  <2>2. run' = [run EXCEPT !.pc = "atts", !.left = Tail(@), !.errors = run.errors]
    BY <2>1 DEF ExportInv, RunTypes
  <2>3. folder[k] = <<h, TRUE>>
    <3>1. /\ folder[k] = <<folder[k][1], folder[k][2]>> /\ folder[k][2] \in BOOLEAN
          /\ Content(k, folder[k][1])
      BY <2>1 DEF ExportInv, FolderOK
    <3>2. folder[k][1] = h BY <1>2, <3>1 DEF Content
    <3>3. folder[k][2] = TRUE BY <2>1, <3>1
    <3> QED BY <3>1, <3>2, <3>3
  <2> QED BY <1>1, <1>3, <2>1, <2>2, <2>3, SameFolder, NextAttachment
<1>6. CASE Backups!AttachmentDownloaded
  <2>1. CASE Backups!Aborted
    BY <1>4, <1>6, <2>1, SameFolder DEF Backups!AttachmentDownloaded, Backups!Moves,
                                        Backups!Goto
  <2>2. CASE ~Backups!Aborted
    <3>1. run' = Backups!NextAtt /\ folder' = Backups!Put(k, <<h, TRUE>>)
      BY <1>6, <2>2 DEF Backups!AttachmentDownloaded, Backups!Goto
    <3>2. run' = [run EXCEPT !.pc = "atts", !.left = Tail(@), !.errors = run.errors]
      BY <3>1 DEF Backups!NextAtt, ExportInv, RunTypes
    <3>3. /\ FolderOK'
          /\ DOMAIN folder' = DOMAIN folder \union {k} /\ folder'[k] = <<h, TRUE>>
          /\ \A x \in DOMAIN folder : x # k => folder'[x] = folder[x]
      BY <1>2, <3>1, PutStep DEF ExportInv
    <3> QED BY <1>1, <1>3, <3>2, <3>3, NextAttachment
  <2> QED BY <2>1, <2>2
<1>7. CASE Backups!AttachmentFails
  <2>1. run' = Backups!AttError BY <1>7 DEF Backups!AttachmentFails, Backups!Goto
  <2>2. FolderOK'
    <3>1. CASE UNCHANGED folder BY <3>1, SameFolder
    <3>2. CASE folder' = Backups!Put(k, <<h, FALSE>>) BY <1>2, <3>2, PutStep DEF ExportInv
    <3> QED BY <1>7, <3>1, <3>2 DEF Backups!AttachmentFails
  <2> QED BY <1>4, <2>1, <2>2
<1> QED BY <1>5, <1>6, <1>7

LEMMA ExportSteps ==
    ASSUME Backups!BackupConstants, ExportInv, Backups!ExportStep
    PROVE  ExportInv'
<1>1. CASE Backups!ListFails \/ Backups!LoopEnds \/ Backups!LoopStops \/ Backups!AttsStop
  <2>1. \E what \in Backups!Ended : /\ Backups!Finish(what)
                                    /\ what = "complete" =>
                                          run.pc = "head" /\ run.at > Len(run.order)
    BY <1>1, PlacesAre
       DEF Backups!ListFails, Backups!LoopEnds, Backups!LoopStops, Backups!AttsStop
  <2> QED BY <2>1, EndStep DEF Backups!Finish
<1>2. ASSUME NEW order, Backups!ListAnswers(order) PROVE ExportInv'
  BY <1>2, ListStep
<1> QED BY <1>1, <1>2, PlaceStep, AskStep, MessagesStep, ConversationStep, FileStep,
           AttachmentStep DEF Backups!ExportStep

(* The handlers: a new export, a cancel, a crash. *)
LEMMA HandlerStep ==
    ASSUME Backups!BackupConstants, ExportInv,
           Backups!Crash \/ Backups!Cancel
             \/ \E media, with \in BOOLEAN : Backups!Start(media, with)
    PROVE  ExportInv'
<1>1. ASSUME NEW media \in BOOLEAN, NEW with \in BOOLEAN, Backups!Start(media, with)
      PROVE  ExportInv'
  <2>1. /\ run.id \in 0..MaxRuns /\ run.id < MaxRuns /\ MaxRuns \in Nat
        /\ backupSlot' = [id |-> run.id + 1, aborted |-> FALSE] /\ UNCHANGED folder
        /\ run' = [id |-> run.id + 1, pc |-> "list", media |-> media, with |-> with,
                   order |-> <<>>, at |-> 1, left |-> <<>>, sized |-> {}, names |-> <<>>,
                   errors |-> {}]
    BY <1>1 DEF Backups!Start, Backups!NoRun, ExportInv, RunTypes, Backups!BackupConstants
  <2>2. <<>> \in Seq(Threads \union Media) /\ <<>> \in Seq(Attachments) OBVIOUS
  <2>3. DOMAIN <<>> = {} /\ Len(<<>>) = 0 OBVIOUS
  <2>4. <<>> \in NameMaps
    <3>1. <<>> \in [{} -> Backups!Names] BY <2>3
    <3> QED BY <3>1 DEF NameMaps
  <2>5. run.id + 1 \in 1..MaxRuns /\ run.id + 1 \in 0..MaxRuns BY <2>1
  <2>6. RunTypes' BY <2>1, <2>2, <2>4, <2>5, PlacesAre DEF RunTypes, Places
  <2>7. Listed' /\ Placed' /\ Named' /\ Progress'
    BY <2>1, <2>3 DEF Listed, Placed, Named, Progress, InItem
  <2>8. Slotted'
    <3>1. backupSlot' \in [id : Nat, aborted : BOOLEAN] BY <2>1
    <3>2. backupSlot' # None BY <3>1 DEF Backups!BackupConstants
    <3> QED BY <2>1, <2>5, <3>2, PlacesAre DEF Slotted
  <2> QED BY <2>1, <2>6, <2>7, <2>8, SameFolder DEF ExportInv
<1>2. CASE Backups!Cancel
  <2>1. UNCHANGED <<folder, run>> BY <1>2 DEF Backups!Cancel
  <2>2. backupSlot' = backupSlot \/ (backupSlot # None /\ backupSlot' = [backupSlot EXCEPT !.aborted = TRUE])
    BY <1>2 DEF Backups!Cancel
  <2>3. Slotted'
    <3>1. CASE backupSlot' = backupSlot BY <2>1, <3>1 DEF ExportInv, Slotted
    <3>2. CASE backupSlot # None /\ backupSlot' = [backupSlot EXCEPT !.aborted = TRUE]
      <4>1. backupSlot \in [id : 1..MaxRuns, aborted : BOOLEAN] /\ backupSlot.id = run.id
        BY <3>2 DEF ExportInv, Slotted
      <4>2. backupSlot' \in [id : 1..MaxRuns, aborted : BOOLEAN] /\ backupSlot'.id = run.id
        BY <3>2, <4>1
      <4>3. backupSlot' # None
        <5>1. backupSlot' \in [id : Nat, aborted : BOOLEAN] BY <4>2 DEF Backups!BackupConstants
        <5> QED BY <5>1 DEF Backups!BackupConstants
      <4> QED BY <2>1, <3>2, <4>2, <4>3 DEF ExportInv, Slotted
    <3> QED BY <2>2, <3>1, <3>2
  <2>4. RunTypes' /\ Listed' /\ Placed' /\ Named'
    BY <2>1 DEF ExportInv, RunTypes, Listed, Placed, Named
  <2>5. Progress' BY <2>1, SameExported, ProgressKept DEF ExportInv, Progress
  <2> QED BY <2>1, <2>3, <2>4, <2>5, SameFolder DEF ExportInv
<1>3. CASE Backups!Crash
  <2>1. run.pc \in Backups!Awaits /\ backupSlot' = None /\ run' = [run EXCEPT !.pc = "error"]
    BY <1>3 DEF Backups!Crash
  <2>2. FolderOK'
    <3>1. CASE UNCHANGED folder BY <3>1, SameFolder
    <3>2. CASE run.pc = "download" /\ run.media
               /\ folder' = Backups!Put(Backups!MediaKey, <<Backups!Item, FALSE>>)
      BY <3>2, MediaKeyIs, PutStep DEF InItem, ExportInv
    <3>3. CASE run.pc = "download" /\ ~run.media
               /\ folder' = Backups!Put(Backups!AttKey, <<Head(run.left), FALSE>>)
      <4>1. run.left # <<>> BY <3>3 DEF ExportInv, Placed
      <4> QED BY <3>3, <4>1, AttKeyIs, PutStep DEF InItem, ExportInv
    <3> QED BY <1>3, <3>1, <3>2, <3>3 DEF Backups!Crash
  <2>3. "error" \in Backups!Ended /\ "error" # "complete" BY PlacesAre
  <2> QED BY <2>1, <2>2, <2>3, EndStep
<1> QED BY <1>1, <1>2, <1>3

(* What the window does leaves the export alone. *)
LEMMA RestStays ==
    ASSUME \/ Backups!CheckFolder \/ Backups!StartRefused \/ Backups!Open
           \/ Backups!ClickExport \/ Backups!ConfirmYes \/ Backups!ConfirmNo
           \/ Backups!ClickCancel \/ Backups!Close \/ Backups!HandleReply
           \/ Backups!HandleNotification \/ UNCHANGED Backups!vars
    PROVE  UNCHANGED <<folder, backupSlot, run>>
  BY DEF Backups!CheckFolder, Backups!StartRefused, Backups!Open, Backups!ClickExport,
         Backups!ConfirmYes, Backups!ConfirmNo, Backups!ClickCancel, Backups!Close,
         Backups!HandleReply, Backups!HandleNotification, Backups!WindowOnly, Backups!vars

LEMMA ExportKept ==
    Backups!BackupConstants /\ ExportInv /\ [Backups!Next]_(Backups!vars) => ExportInv'
<1> SUFFICES ASSUME Backups!BackupConstants, ExportInv, [Backups!Next]_(Backups!vars)
             PROVE  ExportInv'
  OBVIOUS
<1>1. ASSUME UNCHANGED <<folder, backupSlot, run>> PROVE ExportInv'
  <2>1. RunTypes' /\ Listed' /\ Placed' /\ Named' /\ Slotted'
    BY <1>1 DEF ExportInv, RunTypes, Listed, Placed, Named, Slotted
  <2>2. Progress' BY <1>1, ProgressKept DEF ExportInv, Progress
  <2> QED BY <1>1, <2>1, <2>2, SameFolder DEF ExportInv
<1> QED BY <1>1, RestStays, HandlerStep, ExportSteps DEF Backups!Next

(* An export that ends without an error has everything in the folder *)
(* (thread-export.ts exportThreads, gallery-export.ts exportGallery), whatever *)
(* earlier, cancelled or crashed exports left there: for any conversations, *)
(* attachments and media files. *)
THEOREM ExportsAreHonest ==
    ASSUME Backups!BackupConstants
    PROVE  Backups!Spec => []Backups!SummaryIsHonest
<1>1. ExportInv => Backups!SummaryIsHonest
  <2> SUFFICES ASSUME ExportInv, run.pc = "complete", run.errors = {},
                      NEW x \in Backups!Range(run.order)
               PROVE  IF run.media
                      THEN LET k == <<<<"media", 0>>, Path[x]>> IN
                           Backups!Holds(k) /\ folder[k][2] /\ Path[folder[k][1]] = Path[x]
                      ELSE /\ Backups!Holds(<<run.names[x], "text">>)
                           /\ folder[<<run.names[x], "text">>] = <<x, TRUE>>
                           /\ run.with => \A y \in Backups!Range(Atts[x]) :
                                  Backups!Holds(<<run.names[x], y>>)
                                  /\ folder[<<run.names[x], y>>] = <<y, TRUE>>
    BY DEF Backups!SummaryIsHonest
  <2>1. PICK j \in DOMAIN run.order : x = run.order[j] BY DEF Backups!Range
  <2>2. j \in 1..(run.at - 1) BY <2>1 DEF ExportInv, RunTypes, Placed
  <2>3. Exported(x) BY <2>1, <2>2 DEF ExportInv, Progress
  <2>4. CASE run.media
    <3> DEFINE k == <<<<"media", 0>>, Path[x]>>
    <3>1. k \in DOMAIN folder /\ folder[k][2] BY <2>3, <2>4 DEF Exported
    <3>2. k[1] = <<"media", 0>> /\ k[2] = Path[x] OBVIOUS
    <3>3. Path[folder[k][1]] = Path[x] BY <3>1, <3>2 DEF ExportInv, FolderOK, Content
    <3> QED BY <2>4, <3>1, <3>3 DEF Backups!Holds
  <2>5. CASE ~run.media BY <2>3, <2>5 DEF Exported, Whole, Backups!Holds
  <2> QED BY <2>4, <2>5
<1> QED BY <1>1, BackupInit, ExportKept, PTL DEF Backups!Spec

(* Once told to stop, an export writes at most the text of a conversation. *)
LEMMA AbortedWritesText ==
    ASSUME Backups!BackupConstants, ExportInv, backupSlot # None, backupSlot.aborted, Backups!Next
    PROVE  \/ UNCHANGED folder
           \/ \E n \in Backups!Names : \E c : folder' = Backups!Put(<<n, "text">>, c)
<1>1. Backups!Aborted BY DEF Backups!Aborted
<1>2. CASE Backups!ExportStep
  <2>1. CASE Backups!WriteConversation \/ Backups!WriteFails
    <3>1. run.pc = "atts" /\ ~run.media /\ run.pc \in InItem
      BY <2>1 DEF Backups!WriteConversation, Backups!WriteFails, ExportInv, Placed, InItem
    <3>2. run.names[Backups!Item] \in Backups!Names BY <3>1, TextKeyIs
    <3>3. \E c : folder' = Backups!Put(<<run.names[Backups!Item], "text">>, c)
      BY <2>1 DEF Backups!WriteConversation, Backups!WriteFails
    <3> QED BY <3>2, <3>3
  <2>2. CASE Backups!AttachmentDownloaded \/ Backups!AttachmentFails
             \/ Backups!FileDownloaded \/ Backups!FileFails
    BY <1>1, <2>2 DEF Backups!AttachmentDownloaded, Backups!AttachmentFails,
                      Backups!FileDownloaded, Backups!FileFails, Backups!Moves, Backups!Finish
  <2>3. CASE Backups!ListFails \/ Backups!ContactsSettle \/ Backups!LoopEnds \/ Backups!LoopStops
             \/ Backups!AttsStop \/ \E order : Backups!ListAnswers(order)
    BY <2>3 DEF Backups!ListFails, Backups!ContactsSettle, Backups!LoopEnds, Backups!LoopStops,
                Backups!AttsStop, Backups!ListAnswers, Backups!Moves, Backups!Finish
  <2>4. CASE Backups!AskMessages \/ Backups!MessagesAnswer \/ Backups!MessagesFail
             \/ Backups!SkipAttachment \/ Backups!FetchAttachment \/ Backups!SkipFile
             \/ Backups!FetchFile \/ \E ok \in BOOLEAN : Backups!SizesSettle(ok)
    BY <2>4 DEF Backups!AskMessages, Backups!MessagesAnswer, Backups!MessagesFail,
                Backups!SkipAttachment, Backups!FetchAttachment, Backups!SkipFile,
                Backups!FetchFile, Backups!SizesSettle, Backups!Moves, Backups!Finish
  <2> QED BY <1>2, <2>1, <2>2, <2>3, <2>4 DEF Backups!ExportStep
<1>3. CASE Backups!Crash \/ Backups!Cancel
           \/ \E media, with \in BOOLEAN : Backups!Start(media, with)
  BY <1>1, <1>3 DEF Backups!Crash, Backups!Cancel, Backups!Start
<1> QED BY <1>2, <1>3, RestStays DEF Backups!Next

(* Once an export is told to stop it copies no further attachment and no *)
(* further media file (handlers.ts backup.cancel and the checks of the signal *)
(* in both loops): for any conversations, attachments and media files. *)
THEOREM CancelIsHeeded ==
    ASSUME Backups!BackupConstants
    PROVE  Backups!Spec => Backups!CancelStopsCopies
<1> DEFINE Stop == backupSlot # None /\ backupSlot.aborted =>
                      \A k \in Backups!Copies :
                         (k \in DOMAIN folder') = Backups!Holds(k)
                         /\ (Backups!Holds(k) => folder'[k] = folder[k])
<1>1. ExportInv /\ [Backups!Next]_(Backups!vars) => [Stop]_(Backups!vars)
  <2> SUFFICES ASSUME ExportInv, Backups!Next, backupSlot # None, backupSlot.aborted,
                      NEW k \in Backups!Copies
               PROVE  /\ (k \in DOMAIN folder') = Backups!Holds(k)
                      /\ Backups!Holds(k) => folder'[k] = folder[k]
    OBVIOUS
  <2>1. CASE UNCHANGED folder BY <2>1 DEF Backups!Holds
  <2>2. ASSUME NEW n \in Backups!Names, NEW c, folder' = Backups!Put(<<n, "text">>, c)
        PROVE  /\ (k \in DOMAIN folder') = Backups!Holds(k)
               /\ Backups!Holds(k) => folder'[k] = folder[k]
    <3>1. k # <<n, "text">>
      <4>1. CASE k \in Backups!Names \X UNION {Backups!Range(Atts[t]) : t \in Threads}
        <5>1. PICK t \in Threads : k[2] \in Backups!Range(Atts[t]) BY <4>1
        <5>2. Atts[t] \in Seq(Attachments) BY DEF Backups!BackupConstants, Attachments
        <5>3. k[2] \in Attachments BY <5>1, <5>2 DEF Backups!Range
        <5>4. k[2] # "text" BY <5>3 DEF Attachments
        <5> QED BY <5>4
      <4>2. CASE k \in {<<"media", 0>>} \X {Path[m] : m \in Media}
        <5>1. k[1] = <<"media", 0>> BY <4>2
        <5>2. <<"media", 0>> \notin Backups!Names
          <6>1. Backups!Cardinality(Threads) = Cardinality(Threads)
            BY DEF Backups!Cardinality, Cardinality, Backups!IsFiniteSet, IsFiniteSet
          <6>2. IsFiniteSet(Threads)
            BY DEF Backups!BackupConstants, Backups!IsFiniteSet, IsFiniteSet
          <6>3. Cardinality(Threads) \in Nat BY <6>2, FS_CardinalityType
          <6>4. 0 \notin 1..Cardinality(Threads) BY <6>3
          <6> QED BY <6>1, <6>4 DEF Backups!Names
        <5> QED BY <5>1, <5>2
      <4> QED BY <4>1, <4>2 DEF Backups!Copies
    <3> QED BY <2>2, <3>1 DEF Backups!Put, Backups!Holds
  <2> QED BY <2>1, <2>2, AbortedWritesText
<1> QED BY <1>1, BackupInit, ExportKept, PTL DEF Backups!Spec, Backups!CancelStopsCopies

(* The calls and messages between the window and the main process, and the *)
(* window itself.  A reply that an export has started is followed by its end *)
(* unless it goes on. *)
Ids == 1..MaxRuns \union {None}
CallSet == [op : {"check", "start", "cancel"}, view : Nat \ {0}, id : Ids]
MessageSet == [op : {"unwritable", "empty", "used", "started", "refused"} \union Backups!Ended,
               view : Nat, id : Ids]
Phases == {"closed", "configure", "confirm", "running", "complete", "error"}
TalkTypes ==
    /\ backupCalls \in Seq(CallSet) /\ inbox \in Seq(MessageSet)
    /\ view \in [phase : Phases, id : Ids] /\ views \in Nat
    /\ view.phase # "closed" => views # 0
OutcomeAfter(i) ==
    \E j \in DOMAIN inbox : i < j /\ inbox[j].view = 0 /\ inbox[j].id = inbox[i].id
StartsGoOn ==
    \A i \in DOMAIN inbox : inbox[i].op = "started" =>
        inbox[i].view # 0 /\ ((backupSlot # None /\ backupSlot.id = inbox[i].id) \/ OutcomeAfter(i))
TalkInv == TalkTypes /\ StartsGoOn /\ Backups!RunningIsLive

LEMMA RangeTail ==
    ASSUME NEW S, NEW s \in Seq(S), s # <<>>, NEW x \in Backups!Range(s), x # Head(s)
    PROVE  x \in Backups!Range(Tail(s))
<1>1. PICK i \in DOMAIN s : x = s[i] BY DEF Backups!Range
<1>2. i \in 1..Len(s) /\ i # 1 BY <1>1
<1>3. i - 1 \in DOMAIN Tail(s) /\ Tail(s)[i - 1] = x BY <1>1, <1>2
<1> QED BY <1>3 DEF Backups!Range

LEMMA RangeAppend ==
    ASSUME NEW S, NEW s \in Seq(S), NEW e
    PROVE  /\ \A x \in Backups!Range(s) : x \in Backups!Range(Append(s, e))
           /\ e \in Backups!Range(Append(s, e))
<1>1. ASSUME NEW x \in Backups!Range(s) PROVE x \in Backups!Range(Append(s, e))
  <2>1. PICK i \in DOMAIN s : x = s[i] BY DEF Backups!Range
  <2>2. i \in DOMAIN Append(s, e) /\ Append(s, e)[i] = x BY <2>1
  <2> QED BY <2>2 DEF Backups!Range
<1>2. Len(s) + 1 \in DOMAIN Append(s, e) /\ Append(s, e)[Len(s) + 1] = e OBVIOUS
<1> QED BY <1>1, <1>2 DEF Backups!Range

(* A message is appended: what was to come after the others still is. *)
LEMMA StartsAppended ==
    ASSUME inbox \in Seq(MessageSet), StartsGoOn, NEW m \in MessageSet,
           inbox' = Append(inbox, m),
           m.op = "started" => m.view # 0 /\ backupSlot' # None /\ backupSlot'.id = m.id,
           backupSlot # None => (backupSlot' # None /\ backupSlot'.id = backupSlot.id) \/ (m.view = 0 /\ m.id = backupSlot.id)
    PROVE  StartsGoOn'
<1>1. /\ DOMAIN inbox' = 1..(Len(inbox) + 1) /\ DOMAIN inbox = 1..Len(inbox)
      /\ Len(inbox) \in Nat
      /\ \A i \in DOMAIN inbox : inbox'[i] = inbox[i]
      /\ inbox'[Len(inbox) + 1] = m
  OBVIOUS
<1> SUFFICES ASSUME NEW i \in DOMAIN inbox', inbox'[i].op = "started"
             PROVE  inbox'[i].view # 0 /\ ((backupSlot' # None /\ backupSlot'.id = inbox'[i].id)
                                           \/ \E j \in DOMAIN inbox' : i < j /\ inbox'[j].view = 0
                                                     /\ inbox'[j].id = inbox'[i].id)
  BY DEF StartsGoOn, OutcomeAfter
<1>2. CASE i = Len(inbox) + 1 BY <1>1, <1>2
<1>3. CASE i \in DOMAIN inbox
  <2>1. inbox'[i] = inbox[i] BY <1>1, <1>3
  <2>2. inbox[i].view # 0 /\ ((backupSlot # None /\ backupSlot.id = inbox[i].id) \/ OutcomeAfter(i))
    BY <1>3, <2>1 DEF StartsGoOn
  <2>3. CASE OutcomeAfter(i)
    <3>1. PICK j \in DOMAIN inbox : i < j /\ inbox[j].view = 0 /\ inbox[j].id = inbox[i].id
      BY <2>3 DEF OutcomeAfter
    <3>2. j \in DOMAIN inbox' /\ inbox'[j] = inbox[j] BY <1>1
    <3> QED BY <2>1, <2>2, <3>1, <3>2
  <2>4. CASE backupSlot # None /\ backupSlot.id = inbox[i].id
    <3>1. CASE backupSlot' # None /\ backupSlot'.id = backupSlot.id BY <2>1, <2>2, <2>4, <3>1
    <3>2. CASE m.view = 0 /\ m.id = backupSlot.id
      <4>1. Len(inbox) + 1 \in DOMAIN inbox' /\ i < Len(inbox) + 1 BY <1>1, <1>3
      <4> QED BY <1>1, <2>1, <2>2, <2>4, <3>2, <4>1
    <3> QED BY <2>4, <3>1, <3>2
  <2> QED BY <2>2, <2>3, <2>4
<1> QED BY <1>1, <1>2, <1>3

(* The oldest message is taken: it comes after no other. *)
LEMMA StartsTaken ==
    ASSUME inbox \in Seq(MessageSet), inbox # <<>>, StartsGoOn, inbox' = Tail(inbox),
           UNCHANGED backupSlot
    PROVE  StartsGoOn'
<1>1. /\ Len(inbox) \in Nat /\ DOMAIN inbox = 1..Len(inbox)
      /\ DOMAIN inbox' = 1..(Len(inbox) - 1)
      /\ \A i \in DOMAIN inbox' : inbox'[i] = inbox[i + 1]
  OBVIOUS
<1> SUFFICES ASSUME NEW i \in DOMAIN inbox', inbox'[i].op = "started"
             PROVE  inbox'[i].view # 0 /\ ((backupSlot # None /\ backupSlot.id = inbox'[i].id)
                                           \/ \E j \in DOMAIN inbox' : i < j /\ inbox'[j].view = 0
                                                     /\ inbox'[j].id = inbox'[i].id)
  BY DEF StartsGoOn, OutcomeAfter
<1>2. i + 1 \in DOMAIN inbox /\ inbox'[i] = inbox[i + 1] BY <1>1
<1>3. inbox[i + 1].view # 0
      /\ ((backupSlot # None /\ backupSlot.id = inbox[i + 1].id) \/ OutcomeAfter(i + 1))
  BY <1>2 DEF StartsGoOn
<1>4. CASE OutcomeAfter(i + 1)
  <2>1. PICK j \in DOMAIN inbox : /\ i + 1 < j /\ inbox[j].view = 0
                                  /\ inbox[j].id = inbox[i + 1].id
    BY <1>4 DEF OutcomeAfter
  <2>2. j - 1 \in DOMAIN inbox' /\ i < j - 1 /\ inbox'[j - 1] = inbox[j] BY <1>1, <2>1
  <2> QED BY <1>2, <1>3, <2>1, <2>2
<1> QED BY <1>2, <1>3, <1>4

(* An export step leaves the window's side alone, or ends the export and says *)
(* so. *)
LEMMA ExportTalks ==
    ASSUME ExportInv, Backups!ExportStep
    PROVE  /\ UNCHANGED <<backupCalls, view, views>> /\ backupSlot # None
           /\ \/ UNCHANGED <<backupSlot, inbox>>
              \/ \E what \in Backups!Ended :
                    backupSlot' = None /\ inbox' = Append(inbox, [op |-> what, view |-> 0, id |-> run.id])
<1>1. run.pc \notin Backups!Ended
  BY PlacesAre
     DEF Backups!ExportStep, Backups!ListAnswers, Backups!ListFails, Backups!ContactsSettle,
         Backups!LoopEnds, Backups!LoopStops, Backups!LoopHead, Backups!AskMessages,
         Backups!MessagesAnswer, Backups!MessagesFail, Backups!SizesSettle, Backups!AttsLeft,
         Backups!AttsStop, Backups!SkipAttachment, Backups!FetchAttachment,
         Backups!AttachmentDownloaded, Backups!AttachmentFails, Backups!WriteConversation,
         Backups!WriteFails, Backups!SkipFile, Backups!FetchFile, Backups!FileDownloaded,
         Backups!FileFails
<1>2. \/ UNCHANGED <<backupSlot, backupCalls, inbox, view, views>>
      \/ \E what \in Backups!Ended : Backups!Finish(what)
  BY PlacesAre
     DEF Backups!ExportStep, Backups!ListAnswers, Backups!ListFails, Backups!ContactsSettle,
         Backups!LoopEnds, Backups!LoopStops, Backups!AskMessages,
         Backups!MessagesAnswer, Backups!MessagesFail, Backups!SizesSettle,
         Backups!AttsStop, Backups!SkipAttachment, Backups!FetchAttachment,
         Backups!AttachmentDownloaded, Backups!AttachmentFails, Backups!WriteConversation,
         Backups!WriteFails, Backups!SkipFile, Backups!FetchFile, Backups!FileDownloaded,
         Backups!FileFails, Backups!Moves, Backups!Goto
<1> QED BY <1>1, <1>2 DEF Backups!Finish, ExportInv, Slotted

LEMMA ExportLive ==
    ASSUME ExportInv, TalkInv, Backups!ExportStep
    PROVE  TalkInv'
<1>1. CASE UNCHANGED <<backupSlot, inbox, backupCalls, view, views>>
  BY <1>1 DEF TalkInv, TalkTypes, StartsGoOn, OutcomeAfter, Backups!RunningIsLive,
              Backups!Range
<1>2. ASSUME NEW what \in Backups!Ended, backupSlot' = None, backupSlot # None,
             inbox' = Append(inbox, [op |-> what, view |-> 0, id |-> run.id]),
             UNCHANGED <<backupCalls, view, views>>
      PROVE  TalkInv'
  <2> DEFINE m == [op |-> what, view |-> 0, id |-> run.id]
  <2>1. backupSlot.id = run.id /\ run.id \in 1..MaxRuns BY <1>2 DEF ExportInv, Slotted
  <2>2. m \in MessageSet BY <2>1 DEF MessageSet, Ids
  <2>3. inbox \in Seq(MessageSet) BY DEF TalkInv, TalkTypes
  <2>4. what # "started" BY PlacesAre
  <2>5. m.op = what /\ m.view = 0 /\ m.id = backupSlot.id BY <2>1
  <2> HIDE DEF m
  <2>6. inbox' = Append(inbox, m) BY <1>2 DEF m
  <2>7. StartsGoOn' BY <2>2, <2>3, <2>4, <2>5, <2>6, StartsAppended DEF TalkInv
  <2>8. TalkTypes' BY <1>2, <2>2, <2>3, <2>6 DEF TalkInv, TalkTypes
  <2>9. Backups!RunningIsLive'
    <3>1. \A x \in Backups!Range(inbox) : x \in Backups!Range(inbox')
          /\ m \in Backups!Range(inbox')
      BY <2>3, <2>6, RangeAppend
    <3>2. m \in Backups!Range(inbox') BY <2>3, <2>6, RangeAppend
    <3> SUFFICES ASSUME view.phase = "running"
                 PROVE  \/ \E c \in Backups!Range(backupCalls) : c.op = "start" /\ c.view = views
                        \/ \E x \in Backups!Range(inbox') :
                              x.op \in {"started", "refused"} /\ x.view = views
                        \/ \E x \in Backups!Range(inbox') : x.view = 0 /\ x.id = view.id
      BY <1>2 DEF Backups!RunningIsLive, Backups!Range
    <3> QED BY <2>5, <3>1, <3>2 DEF TalkInv, Backups!RunningIsLive
  <2> QED BY <2>7, <2>8, <2>9 DEF TalkInv
<1> QED BY <1>1, <1>2, ExportTalks

(* A call is answered: the answer takes its place. *)
LEMMA ServeLive ==
    ASSUME Backups!BackupConstants, ExportInv, TalkInv,
           Backups!CheckFolder \/ Backups!StartRefused \/ Backups!Cancel
             \/ \E media, with \in BOOLEAN : Backups!Start(media, with)
    PROVE  TalkInv'
<1>1. /\ backupCalls \in Seq(CallSet) /\ inbox \in Seq(MessageSet) /\ backupCalls # <<>>
      /\ backupCalls' = Tail(backupCalls) /\ UNCHANGED <<view, views>>
  BY DEF TalkInv, TalkTypes, Backups!CheckFolder, Backups!StartRefused, Backups!Cancel,
         Backups!Start, Backups!Serve
<1>2. Head(backupCalls) \in CallSet /\ Tail(backupCalls) \in Seq(CallSet) BY <1>1
<1>3. \A c \in Backups!Range(backupCalls) : c # Head(backupCalls) => c \in Backups!Range(backupCalls')
  BY <1>1, RangeTail
<1>4. ASSUME NEW r \in {"unwritable", "empty", "used", "started", "refused"}, NEW id \in Ids,
             inbox' = Append(inbox, [op |-> r, view |-> Head(backupCalls).view, id |-> id]),
             r = "started" => backupSlot' # None /\ backupSlot'.id = id,
             r \notin {"started", "refused"} => Head(backupCalls).op # "start",
             backupSlot # None => backupSlot' # None /\ backupSlot'.id = backupSlot.id
      PROVE  TalkInv'
  <2> DEFINE m == [op |-> r, view |-> Head(backupCalls).view, id |-> id]
  <2>1. m \in MessageSet /\ m.view # 0 BY <1>2, <1>4 DEF MessageSet, CallSet
  <2>2. m.op = r /\ m.view = Head(backupCalls).view /\ m.id = id OBVIOUS
  <2> HIDE DEF m
  <2>3. inbox' = Append(inbox, m) BY <1>4 DEF m
  <2>4. StartsGoOn' BY <1>1, <1>4, <2>1, <2>2, <2>3, StartsAppended DEF TalkInv
  <2>5. TalkTypes' BY <1>1, <1>2, <2>1, <2>3 DEF TalkInv, TalkTypes
  <2>6. /\ \A x \in Backups!Range(inbox) : x \in Backups!Range(inbox')
        /\ m \in Backups!Range(inbox')
    BY <1>1, <2>3, RangeAppend
  <2>7. Backups!RunningIsLive'
    <3> SUFFICES ASSUME view.phase = "running"
                 PROVE  \/ \E c \in Backups!Range(backupCalls') : c.op = "start" /\ c.view = views
                        \/ \E x \in Backups!Range(inbox') :
                              x.op \in {"started", "refused"} /\ x.view = views
                        \/ backupSlot' # None /\ backupSlot'.id = view.id
                        \/ \E x \in Backups!Range(inbox') : x.view = 0 /\ x.id = view.id
      BY <1>1 DEF Backups!RunningIsLive, Backups!Range
    <3>1. CASE \E c \in Backups!Range(backupCalls) : c.op = "start" /\ c.view = views
      BY <1>3, <1>4, <2>2, <2>6, <3>1
    <3> QED BY <1>4, <2>6, <3>1 DEF TalkInv, Backups!RunningIsLive
  <2> QED BY <2>4, <2>5, <2>7 DEF TalkInv
<1>5. None \in Ids BY DEF Ids
<1>6. CASE Backups!CheckFolder
  <2>1. UNCHANGED backupSlot /\ Head(backupCalls).op = "check"
        /\ \E r \in {"unwritable", "empty", "used"} :
              inbox' = Append(inbox, [op |-> r, view |-> Head(backupCalls).view, id |-> None])
    BY <1>6 DEF Backups!CheckFolder, Backups!Serve, Backups!Reply
  <2> QED BY <1>4, <1>5, <2>1
<1>7. CASE Backups!StartRefused
  <2>1. UNCHANGED backupSlot
        /\ inbox' = Append(inbox, [op |-> "refused", view |-> Head(backupCalls).view, id |-> None])
    BY <1>7 DEF Backups!StartRefused, Backups!Reply
  <2> QED BY <1>4, <1>5, <2>1
<1>8. ASSUME NEW media \in BOOLEAN, NEW with \in BOOLEAN, Backups!Start(media, with)
      PROVE  TalkInv'
  <2>1. backupSlot = None /\ backupSlot' = [id |-> run.id + 1, aborted |-> FALSE] /\ run.id < MaxRuns
        /\ inbox' = Append(inbox, [op |-> "started", view |-> Head(backupCalls).view,
                                   id |-> run.id + 1])
    BY <1>8 DEF Backups!Start, Backups!Reply
  <2>2. run.id \in 0..MaxRuns /\ MaxRuns \in Nat BY DEF ExportInv, RunTypes, Backups!BackupConstants
  <2>3. run.id + 1 \in Ids BY <2>1, <2>2 DEF Ids
  <2>4. backupSlot' # None /\ backupSlot'.id = run.id + 1
    <3>1. backupSlot' \in [id : Nat, aborted : BOOLEAN] BY <2>1, <2>2
    <3> QED BY <2>1, <3>1 DEF Backups!BackupConstants
  <2> QED BY <1>4, <2>1, <2>3, <2>4
<1>9. CASE Backups!Cancel
  <2>1. UNCHANGED inbox /\ Head(backupCalls).op = "cancel" BY <1>9 DEF Backups!Cancel, Backups!Serve
  <2>2. backupSlot # None => backupSlot' # None /\ backupSlot'.id = backupSlot.id
    <3>1. backupSlot' = backupSlot \/ backupSlot' = [backupSlot EXCEPT !.aborted = TRUE]
      BY <1>9 DEF Backups!Cancel
    <3> SUFFICES ASSUME backupSlot # None, backupSlot' = [backupSlot EXCEPT !.aborted = TRUE]
                 PROVE  backupSlot' # None /\ backupSlot'.id = backupSlot.id
      BY <3>1
    <3>2. backupSlot \in [id : 1..MaxRuns, aborted : BOOLEAN] BY DEF ExportInv, Slotted
    <3>3. backupSlot' \in [id : 1..MaxRuns, aborted : BOOLEAN] /\ backupSlot'.id = backupSlot.id
      BY <3>2
    <3>4. backupSlot' \in [id : Nat, aborted : BOOLEAN] BY <3>3 DEF Backups!BackupConstants
    <3> QED BY <3>3, <3>4 DEF Backups!BackupConstants
  <2>3. TalkTypes' BY <1>1, <1>2, <2>1 DEF TalkInv, TalkTypes
  <2>4. StartsGoOn'
    <3>1. \A i : OutcomeAfter(i)' <=> OutcomeAfter(i) BY <2>1 DEF OutcomeAfter
    <3>2. \A i \in DOMAIN inbox : inbox[i].op = "started" =>
             inbox[i].view # 0 /\ ((backupSlot' # None /\ backupSlot'.id = inbox[i].id) \/ OutcomeAfter(i))
      BY <2>2 DEF TalkInv, StartsGoOn
    <3> QED BY <2>1, <3>1, <3>2 DEF StartsGoOn, OutcomeAfter
  <2>5. Backups!RunningIsLive'
    <3> SUFFICES ASSUME view.phase = "running"
                 PROVE  \/ \E c \in Backups!Range(backupCalls') : c.op = "start" /\ c.view = views
                        \/ \E x \in Backups!Range(inbox) :
                              x.op \in {"started", "refused"} /\ x.view = views
                        \/ backupSlot' # None /\ backupSlot'.id = view.id
                        \/ \E x \in Backups!Range(inbox) : x.view = 0 /\ x.id = view.id
      BY <1>1, <2>1 DEF Backups!RunningIsLive, Backups!Range
    <3> QED BY <1>3, <2>1, <2>2 DEF TalkInv, Backups!RunningIsLive
  <2> QED BY <2>3, <2>4, <2>5 DEF TalkInv
<1> QED BY <1>6, <1>7, <1>8, <1>9

(* The window calls, and handles what it is told. *)
LEMMA WindowLive ==
    ASSUME Backups!BackupConstants, ExportInv, TalkInv,
           \/ Backups!Open \/ Backups!ClickExport \/ Backups!ConfirmYes \/ Backups!ConfirmNo
           \/ Backups!ClickCancel \/ Backups!Close
    PROVE  TalkInv'
<1>1. /\ backupCalls \in Seq(CallSet) /\ views \in Nat /\ view \in [phase : Phases, id : Ids]
      /\ view.phase # "closed" => views # 0
  BY DEF TalkInv, TalkTypes
<1>2. None \in Ids BY DEF Ids
<1>3. UNCHANGED <<backupSlot, inbox>>
  BY DEF Backups!Open, Backups!ClickExport, Backups!ConfirmYes, Backups!ConfirmNo,
         Backups!ClickCancel, Backups!Close, Backups!WindowOnly
<1>4. StartsGoOn'
  <2>1. \A i : OutcomeAfter(i)' <=> OutcomeAfter(i) BY <1>3 DEF OutcomeAfter
  <2> QED BY <1>3, <2>1 DEF TalkInv, StartsGoOn, OutcomeAfter
<1>5. CASE Backups!Open \/ Backups!ConfirmNo \/ Backups!Close
  <2>1. /\ UNCHANGED backupCalls /\ view'.phase # "running" /\ view' \in [phase : Phases, id : Ids]
        /\ views' \in Nat /\ (view'.phase # "closed" => views' # 0)
    BY <1>1, <1>2, <1>5 DEF Backups!Open, Backups!ConfirmNo, Backups!Close, Backups!WindowOnly,
                            Backups!Closed, Phases
  <2>2. TalkTypes' BY <1>3, <2>1 DEF TalkInv, TalkTypes
  <2>3. Backups!RunningIsLive' BY <2>1 DEF Backups!RunningIsLive
  <2> QED BY <1>4, <2>2, <2>3 DEF TalkInv
<1>6. CASE Backups!ClickExport \/ Backups!ConfirmYes \/ Backups!ClickCancel
  <2>1. PICK op \in {"check", "start", "cancel"}, id \in Ids :
           backupCalls' = Append(backupCalls, [op |-> op, view |-> views, id |-> id])
           /\ (view.phase # "running" => view'.phase # "running" \/ op = "start")
    BY <1>1, <1>2, <1>6 DEF Backups!ClickExport, Backups!ConfirmYes, Backups!ClickCancel,
                            Backups!Call
  <2>2. /\ view' \in [phase : Phases, id : Ids] /\ UNCHANGED views /\ views # 0
        /\ view'.id = view.id
    BY <1>1, <1>6 DEF Backups!ClickExport, Backups!ConfirmYes, Backups!ClickCancel,
                      Backups!WindowOnly, Phases
  <2> DEFINE c == [op |-> op, view |-> views, id |-> id]
  <2>3. c \in CallSet /\ c.op = op /\ c.view = views BY <1>1, <2>2 DEF CallSet
  <2> HIDE DEF c
  <2>4. backupCalls' = Append(backupCalls, c) BY <2>1 DEF c
  <2>5. /\ \A x \in Backups!Range(backupCalls) : x \in Backups!Range(backupCalls')
        /\ c \in Backups!Range(backupCalls')
    BY <1>1, <2>4, RangeAppend
  <2>6. TalkTypes' BY <1>1, <1>3, <2>2, <2>3, <2>4 DEF TalkInv, TalkTypes
  <2>7. Backups!RunningIsLive'
    <3> SUFFICES ASSUME view'.phase = "running"
                 PROVE  \/ \E x \in Backups!Range(backupCalls') : x.op = "start" /\ x.view = views
                        \/ \E x \in Backups!Range(inbox) :
                              x.op \in {"started", "refused"} /\ x.view = views
                        \/ backupSlot # None /\ backupSlot.id = view.id
                        \/ \E x \in Backups!Range(inbox) : x.view = 0 /\ x.id = view.id
      BY <1>3, <2>2 DEF Backups!RunningIsLive, Backups!Range
    <3>1. CASE view.phase = "running" BY <2>5, <3>1 DEF TalkInv, Backups!RunningIsLive
    <3>2. CASE view.phase # "running" BY <2>1, <2>3, <2>5, <3>2
    <3> QED BY <3>1, <3>2
  <2> QED BY <1>4, <2>6, <2>7 DEF TalkInv
<1> QED BY <1>5, <1>6

LEMMA NoticeLive ==
    ASSUME TalkInv, Backups!HandleNotification
    PROVE  TalkInv'
<1>1. /\ inbox \in Seq(MessageSet) /\ inbox # <<>> /\ inbox' = Tail(inbox)
      /\ Head(inbox).view = 0 /\ UNCHANGED <<backupSlot, backupCalls, views>>
      /\ view' = IF view.phase = "closed" \/ view.id # Head(inbox).id THEN view
                 ELSE [view EXCEPT !.phase = IF Head(inbox).op = "error" THEN "error"
                                             ELSE "complete"]
      /\ view \in [phase : Phases, id : Ids]
  BY DEF TalkInv, TalkTypes, Backups!HandleNotification
<1>2. StartsGoOn' BY <1>1, StartsTaken DEF TalkInv
<1>3. /\ view' \in [phase : Phases, id : Ids]
      /\ view'.phase = "closed" => view.phase = "closed"
      /\ view'.phase = "running" => view' = view /\ view.id # Head(inbox).id
  BY <1>1 DEF Phases
<1>4. TalkTypes'
  <2>1. Tail(inbox) \in Seq(MessageSet) BY <1>1
  <2> QED BY <1>1, <1>3, <2>1 DEF TalkInv, TalkTypes
<1>5. Backups!RunningIsLive'
  <2> SUFFICES ASSUME view'.phase = "running"
               PROVE  \/ \E x \in Backups!Range(backupCalls) : x.op = "start" /\ x.view = views
                      \/ \E x \in Backups!Range(inbox') :
                            x.op \in {"started", "refused"} /\ x.view = views
                      \/ backupSlot # None /\ backupSlot.id = view.id
                      \/ \E x \in Backups!Range(inbox') : x.view = 0 /\ x.id = view.id
    BY <1>1, <1>3 DEF Backups!RunningIsLive, Backups!Range
  <2>1. \A x \in Backups!Range(inbox) : x # Head(inbox) => x \in Backups!Range(inbox')
    BY <1>1, RangeTail
  <2>2. views # 0 BY <1>3 DEF TalkInv, TalkTypes
  <2> QED BY <1>1, <1>3, <2>1, <2>2 DEF TalkInv, Backups!RunningIsLive
<1> QED BY <1>2, <1>4, <1>5 DEF TalkInv

LEMMA ReplyLive ==
    ASSUME TalkInv, Backups!HandleReply
    PROVE  TalkInv'
<1> DEFINE m == Head(inbox)
           mine == m.view = views /\ view.phase # "closed"
           phase == IF m.op = "used" THEN "confirm"
                    ELSE IF m.op = "empty" THEN "running" ELSE "error"
           begun == IF m.op = "started" THEN [view EXCEPT !.id = m.id]
                    ELSE [view EXCEPT !.phase = phase]
           start == [op |-> "start", view |-> m.view, id |-> None]
<1>1. /\ inbox \in Seq(MessageSet) /\ inbox # <<>> /\ backupCalls \in Seq(CallSet)
      /\ view \in [phase : Phases, id : Ids] /\ views \in Nat
  BY DEF TalkInv, TalkTypes, Backups!HandleReply
<1>2. m \in MessageSet /\ Tail(inbox) \in Seq(MessageSet) BY <1>1
<1>3. /\ m.view # 0 /\ inbox' = Tail(inbox) /\ UNCHANGED <<backupSlot, views>>
      /\ m.op \in {"unwritable", "used", "empty", "started", "refused"}
      /\ view' = IF mine THEN begun ELSE view
      /\ IF m.op = "empty" THEN backupCalls' = Append(backupCalls, start) ELSE UNCHANGED backupCalls
  BY DEF Backups!HandleReply, Backups!Call
<1>4. start \in CallSet /\ start.op = "start" /\ start.view = m.view
  BY <1>2, <1>3 DEF CallSet, MessageSet, Ids
<1>5. StartsGoOn' BY <1>1, <1>3, StartsTaken DEF TalkInv
<1>6. /\ backupCalls' \in Seq(CallSet)
      /\ \A x \in Backups!Range(backupCalls) : x \in Backups!Range(backupCalls')
      /\ m.op = "empty" => start \in Backups!Range(backupCalls')
  <2> HIDE DEF start, m
  <2>1. CASE m.op = "empty"
    <3>1. backupCalls' = Append(backupCalls, start) BY <1>3, <2>1
    <3>2. backupCalls' \in Seq(CallSet) BY <1>1, <1>4, <3>1
    <3> QED BY <1>1, <1>4, <2>1, <3>1, <3>2, RangeAppend
  <2>2. CASE m.op # "empty" BY <1>1, <1>3, <2>2
  <2> QED BY <2>1, <2>2
<1>7. \A x \in Backups!Range(inbox) : x # m => x \in Backups!Range(inbox') BY <1>1, <1>3, RangeTail
<1>8. m.op = "started" =>
         (backupSlot # None /\ backupSlot.id = m.id)
         \/ \E x \in Backups!Range(inbox') : x.view = 0 /\ x.id = m.id
  <2> SUFFICES ASSUME m.op = "started"
               PROVE  (backupSlot # None /\ backupSlot.id = m.id)
                      \/ \E x \in Backups!Range(inbox') : x.view = 0 /\ x.id = m.id
    OBVIOUS
  <2>1. 1 \in DOMAIN inbox /\ inbox[1] = m BY <1>1
  <2>2. (backupSlot # None /\ backupSlot.id = m.id) \/ OutcomeAfter(1)
    BY <2>1 DEF TalkInv, StartsGoOn
  <2>3. CASE OutcomeAfter(1)
    <3>1. PICK j \in DOMAIN inbox : 1 < j /\ inbox[j].view = 0 /\ inbox[j].id = m.id
      BY <2>1, <2>3 DEF OutcomeAfter
    <3>2. inbox[j] \in Backups!Range(inbox) BY DEF Backups!Range
    <3> HIDE DEF m
    <3> QED BY <1>3, <1>7, <3>1, <3>2
  <2> QED BY <2>2, <2>3
<1> HIDE DEF m, start
<1>9. /\ view' \in [phase : Phases, id : Ids]
      /\ (view'.phase # "closed" => view.phase # "closed")
  BY <1>1, <1>2, <1>3 DEF MessageSet, Phases
<1>10. TalkTypes' BY <1>1, <1>2, <1>3, <1>6, <1>9 DEF TalkInv, TalkTypes
<1>11. Backups!RunningIsLive'
  <2> SUFFICES ASSUME view'.phase = "running"
               PROVE  \/ \E x \in Backups!Range(backupCalls') : x.op = "start" /\ x.view = views
                      \/ \E x \in Backups!Range(inbox') :
                            x.op \in {"started", "refused"} /\ x.view = views
                      \/ backupSlot # None /\ backupSlot.id = view'.id
                      \/ \E x \in Backups!Range(inbox') : x.view = 0 /\ x.id = view'.id
    BY <1>3 DEF Backups!RunningIsLive, Backups!Range
  <2>1. CASE mine /\ m.op = "started"
    <3>1. view'.id = m.id BY <1>1, <1>3, <2>1
    <3> QED BY <1>8, <2>1, <3>1
  <2>2. CASE mine /\ m.op # "started"
    <3>1. view'.phase = phase BY <1>1, <1>3, <2>2
    <3>2. m.op = "empty" BY <3>1
    <3> QED BY <1>4, <1>6, <2>2, <3>2
  <2>3. CASE ~mine
    <3>1. view' = view /\ m.view # views BY <1>3, <2>3
    <3> QED BY <1>3, <1>6, <1>7, <3>1 DEF TalkInv, Backups!RunningIsLive
  <2> QED BY <2>1, <2>2, <2>3
<1> QED BY <1>5, <1>10, <1>11 DEF TalkInv

LEMMA TalkKept ==
    Backups!BackupConstants /\ ExportInv /\ TalkInv /\ [Backups!Next]_(Backups!vars) => TalkInv'
<1> SUFFICES ASSUME Backups!BackupConstants, ExportInv, TalkInv,
                    [Backups!Next]_(Backups!vars)
             PROVE  TalkInv'
  OBVIOUS
<1>1. CASE UNCHANGED Backups!vars
  <2>1. UNCHANGED <<backupSlot, backupCalls, inbox, view, views>> BY <1>1 DEF Backups!vars
  <2> QED BY <2>1 DEF TalkInv, TalkTypes, StartsGoOn, OutcomeAfter, Backups!RunningIsLive,
                      Backups!Range
<1>2. CASE Backups!Crash
  <2>1. /\ backupCalls' = <<>> /\ inbox' = <<>> /\ UNCHANGED views
        /\ view' = [phase |-> "closed", id |-> None]
    BY <1>2 DEF Backups!Crash, Backups!Closed
  <2>2. <<>> \in Seq(CallSet) /\ <<>> \in Seq(MessageSet) OBVIOUS
  <2>3. DOMAIN inbox' = {} BY <2>1
  <2>4. TalkTypes' BY <2>1, <2>2 DEF TalkInv, TalkTypes, Phases, Ids
  <2>5. StartsGoOn' BY <2>3 DEF StartsGoOn
  <2>6. Backups!RunningIsLive' BY <2>1 DEF Backups!RunningIsLive
  <2> QED BY <2>4, <2>5, <2>6 DEF TalkInv
<1> QED BY <1>1, <1>2, ExportLive, ServeLive, WindowLive, NoticeLive, ReplyLive
        DEF Backups!Next

LEMMA TalkInit == Backups!Init => TalkInv
<1> SUFFICES ASSUME Backups!Init PROVE TalkInv
  OBVIOUS
<1>1. <<>> \in Seq(CallSet) /\ <<>> \in Seq(MessageSet) OBVIOUS
<1>2. DOMAIN <<>> = {} OBVIOUS
<1> QED BY <1>1, <1>2 DEF Backups!Init, Backups!Closed, TalkInv, TalkTypes, StartsGoOn,
                          Backups!RunningIsLive, Phases, Ids

(* The window that shows a running export waits for a reply to its call, for *)
(* an export that runs, or for the last notification of it *)
(* (BackupExport.svelte startExport, handleNotification): for any number of *)
(* windows, calls, exports and crashes. *)
THEOREM RunningStaysLive ==
    ASSUME Backups!BackupConstants
    PROVE  Backups!Spec => []Backups!RunningIsLive
<1>1. TalkInv => Backups!RunningIsLive BY DEF TalkInv
<1> QED BY <1>1, BackupInit, TalkInit, ExportKept, TalkKept, PTL DEF Backups!Spec

(* Types, with the slot, which is taken exactly as long as an export runs *)
(* (handlers.ts backup.threads_start, backup.media_start). *)
THEOREM BackupTypes ==
    ASSUME Backups!BackupConstants
    PROVE  Backups!Spec => []Backups!TypeOK
<1>1. ExportInv /\ TalkInv => Backups!TypeOK
  BY DEF ExportInv, FolderOK, RunTypes, Places, Slotted, TalkInv, TalkTypes, Phases, Ids,
         Backups!TypeOK
<1> QED BY <1>1, BackupInit, TalkInit, ExportKept, TalkKept, PTL DEF Backups!Spec

--------------------
(* EventAcks *)

Kinds == Events!Kinds
Subscribe == Events!Subscribe
AckMessages == [op : {"ack"}, kind : Kinds, ids : SUBSET Nat]

EventTypes ==
    /\ kindOf \in Seq(Kinds)
    /\ ackPhone \in [Kinds -> SUBSET (DOMAIN kindOf)]
    /\ ackUp \in BOOLEAN /\ subscribed \in BOOLEAN
    /\ ackOut \in Seq(AckMessages \union {Subscribe})
    /\ ackBack \in Seq(DOMAIN kindOf)
    /\ pendingAckIds \in [Kinds -> SUBSET Nat] /\ ackTimer \in [Kinds -> BOOLEAN]

(* An event is kept under its kind, and is acknowledged only when applied. *)
KeptByKind == \A k \in Kinds : \A e \in ackPhone[k] : kindOf[e] = k
AckedIsApplied ==
    /\ \A k \in Kinds : pendingAckIds[k] \subseteq ackHandled
    /\ \A i \in DOMAIN ackOut : ackOut[i].ids \subseteq ackHandled
NoneLost == \A e \in DOMAIN kindOf : e \in ackPhone[kindOf[e]] \/ e \in ackHandled

(* A connection without a subscription has one on its way. *)
Subscribes == ackUp /\ ~subscribed => \E i \in DOMAIN ackOut : ackOut[i] = Subscribe

Travels(e, k) ==
    \/ \E i \in DOMAIN ackBack : ackBack[i] = e
    \/ e \in pendingAckIds[k] /\ ackTimer[k]
    \/ \E i \in DOMAIN ackOut : ackOut[i] = Subscribe \/ (ackOut[i].kind = k /\ e \in ackOut[i].ids)
AllTravel == ackUp => \A k \in Kinds : \A e \in ackPhone[k] : Travels(e, k)

EventInv == EventTypes /\ KeptByKind /\ AckedIsApplied /\ NoneLost /\ Subscribes /\ AllTravel

LEMMA EventInit == Events!Init => EventInv
<1> SUFFICES ASSUME Events!Init PROVE EventInv
  OBVIOUS
<1>1. /\ kindOf = <<>> /\ ackHandled = {} /\ ackUp = FALSE /\ subscribed = FALSE
      /\ ackOut = <<>> /\ ackBack = <<>>
      /\ ackPhone = [k \in Kinds |-> {}] /\ pendingAckIds = [k \in Kinds |-> {}]
      /\ ackTimer = [k \in Kinds |-> FALSE]
  BY DEF Events!Init, Kinds
<1>2. EventTypes
  <2>1. <<>> \in Seq(Kinds) /\ <<>> \in Seq(AckMessages \union {Subscribe}) OBVIOUS
  <2>2. <<>> \in Seq(DOMAIN kindOf) OBVIOUS
  <2>3. /\ ackPhone \in [Kinds -> SUBSET (DOMAIN kindOf)]
        /\ pendingAckIds \in [Kinds -> SUBSET Nat] /\ ackTimer \in [Kinds -> BOOLEAN]
    BY <1>1
  <2> QED BY <1>1, <2>1, <2>2, <2>3 DEF EventTypes
<1> QED BY <1>1, <1>2 DEF EventInv, KeptByKind, AckedIsApplied, NoneLost, Subscribes, AllTravel

(* What the phone sends again is what it keeps. *)
LEMMA KeptFacts ==
    ASSUME EventTypes
    PROVE  /\ Events!Kept \in Seq(DOMAIN kindOf)
           /\ \A e \in DOMAIN kindOf : e \in ackPhone[kindOf[e]] =>
                 \E i \in DOMAIN Events!Kept : Events!Kept[i] = e
<1> DEFINE S == {e \in DOMAIN kindOf : e \in ackPhone[kindOf[e]]}
<1>1. Len(kindOf) \in Nat /\ DOMAIN kindOf = 1..Len(kindOf) BY DEF EventTypes
<1>2. IsFiniteSet(DOMAIN kindOf) BY <1>1, FS_Interval
<1>3. S \in SUBSET (DOMAIN kindOf) /\ S \in SUBSET Nat BY <1>1
<1>4. IsFiniteSet(S) BY <1>2, <1>3, FS_Subset
<1>5. Ascending(Events!Kept, S)
  <2>1. \E s : Ascending(s, S) BY <1>3, <1>4, HasAscending
  <2>2. Events!Kept = CHOOSE s \in [1..Cardinality(S) -> S] :
                          \A i, j \in DOMAIN s : i < j => s[i] < s[j]
    <3>1. Events!Cardinality(S) = Cardinality(S)
      BY DEF Events!Cardinality, Events!IsFiniteSet, Cardinality, IsFiniteSet
    <3> QED BY <3>1 DEF Events!Kept
  <2> QED BY <2>1, <2>2 DEF Ascending
<1>6. Events!Kept \in Seq(S) /\ Lists(Events!Kept, S) BY <1>3, <1>4, <1>5, AscendingLists
<1>7. Events!Kept \in Seq(DOMAIN kindOf) BY <1>3, <1>6
<1> QED BY <1>6, <1>7 DEF Lists

LEMMA PhoneEventStep ==
    ASSUME EventInv, NEW k \in Kinds, Events!PhoneEvent(k)
    PROVE  EventInv'
<1> DEFINE n == Len(kindOf) + 1
<1>1. /\ kindOf \in Seq(Kinds) /\ kindOf' = Append(kindOf, k)
      /\ ackPhone' = [ackPhone EXCEPT ![k] = @ \union {n}]
      /\ ackBack' = IF subscribed THEN Append(ackBack, n) ELSE ackBack
      /\ UNCHANGED <<ackHandled, ackUp, subscribed, ackOut, pendingAckIds, ackTimer>>
  BY DEF Events!PhoneEvent, EventInv, EventTypes
<1>2. /\ DOMAIN kindOf' = DOMAIN kindOf \union {n} /\ n \notin DOMAIN kindOf
      /\ kindOf' \in Seq(Kinds) /\ kindOf'[n] = k
      /\ \A e \in DOMAIN kindOf : kindOf'[e] = kindOf[e]
  BY <1>1
<1>3. ackPhone \in [Kinds -> SUBSET DOMAIN kindOf] BY DEF EventInv, EventTypes
<1>4. ackBack' \in Seq(DOMAIN kindOf')
  <2>1. ackBack \in Seq(DOMAIN kindOf') BY <1>2 DEF EventInv, EventTypes
  <2> QED BY <1>1, <1>2, <2>1
<1>5. EventTypes' BY <1>1, <1>2, <1>3, <1>4 DEF EventInv, EventTypes
<1>6. \A j \in Kinds : ackPhone'[j] = IF j = k THEN ackPhone[j] \union {n} ELSE ackPhone[j]
  BY <1>1, <1>3
<1>7. KeptByKind'
  <2> SUFFICES ASSUME NEW j \in Kinds, NEW e \in ackPhone'[j] PROVE kindOf'[e] = j
    BY DEF KeptByKind, Kinds, Events!Kinds
  <2>1. CASE e \in ackPhone[j] BY <1>2, <1>3, <2>1 DEF EventInv, KeptByKind
  <2>2. CASE e \notin ackPhone[j] BY <1>2, <1>6, <2>2
  <2> QED BY <2>1, <2>2
<1>8. AckedIsApplied' BY <1>1 DEF EventInv, AckedIsApplied
<1>9. NoneLost'
  <2> SUFFICES ASSUME NEW e \in DOMAIN kindOf' PROVE e \in ackPhone'[kindOf'[e]] \/ e \in ackHandled
    BY <1>1 DEF NoneLost
  <2>1. CASE e = n BY <1>2, <1>6, <2>1
  <2>2. CASE e \in DOMAIN kindOf
    <3>1. kindOf[e] \in Kinds BY <1>1, <2>2
    <3> QED BY <1>2, <1>6, <2>2, <3>1 DEF EventInv, NoneLost
  <2> QED BY <1>2, <2>1, <2>2
<1>10. Subscribes' BY <1>1 DEF EventInv, Subscribes, Subscribe, Events!Subscribe
<1>11. AllTravel'
  <2> SUFFICES ASSUME ackUp, NEW j \in Kinds, NEW e \in ackPhone'[j] PROVE Travels(e, j)'
    BY <1>1 DEF AllTravel, Kinds, Events!Kinds
  <2>1. ackBack \in Seq(DOMAIN kindOf) BY DEF EventInv, EventTypes
  <2>2. \A i \in DOMAIN ackBack : i \in DOMAIN ackBack' /\ ackBack'[i] = ackBack[i] BY <1>1, <2>1
  <2>3. CASE e \in ackPhone[j]
    <3>1. Travels(e, j) BY <2>3 DEF EventInv, AllTravel
    <3> QED BY <1>1, <2>2, <3>1 DEF Travels, Subscribe, Events!Subscribe
  <2>4. CASE e \notin ackPhone[j]
    <3>1. e = n BY <1>6, <2>4
    <3>2. CASE subscribed
      <4>1. Len(ackBack) + 1 \in DOMAIN ackBack' /\ ackBack'[Len(ackBack) + 1] = n
        BY <1>1, <2>1, <3>2
      <4> QED BY <3>1, <4>1 DEF Travels
    <3>3. CASE ~subscribed
      <4>1. \E i \in DOMAIN ackOut : ackOut[i] = Subscribe BY <3>3 DEF EventInv, Subscribes
      <4> QED BY <1>1, <4>1 DEF Travels, Subscribe, Events!Subscribe
    <3> QED BY <3>2, <3>3
  <2> QED BY <2>3, <2>4
<1> QED BY <1>5, <1>7, <1>8, <1>9, <1>10, <1>11 DEF EventInv

LEMMA ServesSubscription ==
    ASSUME EventInv, Events!PhoneServes, Head(ackOut).op = "subscribe"
    PROVE  EventInv'
<1>1. /\ ackOut \in Seq(AckMessages \union {Subscribe}) /\ ackOut # <<>> /\ ackOut' = Tail(ackOut)
      /\ subscribed' = TRUE /\ ackBack' = ackBack \o Events!Kept
      /\ UNCHANGED <<ackPhone, kindOf, ackHandled, ackUp, pendingAckIds, ackTimer>>
  BY DEF Events!PhoneServes, EventInv, EventTypes
<1>2. ackBack \in Seq(DOMAIN kindOf) /\ Events!Kept \in Seq(DOMAIN kindOf)
  BY KeptFacts DEF EventInv, EventTypes
<1>3. EventTypes' BY <1>1, <1>2 DEF EventInv, EventTypes, Subscribe, Events!Subscribe
<1>4. \A i \in DOMAIN ackOut' : i + 1 \in DOMAIN ackOut /\ ackOut'[i] = ackOut[i + 1] BY <1>1
<1>5. KeptByKind' /\ NoneLost' /\ Subscribes'
  BY <1>1 DEF EventInv, KeptByKind, NoneLost, Subscribes, Kinds, Events!Kinds
<1>6. AckedIsApplied' BY <1>1, <1>4 DEF EventInv, AckedIsApplied, Kinds, Events!Kinds
<1>7. AllTravel'
  <2> SUFFICES ASSUME NEW k \in Kinds, NEW e \in ackPhone[k]
               PROVE  \E i \in DOMAIN ackBack' : ackBack'[i] = e
    BY <1>1 DEF AllTravel, Travels, Kinds, Events!Kinds
  <2>1. e \in DOMAIN kindOf /\ kindOf[e] = k BY DEF EventInv, EventTypes, KeptByKind
  <2>2. PICK i \in DOMAIN Events!Kept : Events!Kept[i] = e BY <2>1, KeptFacts DEF EventInv
  <2>3. Len(ackBack) + i \in DOMAIN ackBack' /\ ackBack'[Len(ackBack) + i] = e BY <1>1, <1>2, <2>2
  <2> QED BY <2>3
<1> QED BY <1>3, <1>5, <1>6, <1>7 DEF EventInv

LEMMA ServesAck ==
    ASSUME EventInv, Events!PhoneServes, Head(ackOut).op # "subscribe"
    PROVE  EventInv'
<1> DEFINE m == Head(ackOut)
<1>1. /\ ackOut \in Seq(AckMessages \union {Subscribe}) /\ ackOut # <<>> /\ ackOut' = Tail(ackOut)
      /\ ackPhone' = [ackPhone EXCEPT ![m.kind] = @ \ m.ids]
      /\ UNCHANGED <<kindOf, ackHandled, ackUp, subscribed, ackBack, pendingAckIds, ackTimer>>
  BY DEF Events!PhoneServes, EventInv, EventTypes
<1>2. m \in AckMessages /\ m = ackOut[1] /\ 1 \in DOMAIN ackOut
  BY <1>1 DEF Subscribe, Events!Subscribe
<1>3. m.kind \in Kinds /\ m.ids \subseteq ackHandled
  BY <1>2 DEF AckMessages, EventInv, AckedIsApplied
<1>4. ackPhone \in [Kinds -> SUBSET DOMAIN kindOf] BY DEF EventInv, EventTypes
<1>5. \A k \in Kinds : ackPhone'[k] = IF k = m.kind THEN ackPhone[k] \ m.ids ELSE ackPhone[k]
  BY <1>1, <1>4
<1>6. EventTypes'
  <2>1. ackOut' \in Seq(AckMessages \union {Subscribe}) BY <1>1
  <2>2. ackPhone' \in [Kinds -> SUBSET DOMAIN kindOf] BY <1>1, <1>3, <1>4
  <2> QED BY <1>1, <2>1, <2>2 DEF EventInv, EventTypes, Subscribe, Events!Subscribe
<1>7. \A i \in DOMAIN ackOut' : i + 1 \in DOMAIN ackOut /\ ackOut'[i] = ackOut[i + 1] BY <1>1
<1>8. \A i \in DOMAIN ackOut : i # 1 => i - 1 \in DOMAIN ackOut' /\ ackOut'[i - 1] = ackOut[i]
  BY <1>1
<1>9. KeptByKind' BY <1>1, <1>5 DEF EventInv, KeptByKind, Kinds, Events!Kinds
<1>10. AckedIsApplied' BY <1>1, <1>7 DEF EventInv, AckedIsApplied, Kinds, Events!Kinds
<1>11. NoneLost'
  <2> SUFFICES ASSUME NEW e \in DOMAIN kindOf PROVE e \in ackPhone'[kindOf[e]] \/ e \in ackHandled
    BY <1>1 DEF NoneLost
  <2>1. kindOf[e] \in Kinds BY DEF EventInv, EventTypes
  <2> QED BY <1>3, <1>5, <2>1 DEF EventInv, NoneLost
<1>12. Subscribes'
  <2>1. m # Subscribe BY DEF Subscribe, Events!Subscribe
  <2> QED BY <1>1, <1>2, <1>8, <2>1 DEF EventInv, Subscribes, Subscribe, Events!Subscribe
<1>13. AllTravel'
  <2> SUFFICES ASSUME ackUp, NEW k \in Kinds, NEW e \in ackPhone'[k] PROVE Travels(e, k)'
    BY <1>1 DEF AllTravel, Kinds, Events!Kinds
  <2>1. e \in ackPhone[k] /\ (k = m.kind => e \notin m.ids) BY <1>5
  <2>2. Travels(e, k) BY <2>1 DEF EventInv, AllTravel
  <2>3. m # Subscribe BY DEF Subscribe, Events!Subscribe
  <2>4. ASSUME NEW i \in DOMAIN ackOut, ackOut[i] = Subscribe \/ (ackOut[i].kind = k /\ e \in ackOut[i].ids)
        PROVE  i # 1
    BY <1>2, <2>1, <2>3, <2>4
  <2> QED BY <1>1, <1>8, <2>2, <2>4 DEF Travels, Subscribe, Events!Subscribe
<1> QED BY <1>6, <1>9, <1>10, <1>11, <1>12, <1>13 DEF EventInv

LEMMA HandleStep ==
    ASSUME EventInv, NEW k \in Kinds, Events!Handle(k)
    PROVE  EventInv'
<1>1. /\ ackBack \in Seq(DOMAIN kindOf) /\ ackBack # <<>> /\ ackBack' = Tail(ackBack)
      /\ ackHandled' = ackHandled \union {Head(ackBack)} /\ kindOf[Head(ackBack)] = k
      /\ pendingAckIds' = [pendingAckIds EXCEPT ![k] = @ \union {Head(ackBack)}]
      /\ ackTimer' = [ackTimer EXCEPT ![k] = TRUE]
      /\ UNCHANGED <<ackPhone, kindOf, ackUp, subscribed, ackOut>>
  BY DEF Events!Handle, Events!QueueAck, EventInv, EventTypes
<1>2. Head(ackBack) \in DOMAIN kindOf /\ Head(ackBack) \in Nat /\ ackBack[1] = Head(ackBack)
  BY <1>1 DEF EventInv, EventTypes
<1>3. pendingAckIds \in [Kinds -> SUBSET Nat] /\ ackTimer \in [Kinds -> BOOLEAN]
  BY DEF EventInv, EventTypes
<1>4. \A j \in Kinds :
          /\ pendingAckIds'[j] = IF j = k THEN pendingAckIds[j] \union {Head(ackBack)}
                                 ELSE pendingAckIds[j]
          /\ ackTimer'[j] = IF j = k THEN TRUE ELSE ackTimer[j]
  BY <1>1, <1>3
<1>5. EventTypes'
  <2>1. ackBack' \in Seq(DOMAIN kindOf) BY <1>1
  <2>2. pendingAckIds' \in [Kinds -> SUBSET Nat] /\ ackTimer' \in [Kinds -> BOOLEAN]
    BY <1>1, <1>2, <1>3
  <2> QED BY <1>1, <2>1, <2>2 DEF EventInv, EventTypes, Subscribe, Events!Subscribe
<1>6. KeptByKind' /\ Subscribes'
  BY <1>1 DEF EventInv, KeptByKind, Subscribes, Kinds, Events!Kinds, Subscribe, Events!Subscribe
<1>7. AckedIsApplied' BY <1>1, <1>4 DEF EventInv, AckedIsApplied, Kinds, Events!Kinds
<1>8. NoneLost' BY <1>1 DEF EventInv, NoneLost
<1>9. AllTravel'
  <2> SUFFICES ASSUME ackUp, NEW j \in Kinds, NEW e \in ackPhone[j] PROVE Travels(e, j)'
    BY <1>1 DEF AllTravel, Kinds, Events!Kinds
  <2>1. Travels(e, j) /\ kindOf[e] = j BY DEF EventInv, AllTravel, KeptByKind
  <2>2. \A i \in DOMAIN ackBack : i # 1 => i - 1 \in DOMAIN ackBack' /\ ackBack'[i - 1] = ackBack[i]
    BY <1>1
  <2>3. CASE e = Head(ackBack)
    <3>1. j = k BY <1>1, <2>1, <2>3
    <3>2. e \in pendingAckIds'[j] /\ ackTimer'[j] BY <1>4, <2>3, <3>1
    <3> QED BY <3>2 DEF Travels
  <2>4. CASE e # Head(ackBack)
    <3>1. CASE \E i \in DOMAIN ackBack : ackBack[i] = e BY <1>2, <2>2, <2>4, <3>1 DEF Travels
    <3>2. CASE e \in pendingAckIds[j] /\ ackTimer[j]
      <4>1. e \in pendingAckIds'[j] /\ ackTimer'[j] BY <1>4, <3>2
      <4> QED BY <4>1 DEF Travels
    <3>3. CASE \E i \in DOMAIN ackOut : ackOut[i] = Subscribe \/ (ackOut[i].kind = j /\ e \in ackOut[i].ids)
      BY <1>1, <3>3 DEF Travels, Subscribe, Events!Subscribe
    <3> QED BY <2>1, <3>1, <3>2, <3>3 DEF Travels
  <2> QED BY <2>3, <2>4
<1> QED BY <1>5, <1>6, <1>7, <1>8, <1>9 DEF EventInv

LEMMA FlushStep ==
    ASSUME EventInv, NEW k \in Kinds, Events!FlushAcks(k)
    PROVE  EventInv'
<1> DEFINE m == [op |-> "ack", kind |-> k, ids |-> pendingAckIds[k]]
<1>1. /\ ackOut \in Seq(AckMessages \union {Subscribe})
      /\ ackOut' = IF ackUp THEN Append(ackOut, m) ELSE ackOut
      /\ pendingAckIds' = [pendingAckIds EXCEPT ![k] = {}]
      /\ ackTimer' = [ackTimer EXCEPT ![k] = FALSE]
      /\ UNCHANGED <<ackPhone, kindOf, ackHandled, ackUp, subscribed, ackBack>>
  BY DEF Events!FlushAcks, Events!Acks, EventInv, EventTypes
<1>2. pendingAckIds \in [Kinds -> SUBSET Nat] /\ ackTimer \in [Kinds -> BOOLEAN]
  BY DEF EventInv, EventTypes
<1>3. m \in AckMessages BY <1>2 DEF AckMessages
<1>4. \A j \in Kinds :
          /\ pendingAckIds'[j] = IF j = k THEN {} ELSE pendingAckIds[j]
          /\ ackTimer'[j] = IF j = k THEN FALSE ELSE ackTimer[j]
  BY <1>1, <1>2
<1>5. /\ \A i \in DOMAIN ackOut : i \in DOMAIN ackOut' /\ ackOut'[i] = ackOut[i]
      /\ \A i \in DOMAIN ackOut' : i \in DOMAIN ackOut \/ ackOut'[i] = m
      /\ ackUp => Len(ackOut) + 1 \in DOMAIN ackOut' /\ ackOut'[Len(ackOut) + 1] = m
  BY <1>1, <1>3
<1>6. EventTypes'
  <2>1. ackOut' \in Seq(AckMessages \union {Subscribe}) BY <1>1, <1>3
  <2>2. pendingAckIds' \in [Kinds -> SUBSET Nat] /\ ackTimer' \in [Kinds -> BOOLEAN] BY <1>1, <1>2
  <2> QED BY <1>1, <2>1, <2>2 DEF EventInv, EventTypes, Subscribe, Events!Subscribe
<1>7. KeptByKind' /\ NoneLost' BY <1>1 DEF EventInv, KeptByKind, NoneLost, Kinds, Events!Kinds
<1>8. Subscribes' BY <1>1, <1>5 DEF EventInv, Subscribes, Subscribe, Events!Subscribe
<1>9. AckedIsApplied'
  <2>1. m.ids \subseteq ackHandled BY DEF EventInv, AckedIsApplied
  <2> QED BY <1>1, <1>4, <1>5, <2>1 DEF EventInv, AckedIsApplied, Kinds, Events!Kinds
<1>10. AllTravel'
  <2> SUFFICES ASSUME ackUp, NEW j \in Kinds, NEW e \in ackPhone[j] PROVE Travels(e, j)'
    BY <1>1 DEF AllTravel, Kinds, Events!Kinds
  <2>1. Travels(e, j) BY DEF EventInv, AllTravel
  <2>2. CASE j = k /\ e \in pendingAckIds[j]
    <3>1. m.kind = j /\ e \in m.ids BY <2>2
    <3> QED BY <1>5, <3>1 DEF Travels
  <2>3. CASE ~(j = k /\ e \in pendingAckIds[j])
    BY <1>1, <1>4, <1>5, <2>1, <2>3 DEF Travels, Subscribe, Events!Subscribe
  <2> QED BY <2>2, <2>3
<1> QED BY <1>6, <1>7, <1>8, <1>9, <1>10 DEF EventInv

(* A connection that begins, or that the desktop wants told anew, has a *)
(* subscription on its way. *)
LEMMA ConnectionSteps ==
    ASSUME EventInv, Events!Connect \/ Events!Disconnect \/ Events!Replaced \/ Events!Resync
    PROVE  EventInv'
<1>1. /\ UNCHANGED <<ackPhone, kindOf, ackHandled>>
      /\ ackOut \in Seq(AckMessages \union {Subscribe})
      /\ ackUp' \in BOOLEAN
      /\ subscribed' \in BOOLEAN
      /\ ackBack' = ackBack \/ ackBack' = <<>>
      /\ \/ UNCHANGED <<pendingAckIds, ackTimer>>
         \/ pendingAckIds' = [k \in Kinds |-> {}] /\ ackTimer' = [k \in Kinds |-> FALSE]
      /\ \/ ackOut' = <<Subscribe>>
         \/ ~ackUp' /\ ackOut' = <<>>
         \/ ackOut' = Append(ackOut, Subscribe)
  BY DEF EventInv, EventTypes, Events!Connect, Events!Disconnect, Events!Replaced, Events!Resync,
         Events!Cut, Events!ClearPendingAcks, Kinds, Subscribe
<1>2. ackOut' \in Seq(AckMessages \union {Subscribe})
  <2>1. <<>> \in Seq(AckMessages \union {Subscribe}) OBVIOUS
  <2>2. <<Subscribe>> \in Seq(AckMessages \union {Subscribe}) OBVIOUS
  <2>3. Append(ackOut, Subscribe) \in Seq(AckMessages \union {Subscribe}) BY <1>1
  <2> QED BY <1>1, <2>1, <2>2, <2>3
<1>3. ackUp' => \E i \in DOMAIN ackOut' : ackOut'[i] = Subscribe
  <2>1. CASE ackOut' = <<Subscribe>> BY <2>1
  <2>2. CASE ackOut' = Append(ackOut, Subscribe)
    <3>1. Len(ackOut) + 1 \in DOMAIN ackOut' /\ ackOut'[Len(ackOut) + 1] = Subscribe BY <1>1, <2>2
    <3> QED BY <3>1
  <2> QED BY <1>1, <2>1, <2>2
<1>4. \A i \in DOMAIN ackOut' : ackOut'[i] = Subscribe \/ (i \in DOMAIN ackOut /\ ackOut'[i] = ackOut[i])
  BY <1>1
<1>5. EventTypes'
  <2>1. ackBack' \in Seq(DOMAIN kindOf)
    <3>1. <<>> \in Seq(DOMAIN kindOf) OBVIOUS
    <3> QED BY <1>1, <3>1 DEF EventInv, EventTypes
  <2>2. pendingAckIds' \in [Kinds -> SUBSET Nat] /\ ackTimer' \in [Kinds -> BOOLEAN]
    BY <1>1 DEF EventInv, EventTypes
  <2> QED BY <1>1, <1>2, <2>1, <2>2 DEF EventInv, EventTypes, Subscribe, Events!Subscribe
<1>6. KeptByKind' /\ NoneLost' BY <1>1 DEF EventInv, KeptByKind, NoneLost, Kinds, Events!Kinds
<1>7. AckedIsApplied'
  <2>1. Subscribe.ids = {} BY DEF Subscribe, Events!Subscribe
  <2>2. \A k \in Kinds : pendingAckIds'[k] = {} \/ pendingAckIds'[k] = pendingAckIds[k] BY <1>1
  <2> QED BY <1>1, <1>4, <2>1, <2>2 DEF EventInv, AckedIsApplied, Kinds, Events!Kinds
<1>8. Subscribes' /\ AllTravel'
  BY <1>3 DEF Subscribes, AllTravel, Travels, Subscribe, Events!Subscribe
<1> QED BY <1>5, <1>6, <1>7, <1>8 DEF EventInv

LEMMA EventStep == EventInv /\ [Events!Next]_(Events!vars) => EventInv'
<1> SUFFICES ASSUME EventInv, [Events!Next]_(Events!vars) PROVE EventInv'
  OBVIOUS
<1>1. CASE UNCHANGED Events!vars
  <2>1. UNCHANGED <<ackPhone, kindOf, ackHandled, ackUp, subscribed, ackOut, ackBack, pendingAckIds, ackTimer>>
    BY <1>1 DEF Events!vars
  <2>2. EventTypes' /\ KeptByKind' /\ AckedIsApplied' /\ NoneLost'
    BY <2>1 DEF EventInv, EventTypes, KeptByKind, AckedIsApplied, NoneLost
  <2>3. Subscribes' /\ AllTravel' BY <2>1 DEF EventInv, Subscribes, AllTravel, Travels
  <2> QED BY <2>2, <2>3 DEF EventInv
<1>2. ASSUME NEW k \in Kinds, Events!PhoneEvent(k) \/ Events!FlushAcks(k) PROVE EventInv'
  BY <1>2, PhoneEventStep, FlushStep
<1>3. CASE Events!PhoneServes BY <1>3, ServesSubscription, ServesAck
<1>4. CASE Events!HandleEvent \/ Events!HandleMediaEvent \/ Events!HandleWatchEvent
  <2>1. \E k \in Kinds : Events!Handle(k)
    BY <1>4 DEF Events!HandleEvent, Events!HandleMediaEvent, Events!HandleWatchEvent, Kinds,
                Events!Kinds
  <2> QED BY <2>1, HandleStep
<1>5. CASE Events!Connect \/ Events!Disconnect \/ Events!Replaced \/ Events!Resync
  BY <1>5, ConnectionSteps
<1> QED BY <1>1, <1>2, <1>3, <1>4, <1>5 DEF Events!Next, Kinds

(* The phone forgets no event that its handler has not applied, and on a live *)
(* connection every event it still keeps is on its way to being acknowledged *)
(* (event-handler.ts queueAck, flushAcks, clearPendingAcks; daemon.ts *)
(* onConnection, resync): for any number of events, cuts and resyncs. *)
THEOREM EventsStayAcked == Events!Spec => []Events!EventsAreAcked
<1>1. EventInv => Events!EventsAreAcked
  BY DEF EventInv, NoneLost, AllTravel, Travels, Events!EventsAreAcked, Kinds, Subscribe
<1> QED BY <1>1, EventInit, EventStep, PTL DEF Events!Spec

--------------------
(* PendingOperations *)

Made == DOMAIN chosen
In(i, s) == \E j \in DOMAIN s : s[j] = i

ChoiceRequests == [by : {"direct", "flush"}, id : Made] \union {[by |-> "list", id |-> 0]}
Answers == [by : {"direct", "flush"}, id : Made, ok : BOOLEAN]
             \union [by : {"list"}, id : {0}, ok : BOOLEAN]

ChoiceTypes ==
    /\ chosen \in Seq(Choices!Kinds) /\ choiceUp \in BOOLEAN /\ choiceCalls \in SUBSET Made
    /\ phoneHidden \in BOOLEAN
    /\ choiceOut \in Seq(ChoiceRequests) /\ choiceBack \in Seq(Answers)
    /\ queued \in Seq(Made) /\ snapshot \in Seq(Made)

(* A confirmed choice is one that the phone has applied. *)
ConfirmedIsApplied ==
    \A i \in DOMAIN choiceBack : choiceBack[i].by # "list" /\ choiceBack[i].ok => choiceBack[i].id \in reached

KeptOrApplied == \A i \in Made : i \in reached \/ In(i, queued) \/ (i \in choiceCalls /\ choiceUp)

ChoiceInv == ChoiceTypes /\ ConfirmedIsApplied /\ KeptOrApplied

(* The synchronisation has one message on its way at most, of the kind it *)
(* waits for, and waits for the answer to a choice it still has in its list. *)
Syncs(s) == {i \in DOMAIN s : s[i].by # "direct"}
OneSync ==
    /\ stage \notin {"waiting", "listing"} => Syncs(choiceOut) = {} /\ Syncs(choiceBack) = {}
    /\ Syncs(choiceOut) = {} \/ Syncs(choiceBack) = {}
    /\ \A i, j \in Syncs(choiceOut) : i = j
    /\ \A i, j \in Syncs(choiceBack) : i = j
    /\ \A i \in Syncs(choiceOut) : choiceOut[i].by = "flush" <=> stage = "waiting"
    /\ \A i \in Syncs(choiceBack) : choiceBack[i].by = "flush" <=> stage = "waiting"
    /\ stage = "waiting" => snapshot # <<>>

LEMMA ChoiceInit == Choices!Init => ChoiceInv
<1> SUFFICES ASSUME Choices!Init PROVE ChoiceInv
  OBVIOUS
<1>1. /\ chosen = <<>> /\ choiceUp = FALSE /\ choiceOut = <<>> /\ choiceBack = <<>> /\ choiceCalls = {}
      /\ queued = <<>> /\ snapshot = <<>> /\ phoneHidden = FALSE
  BY DEF Choices!Init
<1>2. /\ <<>> \in Seq(Choices!Kinds) /\ <<>> \in Seq(ChoiceRequests) /\ <<>> \in Seq(Answers)
      /\ <<>> \in Seq(Made)
  OBVIOUS
<1>3. Made = {} BY <1>1 DEF Made
<1>4. ChoiceTypes BY <1>1, <1>2, <1>3 DEF ChoiceTypes
<1>5. ConfirmedIsApplied BY <1>1 DEF ConfirmedIsApplied
<1>6. KeptOrApplied BY <1>3 DEF KeptOrApplied
<1> QED BY <1>4, <1>5, <1>6 DEF ChoiceInv

(* What holds of the choices made still holds when another one is. *)
LEMMA MadeGrows ==
    ASSUME ChoiceTypes, NEW kind \in Choices!Kinds, chosen' = Append(chosen, kind)
    PROVE  /\ Made \subseteq Made' /\ Made' = Made \union {Len(chosen) + 1}
           /\ Len(chosen) + 1 \notin Made
           /\ ChoiceRequests \subseteq ChoiceRequests' /\ Answers \subseteq Answers'
           /\ chosen' \in Seq(Choices!Kinds)
<1>1. chosen \in Seq(Choices!Kinds) BY DEF ChoiceTypes
<1>2. Made' = Made \union {Len(chosen) + 1} /\ Len(chosen) + 1 \notin Made BY <1>1 DEF Made
<1>3. chosen' \in Seq(Choices!Kinds) BY <1>1
<1> QED BY <1>2, <1>3 DEF ChoiceRequests, Answers

LEMMA AppendIn ==
    ASSUME NEW S, NEW s \in Seq(S), NEW x \in S
    PROVE  /\ Append(s, x) \in Seq(S) /\ In(x, Append(s, x))
           /\ \A y : In(y, s) => In(y, Append(s, x))
<1>1. Append(s, x) \in Seq(S) OBVIOUS
<1>2. Len(s) + 1 \in DOMAIN Append(s, x) /\ Append(s, x)[Len(s) + 1] = x OBVIOUS
<1>3. \A i \in DOMAIN s : i \in DOMAIN Append(s, x) /\ Append(s, x)[i] = s[i] OBVIOUS
<1> QED BY <1>1, <1>2, <1>3 DEF In

LEMMA CallStep ==
    ASSUME ChoiceInv, NEW kind \in Choices!Kinds, Choices!Call(kind)
    PROVE  ChoiceInv'
<1> DEFINE n == Len(chosen) + 1
           m == [by |-> "direct", id |-> n]
<1>1. /\ chosen' = Append(chosen, kind)
      /\ \/ choiceUp /\ choiceOut' = Append(choiceOut, m) /\ choiceCalls' = choiceCalls \union {n} /\ queued' = queued
         \/ ~choiceUp /\ queued' = Append(queued, n) /\ choiceOut' = choiceOut /\ choiceCalls' = choiceCalls
      /\ UNCHANGED <<reached, choiceUp, choiceBack, snapshot, phoneHidden>>
  BY DEF Choices!Call
<1>2. /\ Made \subseteq Made' /\ Made' = Made \union {n} /\ n \notin Made
      /\ ChoiceRequests \subseteq ChoiceRequests' /\ Answers \subseteq Answers'
      /\ chosen' \in Seq(Choices!Kinds)
  BY <1>1, MadeGrows DEF ChoiceInv
<1>3. /\ choiceOut \in Seq(ChoiceRequests') /\ choiceBack \in Seq(Answers') /\ queued \in Seq(Made')
      /\ snapshot \in Seq(Made') /\ choiceCalls \in SUBSET Made'
  BY <1>2 DEF ChoiceInv, ChoiceTypes
<1>4. m \in ChoiceRequests' BY <1>2 DEF ChoiceRequests
<1>5. n \in Made' BY <1>2
<1>6. ChoiceTypes'
  <2>1. choiceOut' \in Seq(ChoiceRequests') BY <1>1, <1>3, <1>4, AppendIn
  <2>2. queued' \in Seq(Made') BY <1>1, <1>3, <1>5, AppendIn
  <2> QED BY <1>1, <1>2, <1>3, <2>1, <2>2 DEF ChoiceInv, ChoiceTypes
<1>7. ConfirmedIsApplied' BY <1>1 DEF ChoiceInv, ConfirmedIsApplied
<1>8. KeptOrApplied'
  <2> SUFFICES ASSUME NEW i \in Made'
               PROVE  i \in reached' \/ In(i, queued') \/ (i \in choiceCalls' /\ choiceUp')
    BY DEF KeptOrApplied, In
  <2>1. CASE i \in Made
    <3>1. i \in reached \/ In(i, queued) \/ (i \in choiceCalls /\ choiceUp)
      BY <2>1 DEF ChoiceInv, KeptOrApplied
    <3> QED BY <1>1, <1>3, <1>5, <3>1, AppendIn
  <2>2. CASE i = n BY <1>1, <1>3, <1>5, <2>2, AppendIn
  <2> QED BY <1>2, <2>1, <2>2
<1> QED BY <1>6, <1>7, <1>8 DEF ChoiceInv

(* Steps that make no choice leave the sets of messages as they are. *)
LEMMA SameMade ==
    ASSUME chosen' = chosen
    PROVE  Made' = Made /\ ChoiceRequests' = ChoiceRequests /\ Answers' = Answers
  BY DEF Made, ChoiceRequests, Answers

(* A call settles: done, or into the table. *)
LEMMA SettleKeeps ==
    ASSUME ChoiceInv, NEW i \in Made, NEW ok, Choices!Settle(i, ok),
           ok => i \in reached, UNCHANGED <<chosen, choiceUp, reached>>
    PROVE  /\ choiceCalls' \in SUBSET Made /\ queued' \in Seq(Made)
           /\ KeptOrApplied'
<1>1. choiceCalls \in SUBSET Made /\ queued \in Seq(Made) BY DEF ChoiceInv, ChoiceTypes
<1>2. /\ choiceCalls' = choiceCalls \ {i}
      /\ \/ queued' = queued /\ i \in reached
         \/ queued' = Append(queued, i)
  BY DEF Choices!Settle, Choices!Failed
<1>3. queued' \in Seq(Made) BY <1>1, <1>2
<1>4. In(i, queued') \/ i \in reached BY <1>1, <1>2, AppendIn
<1>5. \A j : In(j, queued) => In(j, queued') BY <1>1, <1>2, AppendIn
<1>6. ASSUME NEW j \in Made PROVE j \in reached \/ In(j, queued') \/ (j \in choiceCalls' /\ choiceUp)
  <2>1. j \in reached \/ In(j, queued) \/ (j \in choiceCalls /\ choiceUp)
    BY DEF ChoiceInv, KeptOrApplied
  <2> QED BY <1>2, <1>4, <1>5, <2>1
<1>7. KeptOrApplied' BY <1>6, SameMade DEF KeptOrApplied, In
<1> QED BY <1>1, <1>2, <1>3, <1>7

LEMMA TimeoutStep ==
    ASSUME ChoiceInv, Choices!CallTimesOut
    PROVE  ChoiceInv'
<1>1. PICK i \in choiceCalls : Choices!Settle(i, FALSE) BY DEF Choices!CallTimesOut
<1>2. UNCHANGED <<chosen, reached, choiceUp, choiceOut, choiceBack, snapshot, phoneHidden>>
  BY DEF Choices!CallTimesOut
<1>3. i \in Made BY DEF ChoiceInv, ChoiceTypes
<1>4. choiceCalls' \in SUBSET Made /\ queued' \in Seq(Made) /\ KeptOrApplied'
  BY <1>1, <1>2, <1>3, SettleKeeps
<1>5. ChoiceTypes' BY <1>2, <1>4, SameMade DEF ChoiceInv, ChoiceTypes
<1>6. ConfirmedIsApplied' BY <1>2 DEF ChoiceInv, ConfirmedIsApplied
<1> QED BY <1>4, <1>5, <1>6 DEF ChoiceInv

LEMMA ServesChoice ==
    ASSUME ChoiceInv, NEW ok \in BOOLEAN, Choices!PhoneServes(ok)
    PROVE  ChoiceInv'
<1> DEFINE m == Head(choiceOut)
           a == IF m.by = "list" THEN [by |-> "list", id |-> 0, ok |-> phoneHidden]
                ELSE [by |-> m.by, id |-> m.id, ok |-> ok]
<1>1. /\ choiceOut # <<>> /\ choiceOut' = Tail(choiceOut) /\ choiceBack' = Append(choiceBack, a)
      /\ reached \subseteq reached'
      /\ m.by # "list" /\ ok => m.id \in reached'
      /\ phoneHidden' \in BOOLEAN
      /\ UNCHANGED <<chosen, choiceUp, choiceCalls, queued, snapshot>>
  BY DEF Choices!PhoneServes, ChoiceInv, ChoiceTypes
<1>2. choiceOut \in Seq(ChoiceRequests) /\ choiceBack \in Seq(Answers) BY DEF ChoiceInv, ChoiceTypes
<1>3. m \in ChoiceRequests /\ choiceOut' \in Seq(ChoiceRequests) BY <1>1, <1>2
<1>4. a \in Answers /\ (a.by # "list" => a.by = m.by /\ a.id = m.id /\ a.ok = ok)
  <2>1. CASE m.by = "list"
    <3>1. a = [by |-> "list", id |-> 0, ok |-> phoneHidden] BY <2>1
    <3> QED BY <3>1 DEF Answers, ChoiceInv, ChoiceTypes
  <2>2. CASE m.by # "list"
    <3>1. a = [by |-> m.by, id |-> m.id, ok |-> ok] BY <2>2
    <3>2. m \in [by : {"direct", "flush"}, id : Made] BY <1>3, <2>2 DEF ChoiceRequests
    <3> QED BY <3>1, <3>2 DEF Answers
  <2> QED BY <2>1, <2>2
<1>5. choiceBack' \in Seq(Answers) BY <1>1, <1>2, <1>4, AppendIn
<1>6. ChoiceTypes' BY <1>1, <1>3, <1>5, SameMade DEF ChoiceInv, ChoiceTypes
<1>7. \A i \in DOMAIN choiceBack' : (i \in DOMAIN choiceBack /\ choiceBack'[i] = choiceBack[i]) \/ choiceBack'[i] = a
  BY <1>1, <1>2, <1>4
<1>8. ConfirmedIsApplied' BY <1>1, <1>4, <1>7 DEF ChoiceInv, ConfirmedIsApplied
<1>9. KeptOrApplied' BY <1>1, SameMade DEF ChoiceInv, KeptOrApplied, In
<1> QED BY <1>6, <1>8, <1>9 DEF ChoiceInv

LEMMA FlushSteps ==
    ASSUME ChoiceInv,
           Choices!StartSync \/ Choices!FlushPendingOperations \/ Choices!AskFilterList
             \/ Choices!SetFilterList \/ Choices!Connect
    PROVE  ChoiceInv'
<1>1. ChoiceTypes BY DEF ChoiceInv
<1>2. /\ UNCHANGED <<chosen, reached, choiceBack, choiceCalls, queued, phoneHidden>>
      /\ choiceUp => choiceUp'
      /\ choiceUp' \in BOOLEAN
      /\ snapshot' \in Seq(Made)
  BY <1>1 DEF ChoiceTypes, Choices!StartSync, Choices!FlushPendingOperations,
              Choices!AskFilterList, Choices!SetFilterList, Choices!Connect
<1>3. choiceOut' \in Seq(ChoiceRequests)
  <2>1. CASE choiceOut' = choiceOut BY <1>1, <2>1 DEF ChoiceTypes
  <2>2. CASE choiceOut' = Append(choiceOut, [by |-> "list", id |-> 0])
    BY <1>1, <2>2, AppendIn DEF ChoiceTypes, ChoiceRequests
  <2>3. CASE snapshot # <<>> /\ choiceOut' = Append(choiceOut, [by |-> "flush", id |-> Head(snapshot)])
    <3>1. Head(snapshot) \in Made BY <1>1, <2>3 DEF ChoiceTypes
    <3>2. [by |-> "flush", id |-> Head(snapshot)] \in ChoiceRequests BY <3>1 DEF ChoiceRequests
    <3> QED BY <1>1, <2>3, <3>2, AppendIn DEF ChoiceTypes
  <2> QED BY <2>1, <2>2, <2>3
          DEF Choices!StartSync, Choices!FlushPendingOperations, Choices!AskFilterList,
              Choices!SetFilterList, Choices!Connect
<1>4. ChoiceTypes' BY <1>1, <1>2, <1>3, SameMade DEF ChoiceTypes
<1>5. ConfirmedIsApplied' BY <1>2 DEF ChoiceInv, ConfirmedIsApplied
<1>6. KeptOrApplied' BY <1>2, SameMade DEF ChoiceInv, KeptOrApplied, In
<1> QED BY <1>4, <1>5, <1>6 DEF ChoiceInv

(* The first row with a number is deleted: no other number leaves. *)
LEMMA RemoveFirstKeeps ==
    ASSUME NEW S, NEW s \in Seq(S), NEW x
    PROVE  /\ Choices!RemoveFirst(s, x) \in Seq(S)
           /\ \A y : y # x /\ In(y, s) => In(y, Choices!RemoveFirst(s, x))
<1> DEFINE I == {i \in 1..Len(s) : s[i] = x}
           r == Choices!RemoveFirst(s, x)
<1>1. CASE I = {}
  <2>1. r = s BY <1>1 DEF Choices!RemoveFirst
  <2> QED BY <2>1
<1>2. CASE I # {}
  <2>1. I \subseteq Nat OBVIOUS
  <2>2. PICK k \in I : k = Choices!Min(I)
    <3>1. \E i \in I : \A j \in I : i <= j BY <1>2, <2>1, LeastNat
    <3>2. Choices!Min(I) = CHOOSE i \in I : \A j \in I : i <= j BY DEF Choices!Min
    <3> QED BY <3>1, <3>2
  <2>3. r = Choices!RemoveAt(s, k)
    <3>1. \E i \in 1..Len(s) : s[i] = x BY <2>2
    <3> QED BY <1>2, <2>2, <3>1 DEF Choices!RemoveFirst, Choices!SelectInSeq
  <2>4. k \in 1..Len(s) /\ s[k] = x BY <2>2
  <2> HIDE DEF I
  <2> DEFINE a == SubSeq(s, 1, k - 1)
             b == SubSeq(s, k + 1, Len(s))
  <2>5. r = a \o b BY <2>3 DEF Choices!RemoveAt
  <2>6. a \in Seq(S) /\ Len(a) = k - 1 /\ \A i \in 1..(k - 1) : a[i] = s[i]
    BY <2>4, SubSeqProperties
  <2>7. b \in Seq(S) /\ Len(b) = Len(s) - k /\ \A i \in 1..(Len(s) - k) : b[i] = s[k + i]
    BY <2>4, SubSeqProperties
  <2>8. r \in Seq(S) /\ DOMAIN r = 1..(Len(s) - 1)
    <3>1. r \in Seq(S) BY <2>5, <2>6, <2>7
    <3>2. Len(s) \in Nat OBVIOUS
    <3>3. Len(r) = (k - 1) + (Len(s) - k) BY <2>5, <2>6, <2>7
    <3>4. Len(r) = Len(s) - 1 BY <2>4, <3>2, <3>3
    <3> QED BY <3>1, <3>4
  <2>9. ASSUME NEW y, y # x, In(y, s) PROVE In(y, r)
    <3>1. PICK j \in 1..Len(s) : s[j] = y BY <2>9 DEF In
    <3>2. j # k BY <2>4, <2>9, <3>1
    <3>3. CASE j < k
      <4>1. j \in 1..(k - 1) /\ j \in DOMAIN r BY <2>4, <2>8, <3>3
      <4>2. r[j] = y BY <2>5, <2>6, <2>7, <3>1, <4>1
      <4> QED BY <4>1, <4>2 DEF In
    <3>4. CASE k < j
      <4>1. j - k \in 1..(Len(s) - k) /\ j - 1 \in DOMAIN r BY <2>4, <2>8, <3>4
      <4>2. b[j - k] = y BY <2>4, <2>7, <3>1, <4>1
      <4>3. r[j - 1] = b[j - k] BY <2>4, <2>5, <2>6, <2>7, <4>1
      <4> QED BY <4>1, <4>2, <4>3 DEF In
    <3> QED BY <2>4, <3>2, <3>3, <3>4
  <2> QED BY <2>8, <2>9
<1> QED BY <1>1, <1>2

LEMMA AnswerStep ==
    ASSUME ChoiceInv, OneSync, Choices!HandleAnswer
    PROVE  ChoiceInv'
<1> DEFINE m == Head(choiceBack)
<1>1. ChoiceTypes /\ choiceBack # <<>> /\ choiceBack' = Tail(choiceBack) /\ UNCHANGED <<chosen, reached, choiceUp, choiceOut, phoneHidden>>
  BY DEF Choices!HandleAnswer, ChoiceInv
<1>2. /\ m \in Answers /\ choiceBack' \in Seq(Answers)
      /\ m = choiceBack[1] /\ 1 \in DOMAIN choiceBack
      /\ \A i \in DOMAIN choiceBack' : i + 1 \in DOMAIN choiceBack /\ choiceBack'[i] = choiceBack[i + 1]
  BY <1>1 DEF ChoiceTypes
<1>3. m.by # "list" => m.id \in Made /\ (m.ok => m.id \in reached)
  BY <1>2 DEF Answers, ChoiceInv, ConfirmedIsApplied
<1>4. ConfirmedIsApplied' BY <1>1, <1>2 DEF ChoiceInv, ConfirmedIsApplied
<1>5. choiceCalls \in SUBSET Made /\ queued \in Seq(Made) /\ snapshot \in Seq(Made)
  BY <1>1 DEF ChoiceTypes
<1>6. choiceCalls' \in SUBSET Made /\ queued' \in Seq(Made) /\ snapshot' \in Seq(Made) /\ KeptOrApplied'
  <2>1. CASE m.by = "direct" /\ m.id \in choiceCalls
    <3>1. Choices!Settle(m.id, m.ok) /\ snapshot' = snapshot BY <2>1 DEF Choices!HandleAnswer
    <3> QED BY <1>1, <1>3, <1>5, <2>1, <3>1, SettleKeeps
  <2>2. CASE m.by = "flush"
    <3>1. choiceCalls' = choiceCalls /\ Choices!Flushed(m.id, m.ok) BY <2>2 DEF Choices!HandleAnswer
    <3>2. CASE m.ok
      <4>1. queued' = Choices!RemoveFirst(queued, m.id) /\ snapshot' = Tail(snapshot)
        BY <3>1, <3>2 DEF Choices!Flushed
      <4>2. m.id \in reached BY <1>3, <2>2, <3>2
      <4>3. queued' \in Seq(Made) BY <1>5, <4>1, RemoveFirstKeeps
      <4>4. ASSUME NEW i \in Made PROVE i \in reached \/ In(i, queued') \/ (i \in choiceCalls /\ choiceUp)
        <5>1. i \in reached \/ In(i, queued) \/ (i \in choiceCalls /\ choiceUp)
          BY DEF ChoiceInv, KeptOrApplied
        <5> QED BY <1>5, <4>1, <4>2, <5>1, RemoveFirstKeeps
      <4>5. KeptOrApplied' BY <1>1, <3>1, <4>4, SameMade DEF KeptOrApplied, In
      <4>6. snapshot # <<>>
        <5>1. 1 \in Syncs(choiceBack) BY <1>2, <2>2 DEF Syncs
        <5> QED BY <1>2, <2>2, <5>1 DEF OneSync
      <4>7. snapshot' \in Seq(Made) BY <1>5, <4>1, <4>6
      <4> QED BY <1>5, <3>1, <4>3, <4>5, <4>7
    <3>3. CASE ~m.ok
      <4>1. queued' = queued /\ snapshot' = <<>> BY <3>1, <3>3 DEF Choices!Flushed
      <4>2. <<>> \in Seq(Made) OBVIOUS
      <4> QED BY <1>1, <1>5, <3>1, <4>1, <4>2, SameMade DEF ChoiceInv, KeptOrApplied, In
    <3> QED BY <3>2, <3>3
  <2>3. CASE ~(m.by = "direct" /\ m.id \in choiceCalls) /\ m.by # "flush"
    <3>1. UNCHANGED <<choiceCalls, queued, snapshot>> BY <2>3 DEF Choices!HandleAnswer
    <3> QED BY <1>1, <1>5, <3>1, SameMade DEF ChoiceInv, KeptOrApplied, In
  <2> QED BY <2>1, <2>2, <2>3
<1>7. ChoiceTypes' BY <1>1, <1>2, <1>6, SameMade DEF ChoiceTypes
<1> QED BY <1>4, <1>6, <1>7 DEF ChoiceInv

LEMMA DisconnectStep ==
    ASSUME ChoiceInv, Choices!Disconnect
    PROVE  ChoiceInv'
<1> DEFINE s == Choices!CallsInOrder
<1>1. /\ ChoiceTypes /\ UNCHANGED <<chosen, reached, phoneHidden>>
      /\ choiceUp' = FALSE /\ choiceOut' = <<>> /\ choiceBack' = <<>> /\ choiceCalls' = {}
      /\ queued' = queued \o s /\ snapshot' = <<>>
  BY DEF Choices!Disconnect, ChoiceInv
<1>2. chosen \in Seq(Choices!Kinds) /\ choiceCalls \in SUBSET Made /\ queued \in Seq(Made)
  BY <1>1 DEF ChoiceTypes
<1>3. Made = 1..Len(chosen) /\ Len(chosen) \in Nat BY <1>2 DEF Made
<1>4. IsFiniteSet(Made) BY <1>3, FS_Interval
<1>5. choiceCalls \in SUBSET Nat /\ IsFiniteSet(choiceCalls)
  <2>1. IsFiniteSet(choiceCalls) BY <1>2, <1>4, FS_Subset
  <2> QED BY <1>2, <1>3, <2>1
<1>6. Ascending(s, choiceCalls)
  <2>1. \E q : Ascending(q, choiceCalls) BY <1>5, HasAscending
  <2>2. Choices!Cardinality(choiceCalls) = Cardinality(choiceCalls)
    BY DEF Choices!Cardinality, Choices!IsFiniteSet, Cardinality, IsFiniteSet
  <2> QED BY <2>1, <2>2 DEF Ascending, Choices!CallsInOrder
<1>7. s \in Seq(choiceCalls) /\ Lists(s, choiceCalls) BY <1>5, <1>6, AscendingLists
<1> HIDE DEF s
<1>8. s \in Seq(Made) BY <1>2, <1>7
<1>9. queued' \in Seq(Made) BY <1>1, <1>2, <1>8
<1>10. /\ \A j \in DOMAIN queued : j \in DOMAIN queued' /\ queued'[j] = queued[j]
       /\ \A j \in DOMAIN s : Len(queued) + j \in DOMAIN queued' /\ queued'[Len(queued) + j] = s[j]
  BY <1>1, <1>2, <1>8
<1>11. ASSUME NEW i \in Made PROVE i \in reached \/ In(i, queued')
  <2>1. i \in reached \/ In(i, queued) \/ i \in choiceCalls BY DEF ChoiceInv, KeptOrApplied
  <2>2. In(i, queued) => In(i, queued') BY <1>10 DEF In
  <2>3. i \in choiceCalls => In(i, queued') BY <1>7, <1>10 DEF In, Lists
  <2> QED BY <2>1, <2>2, <2>3
<1>12. KeptOrApplied' BY <1>1, <1>11, SameMade DEF KeptOrApplied, In
<1>13. ChoiceTypes'
  <2>1. <<>> \in Seq(ChoiceRequests) /\ <<>> \in Seq(Answers) /\ <<>> \in Seq(Made) OBVIOUS
  <2> QED BY <1>1, <1>9, <2>1, SameMade DEF ChoiceTypes
<1>14. ConfirmedIsApplied' BY <1>1 DEF ConfirmedIsApplied
<1> QED BY <1>12, <1>13, <1>14 DEF ChoiceInv

LEMMA SyncsOf ==
    ASSUME NEW S, NEW s \in Seq(S)
    PROVE  /\ \A x \in S : Syncs(Append(s, x)) =
                 IF x.by = "direct" THEN Syncs(s) ELSE Syncs(s) \union {Len(s) + 1}
           /\ \A x \in S, i \in DOMAIN s : Append(s, x)[i] = s[i]
           /\ \A x \in S : Append(s, x)[Len(s) + 1] = x
           /\ s # <<>> => \A i \in Syncs(Tail(s)) : i + 1 \in Syncs(s) /\ Tail(s)[i] = s[i + 1]
           /\ s # <<>> => (1 \in Syncs(s) <=> Head(s).by # "direct") /\ Head(s) = s[1]
           /\ Syncs(s) \subseteq 1..Len(s) /\ Syncs(<<>>) = {}
<1>1. \A x \in S : DOMAIN Append(s, x) = DOMAIN s \union {Len(s) + 1} OBVIOUS
<1>2. /\ \A x \in S, i \in DOMAIN s : Append(s, x)[i] = s[i]
      /\ \A x \in S : Append(s, x)[Len(s) + 1] = x
  OBVIOUS
<1>3. ASSUME NEW x \in S
      PROVE  Syncs(Append(s, x)) = IF x.by = "direct" THEN Syncs(s) ELSE Syncs(s) \union {Len(s) + 1}
  <2>1. Len(s) + 1 \notin DOMAIN s OBVIOUS
  <2> QED BY <1>1, <1>2, <2>1 DEF Syncs
<1>4. s # <<>> => \A i \in DOMAIN Tail(s) : i + 1 \in DOMAIN s /\ Tail(s)[i] = s[i + 1] OBVIOUS
<1>5. s # <<>> => 1 \in DOMAIN s /\ Head(s) = s[1] OBVIOUS
<1>6. Syncs(s) \subseteq 1..Len(s) /\ Syncs(<<>>) = {} BY DEF Syncs
<1> QED BY <1>2, <1>3, <1>4, <1>5, <1>6 DEF Syncs

LEMMA SyncDirect ==
    ASSUME ChoiceInv, OneSync,
           Choices!ToggleFilter \/ Choices!MarkThreadRead \/ Choices!CallTimesOut
             \/ Choices!SetFilterList \/ Choices!Connect
    PROVE  OneSync'
<1>1. choiceOut \in Seq(ChoiceRequests) BY DEF ChoiceInv, ChoiceTypes
<1> DEFINE m == [by |-> "direct", id |-> Len(chosen) + 1]
           D == [by : {"direct", "flush"}, id : Nat] \union {[by |-> "list", id |-> 0]}
<1>2. choiceOut \in Seq(D)
  <2>1. Made \subseteq Nat BY DEF Made, ChoiceInv, ChoiceTypes
  <2>2. ChoiceRequests \subseteq D BY <2>1 DEF ChoiceRequests
  <2> QED BY <1>1, <2>2
<1>3. m \in D /\ m.by = "direct" BY DEF ChoiceInv, ChoiceTypes
<1>4. /\ UNCHANGED <<stage, choiceBack, snapshot>>
      /\ choiceOut' = choiceOut \/ choiceOut' = Append(choiceOut, m)
  BY DEF Choices!ToggleFilter, Choices!MarkThreadRead, Choices!CallTimesOut,
         Choices!SetFilterList, Choices!Connect, Choices!Call
<1>5. Syncs(choiceOut') = Syncs(choiceOut)
  <2>1. Syncs(Append(choiceOut, m)) = Syncs(choiceOut)
    <3> HIDE DEF m, D
    <3> QED BY <1>2, <1>3, SyncsOf
  <2>2. CASE choiceOut' = choiceOut BY <2>2
  <2>3. CASE choiceOut' = Append(choiceOut, m) BY <2>1, <2>3
  <2> QED BY <1>4, <2>2, <2>3
<1>6. \A i \in Syncs(choiceOut) : choiceOut'[i] = choiceOut[i]
  BY <1>2, <1>3, <1>4, SyncsOf DEF Syncs
<1> QED BY <1>4, <1>5, <1>6 DEF OneSync, Syncs

LEMMA SyncServes ==
    ASSUME ChoiceInv, OneSync, NEW ok \in BOOLEAN, Choices!PhoneServes(ok)
    PROVE  OneSync'
<1> DEFINE m == Head(choiceOut)
           a == IF m.by = "list" THEN [by |-> "list", id |-> 0, ok |-> phoneHidden]
                ELSE [by |-> m.by, id |-> m.id, ok |-> ok]
           S == Answers \union {a}
<1>1. /\ choiceOut # <<>> /\ choiceOut' = Tail(choiceOut) /\ choiceBack' = Append(choiceBack, a)
      /\ UNCHANGED <<stage, snapshot>>
  BY DEF Choices!PhoneServes
<1>2. choiceOut \in Seq(ChoiceRequests) /\ choiceBack \in Seq(S) BY DEF ChoiceInv, ChoiceTypes
<1>3. a.by = m.by OBVIOUS
<1>4. m = choiceOut[1] /\ (1 \in Syncs(choiceOut) <=> m.by # "direct") BY <1>1, <1>2, SyncsOf
<1>5. \A i \in Syncs(choiceOut') : i + 1 \in Syncs(choiceOut) /\ choiceOut'[i] = choiceOut[i + 1] /\ i \in Nat \ {0}
  BY <1>1, <1>2, SyncsOf DEF Syncs
<1>6. \A i, j \in Syncs(choiceOut') : i = j BY <1>5 DEF OneSync
<1>7. Syncs(choiceBack') = IF a.by = "direct" THEN Syncs(choiceBack) ELSE Syncs(choiceBack) \union {Len(choiceBack) + 1}
  <2>1. a \in S OBVIOUS
  <2> HIDE DEF a, S
  <2>2. Syncs(Append(choiceBack, a)) =
           IF a.by = "direct" THEN Syncs(choiceBack) ELSE Syncs(choiceBack) \union {Len(choiceBack) + 1}
    BY <1>2, <2>1, SyncsOf
  <2> QED BY <1>1, <2>2
<1>8. \A i \in Syncs(choiceBack) : choiceBack'[i] = choiceBack[i] BY <1>1, <1>2, SyncsOf DEF Syncs
<1>9. choiceBack'[Len(choiceBack) + 1] = a BY <1>1, <1>2, SyncsOf
<1> HIDE DEF a, S
<1>10. CASE m.by = "direct"
  <2>1. Syncs(choiceBack') = Syncs(choiceBack) BY <1>3, <1>7, <1>10
  <2>2. Syncs(choiceOut) = {} => Syncs(choiceOut') = {} BY <1>5
  <2> QED BY <1>1, <1>5, <1>6, <1>8, <2>1, <2>2 DEF OneSync, Syncs
<1>11. CASE m.by # "direct"
  <2>1. 1 \in Syncs(choiceOut) BY <1>4, <1>11
  <2>2. Syncs(choiceOut') = {} BY <1>5, <2>1 DEF OneSync
  <2>3. Syncs(choiceBack) = {} /\ Syncs(choiceBack') = {Len(choiceBack) + 1}
    BY <1>3, <1>7, <1>11, <2>1 DEF OneSync
  <2>4. stage \in {"waiting", "listing"} /\ (m.by = "flush" <=> stage = "waiting")
    BY <1>4, <2>1 DEF OneSync
  <2> QED BY <1>1, <1>3, <1>9, <2>2, <2>3, <2>4 DEF OneSync, Syncs
<1> QED BY <1>10, <1>11

LEMMA SyncStages ==
    ASSUME ChoiceInv, OneSync,
           Choices!StartSync \/ Choices!FlushPendingOperations \/ Choices!AskFilterList
    PROVE  OneSync'
<1>1. Syncs(choiceOut) = {} /\ Syncs(choiceBack) = {} /\ choiceBack' = choiceBack
  BY DEF OneSync, Choices!StartSync, Choices!FlushPendingOperations, Choices!AskFilterList
<1>2. CASE choiceOut' = choiceOut /\ stage' \notin {"waiting", "listing"}
  BY <1>1, <1>2 DEF OneSync, Syncs
<1>3. ASSUME NEW m, choiceOut' = Append(choiceOut, m), m.by # "direct", stage' \in {"waiting", "listing"},
             m.by = "flush" <=> stage' = "waiting", stage' = "waiting" => snapshot' # <<>>
      PROVE  OneSync'
  <2> DEFINE S == ChoiceRequests \union {m}
  <2>1. choiceOut \in Seq(S) /\ m \in S BY DEF ChoiceInv, ChoiceTypes
  <2>2. Syncs(choiceOut') = {Len(choiceOut) + 1} BY <1>1, <1>3, <2>1, SyncsOf
  <2>3. choiceOut'[Len(choiceOut) + 1] = m BY <1>3, <2>1, SyncsOf
  <2> QED BY <1>1, <1>3, <2>2, <2>3 DEF OneSync, Syncs
<1>4. CASE Choices!StartSync BY <1>2, <1>4 DEF Choices!StartSync
<1>5. CASE Choices!AskFilterList
  <2>1. choiceOut' = Append(choiceOut, [by |-> "list", id |-> 0]) /\ stage' = "listing"
    BY <1>5 DEF Choices!AskFilterList
  <2> QED BY <1>3, <2>1
<1>6. CASE Choices!FlushPendingOperations
  <2>1. CASE snapshot = <<>> BY <1>2, <1>6, <2>1 DEF Choices!FlushPendingOperations
  <2>2. CASE snapshot # <<>>
    <3>1. /\ choiceOut' = Append(choiceOut, [by |-> "flush", id |-> Head(snapshot)])
          /\ stage' = "waiting" /\ snapshot' = snapshot
      BY <1>6, <2>2 DEF Choices!FlushPendingOperations
    <3> QED BY <1>3, <2>2, <3>1
  <2> QED BY <2>1, <2>2
<1> QED BY <1>4, <1>5, <1>6

LEMMA SyncAnswer ==
    ASSUME ChoiceInv, OneSync, Choices!HandleAnswer
    PROVE  OneSync'
<1> DEFINE m == Head(choiceBack)
<1>1. /\ choiceBack # <<>> /\ choiceBack' = Tail(choiceBack) /\ choiceOut' = choiceOut
      /\ \/ m.by = "direct" /\ UNCHANGED <<stage, snapshot>>
         \/ m.by \in {"flush", "list"} /\ stage' \notin {"waiting", "listing"}
  BY DEF Choices!HandleAnswer, Choices!Flushed
<1>2. choiceBack \in Seq(Answers) BY DEF ChoiceInv, ChoiceTypes
<1>3. 1 \in Syncs(choiceBack) <=> m.by # "direct" BY <1>1, <1>2, SyncsOf
<1>4. \A i \in Syncs(choiceBack') : i + 1 \in Syncs(choiceBack) /\ choiceBack'[i] = choiceBack[i + 1] /\ i \in Nat \ {0}
  BY <1>1, <1>2, SyncsOf DEF Syncs
<1>5. \A i, j \in Syncs(choiceBack') : i = j BY <1>4 DEF OneSync
<1>6. CASE m.by = "direct" /\ UNCHANGED <<stage, snapshot>>
  <2>1. Syncs(choiceBack) = {} => Syncs(choiceBack') = {} BY <1>4
  <2> QED BY <1>1, <1>4, <1>5, <1>6, <2>1 DEF OneSync, Syncs
<1>7. CASE m.by \in {"flush", "list"} /\ stage' \notin {"waiting", "listing"}
  <2>1. 1 \in Syncs(choiceBack) /\ Syncs(choiceOut) = {} BY <1>3, <1>7 DEF OneSync
  <2>2. Syncs(choiceBack') = {} BY <1>4, <2>1 DEF OneSync
  <2> QED BY <1>1, <1>7, <2>1, <2>2 DEF OneSync, Syncs
<1> QED BY <1>1, <1>6, <1>7

LEMMA SyncStep == ChoiceInv /\ OneSync /\ [Choices!Next]_(Choices!vars) => OneSync'
<1> SUFFICES ASSUME ChoiceInv, OneSync, [Choices!Next]_(Choices!vars) PROVE OneSync'
  OBVIOUS
<1>1. CASE UNCHANGED Choices!vars BY <1>1 DEF Choices!vars, OneSync, Syncs
<1>2. CASE Choices!Disconnect
  <2>1. choiceOut' = <<>> /\ choiceBack' = <<>> /\ stage' = "idle" BY <1>2 DEF Choices!Disconnect
  <2> QED BY <2>1 DEF OneSync, Syncs
<1> QED BY <1>1, <1>2, SyncDirect, SyncServes, SyncStages, SyncAnswer DEF Choices!Next

LEMMA ChoiceStep == ChoiceInv /\ OneSync /\ [Choices!Next]_(Choices!vars) => ChoiceInv'
<1> SUFFICES ASSUME ChoiceInv, OneSync, [Choices!Next]_(Choices!vars) PROVE ChoiceInv'
  OBVIOUS
<1>1. CASE UNCHANGED Choices!vars
  BY <1>1, SameMade DEF Choices!vars, ChoiceInv, ChoiceTypes, ConfirmedIsApplied, KeptOrApplied,
    In
<1>2. CASE Choices!ToggleFilter \/ Choices!MarkThreadRead
  <2>1. \E kind \in Choices!Kinds : Choices!Call(kind)
    BY <1>2 DEF Choices!ToggleFilter, Choices!MarkThreadRead, Choices!Kinds
  <2> QED BY <2>1, CallStep
<1> QED BY <1>1, <1>2, TimeoutStep, ServesChoice, FlushSteps, AnswerStep, DisconnectStep
        DEF Choices!Next

(* A choice the phone has not applied is on its way there or in the table of *)
(* pending operations (handlers.ts filter.set and sms.mark_thread_read; *)
(* sync-orchestrator.ts flushPendingOperations; database.ts queueOperation): *)
(* for any number of choices, refusals, timeouts and ends of a connection. *)
THEOREM ChoicesAreKept == Choices!Spec => []Choices!NoChoiceIsForgotten
<1>1. ChoiceInv => Choices!NoChoiceIsForgotten
  BY DEF ChoiceInv, KeptOrApplied, In, Made, Choices!NoChoiceIsForgotten
<1>2. Choices!Init => ChoiceInv /\ OneSync BY ChoiceInit DEF Choices!Init, OneSync, Syncs
<1> QED BY <1>1, <1>2, ChoiceStep, SyncStep, PTL DEF Choices!Spec

--------------------
(* ContactMigration *)

Heard == \E i \in DOMAIN replies : replies[i].id = waits

MigrationInv ==
    /\ migrationOut \in Seq({"scan", "execute"}) /\ migrationBack \in Seq({"scan", "execute"})
    /\ replies \in Seq([id : Nat, with : {"error", "scan", "execute"}])
    /\ migrationSlot \in Nat /\ made \in Nat /\ waits \in Nat
    /\ timers = IF migrationSlot = 0 THEN {} ELSE {migrationSlot}         \* one timer, the one of the slot
    /\ window \in Migration!Busy => waits # 0 /\ (migrationSlot = waits \/ Heard)

LEMMA ReplyAdded ==
    ASSUME MigrationInv, NEW id \in Nat, NEW with \in {"error", "scan", "execute"}
    PROVE  LET r == Append(replies, [id |-> id, with |-> with])
           IN  /\ r \in Seq([id : Nat, with : {"error", "scan", "execute"}])
               /\ Len(replies) + 1 \in DOMAIN r /\ r[Len(replies) + 1].id = id
               /\ \A i \in DOMAIN replies : i \in DOMAIN r /\ r[i] = replies[i]
<1> DEFINE m == [id |-> id, with |-> with]
           M == [id : Nat, with : {"error", "scan", "execute"}]
<1>1. m \in M /\ m.id = id OBVIOUS
<1>2. replies \in Seq(M) BY DEF MigrationInv
<1> HIDE DEF m, M
<1>3. /\ Append(replies, m) \in Seq(M)
      /\ Len(replies) + 1 \in DOMAIN Append(replies, m)
      /\ Append(replies, m)[Len(replies) + 1] = m
      /\ \A i \in DOMAIN replies : i \in DOMAIN Append(replies, m)
                                   /\ Append(replies, m)[i] = replies[i]
  BY <1>1, <1>2
<1> QED BY <1>1, <1>3 DEF m, M

LEMMA RequestStep ==
    ASSUME MigrationInv, NEW op \in {"scan", "execute"}, Migration!Request(op)
    PROVE  MigrationInv'
<1> DEFINE n == made + 1
<1>1. /\ made' = n /\ waits' = n /\ n \in Nat \ {0} /\ migrationBack' = migrationBack
      /\ migrationOut \in Seq({"scan", "execute"})
  BY DEF Migration!Request, MigrationInv
<1>2. CASE ~migrationUp
  <2>1. replies' = Append(replies, [id |-> n, with |-> "error"]) /\ UNCHANGED <<migrationOut, migrationSlot, timers>>
    BY <1>2 DEF Migration!Request, Migration!Settled
  <2>2. Heard' BY <1>1, <2>1, ReplyAdded DEF Heard
  <2>3. replies' \in Seq([id : Nat, with : {"error", "scan", "execute"}]) BY <1>1, <2>1, ReplyAdded
  <2> QED BY <1>1, <2>1, <2>2, <2>3 DEF MigrationInv
<1>3. CASE migrationUp
  <2>1. /\ migrationOut' = Append(migrationOut, op) /\ migrationSlot' = n /\ timers' = (timers \ {migrationSlot}) \union {n}
        /\ replies' = IF migrationSlot = 0 THEN replies ELSE Append(replies, [id |-> migrationSlot, with |-> "error"])
    BY <1>3 DEF Migration!Request, Migration!Settled
  <2>2. replies' \in Seq([id : Nat, with : {"error", "scan", "execute"}])
    BY <2>1, ReplyAdded DEF MigrationInv
  <2>3. timers' = {n} BY <2>1 DEF MigrationInv
  <2>4. migrationOut' \in Seq({"scan", "execute"}) BY <1>1, <2>1
  <2> QED BY <1>1, <2>1, <2>2, <2>3, <2>4 DEF MigrationInv
<1> QED BY <1>2, <1>3

(* What settles the slot's promise puts its outcome on the way. *)
LEMMA SettlesSlot ==
    ASSUME MigrationInv, NEW with \in {"error", "scan", "execute"},
           migrationSlot' = 0, timers' = timers \ {migrationSlot},
           replies' = IF migrationSlot = 0 THEN replies ELSE Append(replies, [id |-> migrationSlot, with |-> with]),
           UNCHANGED <<migrationOut, window, waits, made>>, migrationBack' \in Seq({"scan", "execute"})
    PROVE  MigrationInv'
<1>1. migrationSlot \in Nat BY DEF MigrationInv
<1>2. timers' = {} BY DEF MigrationInv
<1>3. replies' \in Seq([id : Nat, with : {"error", "scan", "execute"}])
  BY <1>1, ReplyAdded DEF MigrationInv
<1>4. Heard => Heard' BY <1>1, ReplyAdded DEF Heard
<1>5. migrationSlot # 0 /\ migrationSlot = waits => Heard' BY <1>1, ReplyAdded DEF Heard
<1> QED BY <1>2, <1>3, <1>4, <1>5 DEF MigrationInv

LEMMA ReplyStep ==
    ASSUME MigrationInv, Migration!HandleReply
    PROVE  MigrationInv'
<1> DEFINE M == [id : Nat, with : {"error", "scan", "execute"}]
           m == Head(replies)
<1>1. /\ replies \in Seq(M) /\ replies # <<>> /\ replies' = Tail(replies)
      /\ UNCHANGED <<migrationOut, migrationBack, migrationSlot, timers, waits, made>>
  BY DEF Migration!HandleReply, MigrationInv
<1>2. replies' \in Seq(M) BY <1>1
<1>3. m = replies[1] /\ \A i \in DOMAIN replies : i # 1 =>
          i - 1 \in DOMAIN replies' /\ replies'[i - 1] = replies[i]
  BY <1>1
<1>4. CASE window \in Migration!Busy /\ m.id = waits
  <2>1. window' \notin Migration!Busy BY <1>4 DEF Migration!HandleReply, Migration!Busy
  <2> QED BY <1>1, <1>2, <2>1 DEF MigrationInv, Migration!Busy
<1>5. CASE ~(window \in Migration!Busy /\ m.id = waits)
  <2>1. window' = window BY <1>5 DEF Migration!HandleReply
  <2>2. window \in Migration!Busy /\ Heard => Heard' BY <1>1, <1>3, <1>5 DEF Heard
  <2> QED BY <1>1, <1>2, <2>1, <2>2 DEF MigrationInv, Migration!Busy
<1> QED BY <1>4, <1>5

LEMMA MigrationStep == MigrationInv /\ [Migration!Next]_(Migration!vars) => MigrationInv'
<1> SUFFICES ASSUME MigrationInv, [Migration!Next]_(Migration!vars) PROVE MigrationInv'
  OBVIOUS
<1>1. CASE UNCHANGED Migration!vars BY <1>1 DEF Migration!vars, MigrationInv, Heard, Migration!Busy
<1>2. CASE Migration!Open \/ Migration!Close
  BY <1>2 DEF Migration!Open, Migration!Close, MigrationInv, Heard, Migration!Busy
<1>3. CASE Migration!Scan \/ Migration!Migrate
  BY <1>3, RequestStep DEF Migration!Scan, Migration!Migrate
<1>4. CASE Migration!PhoneAnswers
  <2>1. /\ migrationOut # <<>> /\ migrationOut' = Tail(migrationOut) /\ migrationBack' = Append(migrationBack, Head(migrationOut))
        /\ UNCHANGED <<migrationSlot, timers, replies, window, waits, made>>
    BY <1>4 DEF Migration!PhoneAnswers
  <2>2. migrationOut' \in Seq({"scan", "execute"}) /\ migrationBack' \in Seq({"scan", "execute"})
    BY <2>1 DEF MigrationInv
  <2> QED BY <2>1, <2>2 DEF MigrationInv, Heard, Migration!Busy
<1>5. CASE Migration!Answer
  <2>1. migrationBack # <<>> /\ migrationBack \in Seq({"scan", "execute"}) /\ migrationBack' = Tail(migrationBack)
    BY <1>5 DEF Migration!Answer, MigrationInv
  <2>2. Head(migrationBack) \in {"scan", "execute"} /\ migrationBack' \in Seq({"scan", "execute"})
    BY <2>1
  <2> QED BY <1>5, <2>2, SettlesSlot DEF Migration!Answer, Migration!Settled
<1>6. ASSUME NEW id \in timers, Migration!Timer(id) PROVE MigrationInv'
  <2>1. migrationSlot # 0 /\ id = migrationSlot BY <1>6 DEF MigrationInv
  <2>2. migrationBack' \in Seq({"scan", "execute"}) BY <1>6 DEF Migration!Timer, MigrationInv
  <2> QED BY <1>6, <2>1, <2>2, SettlesSlot DEF Migration!Timer, Migration!Settled
<1>7. CASE Migration!Disconnect \/ Migration!Connect
  <2>1. <<>> \in Seq({"scan", "execute"}) OBVIOUS
  <2> QED BY <1>7, <2>1 DEF Migration!Disconnect, Migration!Connect, MigrationInv, Heard,
                            Migration!Busy
<1> QED BY <1>1, <1>2, <1>3, <1>4, <1>5, <1>6, <1>7, ReplyStep DEF Migration!Next

(* A window that scans or migrates holds the promise the next answer settles, *)
(* with a timer of its own, or its outcome is on the way *)
(* (daemon.ts requestContactMigrationScan, requestContactMigrationExecute): *)
(* for any number of requests. *)
THEOREM WaitersAreHeard == Migration!Spec => []Migration!WaiterIsHeard
<1>1. Migration!Init => MigrationInv
  <2> SUFFICES ASSUME Migration!Init PROVE MigrationInv
    OBVIOUS
  <2>1. /\ <<>> \in Seq({"scan", "execute"})
        /\ <<>> \in Seq([id : Nat, with : {"error", "scan", "execute"}])
    OBVIOUS
  <2> QED BY <2>1 DEF Migration!Init, MigrationInv, Migration!Busy
<1>2. MigrationInv => Migration!WaiterIsHeard BY DEF MigrationInv, Migration!WaiterIsHeard, Heard
<1> QED BY <1>1, <1>2, MigrationStep, PTL DEF Migration!Spec

--------------------
(* The table has a row once, none of a call that still waits, and begins with *)
(* what the synchronisation has yet to send, whose first row it is that *)
(* travels; without a connection nothing does. *)
Once(s) == \A i, j \in DOMAIN s : s[i] = s[j] => i = j
StartsWith(s, t) == Len(s) <= Len(t) /\ \A i \in 1..Len(s) : s[i] = t[i]
Heads(s, id) == \A i \in DOMAIN s : s[i].by = "flush" => s[i].id = id

TableInv ==
    /\ Once(queued) /\ \A i \in choiceCalls : ~In(i, queued)
    /\ stage # "idle" => StartsWith(snapshot, queued)
    /\ Heads(choiceOut, snapshot[1]) /\ Heads(choiceBack, snapshot[1])
    /\ ~choiceUp => choiceOut = <<>> /\ choiceBack = <<>> /\ choiceCalls = {} /\ stage = "idle"

ChoiceBounds ==
    /\ Len(chosen) <= MaxChoices /\ reached \subseteq Made
    /\ hidden \in BOOLEAN /\ notices \in Seq(BOOLEAN)
    /\ stage \in {"idle", "flush", "waiting", "list", "listing"}

LEMMA OnceAppended ==
    ASSUME NEW S, NEW s \in Seq(S), NEW x \in S
    PROVE  /\ Once(s) /\ ~In(x, s) => Once(Append(s, x))
           /\ \A y : In(y, Append(s, x)) => In(y, s) \/ y = x
           /\ \A r \in Seq(S) : StartsWith(r, s) => StartsWith(r, Append(s, x))
<1>1. /\ Len(Append(s, x)) = Len(s) + 1 /\ Append(s, x)[Len(s) + 1] = x
      /\ \A i \in 1..Len(s) : Append(s, x)[i] = s[i]
      /\ DOMAIN Append(s, x) = 1..(Len(s) + 1) /\ DOMAIN s = 1..Len(s) /\ Len(s) \in Nat
  OBVIOUS
<1>2. \A i \in 1..(Len(s) + 1) : i \in 1..Len(s) \/ i = Len(s) + 1 BY <1>1
<1>3. Once(s) /\ ~In(x, s) => Once(Append(s, x)) BY <1>1, <1>2 DEF Once, In
<1>4. \A y : In(y, Append(s, x)) => In(y, s) \/ y = x BY <1>1, <1>2 DEF In
<1>5. ASSUME NEW r \in Seq(S), StartsWith(r, s) PROVE StartsWith(r, Append(s, x))
  <2>1. Len(r) \in Nat /\ Len(r) <= Len(s) BY <1>5 DEF StartsWith
  <2>2. \A i \in 1..Len(r) : i \in 1..Len(s) BY <1>1, <2>1
  <2> QED BY <1>1, <1>5, <2>1, <2>2 DEF StartsWith
<1> QED BY <1>3, <1>4, <1>5

(* A row that is the first one is found first. *)
LEMMA RemovesFirst ==
    ASSUME NEW S, NEW s \in Seq(S), s # <<>>
    PROVE  Choices!RemoveFirst(s, s[1]) = Tail(s)
<1> DEFINE I == {i \in 1..Len(s) : s[i] = s[1]}
<1>1. Len(s) \in Nat \ {0} OBVIOUS
<1>2. 1 \in I /\ \A j \in I : 1 <= j BY <1>1
<1>3. Choices!Min(I) = 1
  <2>1. Choices!Min(I) = CHOOSE i \in I : \A j \in I : i <= j BY DEF Choices!Min
  <2>2. \A i \in I : (\A j \in I : i <= j) => i = 1 BY <1>1, <1>2
  <2> HIDE DEF I
  <2> QED BY <1>2, <2>1, <2>2
<1>4. Choices!RemoveFirst(s, s[1]) = Choices!RemoveAt(s, 1)
  <2>1. \E i \in 1..Len(s) : s[i] = s[1] BY <1>1
  <2> QED BY <1>2, <1>3, <2>1 DEF Choices!RemoveFirst, Choices!SelectInSeq
<1>5. Choices!RemoveAt(s, 1) = SubSeq(s, 1, 0) \o SubSeq(s, 2, Len(s)) BY DEF Choices!RemoveAt
<1>6. SubSeq(s, 1, 0) = <<>> OBVIOUS
<1>7. SubSeq(s, 2, Len(s)) = Tail(s) /\ Tail(s) \in Seq(S) BY <1>1
<1>8. <<>> \o Tail(s) = Tail(s) BY <1>7
<1> QED BY <1>4, <1>5, <1>6, <1>7, <1>8

LEMMA TailOnce ==
    ASSUME NEW S, NEW s \in Seq(S), s # <<>>
    PROVE  /\ Once(s) => Once(Tail(s))
           /\ \A y : In(y, Tail(s)) => In(y, s)
           /\ \A r \in Seq(S) : r # <<>> /\ StartsWith(r, s) => StartsWith(Tail(r), Tail(s))
<1>1. /\ Len(s) \in Nat \ {0} /\ Len(Tail(s)) = Len(s) - 1 /\ DOMAIN s = 1..Len(s)
      /\ DOMAIN Tail(s) = 1..(Len(s) - 1) /\ \A i \in 1..(Len(s) - 1) : Tail(s)[i] = s[i + 1]
  OBVIOUS
<1>2. \A i \in 1..(Len(s) - 1) : i + 1 \in 1..Len(s) BY <1>1
<1>3. Once(s) => Once(Tail(s)) BY <1>1, <1>2 DEF Once
<1>4. \A y : In(y, Tail(s)) => In(y, s) BY <1>1, <1>2 DEF In
<1>5. ASSUME NEW r \in Seq(S), r # <<>>, StartsWith(r, s) PROVE StartsWith(Tail(r), Tail(s))
  <2>1. /\ Len(r) \in Nat \ {0} /\ Len(Tail(r)) = Len(r) - 1
        /\ \A i \in 1..(Len(r) - 1) : Tail(r)[i] = r[i + 1]
    BY <1>5
  <2>2. Len(r) <= Len(s) /\ \A i \in 1..Len(r) : r[i] = s[i] BY <1>5 DEF StartsWith
  <2>3. \A i \in 1..(Len(r) - 1) : i + 1 \in 1..Len(r) /\ i \in 1..(Len(s) - 1) BY <1>1, <2>1, <2>2
  <2> QED BY <1>1, <2>1, <2>2, <2>3 DEF StartsWith
<1> QED BY <1>3, <1>4, <1>5

(* A call that fails stands in the table, once, and no longer waits. *)
LEMMA SettleTables ==
    ASSUME ChoiceInv, TableInv, NEW i \in choiceCalls, NEW ok, Choices!Settle(i, ok),
           UNCHANGED <<choiceUp, choiceOut, stage, snapshot>>, Heads(choiceBack', snapshot[1])
    PROVE  TableInv'
<1>1. choiceCalls \in SUBSET Made /\ queued \in Seq(Made) /\ snapshot \in Seq(Made) /\ i \in Made
  BY DEF ChoiceInv, ChoiceTypes
<1>2. choiceUp /\ ~In(i, queued) BY DEF TableInv
<1>3. choiceCalls' = choiceCalls \ {i} /\ (queued' = queued \/ queued' = Append(queued, i))
  BY DEF Choices!Settle, Choices!Failed
<1>4. Once(queued') BY <1>1, <1>2, <1>3, OnceAppended DEF TableInv
<1>5. \A j \in choiceCalls' : ~In(j, queued')
  <2>1. \A y : In(y, Append(queued, i)) => In(y, queued) \/ y = i BY <1>1, OnceAppended
  <2>2. \A j \in choiceCalls : ~In(j, queued) BY DEF TableInv
  <2> QED BY <1>3, <2>1, <2>2
<1>6. stage # "idle" => StartsWith(snapshot, queued')
  <2>1. StartsWith(snapshot, queued) => StartsWith(snapshot, Append(queued, i))
    BY <1>1, OnceAppended
  <2>2. stage # "idle" => StartsWith(snapshot, queued) BY DEF TableInv
  <2> QED BY <1>3, <2>1, <2>2
<1> QED BY <1>2, <1>4, <1>5, <1>6 DEF TableInv, In

LEMMA TableCall ==
    ASSUME ChoiceInv, TableInv, NEW kind \in Choices!Kinds, Choices!Call(kind)
    PROVE  TableInv'
<1> DEFINE n == Len(chosen) + 1
           m == [by |-> "direct", id |-> n]
<1>1. /\ chosen' = Append(chosen, kind)
      /\ \/ choiceUp /\ choiceOut' = Append(choiceOut, m) /\ choiceCalls' = choiceCalls \union {n} /\ queued' = queued
         \/ ~choiceUp /\ queued' = Append(queued, n) /\ choiceOut' = choiceOut /\ choiceCalls' = choiceCalls
      /\ UNCHANGED <<choiceUp, choiceBack, snapshot, stage>>
  BY DEF Choices!Call
<1>2. /\ queued \in Seq(Made) /\ choiceCalls \in SUBSET Made /\ choiceOut \in Seq(ChoiceRequests)
  BY DEF ChoiceInv, ChoiceTypes
<1>3. Made' = Made \union {n} /\ n \notin Made BY <1>1, MadeGrows DEF ChoiceInv
<1>4. queued \in Seq(Made') /\ n \in Made' BY <1>2, <1>3
<1>5. ~In(n, queued) BY <1>2, <1>3 DEF In
<1>6. CASE choiceUp
  <2>1. Heads(Append(choiceOut, m), snapshot[1])
    <3>1. \A i \in DOMAIN Append(choiceOut, m) :
             (i \in DOMAIN choiceOut /\ Append(choiceOut, m)[i] = choiceOut[i]) \/ Append(choiceOut, m)[i] = m
      BY <1>2
    <3>2. m.by # "flush" OBVIOUS
    <3> HIDE DEF m
    <3> QED BY <3>1, <3>2 DEF Heads, TableInv
  <2> QED BY <1>1, <1>5, <1>6, <2>1 DEF TableInv, In
<1>7. CASE ~choiceUp
  <2>1. stage = "idle" /\ choiceCalls = {} BY <1>7 DEF TableInv
  <2>2. Once(queued')
    <3>1. Once(queued) BY DEF TableInv
    <3>2. Once(Append(queued, n))
      <4> HIDE DEF n
      <4> QED BY <1>4, <1>5, <3>1, OnceAppended
    <3> QED BY <1>1, <1>7, <3>2
  <2> QED BY <1>1, <1>7, <2>1, <2>2 DEF TableInv, Heads
<1> QED BY <1>6, <1>7

LEMMA TableServes ==
    ASSUME ChoiceInv, TableInv, NEW ok \in BOOLEAN, Choices!PhoneServes(ok)
    PROVE  TableInv'
<1> DEFINE m == Head(choiceOut)
           a == IF m.by = "list" THEN [by |-> "list", id |-> 0, ok |-> phoneHidden]
                ELSE [by |-> m.by, id |-> m.id, ok |-> ok]
           S == Answers \union {a}
<1>1. /\ choiceOut # <<>> /\ choiceOut' = Tail(choiceOut) /\ choiceBack' = Append(choiceBack, a)
      /\ UNCHANGED <<choiceUp, choiceCalls, queued, stage, snapshot>>
  BY DEF Choices!PhoneServes
<1>2. choiceOut \in Seq(ChoiceRequests) /\ choiceBack \in Seq(S) BY DEF ChoiceInv, ChoiceTypes
<1>3. a.by = m.by /\ (m.by = "flush" => a.id = m.id) OBVIOUS
<1>4. m = choiceOut[1] /\ 1 \in DOMAIN choiceOut BY <1>1, <1>2
<1>5. a.by = "flush" => a.id = snapshot[1] BY <1>3, <1>4 DEF TableInv, Heads
<1>6. Heads(choiceBack', snapshot[1])
  <2>1. a \in S OBVIOUS
  <2> HIDE DEF a, S
  <2>2. \A i \in DOMAIN choiceBack' : (i \in DOMAIN choiceBack /\ choiceBack'[i] = choiceBack[i]) \/ choiceBack'[i] = a
    BY <1>1, <1>2, <2>1
  <2> QED BY <1>5, <2>2 DEF TableInv, Heads
<1>7. Heads(choiceOut', snapshot[1])
  <2>1. \A i \in DOMAIN choiceOut' : i + 1 \in DOMAIN choiceOut /\ choiceOut'[i] = choiceOut[i + 1]
    BY <1>1, <1>2
  <2> QED BY <2>1 DEF TableInv, Heads
<1> HIDE DEF a, S, m
<1> QED BY <1>1, <1>6, <1>7 DEF TableInv, In

(* Without a message of the synchronisation on its way nothing has a head. *)
LEMMA NoHeads ==
    ASSUME NEW s, Syncs(s) = {}, NEW id
    PROVE  Heads(s, id)
  BY DEF Syncs, Heads

LEMMA TableStages ==
    ASSUME ChoiceInv, OneSync, TableInv,
           Choices!StartSync \/ Choices!FlushPendingOperations \/ Choices!AskFilterList
    PROVE  TableInv'
<1>1. Syncs(choiceOut) = {} /\ Syncs(choiceBack) = {}
  BY DEF OneSync, Choices!StartSync, Choices!FlushPendingOperations, Choices!AskFilterList
<1>2. /\ choiceUp /\ choiceUp' /\ UNCHANGED <<choiceCalls, queued, choiceBack>>
  BY DEF Choices!StartSync, Choices!FlushPendingOperations, Choices!AskFilterList, TableInv
<1>3. Heads(choiceBack', snapshot'[1]) BY <1>1, <1>2, NoHeads
<1>4. queued \in Seq(Made) /\ choiceOut \in Seq(ChoiceRequests) /\ snapshot \in Seq(Made)
  BY DEF ChoiceInv, ChoiceTypes
<1>5. StartsWith(snapshot', queued)
  <2>1. CASE Choices!StartSync
    <3>1. snapshot' = queued BY <2>1 DEF Choices!StartSync
    <3> QED BY <1>4, <3>1 DEF StartsWith
  <2>2. CASE Choices!FlushPendingOperations \/ Choices!AskFilterList
    BY <2>2 DEF Choices!FlushPendingOperations, Choices!AskFilterList, TableInv
  <2> QED BY <2>1, <2>2
<1>6. ASSUME NEW m, choiceOut' = Append(choiceOut, m), m.by = "flush" => m.id = snapshot'[1]
      PROVE  Heads(choiceOut', snapshot'[1])
  <2> DEFINE S == ChoiceRequests \union {m}
  <2>1. choiceOut \in Seq(S) /\ m \in S BY <1>4
  <2>2. \A i \in DOMAIN choiceOut' : (i \in DOMAIN choiceOut /\ choiceOut'[i] = choiceOut[i]) \/ choiceOut'[i] = m
    BY <1>6, <2>1
  <2>3. Heads(choiceOut, snapshot'[1]) BY <1>1, NoHeads
  <2> QED BY <1>6, <2>2, <2>3 DEF Heads
<1>7. Heads(choiceOut', snapshot'[1])
  <2>1. CASE choiceOut' = choiceOut BY <1>1, <2>1, NoHeads
  <2>2. CASE choiceOut' = Append(choiceOut, [by |-> "list", id |-> 0]) BY <1>6, <2>2
  <2>3. CASE choiceOut' = Append(choiceOut, [by |-> "flush", id |-> Head(snapshot)]) /\ snapshot # <<>>
             /\ snapshot' = snapshot
    <3>1. Head(snapshot) = snapshot'[1] BY <1>4, <2>3
    <3> QED BY <1>6, <2>3, <3>1
  <2> QED BY <2>1, <2>2, <2>3
          DEF Choices!StartSync, Choices!FlushPendingOperations, Choices!AskFilterList
<1> QED BY <1>2, <1>3, <1>5, <1>7 DEF TableInv, In

LEMMA TableAnswer ==
    ASSUME ChoiceInv, OneSync, OneSync', TableInv, Choices!HandleAnswer
    PROVE  TableInv'
<1> DEFINE m == Head(choiceBack)
<1>1. /\ choiceBack # <<>> /\ choiceBack' = Tail(choiceBack) /\ UNCHANGED <<choiceUp, choiceOut>> /\ choiceUp
  BY DEF Choices!HandleAnswer, TableInv
<1>2. /\ choiceBack \in Seq(Answers) /\ queued \in Seq(Made) /\ snapshot \in Seq(Made)
  BY DEF ChoiceInv, ChoiceTypes
<1>3. /\ m = choiceBack[1] /\ 1 \in DOMAIN choiceBack
      /\ \A i \in DOMAIN choiceBack' : i + 1 \in DOMAIN choiceBack /\ choiceBack'[i] = choiceBack[i + 1]
  BY <1>1, <1>2
<1>4. Heads(choiceBack', snapshot[1]) BY <1>3 DEF TableInv, Heads
<1>5. CASE m.by = "direct" /\ m.id \in choiceCalls
  <2>1. Choices!Settle(m.id, m.ok) /\ UNCHANGED <<stage, snapshot>> BY <1>5 DEF Choices!HandleAnswer
  <2> QED BY <1>1, <1>4, <1>5, <2>1, SettleTables
<1>6. CASE m.by = "flush"
  <2>1. /\ choiceCalls' = choiceCalls /\ Choices!Flushed(m.id, m.ok) /\ stage' \notin {"waiting", "listing"}
    BY <1>6 DEF Choices!HandleAnswer, Choices!Flushed
  <2>2. Heads(choiceOut', snapshot'[1]) /\ Heads(choiceBack', snapshot'[1])
    BY <2>1, NoHeads DEF OneSync, Syncs, Heads
  <2>3. stage = "waiting" /\ snapshot # <<>> /\ m.id = snapshot[1]
    <3>1. 1 \in Syncs(choiceBack) BY <1>3, <1>6 DEF Syncs
    <3> QED BY <1>3, <1>6, <3>1 DEF OneSync, TableInv, Heads
  <2>4. StartsWith(snapshot, queued) BY <2>3 DEF TableInv
  <2>5. CASE m.ok
    <3>1. queued' = Choices!RemoveFirst(queued, m.id) /\ snapshot' = Tail(snapshot)
      BY <2>1, <2>5 DEF Choices!Flushed
    <3>2. queued # <<>> /\ m.id = queued[1] BY <1>2, <2>3, <2>4 DEF StartsWith
    <3>3. queued' = Tail(queued) BY <1>2, <3>1, <3>2, RemovesFirst
    <3>4. Once(queued') /\ StartsWith(snapshot', queued') /\ \A y : In(y, queued') => In(y, queued)
      <4>1. Once(Tail(queued)) /\ \A y : In(y, Tail(queued)) => In(y, queued)
        <5>1. Once(queued) BY DEF TableInv
        <5> QED BY <1>2, <3>2, <5>1, TailOnce
      <4>2. StartsWith(Tail(snapshot), Tail(queued)) BY <1>2, <2>3, <2>4, <3>2, TailOnce
      <4> QED BY <3>1, <3>3, <4>1, <4>2
    <3> QED BY <1>1, <2>1, <2>2, <3>4 DEF TableInv, In
  <2>6. CASE ~m.ok
    <3>1. queued' = queued /\ snapshot' = <<>> BY <2>1, <2>6 DEF Choices!Flushed
    <3>2. StartsWith(<<>>, queued) BY <1>2 DEF StartsWith
    <3> QED BY <1>1, <2>1, <2>2, <3>1, <3>2 DEF TableInv, In
  <2> QED BY <2>5, <2>6
<1>7. CASE ~(m.by = "direct" /\ m.id \in choiceCalls) /\ m.by # "flush"
  <2>1. UNCHANGED <<choiceCalls, queued, snapshot>> /\ (stage' = stage \/ stage' = "idle")
    BY <1>7 DEF Choices!HandleAnswer
  <2> QED BY <1>1, <1>4, <2>1 DEF TableInv, In, Heads
<1> QED BY <1>5, <1>6, <1>7

LEMMA TableDisconnects ==
    ASSUME ChoiceInv, TableInv, Choices!Disconnect
    PROVE  TableInv'
<1> DEFINE s == Choices!CallsInOrder
<1>1. /\ choiceOut' = <<>> /\ choiceBack' = <<>> /\ choiceCalls' = {} /\ stage' = "idle" /\ queued' = queued \o s
  BY DEF Choices!Disconnect
<1>2. /\ choiceCalls \in SUBSET Made /\ queued \in Seq(Made) /\ chosen \in Seq(Choices!Kinds)
  BY DEF ChoiceInv, ChoiceTypes
<1>3. Made = 1..Len(chosen) /\ Len(chosen) \in Nat BY <1>2 DEF Made
<1>4. IsFiniteSet(Made) BY <1>3, FS_Interval
<1>5. choiceCalls \in SUBSET Nat /\ IsFiniteSet(choiceCalls)
  <2>1. IsFiniteSet(choiceCalls) BY <1>2, <1>4, FS_Subset
  <2> QED BY <1>2, <1>3, <2>1
<1>6. Ascending(s, choiceCalls)
  <2>1. \E q : Ascending(q, choiceCalls) BY <1>5, HasAscending
  <2>2. Choices!Cardinality(choiceCalls) = Cardinality(choiceCalls)
    BY DEF Choices!Cardinality, Choices!IsFiniteSet, Cardinality, IsFiniteSet
  <2> QED BY <2>1, <2>2 DEF Ascending, Choices!CallsInOrder
<1>7. s \in Seq(choiceCalls) /\ Once(s) BY <1>5, <1>6, AscendingLists DEF Once
<1> HIDE DEF s
<1>8. \A i \in DOMAIN s : ~In(s[i], queued)
  <2>1. \A i \in DOMAIN s : s[i] \in choiceCalls BY <1>7
  <2> QED BY <2>1 DEF TableInv
<1>9. /\ Len(queued) \in Nat /\ DOMAIN queued' = 1..(Len(queued) + Len(s)) /\ Len(s) \in Nat
      /\ \A i \in 1..Len(queued) : queued'[i] = queued[i]
      /\ \A i \in 1..(Len(queued) + Len(s)) : i \notin 1..Len(queued) =>
            i - Len(queued) \in DOMAIN s /\ queued'[i] = s[i - Len(queued)]
      /\ DOMAIN queued = 1..Len(queued)
  BY <1>1, <1>2, <1>7
<1>10. Once(queued')
  <2> SUFFICES ASSUME NEW i \in DOMAIN queued', NEW j \in DOMAIN queued', queued'[i] = queued'[j]
               PROVE  i = j
    BY DEF Once
  <2>1. CASE i \in 1..Len(queued) /\ j \in 1..Len(queued) BY <1>9, <2>1 DEF TableInv, Once
  <2>2. CASE i \in 1..Len(queued) /\ j \notin 1..Len(queued) BY <1>8, <1>9, <2>2 DEF In
  <2>3. CASE i \notin 1..Len(queued) /\ j \in 1..Len(queued) BY <1>8, <1>9, <2>3 DEF In
  <2>4. CASE i \notin 1..Len(queued) /\ j \notin 1..Len(queued)
    <3>1. i - Len(queued) = j - Len(queued) BY <1>7, <1>9, <2>4 DEF Once
    <3> QED BY <1>9, <3>1
  <2> QED BY <2>1, <2>2, <2>3, <2>4
<1> QED BY <1>1, <1>10 DEF TableInv, Heads

LEMMA TableStep == ChoiceInv /\ OneSync /\ TableInv /\ [Choices!Next]_(Choices!vars) => TableInv'
<1> SUFFICES ASSUME ChoiceInv, OneSync, TableInv, [Choices!Next]_(Choices!vars) PROVE TableInv'
  OBVIOUS
<1>1. CASE UNCHANGED Choices!vars BY <1>1 DEF Choices!vars, TableInv, In, Heads
<1>2. CASE Choices!ToggleFilter \/ Choices!MarkThreadRead
  <2>1. \E kind \in Choices!Kinds : Choices!Call(kind)
    BY <1>2 DEF Choices!ToggleFilter, Choices!MarkThreadRead, Choices!Kinds
  <2> QED BY <2>1, TableCall
<1>3. CASE Choices!CallTimesOut
  <2>1. PICK i \in choiceCalls : Choices!Settle(i, FALSE) BY <1>3 DEF Choices!CallTimesOut
  <2>2. UNCHANGED <<choiceUp, choiceOut, choiceBack, stage, snapshot>>
    BY <1>3 DEF Choices!CallTimesOut
  <2>3. Heads(choiceBack', snapshot[1]) BY <2>2 DEF TableInv
  <2> QED BY <2>1, <2>2, <2>3, SettleTables
<1>4. CASE Choices!HandleAnswer
  <2>1. OneSync' BY <1>4, SyncAnswer
  <2> QED BY <1>4, <2>1, TableAnswer
<1>5. CASE Choices!SetFilterList \/ Choices!Connect
  <2>1. UNCHANGED <<choiceOut, choiceBack, choiceCalls, queued, stage, snapshot>> /\ (choiceUp => choiceUp')
    BY <1>5 DEF Choices!SetFilterList, Choices!Connect
  <2> QED BY <2>1 DEF TableInv, In, Heads
<1> QED BY <1>1, <1>2, <1>3, <1>4, <1>5, TableServes, TableStages, TableDisconnects
        DEF Choices!Next

LEMMA ChoiceBoundsStep ==
    ASSUME MaxChoices \in Nat, ChoiceInv, ChoiceBounds, [Choices!Next]_(Choices!vars)
    PROVE  ChoiceBounds'
<1>1. /\ chosen \in Seq(Choices!Kinds) /\ choiceOut \in Seq(ChoiceRequests) /\ choiceBack \in Seq(Answers)
      /\ notices \in Seq(BOOLEAN)
  BY DEF ChoiceInv, ChoiceTypes, ChoiceBounds
<1>2. CASE UNCHANGED Choices!vars BY <1>2, SameMade DEF Choices!vars, ChoiceBounds
<1>3. CASE Choices!ToggleFilter \/ Choices!MarkThreadRead
  <2>1. PICK kind \in Choices!Kinds : Choices!Call(kind) /\ hidden' \in BOOLEAN
    BY <1>3 DEF Choices!ToggleFilter, Choices!MarkThreadRead, Choices!Kinds, ChoiceBounds
  <2>2. /\ Len(chosen) < MaxChoices /\ chosen' = Append(chosen, kind)
        /\ UNCHANGED <<reached, stage, notices>>
    BY <2>1 DEF Choices!Call
  <2>3. Len(chosen') <= MaxChoices BY <1>1, <2>2
  <2>4. Made \subseteq Made' BY <2>2, MadeGrows DEF ChoiceInv
  <2> QED BY <2>1, <2>2, <2>3, <2>4 DEF ChoiceBounds
<1>4. CASE \E ok \in BOOLEAN : Choices!PhoneServes(ok)
  <2>1. PICK ok \in BOOLEAN : Choices!PhoneServes(ok) BY <1>4
  <2>2. /\ choiceOut # <<>> /\ UNCHANGED <<chosen, hidden, stage, notices>>
        /\ reached' = reached \/ (Head(choiceOut).by # "list" /\ reached' = reached \union {Head(choiceOut).id})
    BY <2>1 DEF Choices!PhoneServes
  <2>3. Head(choiceOut) \in ChoiceRequests BY <1>1, <2>2
  <2>4. Head(choiceOut).by # "list" => Head(choiceOut).id \in Made BY <2>3 DEF ChoiceRequests
  <2> QED BY <2>2, <2>4, SameMade DEF ChoiceBounds
<1>5. CASE Choices!HandleAnswer
  <2>1. /\ choiceBack # <<>> /\ UNCHANGED <<chosen, hidden, reached>>
        /\ stage' \in {stage, "idle", "flush", "list"}
        /\ \/ notices' = notices
           \/ Head(choiceBack).by = "list" /\ notices' = Append(notices, Head(choiceBack).ok)
    BY <1>5 DEF Choices!HandleAnswer, Choices!Settle, Choices!Failed, Choices!Flushed
  <2>2. Head(choiceBack) \in Answers BY <1>1, <2>1
  <2>3. Head(choiceBack).ok \in BOOLEAN BY <2>2 DEF Answers
  <2>4. Append(notices, Head(choiceBack).ok) \in Seq(BOOLEAN) BY <1>1, <2>3, AppendProperties
  <2>5. notices' \in Seq(BOOLEAN) BY <1>1, <2>1, <2>4
  <2> QED BY <2>1, <2>5, SameMade DEF ChoiceBounds
<1>6. CASE Choices!SetFilterList
  <2>1. /\ notices # <<>> /\ hidden' = Head(notices) /\ notices' = Tail(notices)
        /\ UNCHANGED <<chosen, reached, stage>>
    BY <1>6 DEF Choices!SetFilterList
  <2>2. hidden' \in BOOLEAN /\ notices' \in Seq(BOOLEAN) BY <1>1, <2>1
  <2> QED BY <2>1, <2>2, SameMade DEF ChoiceBounds
<1>7. CASE \/ Choices!CallTimesOut \/ Choices!StartSync \/ Choices!FlushPendingOperations
           \/ Choices!AskFilterList \/ Choices!Connect \/ Choices!Disconnect
  <2>1. UNCHANGED <<chosen, hidden, reached, notices>>
    BY <1>7 DEF Choices!CallTimesOut, Choices!StartSync, Choices!FlushPendingOperations,
                Choices!AskFilterList, Choices!Connect, Choices!Disconnect
  <2>2. stage' \in {stage, "idle", "flush", "waiting", "list", "listing"}
    BY <1>7 DEF Choices!CallTimesOut, Choices!StartSync, Choices!FlushPendingOperations,
                Choices!AskFilterList, Choices!Connect, Choices!Disconnect
  <2> QED BY <2>1, <2>2, SameMade DEF ChoiceBounds
<1> QED BY <1>2, <1>3, <1>4, <1>5, <1>6, <1>7 DEF Choices!Next

(* The table of pending operations has a choice once and begins with what the *)
(* synchronisation has yet to send, and what the user has chosen waits in no *)
(* call without a connection (database.ts queueOperation, deleteOperation; *)
(* sync-orchestrator.ts flushPendingOperations). *)
THEOREM ChoiceTypesHold == MaxChoices \in Nat => (Choices!Spec => []Choices!TypeOK)
<1> SUFFICES ASSUME MaxChoices \in Nat PROVE Choices!Spec => []Choices!TypeOK
  OBVIOUS
<1>1. Choices!Init => ChoiceInv /\ OneSync /\ TableInv /\ ChoiceBounds
  <2> SUFFICES ASSUME Choices!Init PROVE ChoiceInv /\ OneSync /\ TableInv /\ ChoiceBounds
    OBVIOUS
  <2>1. ChoiceInv BY ChoiceInit
  <2>2. OneSync BY DEF Choices!Init, OneSync, Syncs
  <2>3. <<>> \in Seq(BOOLEAN) OBVIOUS
  <2>4. TableInv BY DEF Choices!Init, TableInv, Once, In, Heads
  <2>5. ChoiceBounds
    <3>1. /\ chosen = <<>> /\ reached = {} /\ hidden = FALSE /\ notices = <<>>
          /\ stage = "idle" /\ Len(chosen) = 0
      BY DEF Choices!Init
    <3>2. Len(chosen) <= MaxChoices BY <3>1
    <3>3. reached \subseteq Made /\ hidden \in BOOLEAN BY <3>1
    <3> QED BY <2>3, <3>1, <3>2, <3>3 DEF ChoiceBounds
  <2> QED BY <2>1, <2>2, <2>4, <2>5
<1>2. ChoiceInv /\ TableInv /\ ChoiceBounds => Choices!TypeOK
  <2> SUFFICES ASSUME ChoiceInv, TableInv, ChoiceBounds PROVE Choices!TypeOK
    OBVIOUS
  <2>1. Made \subseteq Choices!Made
    <3>1. Made = 1..Len(chosen) /\ Len(chosen) \in Nat BY DEF Made, ChoiceInv, ChoiceTypes
    <3> QED BY <3>1 DEF ChoiceBounds, Choices!Made
  <2>2. /\ queued \in Seq(Choices!Made) /\ snapshot \in Seq(Choices!Made)
        /\ choiceCalls \subseteq Choices!Made /\ reached \subseteq Choices!Made
    BY <2>1 DEF ChoiceInv, ChoiceTypes, ChoiceBounds
  <2>3. Choices!IsInjective(queued) BY DEF TableInv, Once, Choices!IsInjective
  <2>4. stage # "idle" => Choices!IsPrefix(snapshot, queued)
    <3> SUFFICES ASSUME stage # "idle" PROVE Choices!IsPrefix(snapshot, queued)
      OBVIOUS
    <3>1. StartsWith(snapshot, queued) BY DEF TableInv
    <3>2. Len(snapshot) \in Nat /\ Len(queued) \in Nat /\ Len(snapshot) <= Len(queued)
      BY <2>2, <3>1 DEF StartsWith
    <3>3. SubSeq(snapshot, 1, Len(snapshot)) = SubSeq(queued, 1, Len(snapshot))
      <4>1. \A i \in 1..Len(snapshot) : snapshot[i] = queued[i] BY <3>1 DEF StartsWith
      <4>2. /\ SubSeq(snapshot, 1, Len(snapshot)) = [i \in 1..Len(snapshot) |-> snapshot[i]]
            /\ SubSeq(queued, 1, Len(snapshot)) = [i \in 1..Len(snapshot) |-> queued[i]]
        BY <2>2, <3>2
      <4> QED BY <4>1, <4>2
    <3> QED BY <3>2, <3>3 DEF Choices!IsPrefix
  <2> QED BY <2>2, <2>3, <2>4 DEF ChoiceInv, ChoiceTypes, TableInv, ChoiceBounds, Choices!TypeOK
<1>3. ChoiceInv /\ OneSync /\ TableInv /\ [Choices!Next]_(Choices!vars) => TableInv' BY TableStep
<1>4. ChoiceInv /\ ChoiceBounds /\ [Choices!Next]_(Choices!vars) => ChoiceBounds'
  BY ChoiceBoundsStep
<1> QED BY <1>1, <1>2, <1>3, <1>4, ChoiceStep, SyncStep, PTL DEF Choices!Spec

--------------------
(* What is bounded, and what a desktop without a connection is left with. *)
EventBounds ==
    /\ Len(kindOf) <= MaxEvents /\ ackCuts \in 0..MaxCuts /\ ackHandled \subseteq DOMAIN kindOf
    /\ \A k \in Kinds : pendingAckIds[k] \subseteq DOMAIN kindOf
    /\ \A k \in Kinds : ackTimer[k] => pendingAckIds[k] # {}
    /\ ~ackUp => ackOut = <<>> /\ ackBack = <<>> /\ ~subscribed

LEMMA EventBoundsStep ==
    ASSUME MaxEvents \in Nat, MaxCuts \in Nat, EventInv, EventBounds, [Events!Next]_(Events!vars)
    PROVE  EventBounds'
<1>1. /\ kindOf \in Seq(Kinds) /\ ackBack \in Seq(DOMAIN kindOf)
      /\ pendingAckIds \in [Kinds -> SUBSET Nat] /\ ackTimer \in [Kinds -> BOOLEAN]
  BY DEF EventInv, EventTypes
<1>2. CASE UNCHANGED Events!vars BY <1>2 DEF Events!vars, EventBounds
<1>3. ASSUME NEW k \in Kinds, Events!PhoneEvent(k) PROVE EventBounds'
  <2>1. /\ Len(kindOf) < MaxEvents /\ kindOf' = Append(kindOf, k)
        /\ ackBack' = IF subscribed THEN Append(ackBack, Len(kindOf) + 1) ELSE ackBack
        /\ UNCHANGED <<ackHandled, ackUp, subscribed, ackOut, ackCuts, pendingAckIds, ackTimer>>
    BY <1>3 DEF Events!PhoneEvent
  <2>2. Len(kindOf') = Len(kindOf) + 1 /\ DOMAIN kindOf \subseteq DOMAIN kindOf' BY <1>1, <2>1
  <2>3. Len(kindOf') <= MaxEvents BY <1>1, <2>1, <2>2 DEF EventBounds
  <2> QED BY <2>1, <2>2, <2>3 DEF EventBounds, Kinds, Events!Kinds
<1>4. CASE Events!PhoneServes
  <2>1. ackOut # <<>> /\ UNCHANGED <<kindOf, ackHandled, ackUp, ackCuts, pendingAckIds, ackTimer>>
    BY <1>4 DEF Events!PhoneServes
  <2> QED BY <2>1 DEF EventBounds
<1>5. ASSUME NEW k \in Kinds, Events!Handle(k) PROVE EventBounds'
  <2>1. /\ ackBack # <<>> /\ ackHandled' = ackHandled \union {Head(ackBack)}
        /\ pendingAckIds' = [pendingAckIds EXCEPT ![k] = @ \union {Head(ackBack)}]
        /\ ackTimer' = [ackTimer EXCEPT ![k] = TRUE]
        /\ UNCHANGED <<kindOf, ackUp, subscribed, ackOut, ackCuts>>
    BY <1>5 DEF Events!Handle, Events!QueueAck
  <2>2. Head(ackBack) \in DOMAIN kindOf BY <1>1, <2>1
  <2>3. ackUp BY <2>1 DEF EventBounds
  <2>4. \A j \in Kinds :
           /\ pendingAckIds'[j] = IF j = k THEN pendingAckIds[j] \union {Head(ackBack)}
                                  ELSE pendingAckIds[j]
           /\ j # k => ackTimer'[j] = ackTimer[j]
    BY <1>1, <2>1
  <2>5. \A j \in Kinds : pendingAckIds'[j] \subseteq DOMAIN kindOf BY <2>2, <2>4 DEF EventBounds
  <2>6. \A j \in Kinds : ackTimer'[j] => pendingAckIds'[j] # {} BY <2>2, <2>4 DEF EventBounds
  <2>7. ackHandled' \subseteq DOMAIN kindOf BY <2>1, <2>2 DEF EventBounds
  <2> QED BY <2>1, <2>3, <2>5, <2>6, <2>7 DEF EventBounds
<1>6. ASSUME NEW k \in Kinds, Events!FlushAcks(k) PROVE EventBounds'
  <2>1. /\ ackUp \/ ackOut' = ackOut
        /\ pendingAckIds' = [pendingAckIds EXCEPT ![k] = {}]
        /\ ackTimer' = [ackTimer EXCEPT ![k] = FALSE]
        /\ UNCHANGED <<kindOf, ackHandled, ackUp, subscribed, ackBack, ackCuts>>
    BY <1>6 DEF Events!FlushAcks
  <2>2. \A j \in Kinds :
           /\ pendingAckIds'[j] = IF j = k THEN {} ELSE pendingAckIds[j]
           /\ ackTimer'[j] = IF j = k THEN FALSE ELSE ackTimer[j]
    BY <1>1, <2>1
  <2>3. \A j \in Kinds :
           pendingAckIds'[j] \subseteq DOMAIN kindOf /\ (ackTimer'[j] => pendingAckIds'[j] # {})
    BY <2>2 DEF EventBounds
  <2>4. ~ackUp => ackOut' = <<>> /\ ackBack' = <<>> /\ ~subscribed' BY <2>1 DEF EventBounds
  <2> QED BY <2>1, <2>3, <2>4 DEF EventBounds, Kinds, Events!Kinds
<1>7. CASE Events!Connect
  <2>1. ackUp' = TRUE /\ UNCHANGED <<kindOf, ackHandled, ackCuts, pendingAckIds, ackTimer>>
    BY <1>7 DEF Events!Connect
  <2> QED BY <2>1 DEF EventBounds
<1>8. CASE Events!Disconnect \/ Events!Replaced \/ Events!Resync
  <2>1. /\ ackCuts < MaxCuts /\ ackCuts' = ackCuts + 1 /\ UNCHANGED <<kindOf, ackHandled>>
        /\ ackUp /\ (ackUp' \/ (ackOut' = <<>> /\ ackBack' = <<>> /\ ~subscribed'))
        /\ pendingAckIds' = [k \in Kinds |-> {}] /\ ackTimer' = [k \in Kinds |-> FALSE]
    BY <1>8 DEF Events!Disconnect, Events!Replaced, Events!Resync, Events!Cut,
                Events!ClearPendingAcks, Kinds
  <2>2. ackCuts' \in 0..MaxCuts BY <2>1 DEF EventBounds
  <2>3. \A k \in Kinds : pendingAckIds'[k] = {} /\ ackTimer'[k] = FALSE BY <2>1
  <2> QED BY <2>1, <2>2, <2>3 DEF EventBounds, Kinds, Events!Kinds
<1>9. CASE Events!HandleEvent \/ Events!HandleMediaEvent \/ Events!HandleWatchEvent
  <2>1. \E k \in Kinds : Events!Handle(k)
    BY <1>9 DEF Events!HandleEvent, Events!HandleMediaEvent, Events!HandleWatchEvent, Kinds,
                Events!Kinds
  <2> QED BY <1>5, <2>1
<1> QED BY <1>2, <1>3, <1>4, <1>6, <1>7, <1>8, <1>9 DEF Events!Next, Kinds

(* Every event that is kept, applied or waits to be acknowledged is one that *)
(* there was, an acknowledgement's timer runs only with something to *)
(* acknowledge, and nothing travels without a connection (event-handler.ts). *)
THEOREM EventTypesHold ==
    MaxEvents \in Nat /\ MaxCuts \in Nat => (Events!Spec => []Events!TypeOK)
<1> SUFFICES ASSUME MaxEvents \in Nat, MaxCuts \in Nat PROVE Events!Spec => []Events!TypeOK
  OBVIOUS
<1>1. Events!Init => EventBounds
  <2> SUFFICES ASSUME Events!Init PROVE EventBounds
    OBVIOUS
  <2>1. /\ kindOf = <<>> /\ ackHandled = {} /\ ackOut = <<>> /\ ackBack = <<>> /\ ackCuts = 0 /\ ~subscribed
        /\ pendingAckIds = [k \in Kinds |-> {}] /\ ackTimer = [k \in Kinds |-> FALSE]
    BY DEF Events!Init, Kinds
  <2> QED BY <2>1 DEF EventBounds
<1>2. EventInv /\ EventBounds => Events!TypeOK
  <2> SUFFICES ASSUME EventInv, EventBounds PROVE Events!TypeOK
    OBVIOUS
  <2>1. DOMAIN kindOf \subseteq 1..MaxEvents
    <3>1. Len(kindOf) \in Nat /\ DOMAIN kindOf = 1..Len(kindOf) BY DEF EventInv, EventTypes
    <3> QED BY <3>1 DEF EventBounds
  <2>2. /\ ackPhone \in [Kinds -> SUBSET (1..MaxEvents)]
        /\ pendingAckIds \in [Kinds -> SUBSET (1..MaxEvents)] /\ ackHandled \subseteq 1..MaxEvents
    BY <2>1 DEF EventInv, EventTypes, EventBounds
  <2> QED BY <2>2 DEF EventInv, EventTypes, EventBounds, Events!TypeOK, Events!Ids, Kinds
<1>3. EventInv /\ EventBounds /\ [Events!Next]_(Events!vars) => EventBounds' BY EventBoundsStep
<1> QED BY <1>1, <1>2, <1>3, EventInit, EventStep, PTL DEF Events!Spec

(* Promises are numbered as they are made, and the number of the one that *)
(* waits, of its timer and of the one the window awaits is one of them. *)
MigrationBounds ==
    /\ migrationUp \in BOOLEAN /\ migrationSlot <= made /\ waits <= made /\ made <= MaxCalls
    /\ window \in Migration!Busy \union {"closed", "idle", "results", "complete", "error"}

LEMMA MigrationBoundsStep ==
    ASSUME MaxCalls \in Nat, MigrationInv, MigrationBounds, [Migration!Next]_(Migration!vars)
    PROVE  MigrationBounds'
<1>1. migrationSlot \in Nat /\ made \in Nat /\ waits \in Nat BY DEF MigrationInv
<1>2. CASE Migration!Scan \/ Migration!Migrate
  <2>1. /\ made < MaxCalls /\ made' = made + 1 /\ waits' = made + 1
        /\ migrationSlot' = migrationSlot \/ migrationSlot' = made + 1
        /\ window' \in {"scanning", "migrating"} /\ migrationUp' = migrationUp
    BY <1>2 DEF Migration!Scan, Migration!Migrate, Migration!Request
  <2> QED BY <1>1, <2>1 DEF MigrationBounds, Migration!Busy
<1>3. CASE UNCHANGED Migration!vars BY <1>3 DEF Migration!vars, MigrationBounds
<1>4. CASE Migration!Open \/ Migration!Close \/ Migration!PhoneAnswers \/ Migration!HandleReply
  BY <1>4 DEF Migration!Open, Migration!Close, Migration!PhoneAnswers, Migration!HandleReply,
              MigrationBounds, Migration!Busy
<1>5. CASE Migration!Answer \/ (\E id \in timers : Migration!Timer(id))
  <2>1. migrationSlot' = 0 /\ UNCHANGED <<migrationUp, waits, made, window>>
    BY <1>5 DEF Migration!Answer, Migration!Timer
  <2> QED BY <1>1, <2>1 DEF MigrationBounds
<1>6. CASE Migration!Disconnect \/ Migration!Connect
  BY <1>6 DEF Migration!Disconnect, Migration!Connect, MigrationBounds
<1> QED BY <1>2, <1>3, <1>4, <1>5, <1>6 DEF Migration!Next

(* Types of the promises, the timers and the window's dialogue (daemon.ts *)
(* requestContactMigrationScan, requestContactMigrationExecute). *)
THEOREM MigrationTypesHold == MaxCalls \in Nat => (Migration!Spec => []Migration!TypeOK)
<1> SUFFICES ASSUME MaxCalls \in Nat PROVE Migration!Spec => []Migration!TypeOK
  OBVIOUS
<1>1. Migration!Init => MigrationInv /\ MigrationBounds
  <2> SUFFICES ASSUME Migration!Init PROVE MigrationInv /\ MigrationBounds
    OBVIOUS
  <2>1. /\ <<>> \in Seq({"scan", "execute"})
        /\ <<>> \in Seq([id : Nat, with : {"error", "scan", "execute"}])
    OBVIOUS
  <2> QED BY <2>1 DEF Migration!Init, MigrationInv, MigrationBounds, Migration!Busy
<1>2. MigrationInv /\ MigrationBounds => Migration!TypeOK
  BY DEF MigrationInv, MigrationBounds, Migration!TypeOK
<1>3. MigrationInv /\ MigrationBounds /\ [Migration!Next]_(Migration!vars) => MigrationBounds'
  BY MigrationBoundsStep
<1> QED BY <1>1, <1>2, <1>3, MigrationStep, PTL DEF Migration!Spec

--------------------
(* Four parts whose proofs are elsewhere: Disk and Shelf are ConnectionLifecycle_proofs with
   the constants and variables of Files and Attached, Kept is MessageSync_proofs with those of
   Storage and People; and none of them with a phone, socket or message of its own. *)

Disk == INSTANCE ConnectionLifecycle_proofs WITH
        Media <- {}, MaxCuts <- MaxFileCuts, phone <- filesPhone, up <- filesUp, out <- filesOut,
        back <- filesBack, cuts <- filesCuts, Devices <- {}, Sockets <- {}, DeviceOf <- <<>>,
        Compatible <- {}, MaxAttempts <- 0, socket <- <<>>, connections <- <<>>, session <- <<>>,
        attempts <- <<>>, armed <- {}, pending <- <<>>, trusted <- {}, known <- {}, versionInfo <-
        {}, reconnect <- {}, recheck <- {}, waiting <- {}, incoming <- 0, webdav <- FALSE, lost <-
        {}
Shelf == INSTANCE ConnectionLifecycle_proofs WITH
        Paths <- Folder, Media <- Pictures, Chunks <- MediaChunks, MaxRequests <- MaxLoads,
        MaxCuts <- MaxMediaCuts, phone <- filesPhone, up <- filesUp, out <- filesOut, back <-
        filesBack, cuts <- filesCuts, Devices <- {}, Sockets <- {}, DeviceOf <- <<>>, Compatible
        <- {}, MaxAttempts <- 0, socket <- <<>>, connections <- <<>>, session <- <<>>, attempts <-
        <<>>, armed <- {}, pending <- <<>>, trusted <- {}, known <- {}, versionInfo <- {},
        reconnect <- {}, recheck <- {}, waiting <- {}, incoming <- 0, webdav <- FALSE, lost <- {}
Kept == INSTANCE MessageSync_proofs WITH
        MaxEvents <- MaxStoreEvents, phone <- storePhone, handled <- storeHandled, Messages <- {},
        ThreadOf <- [m \in {} |-> m], MaxBreaks <- 0, MaxOpens <- 0, Threads <- {}, born <- {},
        channel <- {}, connected <- {}, local <- {}, convs <- {}, fully <- {}, covered <- {},
        stage <- {}, due <- {}, query <- {}, batch <- {}, interrupted <- {}, missed <- {}, syncActive <- {}, flagged <- {}, breaks <- {}, opens
        <- {}

(* Disk defines PhoneFiles, without attachments, as MCServices does. *)
LEMMA FilesSame ==
    /\ Disk!Dav!Init = Files!Init /\ Disk!Dav!Next = Files!Next /\ Disk!Dav!vars = Files!vars
    /\ Disk!Dav!FileConstants = Files!FileConstants /\ Disk!Dav!TypeOK = Files!TypeOK
    /\ Disk!Dav!LastAnswerIsTrue = Files!LastAnswerIsTrue
<1>1. Disk!Dav!Init = Files!Init BY DEF Files!Init, Disk!Dav!Init, Files!File, Disk!Dav!File
<1>2. Disk!Dav!vars = Files!vars BY DEF Files!vars, Disk!Dav!vars
<1>3. Disk!Dav!FileConstants = Files!FileConstants
  BY DEF Files!FileConstants, Disk!Dav!FileConstants
<1>4. Disk!Dav!Ops = Files!Ops BY DEF Files!Ops, Disk!Dav!Ops
<1>5. Disk!Dav!TypeOK = Files!TypeOK
  BY <1>4 DEF Files!TypeOK, Disk!Dav!TypeOK, Files!Asks, Disk!Dav!Asks
<1>6. Disk!Dav!LastAnswerIsTrue = Files!LastAnswerIsTrue
  BY DEF Files!LastAnswerIsTrue, Disk!Dav!LastAnswerIsTrue, Files!File, Disk!Dav!File, Files!Done,
  Disk!Dav!Done
<1>7. \A i : Disk!Dav!Files(i) = Files!Files(i) BY DEF Files!Files, Disk!Dav!Files
<1>8. Disk!Dav!Running = Files!Running BY DEF Files!Running, Disk!Dav!Running
<1>9. \A i, r, ask, p, data : Disk!Dav!Ask(i, r, ask, p, data) = Files!Ask(i, r, ask, p, data)
  BY <1>8 DEF Files!Ask, Disk!Dav!Ask, Files!Send, Disk!Dav!Send, Files!AskMedia,
  Disk!Dav!AskMedia, Files!Set, Disk!Dav!Set, Files!Fail, Disk!Dav!Fail, Files!Over,
  Disk!Dav!Over, Files!End, Disk!Dav!End
<1>10. \A op, p, d, body : Disk!Dav!Begin(op, p, d, body) = Files!Begin(op, p, d, body)
  BY <1>8, <1>9 DEF Files!Begin, Disk!Dav!Begin
<1>11. \A i, r : Disk!Dav!Rename(i, r) = Files!Rename(i, r)
  BY <1>8 DEF Files!Rename, Disk!Dav!Rename, Files!Fail, Disk!Dav!Fail, Files!Send, Disk!Dav!Send,
  Files!End, Disk!Dav!End, Files!Set, Disk!Dav!Set, Files!Over, Disk!Dav!Over
<1>12. \A i, r : Disk!Dav!PutMore(i, r) = Files!PutMore(i, r)
  BY <1>9, <1>8 DEF Files!PutMore, Disk!Dav!PutMore, Files!End, Disk!Dav!End, Files!Created,
  Disk!Dav!Created, Files!Set, Disk!Dav!Set, Files!Over, Disk!Dav!Over
<1>13. \A i, r : Disk!Dav!ReadMore(i, r) = Files!ReadMore(i, r)
  BY <1>9, <1>8 DEF Files!ReadMore, Disk!Dav!ReadMore, Files!End, Disk!Dav!End, Files!Set,
  Disk!Dav!Set, Files!Over, Disk!Dav!Over
<1>14. \A i, r, a : Disk!Dav!AfterStat(i, r, a) = Files!AfterStat(i, r, a)
  BY <1>9, <1>11, <1>12, <1>13, <1>8 DEF Files!AfterStat, Disk!Dav!AfterStat, Files!End,
  Disk!Dav!End, Files!Set, Disk!Dav!Set, Files!Over, Disk!Dav!Over
<1>15. \A i, r, a : Disk!Dav!AfterRead(i, r, a) = Files!AfterRead(i, r, a)
  BY <1>9, <1>13 DEF Files!AfterRead, Disk!Dav!AfterRead
<1>16. \A i, r : Disk!Dav!AfterWrite(i, r) = Files!AfterWrite(i, r)
  BY <1>12, <1>13 DEF Files!AfterWrite, Disk!Dav!AfterWrite
<1>17. \A i, r, a : Disk!Dav!After(i, r, a) = Files!After(i, r, a)
  BY <1>14, <1>15, <1>16, <1>8 DEF Files!After, Disk!Dav!After, Files!End, Disk!Dav!End,
  Files!Fail, Disk!Dav!Fail, Files!Created, Disk!Dav!Created, Files!Set, Disk!Dav!Set, Files!Over,
  Disk!Dav!Over
<1>18. Disk!Dav!HandleResponse = Files!HandleResponse
  BY <1>17, <1>8 DEF Files!HandleResponse, Disk!Dav!HandleResponse, Files!Awaits, Disk!Dav!Awaits
<1>19. \A i : Disk!Dav!Timeout(i) = Files!Timeout(i)
  BY <1>8 DEF Files!Timeout, Disk!Dav!Timeout, Files!Fail, Disk!Dav!Fail, Files!OnPhone,
  Disk!Dav!OnPhone, Files!End, Disk!Dav!End, Files!Set, Disk!Dav!Set, Files!Over, Disk!Dav!Over
<1>20. \A ok : Disk!Dav!LoadSettles(ok) = Files!LoadSettles(ok)
  BY <1>8 DEF Files!LoadSettles, Disk!Dav!LoadSettles, Files!OnPhone, Disk!Dav!OnPhone
<1>21. \A i : Disk!Dav!MediaStat(i) = Files!MediaStat(i)
  BY <1>14, <1>8 DEF Files!MediaStat, Disk!Dav!MediaStat, Files!OnMedia, Disk!Dav!OnMedia,
  Files!NoAnswer, Disk!Dav!NoAnswer, Files!OnPhone, Disk!Dav!OnPhone
<1>22. \A i, ok : Disk!Dav!MediaRead(i, ok) = Files!MediaRead(i, ok)
  BY <1>17, <1>8 DEF Files!MediaRead, Disk!Dav!MediaRead, Files!MediaChunk, Disk!Dav!MediaChunk,
  Files!OnMedia, Disk!Dav!OnMedia, Files!NoAnswer, Disk!Dav!NoAnswer, Files!OnPhone,
  Disk!Dav!OnPhone
<1>23. \A m : Disk!Dav!AppDownloads(m) = Files!AppDownloads(m)
  BY DEF Files!AppDownloads, Disk!Dav!AppDownloads
<1>24. Disk!Dav!PhoneServes = Files!PhoneServes
  BY DEF Files!PhoneServes, Disk!Dav!PhoneServes, Files!PhoneAnswer, Disk!Dav!PhoneAnswer,
  Files!PhoneAfter, Disk!Dav!PhoneAfter, Files!File, Disk!Dav!File, Files!Dir, Disk!Dav!Dir,
  Files!With, Disk!Dav!With, Files!Without, Disk!Dav!Without
<1>25. Disk!Dav!PhoneRefuses = Files!PhoneRefuses
  BY DEF Files!PhoneRefuses, Disk!Dav!PhoneRefuses, Files!PhoneAnswer, Disk!Dav!PhoneAnswer
<1>26. Disk!Dav!Disconnect = Files!Disconnect BY DEF Files!Disconnect, Disk!Dav!Disconnect
<1>27. Disk!Dav!Connect = Files!Connect BY DEF Files!Connect, Disk!Dav!Connect
<1>28. Disk!Dav!Next = Files!Next
  BY <1>7, <1>4, <1>8, <1>10, <1>18, <1>19, <1>20, <1>21, <1>22, <1>23, <1>24, <1>25, <1>26, <1>27
  DEF Files!Next, Disk!Dav!Next
<1> QED BY <1>1, <1>2, <1>3, <1>5, <1>6, <1>28

(* Shelf defines PhoneFiles, with attachments, as MCServices does. *)
LEMMA AttachedSame ==
    /\ Shelf!Dav!Init = Attached!Init /\ Shelf!Dav!Next = Attached!Next /\ Shelf!Dav!vars = Attached!vars
    /\ Shelf!Dav!FileConstants = Attached!FileConstants /\ Shelf!Dav!TypeOK = Attached!TypeOK
    /\ Shelf!Dav!LastAnswerIsTrue = Attached!LastAnswerIsTrue
<1>1. Shelf!Dav!Init = Attached!Init
  BY DEF Attached!Init, Shelf!Dav!Init, Attached!File, Shelf!Dav!File
<1>2. Shelf!Dav!vars = Attached!vars BY DEF Attached!vars, Shelf!Dav!vars
<1>3. Shelf!Dav!FileConstants = Attached!FileConstants
  BY DEF Attached!FileConstants, Shelf!Dav!FileConstants
<1>4. Shelf!Dav!Ops = Attached!Ops BY DEF Attached!Ops, Shelf!Dav!Ops
<1>5. Shelf!Dav!TypeOK = Attached!TypeOK
  BY <1>4 DEF Attached!TypeOK, Shelf!Dav!TypeOK, Attached!Asks, Shelf!Dav!Asks
<1>6. Shelf!Dav!LastAnswerIsTrue = Attached!LastAnswerIsTrue
  BY DEF Attached!LastAnswerIsTrue, Shelf!Dav!LastAnswerIsTrue, Attached!File, Shelf!Dav!File,
  Attached!Done, Shelf!Dav!Done
<1>7. \A i : Shelf!Dav!Files(i) = Attached!Files(i) BY DEF Attached!Files, Shelf!Dav!Files
<1>8. Shelf!Dav!Running = Attached!Running BY DEF Attached!Running, Shelf!Dav!Running
<1>9. \A i, r, ask, p, data : Shelf!Dav!Ask(i, r, ask, p, data) = Attached!Ask(i, r, ask, p, data)
  BY <1>8 DEF Attached!Ask, Shelf!Dav!Ask, Attached!Send, Shelf!Dav!Send, Attached!AskMedia,
  Shelf!Dav!AskMedia, Attached!Set, Shelf!Dav!Set, Attached!Fail, Shelf!Dav!Fail, Attached!Over,
  Shelf!Dav!Over, Attached!End, Shelf!Dav!End
<1>10. \A op, p, d, body : Shelf!Dav!Begin(op, p, d, body) = Attached!Begin(op, p, d, body)
  BY <1>8, <1>9 DEF Attached!Begin, Shelf!Dav!Begin
<1>11. \A i, r : Shelf!Dav!Rename(i, r) = Attached!Rename(i, r)
  BY <1>8 DEF Attached!Rename, Shelf!Dav!Rename, Attached!Fail, Shelf!Dav!Fail, Attached!Send,
  Shelf!Dav!Send, Attached!End, Shelf!Dav!End, Attached!Set, Shelf!Dav!Set, Attached!Over,
  Shelf!Dav!Over
<1>12. \A i, r : Shelf!Dav!PutMore(i, r) = Attached!PutMore(i, r)
  BY <1>9, <1>8 DEF Attached!PutMore, Shelf!Dav!PutMore, Attached!End, Shelf!Dav!End,
  Attached!Created, Shelf!Dav!Created, Attached!Set, Shelf!Dav!Set, Attached!Over, Shelf!Dav!Over
<1>13. \A i, r : Shelf!Dav!ReadMore(i, r) = Attached!ReadMore(i, r)
  BY <1>9, <1>8 DEF Attached!ReadMore, Shelf!Dav!ReadMore, Attached!End, Shelf!Dav!End,
  Attached!Set, Shelf!Dav!Set, Attached!Over, Shelf!Dav!Over
<1>14. \A i, r, a : Shelf!Dav!AfterStat(i, r, a) = Attached!AfterStat(i, r, a)
  BY <1>9, <1>11, <1>12, <1>13, <1>8 DEF Attached!AfterStat, Shelf!Dav!AfterStat, Attached!End,
  Shelf!Dav!End, Attached!Set, Shelf!Dav!Set, Attached!Over, Shelf!Dav!Over
<1>15. \A i, r, a : Shelf!Dav!AfterRead(i, r, a) = Attached!AfterRead(i, r, a)
  BY <1>9, <1>13 DEF Attached!AfterRead, Shelf!Dav!AfterRead
<1>16. \A i, r : Shelf!Dav!AfterWrite(i, r) = Attached!AfterWrite(i, r)
  BY <1>12, <1>13 DEF Attached!AfterWrite, Shelf!Dav!AfterWrite
<1>17. \A i, r, a : Shelf!Dav!After(i, r, a) = Attached!After(i, r, a)
  BY <1>14, <1>15, <1>16, <1>8 DEF Attached!After, Shelf!Dav!After, Attached!End, Shelf!Dav!End,
  Attached!Fail, Shelf!Dav!Fail, Attached!Created, Shelf!Dav!Created, Attached!Set, Shelf!Dav!Set,
  Attached!Over, Shelf!Dav!Over
<1>18. Shelf!Dav!HandleResponse = Attached!HandleResponse
  BY <1>17, <1>8 DEF Attached!HandleResponse, Shelf!Dav!HandleResponse, Attached!Awaits,
  Shelf!Dav!Awaits
<1>19. \A i : Shelf!Dav!Timeout(i) = Attached!Timeout(i)
  BY <1>8 DEF Attached!Timeout, Shelf!Dav!Timeout, Attached!Fail, Shelf!Dav!Fail,
  Attached!OnPhone, Shelf!Dav!OnPhone, Attached!End, Shelf!Dav!End, Attached!Set, Shelf!Dav!Set,
  Attached!Over, Shelf!Dav!Over
<1>20. \A ok : Shelf!Dav!LoadSettles(ok) = Attached!LoadSettles(ok)
  BY <1>8 DEF Attached!LoadSettles, Shelf!Dav!LoadSettles, Attached!OnPhone, Shelf!Dav!OnPhone
<1>21. \A i : Shelf!Dav!MediaStat(i) = Attached!MediaStat(i)
  BY <1>14, <1>8 DEF Attached!MediaStat, Shelf!Dav!MediaStat, Attached!OnMedia, Shelf!Dav!OnMedia,
  Attached!NoAnswer, Shelf!Dav!NoAnswer, Attached!OnPhone, Shelf!Dav!OnPhone
<1>22. \A i, ok : Shelf!Dav!MediaRead(i, ok) = Attached!MediaRead(i, ok)
  BY <1>17, <1>8 DEF Attached!MediaRead, Shelf!Dav!MediaRead, Attached!MediaChunk,
  Shelf!Dav!MediaChunk, Attached!OnMedia, Shelf!Dav!OnMedia, Attached!NoAnswer,
  Shelf!Dav!NoAnswer, Attached!OnPhone, Shelf!Dav!OnPhone
<1>23. \A m : Shelf!Dav!AppDownloads(m) = Attached!AppDownloads(m)
  BY DEF Attached!AppDownloads, Shelf!Dav!AppDownloads
<1>24. Shelf!Dav!PhoneServes = Attached!PhoneServes
  BY DEF Attached!PhoneServes, Shelf!Dav!PhoneServes, Attached!PhoneAnswer, Shelf!Dav!PhoneAnswer,
  Attached!PhoneAfter, Shelf!Dav!PhoneAfter, Attached!File, Shelf!Dav!File, Attached!Dir,
  Shelf!Dav!Dir, Attached!With, Shelf!Dav!With, Attached!Without, Shelf!Dav!Without
<1>25. Shelf!Dav!PhoneRefuses = Attached!PhoneRefuses
  BY DEF Attached!PhoneRefuses, Shelf!Dav!PhoneRefuses, Attached!PhoneAnswer,
  Shelf!Dav!PhoneAnswer
<1>26. Shelf!Dav!Disconnect = Attached!Disconnect BY DEF Attached!Disconnect, Shelf!Dav!Disconnect
<1>27. Shelf!Dav!Connect = Attached!Connect BY DEF Attached!Connect, Shelf!Dav!Connect
<1>28. Shelf!Dav!Next = Attached!Next
  BY <1>7, <1>4, <1>8, <1>10, <1>18, <1>19, <1>20, <1>21, <1>22, <1>23, <1>24, <1>25, <1>26, <1>27
  DEF Attached!Next, Shelf!Dav!Next
<1> QED BY <1>1, <1>2, <1>3, <1>5, <1>6, <1>28

(* Kept defines MessageStore as MCServices does. *)
LEMMA StorageSame ==
    /\ Kept!Storage!Init = Storage!Init /\ Kept!Storage!Next = Storage!Next /\ Kept!Storage!vars = Storage!vars
    /\ Kept!Storage!StoreConstants = Storage!StoreConstants /\ Kept!Storage!TypeOK = Storage!TypeOK
    /\ Kept!Storage!RowsAreWhole = Storage!RowsAreWhole
<1>1. Kept!Storage!Init = Storage!Init BY DEF Storage!Init, Kept!Storage!Init
<1>2. Kept!Storage!vars = Storage!vars BY DEF Storage!vars, Kept!Storage!vars
<1>3. \A S : Kept!Storage!IsFiniteSet(S) = Storage!IsFiniteSet(S)
  BY DEF Storage!IsFiniteSet, Kept!Storage!IsFiniteSet
<1>4. Kept!Storage!StoreConstants = Storage!StoreConstants
  BY <1>3 DEF Storage!StoreConstants, Kept!Storage!StoreConstants
<1>5. Kept!Storage!TypeOK = Storage!TypeOK BY DEF Storage!TypeOK, Kept!Storage!TypeOK
<1>6. Kept!Storage!RowsAreWhole = Storage!RowsAreWhole
  BY DEF Storage!RowsAreWhole, Kept!Storage!RowsAreWhole, Storage!Idle, Kept!Storage!Idle
<1>7. Kept!Storage!Step = Storage!Step
  BY DEF Storage!Step, Kept!Storage!Step, Storage!line, Kept!Storage!line, Storage!Idle,
  Kept!Storage!Idle, Storage!UpsertMessage, Kept!Storage!UpsertMessage, Storage!UpsertAttachment,
  Kept!Storage!UpsertAttachment, Storage!UpsertConversation, Kept!Storage!UpsertConversation,
  Storage!MarkSynced, Kept!Storage!MarkSynced, Storage!Unlink, Kept!Storage!Unlink,
  Storage!DeleteAttachments, Kept!Storage!DeleteAttachments, Storage!DeleteMessageRow,
  Kept!Storage!DeleteMessageRow, Storage!DeleteThreadAttachments,
  Kept!Storage!DeleteThreadAttachments, Storage!DeleteThreadMessages,
  Kept!Storage!DeleteThreadMessages, Storage!DeleteConversation, Kept!Storage!DeleteConversation,
  Storage!DeleteBoth, Kept!Storage!DeleteBoth, Storage!WipeFiles, Kept!Storage!WipeFiles,
  Storage!WipeAllData, Kept!Storage!WipeAllData
<1>8. \A S : Kept!Storage!Cardinality(S) = Storage!Cardinality(S)
  BY DEF Storage!Cardinality, Kept!Storage!Cardinality, Storage!IsFiniteSet,
  Kept!Storage!IsFiniteSet
<1>9. \A S : Kept!Storage!SetToSeq(S) = Storage!SetToSeq(S)
  BY DEF Storage!SetToSeq, Kept!Storage!SetToSeq, Storage!Cardinality, Kept!Storage!Cardinality,
  Storage!IsFiniteSet, Kept!Storage!IsFiniteSet, Storage!IsInjective, Kept!Storage!IsInjective
<1>10. Kept!Storage!HandleEvent = Storage!HandleEvent
  BY <1>8, <1>9 DEF Storage!HandleEvent, Kept!Storage!HandleEvent, Storage!store,
  Kept!Storage!store, Storage!Idle, Kept!Storage!Idle, Storage!ProgramOf, Kept!Storage!ProgramOf,
  Storage!Do, Kept!Storage!Do, Storage!One, Kept!Storage!One, Storage!Store, Kept!Storage!Store,
  Storage!Delete, Kept!Storage!Delete, Storage!DeleteThread, Kept!Storage!DeleteThread,
  Storage!ForEach, Kept!Storage!ForEach
<1>11. Kept!Storage!ApplySnapshot = Storage!ApplySnapshot
  BY <1>8, <1>9 DEF Storage!ApplySnapshot, Kept!Storage!ApplySnapshot, Storage!store,
  Kept!Storage!store, Storage!Idle, Kept!Storage!Idle, Storage!SnapshotProgram,
  Kept!Storage!SnapshotProgram, Storage!Do, Kept!Storage!Do, Storage!ForEach,
  Kept!Storage!ForEach, Storage!One, Kept!Storage!One, Storage!RowsOf, Kept!Storage!RowsOf
<1>12. Kept!Storage!ThreadListSync = Storage!ThreadListSync
  BY DEF Storage!ThreadListSync, Kept!Storage!ThreadListSync, Storage!store, Kept!Storage!store,
  Storage!line, Kept!Storage!line, Storage!Do, Kept!Storage!Do, Storage!One, Kept!Storage!One,
  Storage!Idle, Kept!Storage!Idle
<1>13. \A m : Kept!Storage!DeleteMessage(m) = Storage!DeleteMessage(m)
  BY DEF Storage!DeleteMessage, Kept!Storage!DeleteMessage, Storage!store, Kept!Storage!store,
  Storage!Idle, Kept!Storage!Idle, Storage!More, Kept!Storage!More, Storage!Delete,
  Kept!Storage!Delete, Storage!Do, Kept!Storage!Do
<1>14. Kept!Storage!DeleteConversationByUser = Storage!DeleteConversationByUser
  BY <1>9, <1>8 DEF Storage!DeleteConversationByUser, Kept!Storage!DeleteConversationByUser,
  Storage!store, Kept!Storage!store, Storage!Idle, Kept!Storage!Idle, Storage!More,
  Kept!Storage!More, Storage!DeleteThread, Kept!Storage!DeleteThread, Storage!Do, Kept!Storage!Do,
  Storage!ForEach, Kept!Storage!ForEach, Storage!One, Kept!Storage!One
<1>15. Kept!Storage!Wipe = Storage!Wipe
  BY DEF Storage!Wipe, Kept!Storage!Wipe, Storage!store, Kept!Storage!store, Storage!Do,
  Kept!Storage!Do, Storage!One, Kept!Storage!One, Storage!Idle, Kept!Storage!Idle
<1>16. \A m : Kept!Storage!StartFetch(m) = Storage!StartFetch(m)
  BY DEF Storage!StartFetch, Kept!Storage!StartFetch, Storage!store, Kept!Storage!store,
  Storage!line, Kept!Storage!line, Storage!Idle, Kept!Storage!Idle
<1>17. \A m : Kept!Storage!MarkAttachmentDownloaded(m) = Storage!MarkAttachmentDownloaded(m)
  BY DEF Storage!MarkAttachmentDownloaded, Kept!Storage!MarkAttachmentDownloaded, Storage!line,
  Kept!Storage!line, Storage!Idle, Kept!Storage!Idle
<1>18. \A m : Kept!Storage!PhoneMessage(m) = Storage!PhoneMessage(m)
  BY DEF Storage!PhoneMessage, Kept!Storage!PhoneMessage, Storage!store, Kept!Storage!store,
  Storage!More, Kept!Storage!More
<1>19. \A m : Kept!Storage!PhoneDeletes(m) = Storage!PhoneDeletes(m)
  BY DEF Storage!PhoneDeletes, Kept!Storage!PhoneDeletes, Storage!store, Kept!Storage!store,
  Storage!More, Kept!Storage!More
<1>20. Kept!Storage!PhoneDeletesThread = Storage!PhoneDeletesThread
  BY DEF Storage!PhoneDeletesThread, Kept!Storage!PhoneDeletesThread, Storage!store,
  Kept!Storage!store, Storage!One, Kept!Storage!One, Storage!More, Kept!Storage!More
<1>21. Kept!Storage!DeleteOnPhone = Storage!DeleteOnPhone
  BY DEF Storage!DeleteOnPhone, Kept!Storage!DeleteOnPhone, Storage!store, Kept!Storage!store
<1>22. Kept!Storage!Query = Storage!Query
  BY DEF Storage!Query, Kept!Storage!Query, Storage!store, Kept!Storage!store, Storage!Idle,
  Kept!Storage!Idle
<1>23. Kept!Storage!Acknowledge = Storage!Acknowledge
  BY DEF Storage!Acknowledge, Kept!Storage!Acknowledge, Storage!store, Kept!Storage!store,
  Storage!Idle, Kept!Storage!Idle
<1>24. Kept!Storage!Kill = Storage!Kill
  BY DEF Storage!Kill, Kept!Storage!Kill, Storage!store, Kept!Storage!store, Storage!WipeAllData,
  Kept!Storage!WipeAllData
<1>25. Kept!Storage!ThreadMedia = Storage!ThreadMedia
  BY <1>8, <1>9 DEF Storage!ThreadMedia, Kept!Storage!ThreadMedia, Storage!Idle, Kept!Storage!Idle,
  Storage!More, Kept!Storage!More, Storage!ForEach, Kept!Storage!ForEach
<1>26. Kept!Storage!Next = Storage!Next
  BY <1>7, <1>10, <1>11, <1>12, <1>13, <1>14, <1>15, <1>16, <1>17, <1>18, <1>19, <1>20, <1>21,
<1>22, <1>23, <1>24, <1>25 DEF Storage!Next, Kept!Storage!Next
<1> QED BY <1>1, <1>2, <1>4, <1>5, <1>6, <1>26

(* Kept defines Contacts as MCServices does. *)
LEMMA PeopleSame ==
    /\ Kept!People!Init = People!Init /\ Kept!People!Next = People!Next /\ Kept!People!vars = People!vars
    /\ Kept!People!ContactConstants = People!ContactConstants /\ Kept!People!TypeOK = People!TypeOK
    /\ Kept!People!PhotoIsNotAhead = People!PhotoIsNotAhead /\ Kept!People!SyncedIsSame = People!SyncedIsSame
<1>1. Kept!People!Init = People!Init BY DEF People!Init, Kept!People!Init
<1>2. Kept!People!vars = People!vars BY DEF People!vars, Kept!People!vars
<1>3. Kept!People!ContactConstants = People!ContactConstants
  BY DEF People!ContactConstants, Kept!People!ContactConstants
<1>4. Kept!People!TypeOK = People!TypeOK
  BY DEF People!TypeOK, Kept!People!TypeOK, People!Mime, Kept!People!Mime, People!Versions,
  Kept!People!Versions, People!Running, Kept!People!Running
<1>5. Kept!People!PhotoIsNotAhead = People!PhotoIsNotAhead
  BY DEF People!PhotoIsNotAhead, Kept!People!PhotoIsNotAhead, People!Mime, Kept!People!Mime
<1>6. Kept!People!SyncedIsSame = People!SyncedIsSame
  BY DEF People!SyncedIsSame, Kept!People!SyncedIsSame
<1>7. \A u : Kept!People!PhoneChanges(u) = People!PhoneChanges(u)
  BY DEF People!PhoneChanges, Kept!People!PhoneChanges
<1>8. Kept!People!PhoneServes = People!PhoneServes
  BY DEF People!PhoneServes, Kept!People!PhoneServes, People!Only, Kept!People!Only
<1>9. Kept!People!SyncStarts = People!SyncStarts
  BY DEF People!SyncStarts, Kept!People!SyncStarts, People!Query, Kept!People!Query
<1>10. \A i : Kept!People!SyncFails(i) = People!SyncFails(i)
  BY DEF People!SyncFails, Kept!People!SyncFails, People!Running, Kept!People!Running
<1>11. Kept!People!RequestAllUids = People!RequestAllUids
  BY DEF People!RequestAllUids, Kept!People!RequestAllUids, People!Query, Kept!People!Query
<1>12. Kept!People!Receive = People!Receive
  BY DEF People!Receive, Kept!People!Receive, People!Running, Kept!People!Running,
  People!ListAnswers, Kept!People!ListAnswers, People!PhotosAnswer, Kept!People!PhotosAnswer,
  People!HandleUids, Kept!People!HandleUids, People!HandleVcards, Kept!People!HandleVcards,
  People!Query, Kept!People!Query, People!Succeeds, Kept!People!Succeeds, People!Merged,
  Kept!People!Merged, People!NeedPhotos, Kept!People!NeedPhotos, People!Upsert,
  Kept!People!Upsert, People!Mime, Kept!People!Mime
<1>13. Kept!People!Disconnect = People!Disconnect
  BY DEF People!Disconnect, Kept!People!Disconnect, People!Running, Kept!People!Running
<1>14. Kept!People!Connect = People!Connect BY DEF People!Connect, Kept!People!Connect
<1>15. Kept!People!Next = People!Next
  BY <1>7, <1>8, <1>9, <1>10, <1>11, <1>12, <1>13, <1>14 DEF People!Next, Kept!People!Next
<1> QED BY <1>1, <1>2, <1>3, <1>4, <1>5, <1>6, <1>15

(* What the other modules prove, of the parts here. *)
LEMMA FilesPromise ==
    Files!FileConstants => (Files!Spec => [](Files!TypeOK /\ Files!LastAnswerIsTrue))
<1>1. Disk!ConnectionAssumption BY DEF Disk!ConnectionAssumption
<1>2. Disk!Dav!FileConstants => (Disk!Dav!Spec => []Disk!Dav!TypeOK) BY <1>1, Disk!FilesTyped
<1>3. Disk!Dav!FileConstants => (Disk!Dav!Spec => []Disk!Dav!LastAnswerIsTrue)
  BY <1>1, Disk!FilesTruth
<1>4. /\ Files!Init => Disk!Dav!Init
      /\ [Files!Next]_(Files!vars) => [Disk!Dav!Next]_(Disk!Dav!vars)
      /\ Disk!Dav!TypeOK => Files!TypeOK
      /\ Disk!Dav!LastAnswerIsTrue => Files!LastAnswerIsTrue
      /\ Files!FileConstants => Disk!Dav!FileConstants
  BY FilesSame DEF Disk!Dav!vars, Files!vars
<1> QED BY <1>2, <1>3, <1>4, PTL DEF Files!Spec, Disk!Dav!Spec

LEMMA AttachedPromise ==
    Attached!FileConstants => (Attached!Spec => [](Attached!TypeOK /\ Attached!LastAnswerIsTrue))
<1>1. Shelf!ConnectionAssumption BY DEF Shelf!ConnectionAssumption
<1>2. Shelf!Dav!FileConstants => (Shelf!Dav!Spec => []Shelf!Dav!TypeOK) BY <1>1, Shelf!FilesTyped
<1>3. Shelf!Dav!FileConstants => (Shelf!Dav!Spec => []Shelf!Dav!LastAnswerIsTrue)
  BY <1>1, Shelf!FilesTruth
<1>4. /\ Attached!Init => Shelf!Dav!Init
      /\ [Attached!Next]_(Attached!vars) => [Shelf!Dav!Next]_(Shelf!Dav!vars)
      /\ Shelf!Dav!TypeOK => Attached!TypeOK
      /\ Shelf!Dav!LastAnswerIsTrue => Attached!LastAnswerIsTrue
      /\ Attached!FileConstants => Shelf!Dav!FileConstants
  BY AttachedSame DEF Shelf!Dav!vars, Attached!vars
<1> QED BY <1>2, <1>3, <1>4, PTL DEF Attached!Spec, Shelf!Dav!Spec

LEMMA StoragePromise ==
    Storage!StoreConstants => (Storage!Spec => [](Storage!TypeOK /\ Storage!RowsAreWhole))
<1>1. Kept!MessageAssumption BY DEF Kept!MessageAssumption
<1>2. Kept!Storage!StoreConstants => (Kept!Storage!Spec => []Kept!Storage!TypeOK)
  BY <1>1, Kept!StoreTypesHold
<1>3. Kept!Storage!StoreConstants => (Kept!Storage!Spec => []Kept!Storage!RowsAreWhole)
  BY <1>1, Kept!RowsStayWhole
<1>4. /\ Storage!Init => Kept!Storage!Init
      /\ [Storage!Next]_(Storage!vars) => [Kept!Storage!Next]_(Kept!Storage!vars)
      /\ Kept!Storage!TypeOK => Storage!TypeOK
      /\ Kept!Storage!RowsAreWhole => Storage!RowsAreWhole
      /\ Storage!StoreConstants => Kept!Storage!StoreConstants
  BY StorageSame DEF Kept!Storage!vars, Storage!vars
<1> QED BY <1>2, <1>3, <1>4, PTL DEF Storage!Spec, Kept!Storage!Spec

LEMMA PeoplePromise ==
    People!ContactConstants => (People!Spec => [](People!TypeOK /\ People!PhotoIsNotAhead /\ People!SyncedIsSame))
<1>1. Kept!MessageAssumption BY DEF Kept!MessageAssumption
<1>2. Kept!People!ContactConstants => (Kept!People!Spec => []Kept!People!TypeOK)
  BY <1>1, Kept!PeopleTypesHold
<1>3. Kept!People!Spec => []Kept!People!PhotoIsNotAhead BY <1>1, Kept!PhotosStayBehind
<1>4. Kept!People!Spec => []Kept!People!SyncedIsSame BY <1>1, Kept!SyncedStaysSame
<1>5. /\ People!Init => Kept!People!Init
      /\ [People!Next]_(People!vars) => [Kept!People!Next]_(Kept!People!vars)
      /\ Kept!People!TypeOK => People!TypeOK
      /\ Kept!People!PhotoIsNotAhead => People!PhotoIsNotAhead
      /\ Kept!People!SyncedIsSame => People!SyncedIsSame
      /\ People!ContactConstants => Kept!People!ContactConstants
  BY PeopleSame DEF Kept!People!vars, People!vars
<1> QED BY <1>2, <1>3, <1>4, <1>5, PTL DEF People!Spec, Kept!People!Spec

--------------------
(* The services: the part that runs takes its own steps, and none other does. *)

LEMMA OwnSteps ==
    [Next]_vars =>
        /\ part = "Backups" => (part = "Backups")' /\ [Backups!Next]_(Backups!vars)
        /\ part = "Files" => (part = "Files")' /\ [Files!Next]_(Files!vars)
        /\ part = "Attached" => (part = "Attached")' /\ [Attached!Next]_(Attached!vars)
        /\ part = "People" => (part = "People")' /\ [People!Next]_(People!vars)
        /\ part = "Migration" => (part = "Migration")' /\ [Migration!Next]_(Migration!vars)
        /\ part = "Events" => (part = "Events")' /\ [Events!Next]_(Events!vars)
        /\ part = "Choices" => (part = "Choices")' /\ [Choices!Next]_(Choices!vars)
        /\ part = "Storage" => (part = "Storage")' /\ [Storage!Next]_(Storage!vars)
BY DEF Next, vars, backupVars, filesVars, contactVars, migrationVars, ackVars, choiceVars,
  storeVars, Backups!vars, Files!vars, Attached!vars, People!vars, Migration!vars, Events!vars,
  Choices!vars, Storage!vars

(* A behaviour is one of the part that it starts with. *)
LEMMA PartRuns ==
    Spec =>
        \/ [](part = "Backups") /\ Backups!Spec
        \/ [](part = "Files") /\ Files!Spec
        \/ [](part = "Attached") /\ Attached!Spec
        \/ [](part = "People") /\ People!Spec
        \/ [](part = "Migration") /\ Migration!Spec
        \/ [](part = "Events") /\ Events!Spec
        \/ [](part = "Choices") /\ Choices!Spec
        \/ [](part = "Storage") /\ Storage!Spec
<1>1. Init => part = "Backups" \/ part = "Files" \/ part = "Attached" \/ part = "People"
              \/ part = "Migration" \/ part = "Events" \/ part = "Choices" \/ part = "Storage"
  BY DEF Init
<1>2. Init => /\ Backups!Init /\ People!Init /\ Migration!Init /\ Events!Init /\ Choices!Init /\ Storage!Init
              /\ (part = "Attached" => Attached!Init) /\ (~(part = "Attached") => Files!Init)
  BY DEF Init
<1>3. part = "Files" => ~(part = "Attached") OBVIOUS
<1> QED
  BY OwnSteps, <1>1, <1>2, <1>3, PTL
  DEF Spec, Backups!Spec, Files!Spec, Attached!Spec, People!Spec, Migration!Spec, Events!Spec,
  Choices!Spec, Storage!Spec

(* All that holds in every state: the invariants of the run, and what is said *)
(* to be done is. *)
SaidIsDone ==
    /\ part = "Backups" => Backups!SummaryIsHonest
    /\ part = "Files" => Files!LastAnswerIsTrue
    /\ part = "Attached" => Attached!LastAnswerIsTrue
    /\ part = "People" => People!PhotoIsNotAhead /\ People!SyncedIsSame
Promises == TypeOK /\ NothingIsForgotten /\ SaidIsDone

(* Whichever part runs keeps its promises. *)
LEMMA PartsKeep == Spec => []Promises
<1>1. Backups!Spec => [](Backups!TypeOK /\ Backups!SummaryIsHonest /\ Backups!RunningIsLive)
  <2>1. Backups!Spec => []Backups!TypeOK BY PartConstants, BackupTypes
  <2>2. Backups!Spec => []Backups!SummaryIsHonest BY PartConstants, ExportsAreHonest
  <2>3. Backups!Spec => []Backups!RunningIsLive BY PartConstants, RunningStaysLive
  <2> QED BY <2>1, <2>2, <2>3, PTL
<1>2. Files!Spec => [](Files!TypeOK /\ Files!LastAnswerIsTrue) BY PartConstants, FilesPromise
<1>3. Attached!Spec => [](Attached!TypeOK /\ Attached!LastAnswerIsTrue)
  BY PartConstants, AttachedPromise
<1>4. People!Spec => [](People!TypeOK /\ People!PhotoIsNotAhead /\ People!SyncedIsSame)
  BY PartConstants, PeoplePromise
<1>5. Migration!Spec => [](Migration!TypeOK /\ Migration!WaiterIsHeard)
  <2>1. Migration!Spec => []Migration!TypeOK BY PartConstants, MigrationTypesHold
  <2>2. Migration!Spec => []Migration!WaiterIsHeard BY PartConstants, WaitersAreHeard
  <2> QED BY <2>1, <2>2, PTL
<1>6. Events!Spec => [](Events!TypeOK /\ Events!EventsAreAcked)
  <2>1. Events!Spec => []Events!TypeOK BY PartConstants, EventTypesHold
  <2>2. Events!Spec => []Events!EventsAreAcked BY PartConstants, EventsStayAcked
  <2> QED BY <2>1, <2>2, PTL
<1>7. Choices!Spec => [](Choices!TypeOK /\ Choices!NoChoiceIsForgotten)
  <2>1. Choices!Spec => []Choices!TypeOK BY PartConstants, ChoiceTypesHold
  <2>2. Choices!Spec => []Choices!NoChoiceIsForgotten BY PartConstants, ChoicesAreKept
  <2> QED BY <2>1, <2>2, PTL
<1>8. Storage!Spec => [](Storage!TypeOK /\ Storage!RowsAreWhole) BY PartConstants, StoragePromise
<1>9. /\ part = "Backups" /\ Backups!TypeOK /\ Backups!SummaryIsHonest /\ Backups!RunningIsLive => Promises
      /\ part = "Files" /\ Files!TypeOK /\ Files!LastAnswerIsTrue => Promises
      /\ part = "Attached" /\ Attached!TypeOK /\ Attached!LastAnswerIsTrue => Promises
      /\ part = "People" /\ People!TypeOK /\ People!PhotoIsNotAhead /\ People!SyncedIsSame => Promises
      /\ part = "Migration" /\ Migration!TypeOK /\ Migration!WaiterIsHeard => Promises
      /\ part = "Events" /\ Events!TypeOK /\ Events!EventsAreAcked => Promises
      /\ part = "Choices" /\ Choices!TypeOK /\ Choices!NoChoiceIsForgotten => Promises
      /\ part = "Storage" /\ Storage!TypeOK /\ Storage!RowsAreWhole => Promises
  BY DEF Promises, TypeOK, NothingIsForgotten, SaidIsDone
<1> QED BY PartRuns, <1>1, <1>2, <1>3, <1>4, <1>5, <1>6, <1>7, <1>8, <1>9, PTL

(* Every service keeps its types, whatever the constants. *)
THEOREM ServiceTypes == Spec => []TypeOK
<1>1. Promises => TypeOK BY DEF Promises
<1> QED BY PartsKeep, <1>1, PTL

(* Whoever waits is heard, and no event, choice or picture that has yet to be *)
(* handled is forgotten (NothingIsForgotten). *)
THEOREM NothingStaysForgotten == Spec => []NothingIsForgotten
<1>1. Promises => NothingIsForgotten BY DEF Promises
<1> QED BY PartsKeep, <1>1, PTL

(* What a service says it has done is done, and an export that is told to *)
(* stop copies no further file (CopiesAreTrue). *)
THEOREM CopiesStayTrue == Spec => CopiesAreTrue
<1> DEFINE Stop == backupSlot # None /\ backupSlot.aborted =>
                       \A k \in Backups!Copies :
                           (k \in DOMAIN folder') = Backups!Holds(k)
                           /\ (Backups!Holds(k) => folder'[k] = folder[k])
<1>1. Promises => SaidIsDone BY DEF Promises
<1>2. /\ part = "Backups" /\ [Next]_vars => (part = "Backups")' /\ [Backups!Next]_(Backups!vars)
      /\ ~(part = "Backups") /\ [Next]_vars =>
            ~(part = "Backups")' /\ [Stop]_(Backups!vars)
  BY OwnSteps DEF Next, vars, backupVars, Backups!vars, Backups!Holds
<1>3. Init => Backups!Init BY DEF Init
<1>4. Backups!Spec => Backups!CancelStopsCopies BY PartConstants, CancelIsHeeded
<1>5. Spec => Backups!CancelStopsCopies
  BY <1>2, <1>3, <1>4, PTL DEF Spec, Backups!Spec, Backups!CancelStopsCopies
<1> QED BY PartsKeep, <1>1, <1>5, PTL DEF CopiesAreTrue, SaidIsDone
====================
