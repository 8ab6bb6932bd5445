---------- MODULE SyncOrchestrator_proofs ----------
(* The pipeline is silent after a disconnection, its queue is never stranded *)
(* by an interrupt and holds one background sync of a thread at most, "ready" *)
(* means connected and settled, and the mark of the initial sync is earned: *)
(* for any number of conversations, sessions, requests and events. *)
EXTENDS SyncOrchestrator, SequenceTheorems, FunctionTheorems, FiniteSetTheorems, TLAPS

(* With the phone away nothing is queued or flagged, and a loop that has not *)
(* noticed yet has its abort flag up, so that it ends without queueing. *)
Silent ==
    state = "disconnected" =>
        /\ queue = <<>> /\ ~syncActive /\ ~connected
        /\ pc # "await"
        /\ pc \in {"step", "rejected", "done"} => aborted

(* Whoever asks the running operation to abort has set a timer that starts *)
(* the loop again; a disconnection has not, but leaves nothing to do. *)
AbortHasTimer == kicks \in Nat /\ (aborted /\ state # "disconnected" => kicks > 0)

QueueInv == Silent /\ AbortHasTimer /\ NeverStranded

(* The state and the send function go up and down together. *)
InStep == state # "disconnected" => connected

--------------------
(* Pieces of the handlers. *)

LEMMA DisconnectSilent == ASSUME Disconnect PROVE Silent'
  BY DEF Disconnect, Silent, EmptyQueue, Aborted, RejectedThen

LEMMA LoopEndsSilent ==
    ASSUME Silent, LoopEnds
    PROVE  Silent'
  BY DEF LoopEnds, ReadyIfDone, Silent, listener, flags, loop

LEMMA MicrotaskSilent ==
    ASSUME Silent, Microtask
    PROVE  Silent'
<1>1. CASE LoopTop
  <2>1. CASE StartOp BY <2>1 DEF StartOp, Silent, listener
  <2> QED BY <1>1, <2>1, LoopEndsSilent DEF LoopTop
<1>2. CASE NextQuery BY <1>2 DEF NextQuery, Silent, listener, flags
<1>3. CASE OpReturns
  <2>1. /\ state' = state /\ syncActive' = syncActive /\ connected' = connected /\ aborted' = aborted
        /\ pc = "step" /\ pc' = "done"
    BY <1>3 DEF OpReturns, listener, flags
  <2>2. aborted => queue' = queue BY <1>3 DEF OpReturns, BatchEnds
  <2> QED BY <2>1, <2>2 DEF Silent
<1>4. CASE QueryRejected BY <1>4 DEF QueryRejected, Silent, listener, flags
<1>5. CASE OpDone
  <2>1. CASE aborted /\ LoopEnds BY <2>1, LoopEndsSilent
  <2>2. CASE ~aborted /\ pc = "done" /\ state' = state
    BY <1>5, <2>2 DEF OpDone, Silent, listener, flags
  <2> QED BY <1>5, <2>1, <2>2 DEF OpDone
<1> QED BY <1>1, <1>2, <1>3, <1>4, <1>5 DEF Microtask

LEMMA HandlerSilent ==
    ASSUME Silent,
           \/ \E t \in Threads : OpenThread(t) \/ MessageEvent(t) \/ Ages(t)
           \/ CloseThread \/ RequestThreadListResync \/ Pause \/ Resume \/ AbortCurrent \/ Kick
           \/ QueryAnswered \/ QueryFails \/ Connect \/ Resync
    PROVE  Silent'
<1>1. ASSUME NEW t \in Threads, OpenThread(t) PROVE Silent'
  BY <1>1 DEF OpenThread, Silent, listener
<1>2. ASSUME NEW t \in Threads, MessageEvent(t) PROVE Silent' BY <1>2 DEF MessageEvent, Silent
<1>3. ASSUME NEW t \in Threads, Ages(t) PROVE Silent'
  BY <1>3 DEF Ages, Silent, listener, flags, loop
<1>4. CASE CloseThread BY <1>4 DEF CloseThread, Quiet, Silent, listener, loop
<1>5. CASE RequestThreadListResync BY <1>5 DEF RequestThreadListResync, Silent
<1>6. CASE Pause \/ AbortCurrent BY <1>6 DEF Pause, AbortCurrent, Quiet, Silent, listener, loop
<1>7. CASE Resume BY <1>7 DEF Resume, Quiet, Running, Silent, listener
<1>8. CASE Kick BY <1>8 DEF Kick, StartLoop, Quiet, Running, Silent, listener
<1>9. CASE QueryAnswered \/ QueryFails BY <1>9 DEF QueryAnswered, QueryFails, Silent
<1>10. CASE Connect \/ Resync BY <1>10 DEF Connect, Resync, StartPipeline, Silent
<1> QED BY <1>1, <1>2, <1>3, <1>4, <1>5, <1>6, <1>7, <1>8, <1>9, <1>10

LEMMA SilentStep == Silent /\ [Next]_vars => Silent'
<1> SUFFICES ASSUME Silent, [Next]_vars PROVE Silent'
  OBVIOUS
<1>1. CASE UNCHANGED vars BY <1>1 DEF vars, loop, flags, listener, Silent
<1> QED BY <1>1, MicrotaskSilent, HandlerSilent, DisconnectSilent DEF Next

LEMMA SilentInit == Init => Silent
  BY DEF Init, Silent, NothingRuns

LEMMA AlwaysSilent == Spec => []Silent
  BY SilentInit, SilentStep, PTL DEF Spec

--------------------
(* Interrupts *)

(* insertPriorityOp(): the loop starts, or was running and has a timer now. *)
LEMMA InsertServed ==
    ASSUME NEW q, NEW o, InsertPriorityOp(q, o), kicks \in Nat, paused' = paused
    PROVE  /\ kicks' \in Nat /\ kicks' >= kicks
           /\ aborted' => aborted \/ kicks' > 0
           /\ pc' # "idle" \/ paused'
  BY DEF InsertPriorityOp, StartLoop, SetKick, Running

LEMMA StartLoopServed == ASSUME StartLoop PROVE pc' # "idle" \/ paused
  BY DEF StartLoop, Running

LEMMA LoopEndsServed ==
    ASSUME Silent, AbortHasTimer, LoopEnds, queue = <<>> \/ paused \/ aborted
    PROVE  AbortHasTimer' /\ NeverStranded'
<1>1. aborted' = aborted /\ kicks' = kicks /\ paused' = paused BY DEF LoopEnds, flags
<1>2. AbortHasTimer'
  <2>1. state' # "disconnected" => state # "disconnected" BY DEF LoopEnds, ReadyIfDone
  <2> QED BY <1>1, <2>1 DEF AbortHasTimer
<1>3. NeverStranded'
  <2>1. CASE queue' # <<>> /\ ~paused /\ pc' = "idle"
    <3>1. queue' = queue BY <2>1 DEF LoopEnds
    <3>2. aborted /\ state # "disconnected" BY <2>1, <3>1 DEF Silent
    <3> QED BY <1>1, <3>2 DEF AbortHasTimer, NeverStranded
  <2> QED BY <1>1, <2>1 DEF NeverStranded, Running
<1> QED BY <1>2, <1>3

LEMMA MicrotaskServed ==
    ASSUME Silent, AbortHasTimer, Microtask
    PROVE  AbortHasTimer' /\ NeverStranded'
<1>1. CASE LoopTop
  <2>1. CASE StartOp BY <2>1 DEF StartOp, AbortHasTimer, NeverStranded, Running, Quiet
  <2> QED BY <1>1, <2>1, LoopEndsServed DEF LoopTop
<1>2. CASE NextQuery BY <1>2 DEF NextQuery, AbortHasTimer, NeverStranded, Running, flags
<1>3. CASE OpReturns BY <1>3 DEF OpReturns, AbortHasTimer, NeverStranded, Running, flags
<1>4. CASE QueryRejected BY <1>4 DEF QueryRejected, AbortHasTimer, NeverStranded, Running, flags
<1>5. CASE OpDone
  <2>1. CASE aborted /\ LoopEnds BY <2>1, LoopEndsServed
  <2>2. CASE ~aborted /\ pc' = "top" /\ UNCHANGED flags
    BY <2>2 DEF AbortHasTimer, NeverStranded, Running, flags
  <2> QED BY <1>5, <2>1, <2>2 DEF OpDone
<1> QED BY <1>1, <1>2, <1>3, <1>4, <1>5 DEF Microtask

LEMMA HandlerServed ==
    ASSUME QueueInv, ~ThreadsClose, ~Aborts,
           \/ \E t \in Threads : OpenThread(t) \/ MessageEvent(t) \/ Ages(t)
           \/ CloseThread \/ RequestThreadListResync \/ Pause \/ Resume \/ AbortCurrent \/ Kick
           \/ QueryAnswered \/ QueryFails \/ Connect \/ Resync \/ Disconnect
    PROVE  AbortHasTimer' /\ NeverStranded'
<1> USE DEF QueueInv
<1>0. kicks \in Nat BY DEF AbortHasTimer
<1>1. ASSUME NEW t \in Threads, OpenThread(t) PROVE AbortHasTimer' /\ NeverStranded'
  <2>1. state' = state /\ paused' = paused BY <1>1 DEF OpenThread
  <2>2. CASE UNCHANGED <<queue, aborted, kicks, pc>>
    BY <2>1, <2>2 DEF AbortHasTimer, NeverStranded, Running, Quiet
  <2>3. ASSUME NEW q, NEW o, InsertPriorityOp(q, o) PROVE AbortHasTimer' /\ NeverStranded'
    BY <1>0, <2>1, <2>3, InsertServed DEF AbortHasTimer, NeverStranded, Running
  <2>4. CASE StartLoop /\ UNCHANGED <<aborted, kicks>>
    BY <2>1, <2>4, StartLoopServed DEF AbortHasTimer, NeverStranded, Running
  <2> QED BY <1>1, <2>2, <2>3, <2>4 DEF OpenThread
<1>2. ASSUME NEW t \in Threads, MessageEvent(t) PROVE AbortHasTimer' /\ NeverStranded'
  <2>1. state' = state /\ paused' = paused BY <1>2 DEF MessageEvent
  <2>2. CASE UNCHANGED <<queue, aborted, kicks, pc>>
    BY <2>1, <2>2 DEF AbortHasTimer, NeverStranded, Running, Quiet
  <2>3. CASE InsertPriorityOp(queue, Op("thread_list_resync", None))
    BY <1>0, <2>1, <2>3, InsertServed DEF AbortHasTimer, NeverStranded, Running
  <2> QED BY <1>2, <2>2, <2>3 DEF MessageEvent
<1>3. ASSUME NEW t \in Threads, Ages(t) PROVE AbortHasTimer' /\ NeverStranded'
  BY <1>3 DEF Ages, loop, flags, AbortHasTimer, NeverStranded, Running, Quiet
<1>4. CASE CloseThread \/ AbortCurrent BY <1>4 DEF CloseThread, AbortCurrent
<1>5. CASE RequestThreadListResync
  <2>1. state' = state /\ paused' = paused /\ InsertPriorityOp(queue, Op("thread_list_resync", None))
    BY <1>5 DEF RequestThreadListResync
  <2> QED BY <1>0, <2>1, InsertServed DEF AbortHasTimer, NeverStranded, Running
<1>6. CASE Pause BY <1>6 DEF Pause, AbortHasTimer, NeverStranded
<1>7. CASE Resume BY <1>7 DEF Resume, AbortHasTimer, NeverStranded, Running
<1>8. CASE Kick
  <2>1. kicks' \in Nat /\ ~aborted' /\ paused' = paused /\ StartLoop BY <1>0, <1>8 DEF Kick
  <2> QED BY <2>1, StartLoopServed DEF AbortHasTimer, NeverStranded, Running
<1>9. CASE QueryAnswered \/ QueryFails
  BY <1>9 DEF QueryAnswered, QueryFails, AbortHasTimer, NeverStranded, Running, flags
<1>10. CASE Connect \/ Resync
  BY <1>0, <1>10 DEF Connect, Resync, StartPipeline, RejectedThen, AbortHasTimer, NeverStranded,
    Running
<1>11. CASE Disconnect BY <1>0, <1>11 DEF Disconnect, EmptyQueue, AbortHasTimer, NeverStranded
<1> QED BY <1>1, <1>2, <1>3, <1>4, <1>5, <1>6, <1>7, <1>8, <1>9, <1>10, <1>11

LEMMA QueueStep == ~ThreadsClose /\ ~Aborts /\ QueueInv /\ [Next]_vars => QueueInv'
<1> SUFFICES ASSUME ~ThreadsClose, ~Aborts, QueueInv, [Next]_vars PROVE QueueInv'
  OBVIOUS
<1>1. Silent' BY SilentStep DEF QueueInv
<1>2. CASE UNCHANGED vars
  BY <1>1, <1>2 DEF vars, loop, flags, QueueInv, AbortHasTimer, NeverStranded, Quiet, Running
<1> QED BY <1>1, <1>2, MicrotaskServed, HandlerServed DEF Next, QueueInv

LEMMA QueueInit == Init => QueueInv
  BY SilentInit DEF Init, NothingRuns, QueueInv, AbortHasTimer, NeverStranded

--------------------
(* Connections *)

LEMMA InStepStep == ~Resyncs /\ Silent /\ InStep /\ [Next]_vars => InStep'
<1> SUFFICES ASSUME ~Resyncs, Silent, InStep, [Next]_vars PROVE InStep'
  OBVIOUS
<1>1. CASE Connect BY <1>1 DEF Connect, InStep
<1>2. CASE Disconnect BY <1>2 DEF Disconnect, InStep
<1>3. ASSUME connected' = connected, state = "disconnected" => state' = "disconnected"
      PROVE  InStep'
  BY <1>3 DEF InStep
<1>4. CASE LoopEnds BY <1>3, <1>4 DEF LoopEnds, ReadyIfDone
<1>5. CASE Microtask
  <2>1. CASE StartOp BY <1>3, <2>1 DEF StartOp, Silent
  <2>2. CASE NextQuery BY <1>3, <2>2 DEF NextQuery
  <2>3. CASE OpReturns BY <1>3, <2>3 DEF OpReturns
  <2>4. CASE QueryRejected BY <1>3, <2>4 DEF QueryRejected
  <2>5. CASE OpDone BY <1>3, <1>4, <2>5 DEF OpDone
  <2> QED BY <1>4, <1>5, <2>1, <2>2, <2>3, <2>4, <2>5 DEF Microtask, LoopTop
<1>6. CASE QueryAnswered \/ QueryFails \/ Kick BY <1>3, <1>6 DEF QueryAnswered, QueryFails, Kick
<1>7. CASE CloseThread \/ RequestThreadListResync
  BY <1>3, <1>7 DEF CloseThread, RequestThreadListResync
<1>8. CASE Pause \/ Resume \/ AbortCurrent BY <1>3, <1>8 DEF Pause, Resume, AbortCurrent
<1>9. ASSUME NEW t \in Threads, OpenThread(t) \/ MessageEvent(t) \/ Ages(t) PROVE InStep'
  BY <1>3, <1>9 DEF OpenThread, MessageEvent, Ages
<1>10. CASE UNCHANGED vars BY <1>3, <1>10 DEF vars
<1>11. CASE Resync BY <1>11 DEF Resync
<1> QED BY <1>1, <1>2, <1>5, <1>6, <1>7, <1>8, <1>9, <1>10, <1>11 DEF Next

--------------------
(* Sequences *)

LEMMA Elements ==
    ASSUME NEW S, NEW s \in Seq(S)
    PROVE  \A i \in DOMAIN s : s[i] \in S
  BY ElementOfSeq, LenProperties

(* The n-th place that is kept is the one with n places kept up to it. *)
LEMMA RankIsPlace ==
    ASSUME NEW N \in Nat, NEW kept \in SUBSET (1..N)
    PROVE  /\ Cardinality(kept) \in Nat
           /\ \A n \in 1..Cardinality(kept) : \E i \in kept : Rank(kept, i) = n
           /\ \A i, j \in kept : Rank(kept, i) < Rank(kept, j) => i < j
<1> DEFINE c == Cardinality(kept)
           upTo(i) == {j \in kept : j <= i}
           rank == [i \in kept |-> Rank(kept, i)]
<1>0. \A i \in kept : i \in Int OBVIOUS
<1>1. IsFiniteSet(kept) /\ c \in Nat
  <2>1. IsFiniteSet(1..N) BY FS_Interval
  <2>2. IsFiniteSet(kept) BY <2>1, FS_Subset
  <2> QED BY <2>2, FS_CardinalityType
<1>2. ASSUME NEW i \in kept
      PROVE  IsFiniteSet(upTo(i)) /\ Cardinality(upTo(i)) \in 1..c
  <2>1. upTo(i) \in SUBSET kept /\ i \in upTo(i) BY <1>0
  <2> HIDE DEF upTo
  <2>2. IsFiniteSet(upTo(i)) /\ Cardinality(upTo(i)) <= c BY <1>1, <2>1, FS_Subset
  <2>3. Cardinality(upTo(i)) \in Nat /\ Cardinality(upTo(i)) # 0
    BY <2>1, <2>2, FS_CardinalityType, FS_EmptySet
  <2> QED BY <1>1, <2>2, <2>3
<1>8. ASSUME NEW i \in kept PROVE Rank(kept, i) \in 1..c /\ Rank(kept, i) \in Int
  <2>1. Cardinality(upTo(i)) \in 1..c BY <1>2
  <2> HIDE DEF c
  <2> QED BY <2>1 DEF Rank
<1>3. ASSUME NEW i \in kept, NEW j \in kept, i < j PROVE Rank(kept, i) < Rank(kept, j)
  <2>1. upTo(i) \in SUBSET upTo(j) /\ j \in upTo(j) /\ j \notin upTo(i)
    <3>1. \A k \in upTo(i) : k \in kept /\ k <= j BY <1>0, <1>3
    <3>2. j <= j /\ ~(j <= i) BY <1>0, <1>3
    <3> QED BY <3>1, <3>2
  <2>2. IsFiniteSet(upTo(j)) BY <1>2
  <2>3. Cardinality(upTo(i)) <= Cardinality(upTo(j)) /\ Cardinality(upTo(i)) # Cardinality(upTo(j))
    <3> HIDE DEF upTo
    <3> QED BY <2>1, <2>2, FS_Subset
  <2>4. Rank(kept, i) <= Rank(kept, j) /\ Rank(kept, i) # Rank(kept, j) BY <2>3 DEF Rank
  <2> QED BY <1>8, <2>4
<1>4. \A i, j \in kept : Rank(kept, i) < Rank(kept, j) => i < j
  <2> SUFFICES ASSUME NEW i \in kept, NEW j \in kept, Rank(kept, i) < Rank(kept, j), ~(i < j)
               PROVE  FALSE
    OBVIOUS
  <2>1. i = j \/ j < i BY <1>0
  <2>2. Rank(kept, i) \in Int /\ Rank(kept, j) \in Int BY <1>8
  <2>3. ~(Rank(kept, j) < Rank(kept, i)) /\ i # j BY <2>2
  <2> QED BY <1>3, <2>1, <2>3
<1>5. rank \in Injection(kept, 1..c)
  <2>1. rank \in [kept -> 1..c] BY <1>8
  <2>2. ASSUME NEW i \in kept, NEW j \in kept, Rank(kept, i) = Rank(kept, j) PROVE i = j
    <3>1. i = j \/ i < j \/ j < i BY <1>0
    <3>2. Rank(kept, i) \in Int /\ Rank(kept, j) \in Int BY <1>8
    <3>3. ~(Rank(kept, i) < Rank(kept, j)) /\ ~(Rank(kept, j) < Rank(kept, i)) BY <2>2, <3>2
    <3> QED BY <1>3, <3>1, <3>3
  <2>3. \A i, j \in kept : rank[i] = rank[j] => i = j BY <2>2
  <2> HIDE DEF rank
  <2> QED BY <2>1, <2>3, Fun_IsInj
<1>6. rank \in Surjection(kept, 1..c)
  <2>1. IsFiniteSet(1..c) /\ Cardinality(1..c) = c BY <1>1, FS_Interval
  <2> HIDE DEF rank, c
  <2> QED BY <1>5, <2>1, FS_Injection DEF c
<1>7. \A n \in 1..c : \E i \in kept : rank[i] = n
  <2> HIDE DEF rank, c
  <2> QED BY <1>6, Fun_SurjectionProperties
<1> QED BY <1>1, <1>4, <1>7

(* queue.filter() keeps elements of the queue, each from a place of its own *)
(* and in their order. *)
LEMMA FilterKeepsOrder ==
    ASSUME NEW S, NEW q \in Seq(S), NEW kept \in SUBSET DOMAIN q
    PROVE  /\ Filtered(q, kept) \in Seq(S)
           /\ \E place \in [DOMAIN Filtered(q, kept) -> kept] :
                 /\ \A n \in DOMAIN Filtered(q, kept) : Filtered(q, kept)[n] = q[place[n]]
                 /\ \A m, n \in DOMAIN Filtered(q, kept) : m < n => place[m] < place[n]
<1> DEFINE c == Cardinality(kept)
           place == [n \in 1..c |-> CHOOSE i \in kept : Rank(kept, i) = n]
           r == Filtered(q, kept)
<1>1. Len(q) \in Nat /\ DOMAIN q = 1..Len(q) /\ kept \in SUBSET (1..Len(q)) BY LenProperties
<1>2. /\ c \in Nat
      /\ \A n \in 1..c : \E i \in kept : Rank(kept, i) = n
      /\ \A i, j \in kept : Rank(kept, i) < Rank(kept, j) => i < j
  BY <1>1, RankIsPlace
<1>3. \A n \in 1..c : place[n] \in kept /\ Rank(kept, place[n]) = n BY <1>2
<1>4. r = [n \in 1..c |-> q[place[n]]] BY DEF Filtered
<1> HIDE DEF c, r
<1>5. place \in [1..c -> kept] BY <1>3
<1> HIDE DEF place
<1>6. \A m, n \in 1..c : m < n => place[m] < place[n] BY <1>2, <1>3
<1>7. DOMAIN r = 1..c /\ \A n \in 1..c : r[n] = q[place[n]] /\ q[place[n]] \in S
  BY <1>3, <1>4, Elements
<1>8. r \in Seq(S)
  <2>1. r \in [1..c -> S] BY <1>4, <1>7
  <2> QED BY <1>2, <2>1, SeqDef
<1> QED BY <1>5, <1>6, <1>7, <1>8 DEF r

(* An operation goes to the front. *)
LEMMA FrontIs ==
    ASSUME NEW S, NEW s \in Seq(S), NEW e \in S
    PROVE  /\ <<e>> \o s \in Seq(S)
           /\ DOMAIN (<<e>> \o s) = 1..(Len(s) + 1) /\ Len(s) \in Nat /\ DOMAIN s = 1..Len(s)
           /\ (<<e>> \o s)[1] = e
           /\ \A i \in 2..(Len(s) + 1) : i - 1 \in DOMAIN s /\ (<<e>> \o s)[i] = s[i - 1]
<1> DEFINE f == <<e>> \o s
<1>1. <<e>> \in Seq(S) /\ Len(<<e>>) = 1 /\ <<e>>[1] = e OBVIOUS
<1>2. f \in Seq(S) /\ Len(f) = 1 + Len(s) /\ Len(s) \in Nat
      /\ \A i \in 1..(1 + Len(s)) : f[i] = IF i <= 1 THEN <<e>>[i] ELSE s[i - 1]
  BY <1>1, ConcatProperties, LenProperties
<1> HIDE DEF f
<1>3. DOMAIN f = 1..(Len(s) + 1) /\ DOMAIN s = 1..Len(s) BY <1>2, LenProperties
<1>4. f[1] = e BY <1>1, <1>2
<1>5. \A i \in 2..(Len(s) + 1) : i - 1 \in DOMAIN s /\ f[i] = s[i - 1] BY <1>2, <1>3
<1> QED BY <1>2, <1>3, <1>4, <1>5 DEF f

(* A finite set in some order: SetToSeq(). *)
LEMMA SetToSeqIs ==
    ASSUME NEW T, NEW S \in SUBSET T, IsFiniteSet(S)
    PROVE  /\ SetToSeq(S) \in Seq(T) /\ \A i \in DOMAIN SetToSeq(S) : SetToSeq(S)[i] \in S
           /\ \A i, j \in DOMAIN SetToSeq(S) : SetToSeq(S)[i] = SetToSeq(S)[j] => i = j
<1> DEFINE c == Cardinality(S)
           s == SetToSeq(S)
<1>1. c \in Nat /\ ExistsBijection(1..c, S) BY FS_CardinalityType
<1>2. \E f \in [1..c -> S] : IsInjective(f)
  <2> HIDE DEF c
  <2> QED BY <1>1 DEF ExistsBijection, Bijection, Injection, IsInjective
<1>3. s \in [1..c -> S] /\ IsInjective(s) BY <1>2 DEF SetToSeq
<1> HIDE DEF s, c
<1>4. s \in [1..c -> T] BY <1>3
<1> QED BY <1>1, <1>3, <1>4, SeqDef DEF IsInjective, s

--------------------
(* Types *)

PCs == {"idle", "top", "step", "await", "rejected", "done"}

(* What the loop reads and writes. *)
LoopTyped ==
    /\ queue \in Seq(Ops) /\ op \in Ops \cup {None} /\ pc \in PCs
    /\ op = None <=> pc \in {"idle", "top"}
    /\ state \in {"disconnected", "connected", "thread_sync", "message_sync", "ready"}
    /\ aborted \in BOOLEAN /\ kicks \in Nat

(* The queries still to make; only a count verification asks for a count. *)
TodoTyped ==
    /\ todo \in Seq(Threads \cup {None} \cup Steps)
    /\ pc \in {"idle", "top", "done"} => todo = <<>>
    /\ pc \in {"await", "rejected"} => todo # <<>>
    /\ \A i \in DOMAIN todo : todo[i] = "count" => op.kind = "count_verify"

FlagsTyped ==
    /\ connected \in BOOLEAN /\ syncActive \in BOOLEAN /\ initialComplete \in BOOLEAN
    /\ paused \in BOOLEAN /\ current \in BOOLEAN

DataTyped ==
    /\ openThread \in Threads \cup {None} /\ priorityThread \in Threads \cup {None}
    /\ bgTotal \in Nat /\ bgCompleted \in Nat /\ session \in Nat /\ requests \in Nat /\ events \in Nat
    /\ flagged \in SUBSET Threads /\ listed \in SUBSET Threads
    /\ full \in [Threads -> {"no", "yes", "old"}] /\ quick \in [Threads -> Nat]

Typed == LoopTyped /\ TodoTyped /\ FlagsTyped /\ DataTyped

LEMMA TypedIsTypeOK == Typed => TypeOK
  BY DEF Typed, LoopTyped, FlagsTyped, DataTyped, TypeOK, PCs

LEMMA TypedInit == Init => Typed
<1> SUFFICES ASSUME Init PROVE Typed
  OBVIOUS
<1> USE DEF Init, NothingRuns
<1>1. LoopTyped
  <2>1. queue \in Seq(Ops) OBVIOUS
  <2>2. op \in Ops \cup {None} /\ pc \in PCs /\ (op = None <=> pc \in {"idle", "top"}) BY DEF PCs
  <2>3. aborted \in BOOLEAN OBVIOUS
  <2>4. kicks \in Nat OBVIOUS
  <2>5. state \in {"disconnected", "connected", "thread_sync", "message_sync", "ready"} OBVIOUS
  <2> QED BY <2>1, <2>2, <2>3, <2>4, <2>5 DEF LoopTyped
<1>2. TodoTyped BY DEF TodoTyped
<1>3. FlagsTyped BY DEF FlagsTyped
<1>4. DataTyped BY DEF DataTyped
<1> QED BY <1>1, <1>2, <1>3, <1>4 DEF Typed

LEMMA OpIsOp ==
    ASSUME NEW kind \in Kinds, NEW t \in Threads \cup {None}, NEW s \in Nat
    PROVE  OpIn(s, kind, t) \in Ops
  BY DEF OpIn, Ops

(* The steps that leave the loop's queries alone. *)
LEMMA TodoStays ==
    ASSUME TodoTyped, todo' = todo, op' = op, pc' = pc \/ (pc = "idle" /\ pc' = "top")
    PROVE  TodoTyped'
  BY DEF TodoTyped

LEMMA InsertTyped ==
    ASSUME LoopTyped, TodoTyped, NEW q \in Seq(Ops), NEW o \in Ops, InsertPriorityOp(q, o),
           state' = state, op' = op, todo' = todo
    PROVE  LoopTyped' /\ TodoTyped'
<1>1. <<o>> \o q \in Seq(Ops) BY FrontIs
<1>2. pc' = pc \/ (pc = "idle" /\ pc' = "top") BY DEF InsertPriorityOp, StartLoop, Running
<1>3. LoopTyped'
  <2>1. queue' \in Seq(Ops) /\ kicks' \in Nat BY <1>1 DEF InsertPriorityOp, SetKick, LoopTyped
  <2>2. aborted' \in BOOLEAN BY DEF InsertPriorityOp, LoopTyped
  <2> QED BY <1>2, <2>1, <2>2 DEF LoopTyped, PCs
<1> QED BY <1>2, <1>3, TodoStays

LEMMA RestTyped ==
    ASSUME queue \in Seq(Ops), NEW t
    PROVE  Filtered(queue, {i \in DOMAIN queue : ~(queue[i].kind \in BgKinds /\ queue[i].thread = t)})
             \in Seq(Ops)
  BY FilterKeepsOrder

LEMMA VerificationTyped ==
    ASSUME NEW q \in Seq(Ops), NEW s \in Nat, NEW t \in Threads \cup {None}
    PROVE  WithVerification(q, s, t) \in Seq(Ops)
<1>1. OpIn(s, "count_verify", t) \in Ops BY OpIsOp DEF Kinds, PerThread
<1> QED BY <1>1 DEF WithVerification

(* The threads an event has flagged, and those of a batch, are finitely many. *)
LEMMA PerThreadOps ==
    ASSUME NEW kind \in Kinds, NEW S \in SUBSET Threads, session \in Nat
    PROVE  LET ops == {Op(kind, t) : t \in S} IN
           /\ IsFiniteSet(ops) /\ ops \in SUBSET Ops
           /\ SetToSeq(ops) \in Seq(Ops)
           /\ IsFiniteSet(S) /\ Cardinality(S) \in Nat
<1> DEFINE ops == {Op(kind, t) : t \in S}
           asOp == [t \in S |-> Op(kind, t)]
<1>1. IsFiniteSet(S) BY SyncOrchestratorAssumption, FS_Subset
<1>2. \A t \in S : Op(kind, t) \in Ops BY OpIsOp DEF Op
<1>3. asOp \in Surjection(S, ops)
  <2>1. asOp \in [S -> ops] /\ \A o \in ops : \E t \in S : asOp[t] = o OBVIOUS
  <2> HIDE DEF asOp, ops
  <2> QED BY <2>1, Fun_IsSurj
<1>4. IsFiniteSet(ops)
  <2> HIDE DEF asOp, ops
  <2> QED BY <1>1, <1>3, FS_Surjection
<1>5. ops \in SUBSET Ops BY <1>2
<1>6. SetToSeq(ops) \in Seq(Ops)
  <2> HIDE DEF ops
  <2> QED BY <1>4, <1>5, SetToSeqIs
<1> QED BY <1>1, <1>4, <1>5, <1>6, FS_CardinalityType

LEMMA LoopEndsTyped ==
    ASSUME Typed, LoopEnds
    PROVE  Typed'
<1> USE DEF Typed
<1>1. /\ op' = None /\ current' = FALSE /\ todo' = <<>> /\ pc' \in {"idle", "top"}
      /\ UNCHANGED <<connected, flags, ui, bg, db, bounds>>
  BY DEF LoopEnds
<1>2. queue' \in Seq(Ops)
  <2>1. SetToSeq({Op("flagged_sync", t) : t \in flagged}) \in Seq(Ops)
    BY PerThreadOps DEF DataTyped, Kinds, PerThread
  <2> QED BY <2>1 DEF LoopEnds, FlaggedThreads, LoopTyped
<1>3. state' \in {"disconnected", "connected", "thread_sync", "message_sync", "ready"}
  BY DEF LoopEnds, LoopTyped
<1>4. syncActive' \in BOOLEAN
  <2>1. syncActive' = syncActive \/ syncActive' = FALSE BY DEF LoopEnds, listener
  <2> QED BY <2>1 DEF FlagsTyped
<1>5. flagged' \in SUBSET Threads BY DEF LoopEnds, DataTyped, listener
<1>6. LoopTyped' BY <1>1, <1>2, <1>3 DEF LoopTyped, flags, PCs
<1>7. TodoTyped' BY <1>1 DEF TodoTyped
<1>8. FlagsTyped' BY <1>1, <1>4 DEF FlagsTyped, flags, db
<1>9. DataTyped' BY <1>1, <1>5 DEF DataTyped, ui, bg, db, bounds
<1> QED BY <1>6, <1>7, <1>8, <1>9

LEMMA QueriesTyped ==
    ASSUME NEW o \in Ops, listed \in SUBSET Threads
    PROVE  /\ Queries(o) \in Seq(Threads \cup {None} \cup Steps)
           /\ \A i \in DOMAIN Queries(o) : Queries(o)[i] = "count" => o.kind = "count_verify"
<1> DEFINE Q == Threads \cup {None} \cup Steps
<1>1. CASE o.kind = "message_sync"
  <2>1. IsFiniteSet(listed) BY SyncOrchestratorAssumption, FS_Subset
  <2>2. SetToSeq(listed) \in Seq(Threads) /\ \A i \in DOMAIN SetToSeq(listed) : SetToSeq(listed)[i] \in listed
    BY <2>1, SetToSeqIs
  <2>3. SetToSeq(listed) \in Seq(Q) BY <2>2, SeqMonotonic
  <2>4. "count" \notin Threads BY SyncOrchestratorAssumption DEF Steps
  <2> QED BY <1>1, <2>2, <2>3, <2>4 DEF Queries
<1>2. CASE o.kind = "thread_sync"
  <2>1. Queries(o) = <<"list", "flush", "filter", "read">> BY <1>2 DEF Queries
  <2> QED BY <2>1 DEF Steps
<1>3. CASE o.kind = "contact_sync"
  <2>1. Queries(o) = <<"contacts">> BY <1>3 DEF Queries
  <2> QED BY <2>1 DEF Steps
<1>4. CASE o.kind = "thread_list_resync"
  <2>1. Queries(o) = <<"list">> BY <1>4 DEF Queries
  <2> QED BY <2>1 DEF Steps
<1>5. CASE o.kind = "count_verify"
  <2>1. Queries(o) = <<"count">> \/ Queries(o) = <<>> BY <1>5 DEF Queries
  <2>2. "count" \in Q BY DEF Steps
  <2> HIDE DEF Q
  <2>3. <<"count">> \in Seq(Q) /\ <<>> \in Seq(Q) BY <2>2
  <2>4. Queries(o) \in Seq(Q) BY <2>1, <2>3
  <2> QED BY <1>5, <2>4 DEF Q
<1>6. CASE o.kind \in PerThread \ {"count_verify"}
  <2>1. Queries(o) = <<o.thread>> BY <1>6 DEF Queries, PerThread
  <2>2. o.thread \in Threads \cup {None} /\ o.thread # "count"
    BY SyncOrchestratorAssumption DEF Ops, Steps
  <2> QED BY <2>1, <2>2
<1> QED BY <1>1, <1>2, <1>3, <1>4, <1>5, <1>6 DEF Ops, Kinds, Phases, PerThread

LEMMA StartOpTyped ==
    ASSUME Typed, pc = "top", StartOp
    PROVE  Typed'
<1> USE DEF Typed
<1>1. Head(queue) \in Ops /\ Tail(queue) \in Seq(Ops) BY HeadTailProperties DEF StartOp, LoopTyped
<1>2. Head(queue) # None BY <1>1, NoneIsNoOp
<1>3. LoopTyped' BY <1>1, <1>2 DEF StartOp, LoopTyped, PCs
<1>4. TodoTyped' BY <1>1, QueriesTyped DEF StartOp, TodoTyped, DataTyped
<1>5. FlagsTyped' BY DEF StartOp, FlagsTyped, listener, db
<1>6. DataTyped' BY DEF StartOp, DataTyped, listener, ui, bg, db, bounds
<1> QED BY <1>3, <1>4, <1>5, <1>6

LEMMA TodoTail ==
    ASSUME TodoTyped, todo # <<>>, op' = op,
           (pc' = "step" /\ todo' = Tail(todo)) \/ (pc' = "done" /\ todo' = <<>>)
    PROVE  TodoTyped'
<1>1. CASE pc' = "step" /\ todo' = Tail(todo)
  <2> DEFINE Q == Threads \cup {None} \cup Steps
  <2>1. todo \in Seq(Q) BY DEF TodoTyped
  <2> HIDE DEF Q
  <2>2. Tail(todo) \in Seq(Q) /\ Len(Tail(todo)) = Len(todo) - 1
        /\ \A i \in 1..Len(Tail(todo)) : Tail(todo)[i] = todo[i + 1]
    BY <2>1, HeadTailProperties
  <2>3. \A i \in DOMAIN Tail(todo) : i + 1 \in DOMAIN todo /\ Tail(todo)[i] = todo[i + 1]
    BY <2>1, <2>2, LenProperties
  <2> QED BY <1>1, <2>2, <2>3 DEF TodoTyped, Q
<1>2. CASE pc' = "done" /\ todo' = <<>> BY <1>2 DEF TodoTyped
<1> QED BY <1>1, <1>2

LEMMA MicrotaskTyped ==
    ASSUME Typed, Microtask
    PROVE  Typed'
<1> USE DEF Typed
<1>1. CASE LoopTop BY <1>1, StartOpTyped, LoopEndsTyped DEF LoopTop
<1>2. CASE NextQuery
  <2>1. /\ UNCHANGED <<connected, state, queue, op, current, todo, flags, ui, bg, listener, db, bounds>>
        /\ todo # <<>> /\ pc = "step" /\ pc' \in {"await", "rejected"}
    BY <1>2 DEF NextQuery
  <2>2. LoopTyped' BY <2>1 DEF LoopTyped, PCs, flags
  <2>3. TodoTyped' BY <2>1 DEF TodoTyped
  <2>4. FlagsTyped' /\ DataTyped'
    BY <2>1 DEF FlagsTyped, DataTyped, flags, ui, bg, listener, db, bounds
  <2> QED BY <2>2, <2>3, <2>4
<1>3. CASE OpReturns
  <2>1. /\ UNCHANGED <<connected, state, op, current, flags, ui, listener, bounds>>
        /\ todo' = <<>> /\ pc = "step" /\ pc' = "done"
    BY <1>3 DEF OpReturns
  <2>2. bgTotal \in Nat /\ bgCompleted \in Nat /\ initialComplete \in BOOLEAN /\ queue \in Seq(Ops)
        /\ listed \in SUBSET Threads /\ session \in Nat
    BY DEF DataTyped, FlagsTyped, LoopTyped
  <2>3. CASE BatchEnds
    <3>1. {t \in listed : full[t] = "no"} \in SUBSET Threads BY <2>2
    <3>2. /\ SetToSeq({Op("bg_full_sync", t) : t \in {t \in listed : full[t] = "no"}}) \in Seq(Ops)
          /\ Cardinality({t \in listed : full[t] = "no"}) \in Nat
      BY <2>2, <3>1, PerThreadOps DEF Kinds, PerThread
    <3>3. queue' \in Seq(Ops)
      <4>1. CASE queue' = queue BY <2>2, <4>1
      <4>2. CASE queue' = queue \o SetToSeq({Op("bg_full_sync", t) : t \in {t \in listed : full[t] = "no"}})
        BY <2>2, <3>2, <4>2, ConcatProperties
      <4> QED BY <2>3, <4>1, <4>2 DEF BatchEnds
    <3>4. bgTotal' \in Nat /\ bgCompleted' \in Nat BY <2>2, <2>3, <3>2 DEF BatchEnds, bg
    <3>5. initialComplete' \in BOOLEAN /\ UNCHANGED <<listed, full, quick>>
      BY <2>2, <2>3 DEF BatchEnds
    <3> QED BY <2>1, <3>3, <3>4, <3>5
        DEF LoopTyped, TodoTyped, FlagsTyped, DataTyped, PCs, flags, ui, listener, bounds
  <2>4. CASE CountFullSync /\ UNCHANGED <<bgTotal, db, queue>>
    <3>1. bgCompleted' \in Nat BY <2>2, <2>4 DEF CountFullSync
    <3> QED BY <2>1, <2>4, <3>1
        DEF LoopTyped, TodoTyped, FlagsTyped, DataTyped, PCs, flags, ui, listener, db, bounds
  <2>5. CASE UNCHANGED <<queue, bg, db>>
    BY <2>1, <2>5 DEF LoopTyped, TodoTyped, FlagsTyped, DataTyped, PCs, flags, ui, bg, listener,
      db, bounds
  <2> QED BY <1>3, <2>3, <2>4, <2>5 DEF OpReturns
<1>4. CASE QueryRejected
  <2>1. /\ UNCHANGED <<connected, state, queue, op, current, flags, ui, bg, listener, db, bounds>>
        /\ pc = "rejected" /\ todo # <<>>
        /\ (pc' = "step" /\ todo' = Tail(todo)) \/ (pc' = "done" /\ todo' = <<>>)
    BY <1>4 DEF QueryRejected, TodoTyped
  <2>2. LoopTyped' BY <2>1 DEF LoopTyped, PCs, flags
  <2>3. TodoTyped' BY <2>1, TodoTail
  <2>4. FlagsTyped' /\ DataTyped'
    BY <2>1 DEF FlagsTyped, DataTyped, flags, ui, bg, listener, db, bounds
  <2> QED BY <2>2, <2>3, <2>4
<1>5. CASE OpDone
  <2>1. CASE LoopEnds BY <2>1, LoopEndsTyped
  <2>2. CASE /\ pc = "done" /\ pc' = "top" /\ op' = None /\ current' = FALSE
             /\ UNCHANGED <<connected, state, queue, todo, flags, ui, bg, listener, db, bounds>>
    <3>1. LoopTyped' BY <2>2 DEF LoopTyped, PCs, flags
    <3>2. TodoTyped' BY <2>2 DEF TodoTyped
    <3>3. FlagsTyped' BY <2>2 DEF FlagsTyped, flags, listener, db
    <3>4. DataTyped' BY <2>2 DEF DataTyped, ui, bg, listener, db, bounds
    <3> QED BY <3>1, <3>2, <3>3, <3>4
  <2> QED BY <1>5, <2>1, <2>2 DEF OpDone
<1> QED BY <1>1, <1>2, <1>3, <1>4, <1>5 DEF Microtask

(* Handlers *)

LEMMA StartPipelineTyped ==
    ASSUME Typed, NEW fullNow \in [Threads -> {"no", "yes", "old"}], StartPipeline(fullNow)
    PROVE  /\ state' = "connected" /\ aborted' = FALSE /\ paused' = FALSE /\ syncActive' = TRUE
           /\ full' \in [Threads -> {"no", "yes", "old"}] /\ queue' \in Seq(Ops)
<1> DEFINE now == session + 1
           phases == << OpIn(now, "thread_sync", None), OpIn(now, "contact_sync", None),
                        OpIn(now, "message_sync", None) >>
<1>1. now \in Nat /\ openThread \in Threads \cup {None} BY DEF Typed, DataTyped
<1>2. \A kind \in {"thread_sync", "contact_sync", "message_sync"} : OpIn(now, kind, None) \in Ops
  BY <1>1, OpIsOp DEF Kinds, Phases
<1>3. phases \in Seq(Ops) BY <1>2
<1>4. WithVerification(phases, now, openThread) \in Seq(Ops) BY <1>1, <1>3, VerificationTyped
<1> HIDE DEF phases
<1>5. queue' \in Seq(Ops) BY <1>3, <1>4 DEF StartPipeline, phases
<1> QED BY <1>5 DEF StartPipeline

LEMMA ConnectionTyped ==
    ASSUME Typed, Connect \/ Resync \/ Disconnect
    PROVE  Typed'
<1>1. /\ todo' = todo /\ op' = op /\ current' = FALSE /\ kicks' = kicks
      /\ \/ pc = "await" /\ pc' = "rejected"
         \/ pc = "idle" /\ pc' \in {"idle", "top"}
  BY DEF Connect, Resync, Disconnect, RejectedThen, Quiet
<1>2. /\ connected' \in BOOLEAN /\ initialComplete' \in BOOLEAN
      /\ bgTotal' \in Nat /\ bgCompleted' \in Nat /\ priorityThread' \in Threads \cup {None}
      /\ listed' \in SUBSET Threads /\ session' \in Nat
      /\ UNCHANGED <<openThread, flagged, quick, requests, events>>
  <2>1. bgTotal' \in Nat /\ bgCompleted' \in Nat /\ priorityThread' \in Threads \cup {None}
    BY DEF Connect, Resync, Disconnect, DropProgress
  <2>2. connected' \in BOOLEAN BY DEF Connect, Resync, Disconnect, Typed, FlagsTyped
  <2>3. initialComplete' = initialComplete \/ initialComplete' = FALSE
    BY DEF Connect, Resync, Disconnect, db
  <2>4. initialComplete' \in BOOLEAN BY <2>3 DEF Typed, FlagsTyped
  <2>5. listed' \in SUBSET Threads BY DEF Connect, Resync, Disconnect, Typed, DataTyped, db
  <2>6. session' \in Nat BY DEF Connect, Resync, Disconnect, Typed, DataTyped, bounds
  <2>7. UNCHANGED <<openThread, flagged, quick, requests, events>>
    BY DEF Connect, Resync, Disconnect, db, bounds
  <2> QED BY <2>1, <2>2, <2>4, <2>5, <2>6, <2>7
<1>3. /\ state' \in {"disconnected", "connected", "thread_sync", "message_sync", "ready"}
      /\ aborted' \in BOOLEAN /\ paused' \in BOOLEAN /\ syncActive' \in BOOLEAN
      /\ full' \in [Threads -> {"no", "yes", "old"}] /\ queue' \in Seq(Ops)
  <2>1. CASE Connect
    <3>1. full \in [Threads -> {"no", "yes", "old"}] /\ StartPipeline(full)
      BY <2>1 DEF Connect, Typed, DataTyped
    <3> QED BY <3>1, StartPipelineTyped
  <2>2. CASE Resync
    <3>1. StartPipeline([t \in Threads |-> "no"]) BY <2>2 DEF Resync
    <3> QED BY <3>1, StartPipelineTyped
  <2>3. CASE Disconnect
    <3>1. state' = "disconnected" /\ aborted' = TRUE /\ paused' = paused /\ syncActive' = FALSE
          /\ full' = full /\ queue' = <<>>
      BY <2>3 DEF Disconnect, EmptyQueue, Aborted, db
    <3>2. paused \in BOOLEAN /\ full \in [Threads -> {"no", "yes", "old"}]
      BY DEF Typed, FlagsTyped, DataTyped
    <3>3. state' \in {"disconnected", "connected", "thread_sync", "message_sync", "ready"}
          /\ full' \in [Threads -> {"no", "yes", "old"}] /\ queue' \in Seq(Ops)
      BY <3>1, <3>2
    <3>4. aborted' \in BOOLEAN /\ paused' \in BOOLEAN /\ syncActive' \in BOOLEAN BY <3>1, <3>2
    <3> QED BY <3>3, <3>4
  <2> QED BY <2>1, <2>2, <2>3
<1>4. LoopTyped' BY <1>1, <1>3 DEF Typed, LoopTyped, PCs
<1>5. TodoTyped' BY <1>1 DEF Typed, TodoTyped
<1>6. FlagsTyped' BY <1>1, <1>2, <1>3 DEF FlagsTyped
<1>7. DataTyped' BY <1>2, <1>3 DEF Typed, DataTyped
<1> QED BY <1>4, <1>5, <1>6, <1>7 DEF Typed

LEMMA AnswerTyped ==
    ASSUME Typed, QueryAnswered
    PROVE  Typed'
<1>1. /\ pc = "await" /\ Applied /\ todo' = Tail(todo) /\ pc' = "step" /\ todo # <<>>
      /\ UNCHANGED <<connected, state, op, current, flags, ui, bg, listener, initialComplete, bounds>>
  BY DEF QueryAnswered, Typed, TodoTyped
<1>2. op \in Ops /\ op.thread \in Threads \cup {None} /\ session \in Nat /\ queue \in Seq(Ops)
  BY <1>1 DEF Typed, LoopTyped, DataTyped, Ops
<1>3. queue' \in Seq(Ops)
  <2>1. Op("bg_verify_sync", op.thread) \in Ops BY <1>2, OpIsOp DEF Op, Kinds, PerThread
  <2>2. queue' = queue \/ queue' = Append(queue, Op("bg_verify_sync", op.thread))
    BY <1>1 DEF Applied
  <2> QED BY <1>2, <2>1, <2>2, AppendProperties
<1>4. listed' \in SUBSET Threads BY <1>1 DEF Applied, Typed, DataTyped
<1>5. full' \in [Threads -> {"no", "yes", "old"}] BY <1>1 DEF Applied, Typed, DataTyped
<1>6. quick' \in [Threads -> Nat] BY <1>1 DEF Applied, Typed, DataTyped
<1>7. LoopTyped' BY <1>1, <1>3 DEF Typed, LoopTyped, PCs, flags
<1>8. TodoTyped' BY <1>1, TodoTail DEF Typed
<1>9. FlagsTyped' BY <1>1 DEF Typed, FlagsTyped, flags, listener
<1>10. DataTyped' BY <1>1, <1>4, <1>5, <1>6 DEF Typed, DataTyped, ui, bg, listener, bounds
<1> QED BY <1>7, <1>8, <1>9, <1>10 DEF Typed

(* A handler that neither answers nor rejects the loop's query. *)
LEMMA RequestTyped ==
    ASSUME Typed,
           \/ \E t \in Threads : OpenThread(t) \/ MessageEvent(t) \/ Ages(t)
           \/ CloseThread \/ RequestThreadListResync \/ Pause \/ Resume \/ AbortCurrent \/ Kick
           \/ QueryFails
    PROVE  Typed'
<1> USE DEF Typed
<1>0. session \in Nat /\ queue \in Seq(Ops) BY DEF DataTyped, LoopTyped
<1>1. ASSUME NEW t \in Threads, OpenThread(t) PROVE Typed'
  <2> DEFINE rest == Filtered(queue, {i \in DOMAIN queue : ~(queue[i].kind \in BgKinds /\ queue[i].thread = t)})
  <2>1. /\ UNCHANGED <<connected, state, op, current, todo, paused, bg, listener, db, session, events>>
        /\ requests' = requests + 1 /\ openThread' = t
        /\ priorityThread' \in {priorityThread, t}
    BY <1>1 DEF OpenThread
  <2>2. FlagsTyped' BY <2>1 DEF FlagsTyped, listener, db
  <2>3. DataTyped' BY <2>1 DEF DataTyped, bg, listener, db
  <2>4. rest \in Seq(Ops) BY <1>0, RestTyped
  <2>5. Op("full_thread_sync", t) \in Ops /\ Op("stale_resync", t) \in Ops /\ Op("quick_sync", t) \in Ops
    BY <1>0, OpIsOp DEF Op, Kinds, PerThread
  <2> HIDE DEF rest
  <2>6. ASSUME NEW o \in Ops, InsertPriorityOp(rest, o) PROVE LoopTyped' /\ TodoTyped'
    BY <2>1, <2>4, <2>6, InsertTyped
  <2>7. CASE /\ queue' = WithVerification(<<Op("quick_sync", t)>> \o rest, session, t)
             /\ StartLoop /\ UNCHANGED <<aborted, kicks>>
    <3>1. <<Op("quick_sync", t)>> \o rest \in Seq(Ops) BY <2>4, <2>5, FrontIs
    <3>2. queue' \in Seq(Ops) BY <1>0, <2>7, <3>1, VerificationTyped
    <3>3. pc' = pc \/ (pc = "idle" /\ pc' = "top") BY <2>7 DEF StartLoop, Running
    <3>4. LoopTyped' BY <2>1, <2>7, <3>2, <3>3 DEF LoopTyped, PCs
    <3>5. TodoTyped /\ todo' = todo /\ op' = op BY <2>1
    <3> QED BY <2>2, <2>3, <3>3, <3>4, <3>5, TodoStays
  <2>8. CASE UNCHANGED <<queue, aborted, kicks, pc>>
    <3>1. LoopTyped' BY <2>1, <2>8 DEF LoopTyped
    <3>2. TodoTyped /\ todo' = todo /\ op' = op /\ pc' = pc BY <2>1, <2>8
    <3> QED BY <2>2, <2>3, <3>1, <3>2, TodoStays
  <2> QED BY <1>1, <2>2, <2>3, <2>5, <2>6, <2>7, <2>8 DEF OpenThread, rest
<1>2. ASSUME UNCHANGED <<queue, state, op, todo>>, aborted' \in BOOLEAN, kicks' \in Nat,
             \/ pc' = pc
             \/ pc = "idle" /\ pc' = "top"
             \/ pc = "await" /\ pc' = "rejected"
      PROVE  LoopTyped' /\ TodoTyped'
  <2>1. LoopTyped' BY <1>2 DEF LoopTyped, PCs
  <2>2. TodoTyped' BY <1>2 DEF TodoTyped
  <2> QED BY <2>1, <2>2
<1>3. aborted \in BOOLEAN /\ kicks \in Nat /\ requests \in Nat /\ events \in Nat
  BY DEF LoopTyped, DataTyped
<1>4. Op("thread_list_resync", None) \in Ops BY <1>0, OpIsOp DEF Op, Kinds
<1>5. ASSUME NEW t \in Threads, MessageEvent(t) PROVE Typed'
  <2>1. /\ UNCHANGED <<connected, state, op, current, todo, paused, ui, bg, syncActive, full,
                       initialComplete, quick, session>>
        /\ events' = events + 1 /\ listed' = listed \cup {t}
        /\ flagged' \in {flagged, flagged \cup {t}} /\ requests' \in {requests, requests + 1}
    BY <1>5 DEF MessageEvent
  <2>2. FlagsTyped' BY <2>1 DEF FlagsTyped
  <2>3. DataTyped' BY <1>3, <2>1 DEF DataTyped, ui, bg
  <2>4. CASE UNCHANGED <<queue, aborted, kicks, pc>> BY <1>2, <1>3, <2>1, <2>2, <2>3, <2>4
  <2>5. CASE InsertPriorityOp(queue, Op("thread_list_resync", None))
    BY <1>0, <1>4, <2>1, <2>2, <2>3, <2>5, InsertTyped
  <2> QED BY <1>5, <2>4, <2>5 DEF MessageEvent
<1>6. CASE RequestThreadListResync
  <2>1. /\ UNCHANGED <<connected, state, op, current, todo, paused, ui, bg, listener, db, session, events>>
        /\ requests' = requests + 1 /\ InsertPriorityOp(queue, Op("thread_list_resync", None))
    BY <1>6 DEF RequestThreadListResync
  <2>2. FlagsTyped' BY <2>1 DEF FlagsTyped, listener, db
  <2>3. DataTyped' BY <1>3, <2>1 DEF DataTyped, ui, bg, listener, db
  <2> QED BY <1>0, <1>4, <2>1, <2>2, <2>3, InsertTyped
<1>7. ASSUME NEW t \in Threads, Ages(t) PROVE Typed'
  <2>1. /\ UNCHANGED <<connected, state, queue, loop, flags, ui, bg, listener, listed,
                       initialComplete, quick, bounds>>
        /\ full' = [full EXCEPT ![t] = "old"]
    BY <1>7 DEF Ages
  <2>2. LoopTyped' /\ TodoTyped' BY <1>2, <1>3, <2>1 DEF loop, flags
  <2>3. FlagsTyped' BY <2>1 DEF FlagsTyped, loop, flags, listener
  <2>4. DataTyped' BY <2>1 DEF DataTyped, ui, bg, listener, bounds
  <2> QED BY <2>2, <2>3, <2>4
<1>8. CASE CloseThread
  <2>1. /\ UNCHANGED <<connected, state, queue, loop, paused, kicks, bg, listener, db, bounds>>
        /\ openThread' = None /\ priorityThread' = None /\ aborted' \in BOOLEAN
    BY <1>8 DEF CloseThread
  <2>2. LoopTyped' /\ TodoTyped' BY <1>2, <1>3, <2>1 DEF loop
  <2>3. FlagsTyped' BY <2>1 DEF FlagsTyped, loop, listener, db
  <2>4. DataTyped' BY <2>1 DEF DataTyped, bg, listener, db, bounds
  <2> QED BY <2>2, <2>3, <2>4
<1>9. CASE Pause \/ Resume \/ AbortCurrent
  <2>1. /\ UNCHANGED <<connected, state, queue, op, current, todo, kicks, ui, bg, listener, db, bounds>>
        /\ aborted' \in BOOLEAN /\ paused' \in BOOLEAN
        /\ pc' = pc \/ (pc = "idle" /\ pc' = "top")
    BY <1>3, <1>9 DEF Pause, Resume, AbortCurrent, Running, loop, FlagsTyped
  <2>2. LoopTyped' /\ TodoTyped' BY <1>2, <1>3, <2>1
  <2>3. FlagsTyped' BY <2>1 DEF FlagsTyped, listener, db
  <2>4. DataTyped' BY <2>1 DEF DataTyped, ui, bg, listener, db, bounds
  <2> QED BY <2>2, <2>3, <2>4
<1>10. CASE Kick
  <2>1. /\ UNCHANGED <<connected, state, queue, op, current, todo, paused, ui, bg, listener, db, bounds>>
        /\ aborted' = FALSE /\ kicks' \in Nat
        /\ pc' = pc \/ (pc = "idle" /\ pc' = "top")
    BY <1>3, <1>10 DEF Kick, StartLoop, Running
  <2>2. LoopTyped' /\ TodoTyped' BY <1>2, <2>1
  <2>3. FlagsTyped' BY <2>1 DEF FlagsTyped, listener, db
  <2>4. DataTyped' BY <2>1 DEF DataTyped, ui, bg, listener, db, bounds
  <2> QED BY <2>2, <2>3, <2>4
<1>11. CASE QueryFails
  <2>1. /\ UNCHANGED <<connected, state, queue, op, current, todo, flags, ui, bg, listener, db, bounds>>
        /\ pc = "await" /\ pc' = "rejected"
    BY <1>11 DEF QueryFails
  <2>2. LoopTyped' /\ TodoTyped' BY <1>2, <1>3, <2>1 DEF flags
  <2>3. FlagsTyped' BY <2>1 DEF FlagsTyped, flags, listener, db
  <2>4. DataTyped' BY <2>1 DEF DataTyped, ui, bg, listener, db, bounds
  <2> QED BY <2>2, <2>3, <2>4
<1> QED BY <1>1, <1>5, <1>6, <1>7, <1>8, <1>9, <1>10, <1>11

LEMMA TypedStep == Typed /\ [Next]_vars => Typed'
<1> SUFFICES ASSUME Typed, [Next]_vars PROVE Typed'
  OBVIOUS
<1>1. CASE UNCHANGED vars
  <2>1. UNCHANGED <<connected, state, queue, loop, flags, ui, bg, listener, db, bounds>>
    BY <1>1 DEF vars
  <2> QED
    BY <2>1 DEF Typed, LoopTyped, TodoTyped, FlagsTyped, DataTyped, loop, flags, ui, bg, listener,
      db, bounds
<1> QED BY <1>1, MicrotaskTyped, ConnectionTyped, AnswerTyped, RequestTyped DEF Next

LEMMA AlwaysTyped == Spec => []Typed
  BY TypedInit, TypedStep, PTL DEF Spec

--------------------
(* One background sync for each thread *)

Absent(q, kinds) == \A j \in DOMAIN q : q[j].kind \notin kinds

(* The batch stands before every count verification, and as long as it is *)
(* queued no background sync is: it is the batch and the verifications that *)
(* queue those. *)
Ahead(q) ==
    \A i, j \in DOMAIN q : q[i].kind = "message_sync" =>
        /\ q[j].kind \notin BgKinds
        /\ q[j].kind = "message_sync" => i = j
        /\ q[j].kind = "count_verify" => i < j

OneEach(q) ==
    \A i, j \in DOMAIN q :
        (q[i].kind \in BgKinds /\ q[j].kind \in BgKinds /\ q[i].thread = q[j].thread) => i = j

InOrder(q) == Ahead(q) /\ OneEach(q)

BatchRuns == op # None /\ pc # "done" /\ op.kind = "message_sync"
Verifies == op # None /\ op.kind = "count_verify"
BatchOnly == {"message_sync"}
Background == BgKinds \cup BatchOnly

OnlyOneBatch ==
    /\ InOrder(queue)
    /\ BatchRuns => Absent(queue, Background)
    /\ Verifies => Absent(queue, BatchOnly)

(* The queue r is q with plain operations added or with operations dropped. *)
Tame(r, q) ==
    /\ InOrder(q) => InOrder(r)
    /\ Absent(q, Background) => Absent(r, Background)
    /\ Absent(q, BatchOnly) => Absent(r, BatchOnly)

Plain == Kinds \ (Background \cup {"count_verify"})

LEMMA TameStep ==
    ASSUME OnlyOneBatch, Tame(queue', queue), op' = op \/ op' = None, BatchRuns' => BatchRuns
    PROVE  OnlyOneBatch'
  BY DEF OnlyOneBatch, Tame, Verifies, BatchRuns

LEMMA TameSame == ASSUME NEW q PROVE Tame(q, q)
  BY DEF Tame

LEMMA TameFront ==
    ASSUME NEW q \in Seq(Ops), NEW o \in Ops, o.kind \in Plain
    PROVE  Tame(<<o>> \o q, q)
<1> DEFINE r == <<o>> \o q
<1>1. /\ DOMAIN r = 1..(Len(q) + 1) /\ Len(q) \in Nat /\ DOMAIN q = 1..Len(q) /\ r[1] = o
      /\ \A i \in 2..(Len(q) + 1) : i - 1 \in DOMAIN q /\ r[i] = q[i - 1]
  BY FrontIs
<1> HIDE DEF r
<1>2. \A i \in DOMAIN r : r[i] = o \/ (i \in Int /\ i - 1 \in DOMAIN q /\ r[i] = q[i - 1]) BY <1>1
<1>3. o.kind # "message_sync" /\ o.kind \notin BgKinds /\ o.kind # "count_verify"
  BY DEF Plain, Background, BatchOnly
<1>4. ASSUME Ahead(q) PROVE Ahead(r)
  <2> SUFFICES ASSUME NEW i \in DOMAIN r, NEW j \in DOMAIN r, r[i].kind = "message_sync"
               PROVE  /\ r[j].kind \notin BgKinds
                      /\ r[j].kind = "message_sync" => i = j
                      /\ r[j].kind = "count_verify" => i < j
    BY DEF Ahead
  <2>1. i \in Int /\ i - 1 \in DOMAIN q /\ r[i] = q[i - 1] BY <1>2, <1>3
  <2>2. CASE r[j] = o BY <1>3, <2>2
  <2>3. CASE j \in Int /\ j - 1 \in DOMAIN q /\ r[j] = q[j - 1]
    <3>1. /\ q[j - 1].kind \notin BgKinds
          /\ q[j - 1].kind = "message_sync" => i - 1 = j - 1
          /\ q[j - 1].kind = "count_verify" => i - 1 < j - 1
      BY <1>4, <2>1, <2>3 DEF Ahead
    <3> QED BY <2>1, <2>3, <3>1
  <2> QED BY <1>2, <2>2, <2>3
<1>5. ASSUME OneEach(q) PROVE OneEach(r)
  <2> SUFFICES ASSUME NEW i \in DOMAIN r, NEW j \in DOMAIN r,
                      r[i].kind \in BgKinds, r[j].kind \in BgKinds, r[i].thread = r[j].thread
               PROVE  i = j
    BY DEF OneEach
  <2>1. i \in Int /\ i - 1 \in DOMAIN q /\ r[i] = q[i - 1] BY <1>2, <1>3
  <2>2. j \in Int /\ j - 1 \in DOMAIN q /\ r[j] = q[j - 1] BY <1>2, <1>3
  <2>3. i - 1 = j - 1 BY <1>5, <2>1, <2>2 DEF OneEach
  <2> QED BY <2>1, <2>2, <2>3
<1>6. ASSUME NEW K, o.kind \notin K, Absent(q, K) PROVE Absent(r, K)
  BY <1>2, <1>6 DEF Absent
<1>7. o.kind \notin Background /\ o.kind \notin BatchOnly BY DEF Plain, Background
<1>8. InOrder(q) => InOrder(r) BY <1>4, <1>5 DEF InOrder
<1> QED BY <1>6, <1>7, <1>8 DEF Tame, r

LEMMA TameFilter ==
    ASSUME NEW q \in Seq(Ops), NEW kept \in SUBSET DOMAIN q
    PROVE  Tame(Filtered(q, kept), q)
<1> DEFINE r == Filtered(q, kept)
<1>1. r \in Seq(Ops) /\ \A i \in DOMAIN r : i \in Int
  <2>1. r \in Seq(Ops) BY FilterKeepsOrder
  <2> HIDE DEF r
  <2> QED BY <2>1, LenProperties
<1>2. PICK place \in [DOMAIN r -> kept] :
         /\ \A n \in DOMAIN r : r[n] = q[place[n]]
         /\ \A m, n \in DOMAIN r : m < n => place[m] < place[n]
  BY FilterKeepsOrder
<1>3. \A i \in DOMAIN q : i \in Int BY LenProperties
<1> HIDE DEF r
<1>4. \A n \in DOMAIN r : place[n] \in DOMAIN q /\ place[n] \in Int BY <1>2, <1>3
<1>5. \A m, n \in DOMAIN r : place[m] = place[n] => m = n
  <2> SUFFICES ASSUME NEW m \in DOMAIN r, NEW n \in DOMAIN r, place[m] = place[n], m # n PROVE FALSE
    OBVIOUS
  <2>1. m < n \/ n < m BY <1>1
  <2>2. place[m] < place[n] \/ place[n] < place[m] BY <1>2, <2>1
  <2> QED BY <1>4, <2>2
<1>6. \A m, n \in DOMAIN r : place[m] < place[n] => m < n
  <2> SUFFICES ASSUME NEW m \in DOMAIN r, NEW n \in DOMAIN r, place[m] < place[n], ~(m < n) PROVE FALSE
    OBVIOUS
  <2>1. m = n \/ n < m BY <1>1
  <2>2. place[m] = place[n] \/ place[n] < place[m] BY <1>2, <2>1
  <2> QED BY <1>4, <2>2
<1>7. Ahead(q) => Ahead(r) BY <1>2, <1>4, <1>5, <1>6 DEF Ahead
<1>8. OneEach(q) => OneEach(r) BY <1>2, <1>4, <1>5 DEF OneEach
<1>9. \A K : Absent(q, K) => Absent(r, K) BY <1>2, <1>4 DEF Absent
<1> QED BY <1>7, <1>8, <1>9 DEF Tame, InOrder, r

(* An operation joins the end. *)
LEMMA EndIs ==
    ASSUME NEW q \in Seq(Ops), NEW o \in Ops
    PROVE  /\ DOMAIN Append(q, o) = 1..(Len(q) + 1) /\ Len(q) \in Nat /\ DOMAIN q = 1..Len(q)
           /\ \A i \in DOMAIN Append(q, o) :
                 \/ i \in DOMAIN q /\ Append(q, o)[i] = q[i]
                 \/ i = Len(q) + 1 /\ Append(q, o)[i] = o
<1> DEFINE r == Append(q, o)
<1>1. /\ r \in Seq(Ops) /\ Len(r) = Len(q) + 1 /\ \A i \in 1..Len(q) : r[i] = q[i]
      /\ r[Len(q) + 1] = o
  BY AppendProperties
<1> HIDE DEF r
<1>2. DOMAIN r = 1..Len(r) /\ DOMAIN q = 1..Len(q) /\ Len(q) \in Nat BY <1>1, LenProperties
<1> QED BY <1>1, <1>2 DEF r

LEMMA TameVerification ==
    ASSUME NEW q \in Seq(Ops), NEW s \in Nat, NEW t \in Threads \cup {None}
    PROVE  Tame(WithVerification(q, s, t), q)
<1> DEFINE o == OpIn(s, "count_verify", t)
           r == Append(q, o)
<1>1. o \in Ops /\ o.kind = "count_verify" BY OpIsOp DEF Kinds, PerThread, OpIn
<1>2. CASE WithVerification(q, s, t) = q BY <1>2, TameSame
<1>3. CASE WithVerification(q, s, t) = r
  <2> HIDE DEF o
  <2>1. /\ DOMAIN r = 1..(Len(q) + 1) /\ Len(q) \in Nat /\ DOMAIN q = 1..Len(q)
        /\ \A i \in DOMAIN r : (i \in DOMAIN q /\ r[i] = q[i]) \/ (i = Len(q) + 1 /\ r[i] = o)
    BY <1>1, EndIs
  <2> HIDE DEF r
  <2>2. o.kind \notin Background /\ o.kind \notin BatchOnly /\ o.kind \notin BgKinds
    BY <1>1 DEF Background, BatchOnly, BgKinds
  <2>3. Ahead(q) => Ahead(r)
    <3> SUFFICES ASSUME Ahead(q), NEW i \in DOMAIN r, NEW j \in DOMAIN r, r[i].kind = "message_sync"
                 PROVE  /\ r[j].kind \notin BgKinds
                        /\ r[j].kind = "message_sync" => i = j
                        /\ r[j].kind = "count_verify" => i < j
      BY DEF Ahead
    <3>1. i \in DOMAIN q /\ r[i] = q[i] BY <1>1, <2>1
    <3>2. CASE j \in DOMAIN q /\ r[j] = q[j] BY <3>1, <3>2 DEF Ahead
    <3>3. CASE j = Len(q) + 1 /\ r[j] = o
      <4>1. i < j BY <2>1, <3>1, <3>3
      <4> QED BY <1>1, <2>2, <3>3, <4>1
    <3> QED BY <2>1, <3>2, <3>3
  <2>4. OneEach(q) => OneEach(r) BY <2>1, <2>2 DEF OneEach
  <2>5. \A K : o.kind \notin K /\ Absent(q, K) => Absent(r, K) BY <2>1 DEF Absent
  <2> QED BY <1>3, <2>2, <2>3, <2>4, <2>5 DEF Tame, InOrder
<1> QED BY <1>2, <1>3 DEF WithVerification

LEMMA TameTail ==
    ASSUME NEW q \in Seq(Ops), q # <<>>
    PROVE  /\ Tame(Tail(q), q)
           /\ InOrder(q) /\ Head(q).kind = "message_sync" => Absent(Tail(q), Background)
           /\ InOrder(q) /\ Head(q).kind = "count_verify" => Absent(Tail(q), BatchOnly)
<1> DEFINE t == Tail(q)
<1>1. /\ t \in Seq(Ops) /\ Len(t) = Len(q) - 1 /\ \A i \in 1..Len(t) : t[i] = q[i + 1]
      /\ Head(q) = q[1] /\ Len(q) \in Nat \ {0}
  BY HeadTailProperties, EmptySeq, LenProperties
<1> HIDE DEF t
<1>2. DOMAIN t = 1..Len(t) /\ DOMAIN q = 1..Len(q) BY <1>1, LenProperties
<1>3. 1 \in DOMAIN q /\ \A i \in DOMAIN t : i \in Int /\ i > 0 /\ i + 1 \in DOMAIN q /\ t[i] = q[i + 1]
  BY <1>1, <1>2
<1>4. Ahead(q) => Ahead(t)
  <2> SUFFICES ASSUME Ahead(q), NEW i \in DOMAIN t, NEW j \in DOMAIN t, t[i].kind = "message_sync"
               PROVE  /\ t[j].kind \notin BgKinds
                      /\ t[j].kind = "message_sync" => i = j
                      /\ t[j].kind = "count_verify" => i < j
    BY DEF Ahead
  <2>1. /\ q[j + 1].kind \notin BgKinds
        /\ q[j + 1].kind = "message_sync" => i + 1 = j + 1
        /\ q[j + 1].kind = "count_verify" => i + 1 < j + 1
    BY <1>3 DEF Ahead
  <2> QED BY <1>3, <2>1
<1>5. OneEach(q) => OneEach(t)
  <2> SUFFICES ASSUME OneEach(q), NEW i \in DOMAIN t, NEW j \in DOMAIN t,
                      t[i].kind \in BgKinds, t[j].kind \in BgKinds, t[i].thread = t[j].thread
               PROVE  i = j
    BY DEF OneEach
  <2>1. i + 1 = j + 1 BY <1>3 DEF OneEach
  <2> QED BY <1>3, <2>1
<1>6. \A K : Absent(q, K) => Absent(t, K) BY <1>3 DEF Absent
<1>7. \A j \in DOMAIN t : j + 1 # 1 /\ ~(j + 1 < 1) BY <1>3
<1>8. Ahead(q) /\ q[1].kind = "message_sync" => Absent(t, Background)
  <2> SUFFICES ASSUME Ahead(q), q[1].kind = "message_sync", NEW j \in DOMAIN t
               PROVE  t[j].kind \notin BgKinds /\ t[j].kind # "message_sync"
    BY DEF Absent, Background, BatchOnly
  <2>1. q[j + 1].kind \notin BgKinds /\ (q[j + 1].kind = "message_sync" => 1 = j + 1)
    BY <1>3 DEF Ahead
  <2> QED BY <1>3, <1>7, <2>1
<1>9. Ahead(q) /\ q[1].kind = "count_verify" => Absent(t, BatchOnly)
  <2> SUFFICES ASSUME Ahead(q), q[1].kind = "count_verify", NEW j \in DOMAIN t
               PROVE  t[j].kind # "message_sync"
    BY DEF Absent, BatchOnly
  <2>1. q[j + 1].kind = "message_sync" => j + 1 < 1 BY <1>3 DEF Ahead
  <2> QED BY <1>3, <1>7, <2>1
<1> QED BY <1>1, <1>4, <1>5, <1>6, <1>8, <1>9 DEF Tame, InOrder, t

LEMMA TameInsert ==
    ASSUME NEW q \in Seq(Ops), NEW o \in Ops, o.kind \in Plain, Tame(q, queue), InsertPriorityOp(q, o)
    PROVE  Tame(queue', queue)
<1>1. Tame(<<o>> \o q, q) /\ queue' = <<o>> \o q BY TameFront DEF InsertPriorityOp
<1> QED BY <1>1 DEF Tame

(* The batch is over: it was the only one, and no background sync was queued. *)
LEMMA BatchEndsInOrder ==
    ASSUME Typed, OnlyOneBatch, OpReturns
    PROVE  OnlyOneBatch'
<1>1. pc = "step" /\ pc' = "done" /\ op' = op /\ op # None /\ queue \in Seq(Ops)
      /\ session \in Nat /\ listed \in SUBSET Threads
  BY DEF OpReturns, Typed, LoopTyped, DataTyped
<1>2. CASE queue' = queue BY <1>1, <1>2, TameSame, TameStep DEF BatchRuns
<1>3. CASE op.kind = "message_sync" /\ queue' # queue
  <2> DEFINE needy == {t \in listed : full[t] = "no"}
             ops == {Op("bg_full_sync", t) : t \in needy}
             new == SetToSeq(ops)
  <2>1. queue' = queue \o new BY <1>3 DEF OpReturns, BatchEnds, IsFullSync, BgKinds
  <2>2. Absent(queue, Background) /\ InOrder(queue) BY <1>1, <1>3 DEF OnlyOneBatch, BatchRuns
  <2>3. new \in Seq(Ops) /\ IsFiniteSet(ops) /\ ops \in SUBSET Ops
    <3> needy \in SUBSET Threads BY <1>1
    <3> HIDE DEF needy
    <3> QED BY <1>1, PerThreadOps DEF Kinds, PerThread
  <2>4. /\ \A i \in DOMAIN new : new[i] \in ops
        /\ \A i, j \in DOMAIN new : new[i] = new[j] => i = j
    <3> HIDE DEF ops
    <3> QED BY <2>3, SetToSeqIs
  <2>5. \A o \in ops : o.kind = "bg_full_sync" /\ o = Op("bg_full_sync", o.thread) BY DEF Op, OpIn
  <2> HIDE DEF new, ops
  <2>6. /\ Len(queue) \in Nat /\ Len(new) \in Nat /\ DOMAIN queue' = 1..(Len(queue) + Len(new))
        /\ DOMAIN new = 1..Len(new) /\ DOMAIN queue = 1..Len(queue)
        /\ \A i \in DOMAIN queue' : queue'[i] = IF i <= Len(queue) THEN queue[i] ELSE new[i - Len(queue)]
    <3>1. queue' \in Seq(Ops) /\ Len(queue') = Len(queue) + Len(new)
          /\ \A i \in 1..(Len(queue) + Len(new)) :
                queue'[i] = IF i <= Len(queue) THEN queue[i] ELSE new[i - Len(queue)]
      BY <1>1, <2>1, <2>3, ConcatProperties
    <3> QED BY <1>1, <2>3, <3>1, LenProperties
  <2>7. ASSUME NEW i \in DOMAIN queue'
        PROVE  \/ i \in DOMAIN queue /\ queue'[i] = queue[i]
               \/ i - Len(queue) \in DOMAIN new /\ queue'[i] = new[i - Len(queue)]
    <3>1. CASE i <= Len(queue) BY <2>6, <3>1
    <3>2. CASE ~(i <= Len(queue))
      <4>1. i - Len(queue) \in 1..Len(new) BY <2>6, <3>2
      <4> QED BY <2>6, <3>2, <4>1
    <3> QED BY <3>1, <3>2
  <2>8. \A i \in DOMAIN queue : queue[i].kind # "message_sync" /\ queue[i].kind \notin BgKinds
    BY <2>2 DEF Absent, Background, BatchOnly
  <2>9. \A i \in DOMAIN queue' : queue'[i].kind # "message_sync" BY <2>4, <2>5, <2>7, <2>8
  <2>10. OneEach(queue')
    <3> SUFFICES ASSUME NEW i \in DOMAIN queue', NEW j \in DOMAIN queue',
                        queue'[i].kind \in BgKinds, queue'[j].kind \in BgKinds,
                        queue'[i].thread = queue'[j].thread
                 PROVE  i = j
      BY DEF OneEach
    <3> DEFINE k == i - Len(queue)
               l == j - Len(queue)
    <3>1. k \in DOMAIN new /\ queue'[i] = new[k] BY <2>7, <2>8
    <3>2. l \in DOMAIN new /\ queue'[j] = new[l] BY <2>7, <2>8
    <3>3. new[k] = new[l]
      <4> HIDE DEF k, l
      <4> QED BY <2>4, <2>5, <3>1, <3>2
    <3>4. k = l
      <4> HIDE DEF k, l
      <4> QED BY <2>4, <3>1, <3>2, <3>3
    <3> QED BY <2>6, <3>4
  <2> QED BY <1>1, <1>3, <2>9, <2>10 DEF OnlyOneBatch, InOrder, Ahead, BatchRuns, Verifies
<1> QED BY <1>2, <1>3 DEF OpReturns, db

LEMMA AnswerInOrder ==
    ASSUME Typed, OnlyOneBatch, QueryAnswered
    PROVE  OnlyOneBatch'
<1>1. pc = "await" /\ pc' = "step" /\ op' = op /\ op \in Ops /\ queue \in Seq(Ops) /\ session \in Nat
      /\ op # None
  BY DEF QueryAnswered, Typed, LoopTyped, DataTyped
<1>2. CASE queue' = queue BY <1>1, <1>2, TameSame, TameStep DEF BatchRuns
<1>3. CASE queue' # queue
  <2> DEFINE o == Op("bg_verify_sync", op.thread)
  <2>1. Head(todo) = "count" /\ ~BackgroundQueued(op.thread) /\ queue' = Append(queue, o)
    BY <1>3 DEF QueryAnswered, Applied
  <2>2. op.kind = "count_verify"
    <3>1. todo # <<>> /\ todo \in Seq(Threads \cup {None} \cup Steps) BY <1>1 DEF Typed, TodoTyped
    <3>2. 1 \in DOMAIN todo /\ Head(todo) = todo[1] BY <3>1
    <3> QED BY <2>1, <3>2 DEF Typed, TodoTyped
  <2>3. o \in Ops /\ o.kind = "bg_verify_sync" /\ o.thread = op.thread
    <3>1. op.thread \in Threads \cup {None} BY <1>1 DEF Ops
    <3> QED BY <1>1, <3>1, OpIsOp DEF Op, OpIn, Kinds, PerThread
  <2> HIDE DEF o
  <2>4. \A i \in DOMAIN queue' : (i \in DOMAIN queue /\ queue'[i] = queue[i]) \/ (i = Len(queue) + 1 /\ queue'[i] = o)
    BY <1>1, <2>1, <2>3, EndIs
  <2>5. InOrder(queue) /\ \A i \in DOMAIN queue : queue[i].kind # "message_sync"
    BY <1>1, <2>2 DEF OnlyOneBatch, Verifies, Absent, BatchOnly
  <2>6. \A i \in DOMAIN queue' : queue'[i].kind # "message_sync" BY <2>3, <2>4, <2>5
  <2>7. \A i \in DOMAIN queue : queue[i].kind \in BgKinds => queue[i].thread # o.thread
    BY <2>1, <2>3 DEF BackgroundQueued, HasOp
  <2>8. OneEach(queue') BY <2>4, <2>5, <2>7 DEF OneEach, InOrder
  <2> QED
    BY <1>1, <2>2, <2>6, <2>8 DEF OnlyOneBatch, InOrder, Ahead, BatchRuns, Verifies, Absent,
      BatchOnly
<1> QED BY <1>2, <1>3

(* The three phases of a fresh pipeline. *)
LEMMA PipelineInOrder ==
    ASSUME Typed, NEW fullNow, StartPipeline(fullNow)
    PROVE  InOrder(queue')
<1> DEFINE now == session + 1
           phases == << OpIn(now, "thread_sync", None), OpIn(now, "contact_sync", None),
                        OpIn(now, "message_sync", None) >>
<1>1. now \in Nat /\ openThread \in Threads \cup {None} BY DEF Typed, DataTyped
<1>2. \A kind \in {"thread_sync", "contact_sync", "message_sync"} : OpIn(now, kind, None) \in Ops
  BY <1>1, OpIsOp DEF Kinds, Phases
<1>3. phases \in Seq(Ops) BY <1>2
<1>4. InOrder(phases)
  <2>1. /\ DOMAIN phases = 1..3
        /\ phases[1].kind = "thread_sync" /\ phases[2].kind = "contact_sync" /\ phases[3].kind = "message_sync"
    BY DEF OpIn
  <2> HIDE DEF phases
  <2>2. \A i \in DOMAIN phases : i = 1 \/ i = 2 \/ i = 3 BY <2>1
  <2> QED BY <2>1, <2>2 DEF InOrder, Ahead, OneEach, BgKinds
<1> HIDE DEF phases
<1>5. InOrder(WithVerification(phases, now, openThread))
  BY <1>1, <1>3, <1>4, TameVerification DEF Tame
<1> QED BY <1>4, <1>5 DEF StartPipeline, phases

LEMMA MicrotaskInOrder ==
    ASSUME Typed, OnlyOneBatch, Microtask
    PROVE  OnlyOneBatch'
<1>0. queue \in Seq(Ops) /\ session \in Nat /\ flagged \in SUBSET Threads
  BY DEF Typed, LoopTyped, DataTyped
<1>1. CASE LoopEnds
  <2>1. op' = None BY <1>1 DEF LoopEnds
  <2>2. CASE queue' = queue BY <2>1, <2>2 DEF OnlyOneBatch, BatchRuns, Verifies
  <2>3. CASE queue' # queue
    <3> DEFINE ops == {Op("flagged_sync", t) : t \in flagged}
    <3>1. queue' = SetToSeq(ops) BY <1>1, <2>3 DEF LoopEnds, FlaggedThreads
    <3>2. IsFiniteSet(ops) /\ ops \in SUBSET Ops BY <1>0, PerThreadOps DEF Kinds, PerThread
    <3>3. \A o \in ops : o.kind = "flagged_sync" BY DEF Op, OpIn
    <3> HIDE DEF ops
    <3>4. \A i \in DOMAIN queue' : queue'[i].kind = "flagged_sync" BY <3>1, <3>2, <3>3, SetToSeqIs
    <3> QED BY <2>1, <3>4 DEF OnlyOneBatch, InOrder, Ahead, OneEach, BgKinds, BatchRuns, Verifies
  <2> QED BY <2>2, <2>3
<1>2. CASE LoopTop /\ StartOp
  <2>1. queue # <<>> /\ op' = Head(queue) /\ queue' = Tail(queue) BY <1>2 DEF StartOp
  <2>2. Tame(queue', queue) /\ InOrder(queue)
    /\ (Head(queue).kind = "message_sync" => Absent(queue', Background))
    /\ (Head(queue).kind = "count_verify" => Absent(queue', BatchOnly))
    BY <1>0, <2>1, TameTail DEF OnlyOneBatch
  <2> QED BY <2>1, <2>2 DEF OnlyOneBatch, Tame, BatchRuns, Verifies
<1>3. CASE NextQuery BY <1>3, TameSame, TameStep DEF NextQuery, BatchRuns
<1>4. CASE OpReturns BY <1>4, BatchEndsInOrder
<1>5. CASE QueryRejected BY <1>5, TameSame, TameStep DEF QueryRejected, BatchRuns
<1>6. CASE OpDone /\ op' = None /\ queue' = queue BY <1>6 DEF OnlyOneBatch, BatchRuns, Verifies
<1> QED BY <1>1, <1>2, <1>3, <1>4, <1>5, <1>6 DEF Microtask, LoopTop, OpDone

LEMMA RequestInOrder ==
    ASSUME Typed, OnlyOneBatch,
           \/ \E t \in Threads : OpenThread(t) \/ MessageEvent(t) \/ Ages(t)
           \/ CloseThread \/ RequestThreadListResync \/ Pause \/ Resume \/ AbortCurrent \/ Kick
           \/ QueryFails
    PROVE  OnlyOneBatch'
<1>0. session \in Nat /\ queue \in Seq(Ops) /\ (op = None <=> pc \in {"idle", "top"})
  BY DEF Typed, DataTyped, LoopTyped
<1>1. ASSUME Tame(queue', queue), op' = op, pc # "done" \/ pc' = "done" PROVE OnlyOneBatch'
  BY <1>1, TameStep DEF BatchRuns
<1>2. Op("thread_list_resync", None) \in Ops /\ Op("thread_list_resync", None).kind \in Plain
  BY <1>0, OpIsOp DEF Op, OpIn, Kinds, Plain, Background, BgKinds, BatchOnly
<1>3. ASSUME NEW t \in Threads, OpenThread(t) PROVE OnlyOneBatch'
  <2> DEFINE rest == Filtered(queue, {i \in DOMAIN queue : ~(queue[i].kind \in BgKinds /\ queue[i].thread = t)})
  <2>1. op' = op /\ pc # "done" BY <1>3 DEF OpenThread, Quiet
  <2>2. rest \in Seq(Ops) BY <1>0, RestTyped
  <2>3. Tame(rest, queue) BY <1>0, TameFilter
  <2>4. \A kind \in {"full_thread_sync", "stale_resync", "quick_sync"} :
           Op(kind, t) \in Ops /\ Op(kind, t).kind \in Plain
    BY <1>0, OpIsOp DEF Op, OpIn, Kinds, PerThread, Plain, Background, BgKinds, BatchOnly
  <2> HIDE DEF rest
  <2>5. CASE queue' = queue BY <1>1, <2>1, <2>5, TameSame
  <2>6. ASSUME NEW kind \in {"full_thread_sync", "stale_resync"}, InsertPriorityOp(rest, Op(kind, t))
        PROVE  OnlyOneBatch'
    BY <1>1, <2>1, <2>2, <2>3, <2>4, <2>6, TameInsert
  <2>7. CASE queue' = WithVerification(<<Op("quick_sync", t)>> \o rest, session, t)
    <3> DEFINE q == <<Op("quick_sync", t)>> \o rest
    <3>1. q \in Seq(Ops) /\ Tame(q, rest) BY <2>2, <2>4, FrontIs, TameFront
    <3> HIDE DEF q
    <3>2. Tame(WithVerification(q, session, t), q) BY <1>0, <3>1, TameVerification
    <3>3. Tame(queue', queue) BY <2>3, <2>7, <3>1, <3>2 DEF Tame, q
    <3> QED BY <1>1, <2>1, <3>3
  <2> QED BY <1>3, <2>5, <2>6, <2>7 DEF OpenThread, rest
<1>4. CASE InsertPriorityOp(queue, Op("thread_list_resync", None)) /\ op' = op /\ Quiet
  <2>1. Tame(queue', queue) BY <1>0, <1>2, <1>4, TameSame, TameInsert
  <2> QED BY <1>1, <1>4, <2>1 DEF Quiet
<1>5. CASE queue' = queue /\ op' = op /\ (Quiet \/ pc = "await")
  <2>1. pc # "done" BY <1>5 DEF Quiet
  <2> QED BY <1>1, <1>5, <2>1, TameSame
<1>6. ASSUME NEW t \in Threads, MessageEvent(t) PROVE OnlyOneBatch'
  BY <1>4, <1>5, <1>6 DEF MessageEvent
<1>7. CASE RequestThreadListResync BY <1>4, <1>7 DEF RequestThreadListResync
<1>8. ASSUME NEW t \in Threads, Ages(t) PROVE OnlyOneBatch' BY <1>5, <1>8 DEF Ages, loop
<1>9. CASE CloseThread \/ Pause \/ Resume \/ AbortCurrent \/ Kick \/ QueryFails
  BY <1>5, <1>9 DEF CloseThread, Pause, Resume, AbortCurrent, Kick, QueryFails, loop
<1> QED BY <1>3, <1>6, <1>7, <1>8, <1>9

LEMMA OnlyOneBatchStep ==
    ~Replaced /\ ~Resyncs /\ Typed /\ Silent /\ InStep /\ OnlyOneBatch /\ [Next]_vars => OnlyOneBatch'
<1> SUFFICES ASSUME ~Replaced, ~Resyncs, Typed, Silent, InStep, OnlyOneBatch, [Next]_vars
             PROVE  OnlyOneBatch'
  OBVIOUS
<1>1. CASE UNCHANGED vars
  <2>1. UNCHANGED <<queue, loop>> BY <1>1 DEF vars
  <2> QED BY <2>1, TameSame, TameStep DEF loop, BatchRuns
<1>2. CASE Connect
  <2>1. ~connected /\ Quiet /\ StartPipeline(full) /\ op' = op BY <1>2 DEF Connect, RejectedThen
  <2>2. pc = "idle" BY <2>1 DEF InStep, Silent, Quiet
  <2>3. op' = None BY <2>1, <2>2 DEF Typed, LoopTyped
  <2> QED BY <2>1, <2>3, PipelineInOrder DEF OnlyOneBatch, BatchRuns, Verifies
<1>3. CASE Disconnect
  <2>1. queue' = <<>> BY <1>3 DEF Disconnect, EmptyQueue
  <2> QED BY <2>1 DEF OnlyOneBatch, InOrder, Ahead, OneEach, Absent
<1>4. CASE Resync BY <1>4 DEF Resync
<1> QED BY <1>1, <1>2, <1>3, <1>4, MicrotaskInOrder, AnswerInOrder, RequestInOrder DEF Next

--------------------
(* Whose batch it is *)

(* Operations of session n. *)
OpsOf(n) == {o \in Ops : o.session = n}

OfThisSession ==
    /\ queue \in Seq(OpsOf(session))
    /\ op # None => op.session = session

LEMMA OpOfSession ==
    ASSUME NEW kind \in Kinds, NEW t \in Threads \cup {None}, NEW n \in Nat
    PROVE  OpIn(n, kind, t) \in OpsOf(n)
  BY OpIsOp DEF OpsOf, OpIn

LEMMA SessionStays ==
    ASSUME OfThisSession, session' = session, op' = op \/ op' = None, queue' \in Seq(OpsOf(session))
    PROVE  OfThisSession'
  BY DEF OfThisSession

(* SetToSeq() of operations that are all of this session. *)
LEMMA PerThreadOfSession ==
    ASSUME NEW kind \in Kinds, NEW S \in SUBSET Threads, session \in Nat
    PROVE  SetToSeq({Op(kind, t) : t \in S}) \in Seq(OpsOf(session))
<1> DEFINE ops == {Op(kind, t) : t \in S}
<1>1. IsFiniteSet(ops) BY PerThreadOps
<1>2. \A t \in S : Op(kind, t) \in OpsOf(session) BY OpOfSession DEF Op
<1>3. ops \in SUBSET OpsOf(session) BY <1>2
<1> HIDE DEF ops
<1>4. SetToSeq(ops) \in Seq(OpsOf(session)) BY <1>1, <1>3, SetToSeqIs
<1> QED BY <1>4 DEF ops

LEMMA VerificationOfSession ==
    ASSUME NEW n \in Nat, NEW q \in Seq(OpsOf(n)), NEW t \in Threads \cup {None}
    PROVE  WithVerification(q, n, t) \in Seq(OpsOf(n))
<1>1. OpIn(n, "count_verify", t) \in OpsOf(n) BY OpOfSession DEF Kinds, PerThread
<1> QED BY <1>1, AppendProperties DEF WithVerification

LEMMA InsertOfSession ==
    ASSUME NEW q \in Seq(OpsOf(session)), NEW o \in OpsOf(session), InsertPriorityOp(q, o)
    PROVE  queue' \in Seq(OpsOf(session))
  BY FrontIs DEF InsertPriorityOp

LEMMA MicrotaskOfSession ==
    ASSUME Typed, OfThisSession, Microtask
    PROVE  OfThisSession'
<1>0. /\ session \in Nat /\ flagged \in SUBSET Threads /\ listed \in SUBSET Threads
      /\ queue \in Seq(OpsOf(session))
  BY DEF Typed, DataTyped, OfThisSession
<1>1. CASE LoopEnds
  <2>1. op' = None /\ session' = session BY <1>1 DEF LoopEnds, bounds
  <2>2. SetToSeq({Op("flagged_sync", t) : t \in flagged}) \in Seq(OpsOf(session))
    BY <1>0, PerThreadOfSession DEF Kinds, PerThread
  <2>3. queue' \in Seq(OpsOf(session)) BY <1>0, <1>1, <2>2 DEF LoopEnds, FlaggedThreads
  <2> QED BY <2>1, <2>3, SessionStays
<1>2. CASE StartOp
  <2>1. /\ queue # <<>> /\ op' = Head(queue) /\ queue' = Tail(queue) /\ session' = session
    BY <1>2 DEF StartOp, bounds
  <2>2. Head(queue) \in OpsOf(session) /\ Tail(queue) \in Seq(OpsOf(session))
    BY <1>0, <2>1, HeadTailProperties
  <2> QED BY <2>1, <2>2 DEF OfThisSession, OpsOf
<1>3. CASE OpReturns
  <2>1. op' = op /\ session' = session BY <1>3 DEF OpReturns, bounds
  <2>2. queue' = queue \/ queue' = queue \o SetToSeq({Op("bg_full_sync", t) : t \in {t \in listed : full[t] = "no"}})
    BY <1>3 DEF OpReturns, BatchEnds, db
  <2>3. {t \in listed : full[t] = "no"} \in SUBSET Threads BY <1>0
  <2>4. SetToSeq({Op("bg_full_sync", t) : t \in {t \in listed : full[t] = "no"}}) \in Seq(OpsOf(session))
    BY <1>0, <2>3, PerThreadOfSession DEF Kinds, PerThread
  <2>5. queue' \in Seq(OpsOf(session)) BY <1>0, <2>2, <2>4, ConcatProperties
  <2> QED BY <2>1, <2>5, SessionStays
<1>4. CASE NextQuery \/ QueryRejected \/ (OpDone /\ ~LoopEnds)
  BY <1>0, <1>4, SessionStays DEF NextQuery, QueryRejected, OpDone, bounds
<1> QED BY <1>1, <1>2, <1>3, <1>4 DEF Microtask, LoopTop

LEMMA HandlerOfSession ==
    ASSUME Typed, OfThisSession,
           \/ \E t \in Threads : OpenThread(t) \/ MessageEvent(t) \/ Ages(t)
           \/ CloseThread \/ RequestThreadListResync \/ Pause \/ Resume \/ AbortCurrent \/ Kick
           \/ QueryAnswered \/ QueryFails
    PROVE  OfThisSession'
<1>0. session \in Nat /\ queue \in Seq(OpsOf(session)) BY DEF Typed, DataTyped, OfThisSession
<1>1. Op("thread_list_resync", None) \in OpsOf(session) BY <1>0, OpOfSession DEF Op, Kinds
<1>2. CASE queue' = queue /\ op' = op /\ session' = session BY <1>0, <1>2, SessionStays
<1>3. CASE InsertPriorityOp(queue, Op("thread_list_resync", None)) /\ op' = op /\ session' = session
  BY <1>0, <1>1, <1>3, InsertOfSession, SessionStays
<1>4. ASSUME NEW t \in Threads, OpenThread(t) PROVE OfThisSession'
  <2> DEFINE rest == Filtered(queue, {i \in DOMAIN queue : ~(queue[i].kind \in BgKinds /\ queue[i].thread = t)})
  <2>1. op' = op /\ session' = session BY <1>4 DEF OpenThread
  <2>2. rest \in Seq(OpsOf(session)) BY <1>0, FilterKeepsOrder
  <2>3. \A kind \in {"full_thread_sync", "stale_resync", "quick_sync"} : Op(kind, t) \in OpsOf(session)
    BY <1>0, OpOfSession DEF Op, Kinds, PerThread
  <2> HIDE DEF rest
  <2>4. ASSUME NEW kind \in {"full_thread_sync", "stale_resync"}, InsertPriorityOp(rest, Op(kind, t))
        PROVE  OfThisSession'
    BY <2>1, <2>2, <2>3, <2>4, InsertOfSession, SessionStays
  <2>5. CASE queue' = WithVerification(<<Op("quick_sync", t)>> \o rest, session, t)
    <3>1. <<Op("quick_sync", t)>> \o rest \in Seq(OpsOf(session)) BY <2>2, <2>3, FrontIs
    <3>2. queue' \in Seq(OpsOf(session)) BY <1>0, <2>5, <3>1, VerificationOfSession
    <3> QED BY <2>1, <3>2, SessionStays
  <2> QED BY <1>2, <1>4, <2>1, <2>4, <2>5 DEF OpenThread, rest
<1>5. ASSUME NEW t \in Threads, MessageEvent(t) PROVE OfThisSession'
  BY <1>2, <1>3, <1>5 DEF MessageEvent
<1>6. CASE RequestThreadListResync BY <1>3, <1>6 DEF RequestThreadListResync
<1>7. ASSUME NEW t \in Threads, Ages(t) PROVE OfThisSession' BY <1>2, <1>7 DEF Ages, loop, bounds
<1>8. CASE CloseThread \/ Pause \/ Resume \/ AbortCurrent \/ Kick \/ QueryFails
  BY <1>2, <1>8 DEF CloseThread, Pause, Resume, AbortCurrent, Kick, QueryFails, loop, bounds
<1>9. CASE QueryAnswered
  <2>1. op' = op /\ session' = session /\ op.thread \in Threads \cup {None}
    BY <1>9 DEF QueryAnswered, bounds, Typed, LoopTyped, Ops
  <2>2. Op("bg_verify_sync", op.thread) \in OpsOf(session)
    BY <1>0, <2>1, OpOfSession DEF Op, Kinds, PerThread
  <2>3. queue' = queue \/ queue' = Append(queue, Op("bg_verify_sync", op.thread))
    BY <1>9 DEF QueryAnswered, Applied
  <2>4. queue' \in Seq(OpsOf(session)) BY <1>0, <2>2, <2>3, AppendProperties
  <2> QED BY <2>1, <2>4, SessionStays
<1> QED BY <1>4, <1>5, <1>6, <1>7, <1>8, <1>9

LEMMA OfThisSessionStep ==
    ~Replaced /\ ~Resyncs /\ Typed /\ Silent /\ InStep /\ OfThisSession /\ [Next]_vars => OfThisSession'
<1> SUFFICES ASSUME ~Replaced, ~Resyncs, Typed, Silent, InStep, OfThisSession, [Next]_vars
             PROVE  OfThisSession'
  OBVIOUS
<1>1. CASE UNCHANGED vars
  <2>1. UNCHANGED <<queue, loop, bounds>> BY <1>1 DEF vars
  <2> QED BY <2>1, SessionStays DEF loop, bounds, OfThisSession
<1>2. CASE Connect
  <2> DEFINE now == session + 1
             phases == << OpIn(now, "thread_sync", None), OpIn(now, "contact_sync", None),
                          OpIn(now, "message_sync", None) >>
  <2>1. ~connected /\ Quiet /\ op' = op /\ session' = now /\ now \in Nat /\ openThread \in Threads \cup {None}
    BY <1>2 DEF Connect, RejectedThen, Typed, DataTyped
  <2>2. pc = "idle" BY <2>1 DEF InStep, Silent, Quiet
  <2>3. op' = None BY <2>1, <2>2 DEF Typed, LoopTyped
  <2>4. \A kind \in {"thread_sync", "contact_sync", "message_sync"} : OpIn(now, kind, None) \in OpsOf(now)
    BY <2>1, OpOfSession DEF Kinds, Phases
  <2>5. phases \in Seq(OpsOf(now)) BY <2>4
  <2>6. WithVerification(phases, now, openThread) \in Seq(OpsOf(now))
    BY <2>1, <2>5, VerificationOfSession
  <2>7. queue' = phases \/ queue' = WithVerification(phases, now, openThread)
    BY <1>2 DEF Connect, StartPipeline
  <2> HIDE DEF now, phases
  <2> QED BY <2>1, <2>3, <2>5, <2>6, <2>7 DEF OfThisSession
<1>3. CASE Disconnect
  <2>1. queue' = <<>> /\ op' = op /\ session' = session
    BY <1>3 DEF Disconnect, EmptyQueue, RejectedThen, bounds
  <2> QED BY <2>1, SessionStays
<1>4. CASE Resync BY <1>4 DEF Resync
<1> QED BY <1>1, <1>2, <1>3, <1>4, MicrotaskOfSession, HandlerOfSession DEF Next

(* Only the end of a batch that was not aborted sets the mark. *)
LEMMA MarkStep ==
    ASSUME Typed, Silent, OfThisSession, [Next]_vars, ~initialComplete, initialComplete'
    PROVE  state # "disconnected" /\ op.session = session
<1>1. CASE OpReturns
  <2>1. ~aborted /\ pc = "step" BY <1>1 DEF OpReturns, BatchEnds, db
  <2> QED BY <2>1 DEF Silent, OfThisSession, Typed, LoopTyped
<1>2. CASE initialComplete' = initialComplete BY <1>2
<1>3. CASE Resync BY <1>3 DEF Resync
<1>4. CASE LoopEnds BY <1>2, <1>4 DEF LoopEnds, db
<1>5. CASE LoopTop \/ NextQuery \/ QueryRejected \/ OpDone
  BY <1>2, <1>4, <1>5 DEF LoopTop, StartOp, NextQuery, QueryRejected, OpDone, db
<1>6. CASE QueryAnswered \/ QueryFails \/ Kick \/ Connect \/ Disconnect
  BY <1>2, <1>6 DEF QueryAnswered, QueryFails, Kick, Connect, Disconnect, db
<1>7. ASSUME NEW t \in Threads, OpenThread(t) \/ MessageEvent(t) \/ Ages(t)
      PROVE  initialComplete' = initialComplete
  BY <1>7 DEF OpenThread, MessageEvent, Ages, db
<1>8. CASE CloseThread \/ RequestThreadListResync \/ Pause \/ Resume \/ AbortCurrent
  BY <1>2, <1>8 DEF CloseThread, RequestThreadListResync, Pause, Resume, AbortCurrent, db
<1>9. CASE UNCHANGED vars BY <1>2, <1>9 DEF vars, db
<1> QED BY <1>1, <1>2, <1>3, <1>5, <1>6, <1>7, <1>8, <1>9 DEF Next, Microtask

--------------------
(* The theorems *)

(* After a disconnection (cleanupConnection, onDisconnected) no operation is *)
(* queued or running and no event is flagged, whatever the user, the timers *)
(* and the debug console do. *)
THEOREM SilentWhenAway == Spec => []DisconnectedIsQuiet
<1>1. Silent => DisconnectedIsQuiet BY DEF Silent, DisconnectedIsQuiet, Quiet, Running
<1> QED BY <1>1, AlwaysSilent, PTL

(* As long as no thread is closed and nobody aborts from the debug console, *)
(* the queue is never left with nothing to start it: insertPriorityOp()'s *)
(* timer outlives every abort it asks for. *)
THEOREM InterruptsResume == ~ThreadsClose /\ ~Aborts => (Spec => []NeverStranded)
<1> SUFFICES ASSUME ~ThreadsClose, ~Aborts PROVE Spec => []NeverStranded
  OBVIOUS
<1>1. QueueInv /\ [Next]_vars => QueueInv' BY QueueStep
<1>2. QueueInv => NeverStranded BY DEF QueueInv
<1> QED BY <1>1, <1>2, QueueInit, PTL DEF Spec

(* "ready" is shown only with a phone connected, unless the user may ask for *)
(* a full resync, which starts the pipeline without asking for one. *)
THEOREM ReadyIsConnected == ~Resyncs => (Spec => []ReadyMeansConnected)
<1> SUFFICES ASSUME ~Resyncs PROVE Spec => []ReadyMeansConnected
  OBVIOUS
<1>1. Init => InStep BY DEF Init, InStep
<1>2. Silent /\ InStep /\ [Next]_vars => InStep' BY InStepStep
<1>3. InStep => ReadyMeansConnected BY DEF InStep, ReadyMeansConnected
<1> QED BY <1>1, <1>2, <1>3, AlwaysSilent, PTL DEF Spec

(* A thread never waits for two background full syncs, if a phone reconnects *)
(* only after its loss was noticed and the user asks for no full resync: one *)
(* batch queues them, each for a thread of its own, and a verification looks *)
(* whether one is queued. *)
THEOREM OneBackgroundSync == ~Replaced /\ ~Resyncs => (Spec => []OneBackgroundSyncEach)
<1> SUFFICES ASSUME ~Replaced, ~Resyncs PROVE Spec => []OneBackgroundSyncEach
  OBVIOUS
<1>1. Init => InStep /\ OnlyOneBatch
  BY DEF Init, NothingRuns, InStep, OnlyOneBatch, InOrder, Ahead, OneEach, BatchRuns, Verifies
<1>2. Silent /\ InStep /\ [Next]_vars => InStep' BY InStepStep
<1>3. Typed /\ Silent /\ InStep /\ OnlyOneBatch /\ [Next]_vars => OnlyOneBatch' BY OnlyOneBatchStep
<1>4. OnlyOneBatch => OneBackgroundSyncEach
  BY DEF OnlyOneBatch, InOrder, OneEach, OneBackgroundSyncEach
<1> QED BY <1>1, <1>2, <1>3, <1>4, AlwaysSilent, AlwaysTyped, PTL DEF Spec

(* What the run sync_pipeline checks of the queue, on its terms: no thread is *)
(* closed, nothing is aborted from the debug console, no connection is *)
(* replaced unnoticed, no full resync is asked for. *)
THEOREM SoundQueue ==
    ~ThreadsClose /\ ~Aborts /\ ~Replaced /\ ~Resyncs => (Spec => []QueueIsSound)
<1> SUFFICES ASSUME ~ThreadsClose, ~Aborts, ~Replaced, ~Resyncs PROVE Spec => []QueueIsSound
  OBVIOUS
<1>1. Spec => []NeverStranded BY InterruptsResume
<1>2. Spec => []ReadyMeansConnected BY ReadyIsConnected
<1>3. Spec => []OneBackgroundSyncEach BY OneBackgroundSync
<1>4. NeverStranded /\ ReadyMeansConnected /\ OneBackgroundSyncEach => QueueIsSound
  BY DEF QueueIsSound
<1> QED BY <1>1, <1>2, <1>3, <1>4, PTL

(* The mark of a finished initial sync (sync_state.initial_sync_complete) is *)
(* set by a batch of the session that is on, on a pipeline nobody has *)
(* disconnected: under the same two conditions, without which a rejected *)
(* batch of an older session goes on and sets it. *)
THEOREM EarnedMark == ~Replaced /\ ~Resyncs => (Spec => MarkIsEarned)
<1> SUFFICES ASSUME ~Replaced, ~Resyncs PROVE Spec => MarkIsEarned
  OBVIOUS
<1>1. Init => InStep /\ OfThisSession BY DEF Init, NothingRuns, InStep, OfThisSession
<1>2. Silent /\ InStep /\ [Next]_vars => InStep' BY InStepStep
<1>3. Typed /\ Silent /\ InStep /\ OfThisSession /\ [Next]_vars => OfThisSession'
  BY OfThisSessionStep
<1>4. Typed /\ Silent /\ OfThisSession /\ [Next]_vars =>
         [(~initialComplete /\ initialComplete') => (state # "disconnected" /\ op.session = session)]_vars
  BY MarkStep
<1> QED BY <1>1, <1>2, <1>3, <1>4, AlwaysSilent, AlwaysTyped, PTL DEF Spec, MarkIsEarned

(* Every variable keeps its type, whatever the bounds. *)
THEOREM TypeCorrect == Spec => []TypeOK
  BY AlwaysTyped, TypedIsTypeOK, PTL
====================
