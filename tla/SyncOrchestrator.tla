---------- MODULE SyncOrchestrator ----------
(***************************************************************************)
(* The sync orchestrator (src/sync/sync-orchestrator.ts): the operation *)
(* queue that drives the sync phases, its async loop drainQueue(), and the *)
(* handlers that change the queue while the loop is suspended in an *)
(* operation's query. *)
(*                                                                         *)
(* The program runs on one event loop.  A handler (an action below) runs *)
(* to its end; the loop continues in microtasks, which run before the next *)
(* handler.  pc says where the loop is: "idle" (not running), "await" (in *)
(* a query), or at one of the points where a microtask goes on ("top", *)
(* "step", "rejected", "done"); a handler runs only when Quiet. *)
(***************************************************************************)
EXTENDS Naturals, Sequences, FiniteSets, SequencesExt

CONSTANTS
    None,            \* null
    Threads,         \* the conversations on the phone
    MaxRequests,     \* bound: threads opened and thread-list resyncs requested
    MaxEvents,       \* bound: real-time message events
    MaxSessions,     \* bound: connections and resyncs
    QueriesFail,     \* TRUE: a query may fail (timeout) on a live connection
    ThreadsClose,    \* TRUE: the user leaves threads
    Aborts,          \* TRUE: the debug console's 'abort' is used
    Pauses,          \* TRUE: debug 'pause' and 'resume' are used
    Replaced,        \* TRUE: a phone may reconnect before its loss is noticed
    Resyncs          \* TRUE: the user may ask for a full resync

\* The queries that are not about one thread's messages (todo, below).
Steps == {"list", "flush", "filter", "read", "contacts", "count"}

ASSUME SyncOrchestratorAssumption ==
    /\ None \notin Threads
    /\ Steps \cap (Threads \cup {None}) = {}
    /\ IsFiniteSet(Threads)
    /\ MaxRequests \in Nat /\ MaxEvents \in Nat /\ MaxSessions \in Nat
    /\ {QueriesFail, ThreadsClose, Aborts, Pauses, Replaced, Resyncs} \subseteq BOOLEAN

VARIABLES
    connected,       \* the query client has a send function
    state,           \* _state
    queue,           \* queue
    op,              \* the operation the loop runs (its local variable)
    current,         \* currentOp # null
    aborted, paused, \* the flags of the same name
    pc,              \* where the loop is; running is pc # "idle"
    todo,            \* the queries op has still to make
    kicks,           \* 50 ms timers set by insertPriorityOp()
    openThread, priorityThread,    \* openThreadId, priorityThreadId
    bgTotal, bgCompleted,          \* progress of the background full syncs
    syncActive, flagged,           \* the event listener's fields
    listed,          \* threads in the conversations table
    full,            \* full[t]: "no", "yes", or "old" (yes, six days ago)
    initialComplete, \* sync_state.initial_sync_complete
    session,         \* history: number of onConnected() calls so far
    quick,           \* history: quick[t]: session t's messages were last synced in
    requests, events \* counters for the bounds

loop   == <<op, current, pc, todo>>
flags  == <<aborted, paused, kicks>>
ui     == <<openThread, priorityThread>>
bg     == <<bgTotal, bgCompleted>>
listener == <<syncActive, flagged>>
db     == <<listed, full, initialComplete, quick>>
bounds == <<session, requests, events>>
vars   == <<connected, state, queue, loop, flags, ui, bg, listener, db, bounds>>

Phases   == {"thread_sync", "contact_sync", "message_sync"}
PerThread == {"bg_full_sync", "bg_verify_sync", "full_thread_sync",
              "stale_resync", "quick_sync", "flagged_sync", "count_verify"}
Kinds    == Phases \cup PerThread \cup {"thread_list_resync"}
Ops      == [kind : Kinds, thread : Threads \cup {None}, session : Nat]

ASSUME NoneIsNoOp == None \notin Ops

OpIn(s, kind, t) == [kind |-> kind, thread |-> t, session |-> s]
Op(kind, t) == OpIn(session, kind, t)
Running == pc # "idle"
Quiet   == pc \in {"idle", "await"}
HasOp(q, kinds, t) == \E i \in DOMAIN q : q[i].kind \in kinds /\ q[i].thread = t
BgKinds == {"bg_full_sync", "bg_verify_sync"}   \* both named bg_full_sync_<id>

NothingRuns ==
    /\ op = None
    /\ current = FALSE
    /\ pc = "idle"
    /\ todo = <<>>

Init ==
    /\ connected = FALSE
    /\ state = "disconnected"
    /\ queue = <<>>
    /\ NothingRuns
    /\ aborted = FALSE /\ paused = FALSE
    /\ kicks = 0
    /\ openThread = None /\ priorityThread = None
    /\ bgTotal = 0 /\ bgCompleted = 0
    /\ syncActive = FALSE /\ flagged = {}
    /\ listed = {}
    /\ full = [t \in Threads |-> "no"]
    /\ initialComplete = FALSE
    /\ session = 0 /\ requests = 0 /\ events = 0
    /\ quick = [t \in Threads |-> 0]

--------------------
(* Connection handlers. *)

\* queueCountVerification(): not twice.
WithVerification(q, s, t) ==
    IF HasOp(q, {"count_verify"}, t) THEN q ELSE Append(q, OpIn(s, "count_verify", t))

\* onConnected(): mark stale threads, queue the phases, start the loop.
\* fullNow is the table after the caller's changes.
StartPipeline(fullNow) ==
    /\ state' = "connected"
    /\ aborted' = FALSE /\ paused' = FALSE
    /\ full' = [t \in Threads |-> IF fullNow[t] = "old" THEN "no" ELSE fullNow[t]]
    /\ LET now == session + 1
           phases == << OpIn(now, "thread_sync", None), OpIn(now, "contact_sync", None),
                        OpIn(now, "message_sync", None) >>
       IN queue' = IF openThread = None THEN phases
                   ELSE WithVerification(phases, now, openThread)
    /\ syncActive' = TRUE

\* onDisconnected(): the queue is emptied, the running operation aborted.
KeptQueue == queue
EmptyQueue == <<>>
NotAborted == aborted
Aborted == TRUE

\* What onDisconnected() resets, apart from the queue and the flags.
DropProgress ==
    /\ bgTotal' = 0 /\ bgCompleted' = 0
    /\ priorityThread' = None

\* clearSendFunction() rejects the query the loop waits for.  The loop sees
\* it after the handler: a loop that was idle starts now.
RejectedThen(start) ==
    /\ pc' = IF pc = "await" THEN "rejected" ELSE start
    /\ current' = FALSE
    /\ UNCHANGED <<op, todo>>

\* daemon.onDisconnection -> cleanupConnection: onDisconnected(), unwire.
Disconnect ==
    /\ Quiet /\ connected
    /\ connected' = FALSE
    /\ state' = "disconnected"
    /\ queue' = EmptyQueue
    /\ aborted' = Aborted
    /\ syncActive' = FALSE
    /\ DropProgress
    /\ RejectedThen("idle")
    /\ UNCHANGED <<paused, kicks, openThread, flagged, db, bounds>>

\* daemon.onConnection of a paired phone: cleanupConnection, wireHandlers,
\* then onConnected(), in one handler.  If an older connection was still
\* registered, the loop's operation was rejected but the abort flag is reset.
Connect ==
    /\ Quiet /\ session < MaxSessions
    /\ Replaced \/ ~connected
    /\ session' = session + 1
    /\ connected' = TRUE
    /\ DropProgress
    /\ StartPipeline(full)
    /\ RejectedThen("top")
    /\ UNCHANGED <<kicks, openThread, flagged, listed, initialComplete, quick,
                   requests, events>>

\* daemon.resync(): wipe the database, wire again, onConnected(); it does not
\* ask whether a phone is connected.
Resync ==
    /\ Resyncs /\ Quiet /\ session < MaxSessions
    /\ session' = session + 1
    /\ DropProgress
    /\ listed' = {} /\ initialComplete' = FALSE
    /\ StartPipeline([t \in Threads |-> "no"])
    /\ RejectedThen("top")
    /\ UNCHANGED <<connected, kicks, openThread, flagged, quick, requests, events>>

--------------------
(* Requests of the user interface and of the event listener. *)

\* drainQueue() called with the loop idle; paused keeps it idle.
StartSecondLoop == IF paused THEN UNCHANGED pc ELSE pc' = "top"
StartLoop == IF Running \/ paused THEN UNCHANGED pc ELSE pc' = "top"

\* setTimeout(..., 50) behind an interrupt.
NoKick == kicks
SetKick == kicks + 1

\* insertPriorityOp(): to the front of q; a running operation is asked to
\* abort and a 50 ms timer will restart the loop.
InsertPriorityOp(q, o) ==
    /\ queue' = <<o>> \o q
    /\ \/ /\ Running
          /\ aborted' = TRUE
          /\ kicks' = SetKick
          /\ UNCHANGED pc
       \/ /\ ~Running
          /\ StartLoop
          /\ UNCHANGED <<aborted, kicks>>

\* queue.filter(): what stands at the places kept, in its order.
Rank(kept, i) == Cardinality({j \in kept : j <= i})
Filtered(q, kept) == [n \in 1..Cardinality(kept) |-> q[CHOOSE i \in kept : Rank(kept, i) = n]]

\* onThreadOpened().
OpenThread(t) ==
    /\ Quiet /\ requests < MaxRequests
    /\ requests' = requests + 1
    /\ openThread' = t
    /\ \/ /\ state = "disconnected" \/ t \notin listed
          /\ UNCHANGED <<queue, aborted, kicks, pc, priorityThread>>
       \/ /\ state # "disconnected" /\ t \in listed
          /\ LET rest == Filtered(queue, {i \in DOMAIN queue :
                             ~(queue[i].kind \in BgKinds /\ queue[i].thread = t)})
             IN \/ /\ full[t] = "no"
                   /\ priorityThread' = t
                   /\ InsertPriorityOp(rest, Op("full_thread_sync", t))
                \/ /\ full[t] = "old"
                   /\ priorityThread' = t
                   /\ InsertPriorityOp(rest, Op("stale_resync", t))
                \/ /\ full[t] = "yes"
                   /\ queue' = WithVerification(<<Op("quick_sync", t)>> \o rest, session, t)
                   /\ StartLoop
                   /\ UNCHANGED <<aborted, kicks, priorityThread>>
    /\ UNCHANGED <<connected, state, op, current, todo, paused, bg, listener, db,
                   session, events>>

\* onThreadClosed(): the running operation is aborted if it is for the thread
\* of the last priority sync, or for one whose number begins with that
\* thread's (name.includes()).
CloseThread ==
    /\ ThreadsClose /\ Quiet
    /\ openThread # None
    /\ openThread' = None
    /\ priorityThread' = None
    /\ \E prefixed \in SUBSET Threads :
          aborted' = (\/ aborted
                      \/ /\ priorityThread # None /\ current
                         /\ op.thread \in {priorityThread} \cup prefixed)
    /\ UNCHANGED <<connected, state, queue, loop, paused, kicks, bg, listener, db, bounds>>

\* requestThreadListResync(): after a group MMS, or a new thread in an event.
RequestThreadListResync ==
    /\ Quiet /\ requests < MaxRequests
    /\ state # "disconnected"
    /\ requests' = requests + 1
    /\ InsertPriorityOp(queue, Op("thread_list_resync", None))
    /\ UNCHANGED <<connected, state, op, current, todo, paused, ui, bg, listener, db,
                   session, events>>

\* The timer of insertPriorityOp() fires.
Kick ==
    /\ Quiet /\ kicks > 0
    /\ kicks' = kicks - 1
    /\ aborted' = FALSE
    /\ StartLoop
    /\ UNCHANGED <<connected, state, queue, op, current, todo, paused, ui, bg,
                   listener, db, bounds>>

\* The debug console's pause, resume and abort.
Pause ==
    /\ Pauses /\ Quiet /\ ~paused
    /\ paused' = TRUE
    /\ UNCHANGED <<connected, state, queue, loop, aborted, kicks, ui, bg, listener, db, bounds>>

Resume ==
    /\ Pauses /\ Quiet /\ paused
    /\ paused' = FALSE
    /\ pc' = IF Running THEN pc ELSE "top"
    /\ UNCHANGED <<connected, state, queue, op, current, todo, aborted, kicks, ui, bg,
                   listener, db, bounds>>

AbortCurrent ==
    /\ Aborts /\ Quiet /\ ~aborted
    /\ aborted' = TRUE
    /\ UNCHANGED <<connected, state, queue, loop, paused, kicks, ui, bg, listener, db, bounds>>

\* handleNewMessages(): a message event makes its conversation known, flags
\* its thread while a sync runs, and asks for the thread list if the thread is
\* new or the message went to a group.
MessageEvent(t) ==
    /\ Quiet /\ connected /\ events < MaxEvents
    /\ events' = events + 1
    /\ listed' = listed \cup {t}
    /\ flagged' = IF syncActive THEN flagged \cup {t} ELSE flagged
    /\ \/ UNCHANGED <<queue, aborted, kicks, pc, requests>>
       \/ /\ state # "disconnected" /\ requests < MaxRequests
          /\ requests' = requests + 1
          /\ InsertPriorityOp(queue, Op("thread_list_resync", None))
    /\ UNCHANGED <<connected, state, op, current, todo, paused, ui, bg, syncActive,
                   full, initialComplete, quick, session>>

\* Six days pass since t was fully synced.
Ages(t) ==
    /\ Quiet /\ full[t] = "yes"
    /\ full' = [full EXCEPT ![t] = "old"]
    /\ UNCHANGED <<connected, state, queue, loop, flags, ui, bg, listener, listed,
                   initialComplete, quick, bounds>>

--------------------
(* The loop. *)

\* The queries an operation makes, by what they are about: a thread's
\* messages, or a named step.  The batch walks the threads of the table.
Queries(o) ==
    CASE o.kind = "thread_sync"  -> <<"list", "flush", "filter", "read">>
      [] o.kind = "contact_sync" -> <<"contacts">>
      [] o.kind = "message_sync" -> SetToSeq(listed)
      [] o.kind = "thread_list_resync" -> <<"list">>
      [] o.kind = "count_verify" -> IF o.thread \in listed THEN <<"count">> ELSE <<>>
      [] OTHER -> <<o.thread>>

\* getAndClearFlaggedThreads(): what it returns.
NoThreads == {}
FlaggedThreads == flagged

ReadyIfEmpty == queue = <<>> /\ ~paused
ReadyIfDone == queue = <<>> /\ ~paused /\ state # "disconnected"

\* After the loop: ready, or once more for the threads flagged meanwhile.
LoopEnds ==
    /\ op' = None /\ current' = FALSE /\ todo' = <<>>
    /\ \/ /\ ReadyIfDone
          /\ \/ /\ FlaggedThreads # {}
                /\ queue' = SetToSeq({Op("flagged_sync", t) : t \in FlaggedThreads})
                /\ flagged' = {}
                /\ pc' = "top"
                /\ UNCHANGED <<state, syncActive>>
             \/ /\ FlaggedThreads = {}
                /\ syncActive' = FALSE
                /\ state' = "ready"
                /\ pc' = "idle"
                /\ UNCHANGED <<queue, flagged>>
       \/ /\ ~ReadyIfDone
          /\ pc' = "idle"
          /\ UNCHANGED <<queue, state, listener>>
    /\ UNCHANGED <<connected, flags, ui, bg, db, bounds>>

\* The head of the queue starts; a phase announces itself.
StartOp ==
    /\ queue # <<>> /\ ~paused
    /\ op' = Head(queue)
    /\ queue' = Tail(queue)
    /\ current' = TRUE
    /\ aborted' = FALSE
    /\ todo' = Queries(Head(queue))
    /\ pc' = "step"
    /\ state' = IF Head(queue).kind \in {"thread_sync", "message_sync"}
                THEN Head(queue).kind ELSE state
    /\ UNCHANGED <<connected, paused, kicks, ui, bg, listener, db, bounds>>

LoopTop ==
    /\ pc = "top"
    /\ \/ StartOp
       \/ (queue = <<>> \/ paused) /\ LoopEnds

\* op makes its next query, which fails at once without a connection; the
\* batch stops between two threads if it was aborted.
NextQuery ==
    /\ pc = "step" /\ todo # <<>>
    /\ ~(op.kind = "message_sync" /\ aborted)
    /\ pc' = IF connected THEN "await" ELSE "rejected"
    /\ UNCHANGED <<connected, state, queue, op, current, todo, flags, ui, bg,
                   listener, db, bounds>>

\* runBatchMessageSync() after its loop: if not aborted, mark the initial sync
\* and queue a full sync of every thread that needs one.
BatchEnds ==
    /\ UNCHANGED <<listed, full, quick>>
    /\ \/ /\ aborted
          /\ UNCHANGED <<initialComplete, queue, bg>>
       \/ /\ ~aborted
          /\ initialComplete' = TRUE
          /\ LET needy == {t \in listed : full[t] = "no"} IN
             /\ queue' = queue \o SetToSeq({Op("bg_full_sync", t) : t \in needy})
             /\ bgTotal' = IF needy = {} THEN bgTotal ELSE Cardinality(needy)
             /\ bgCompleted' = IF needy = {} THEN bgCompleted ELSE 0

\* Progress counts a full sync: always for one the batch queued, otherwise
\* only while the total is not reached.
CountFullSync ==
    bgCompleted' = IF op.kind = "bg_full_sync" \/ bgCompleted < bgTotal
                   THEN bgCompleted + 1 ELSE bgCompleted

IsFullSync(o) == o.kind \in BgKinds \cup {"full_thread_sync", "stale_resync"}

\* op's last query is answered and the rest of run() has been executed.
OpReturns ==
    /\ pc = "step"
    /\ todo = <<>> \/ (op.kind = "message_sync" /\ aborted)
    /\ pc' = "done"
    /\ todo' = <<>>
    /\ \/ /\ op.kind = "message_sync"
          /\ BatchEnds
       \/ /\ IsFullSync(op)
          /\ CountFullSync
          /\ UNCHANGED <<bgTotal, db, queue>>
       \/ /\ op.kind # "message_sync" /\ ~IsFullSync(op)
          /\ UNCHANGED <<queue, bg, db>>
    /\ UNCHANGED <<connected, state, op, current, flags, ui, listener, bounds>>

\* A background sync of t is queued already.
NeverQueued(t) == FALSE
BackgroundQueued(t) == HasOp(queue, BgKinds, t)

\* What the answer to op's query changes, before op goes on.
Applied ==
    \/ /\ Head(todo) = "list"                          \* threadListSync
       /\ listed' = Threads
       /\ UNCHANGED <<full, quick, queue>>
    \/ /\ Head(todo) = "count"                         \* verifyThreadCount
       /\ \/ UNCHANGED <<full, queue>>
          \/ /\ full' = [full EXCEPT ![op.thread] = "no"]
             /\ queue' = IF BackgroundQueued(op.thread) THEN queue
                         ELSE Append(queue, Op("bg_verify_sync", op.thread))
       /\ UNCHANGED <<listed, quick>>
    \/ /\ Head(todo) \in Threads                       \* the thread's messages
       /\ quick' = [quick EXCEPT ![Head(todo)] = session]
       /\ full' = IF IsFullSync(op) /\ Head(todo) \in listed
                  THEN [full EXCEPT ![Head(todo)] = "yes"] ELSE full
       /\ UNCHANGED <<listed, queue>>
    \/ /\ Head(todo) \in {"flush", "filter", "read", "contacts"}
       /\ UNCHANGED <<listed, full, quick, queue>>

QueryAnswered ==
    /\ pc = "await" /\ connected
    /\ Applied
    /\ todo' = Tail(todo)
    /\ pc' = "step"
    /\ UNCHANGED <<connected, state, op, current, flags, ui, bg, listener,
                   initialComplete, bounds>>

\* The query times out.
QueryFails ==
    /\ QueriesFail
    /\ pc = "await"
    /\ pc' = "rejected"
    /\ UNCHANGED <<connected, state, queue, op, current, todo, flags, ui, bg,
                   listener, db, bounds>>

\* A rejection ends op, except where it is caught: the batch goes on with the
\* next thread, thread_sync goes on after flushPendingOperations().
NothingCaught == FALSE
Caught == op.kind = "message_sync" \/ Head(todo) = "flush"

QueryRejected ==
    /\ pc = "rejected"
    /\ todo' = IF Caught THEN Tail(todo) ELSE <<>>
    /\ pc' = IF Caught THEN "step" ELSE "done"
    /\ UNCHANGED <<connected, state, queue, op, current, flags, ui, bg, listener,
                   db, bounds>>

\* drainQueue() after the operation: stop if aborted, else round again.
OpDone ==
    /\ pc = "done"
    /\ \/ aborted /\ LoopEnds
       \/ /\ ~aborted
          /\ pc' = "top"
          /\ op' = None /\ current' = FALSE
          /\ UNCHANGED <<connected, state, queue, todo, flags, ui, bg, listener, db, bounds>>

Microtask == LoopTop \/ NextQuery \/ OpReturns \/ QueryRejected \/ OpDone
--------------------
Next ==
    \/ Microtask
    \/ QueryAnswered
    \/ QueryFails
    \/ Kick
    \/ Connect
    \/ Disconnect
    \/ Resync
    \/ \E t \in Threads : OpenThread(t) \/ MessageEvent(t) \/ Ages(t)
    \/ CloseThread
    \/ RequestThreadListResync
    \/ Pause
    \/ Resume
    \/ AbortCurrent

\* Microtasks run, a query ends (QueryClient: EveryCallSettles) and a timer
\* fires.  Nothing is assumed of the phone's connection or of the user.
Spec ==
    /\ Init /\ [][Next]_vars
    /\ WF_vars(Microtask)
    /\ WF_vars(QueryAnswered \/ QueryFails)
    /\ WF_vars(Kick)

--------------------
(* Properties. *)

TypeOK ==
    /\ connected \in BOOLEAN /\ syncActive \in BOOLEAN /\ initialComplete \in BOOLEAN
    /\ {aborted, paused, current} \subseteq BOOLEAN
    /\ state \in {"disconnected", "connected", "thread_sync", "message_sync", "ready"}
    /\ queue \in Seq(Ops)
    /\ op \in Ops \cup {None}
    /\ pc \in {"idle", "top", "step", "await", "rejected", "done"}
    /\ op = None <=> pc \in {"idle", "top"}
    /\ {openThread, priorityThread} \subseteq Threads \cup {None}
    /\ {kicks, bgTotal, bgCompleted, session, requests, events} \subseteq Nat
    /\ flagged \subseteq Threads /\ listed \subseteq Threads
    /\ full \in [Threads -> {"no", "yes", "old"}]
    /\ quick \in [Threads -> Nat]

\* An interrupt never strands the queue: while operations wait, the loop runs
\* or a timer is set that will start it.
NeverStranded ==
    (Quiet /\ queue # <<>> /\ ~paused) => (Running \/ kicks > 0)

\* After a disconnection the pipeline is silent: nothing is queued, the loop
\* is not running, and events are not flagged for a sync that will not come.
DisconnectedIsQuiet ==
    (Quiet /\ state = "disconnected") => (queue = <<>> /\ ~Running /\ ~syncActive)

\* The user is told "ready" only with a phone connected.
\* (sync-orchestrator.ts:136: onConnected is "Called when a phone connects
\* (after pairing/identity exchange)".)
ReadyMeansConnected == (Quiet /\ state = "ready") => connected

\* A thread waits for at most one background full sync.
OneBackgroundSyncEach ==
    \A i, j \in DOMAIN queue :
        (queue[i].kind \in BgKinds /\ queue[j].kind \in BgKinds
            /\ queue[i].thread = queue[j].thread) => i = j

\* The queue is served, by a connected phone, and holds nothing twice.
QueueIsSound == NeverStranded /\ ReadyMeansConnected /\ OneBackgroundSyncEach

\* The mark of a finished initial sync is set by a batch of this session, on
\* a pipeline that has not been disconnected.
MarkIsEarned ==
    [][(~initialComplete /\ initialComplete') =>
          (state # "disconnected" /\ op.session = session)]_vars

\* A pipeline that is started gets ready, whatever fails on the way.
EventuallyReady == (state # "disconnected") ~> (state \in {"ready", "disconnected"})

\* A failing thread does not end the batch: unless the phone goes or a priority
\* operation interrupts it, a batch that starts is finished and marks the initial
\* sync (sync-orchestrator.ts:517: "One thread's failure ... MUST NOT kill the
\* whole batch sync").
BatchGetsDone ==
    (state = "message_sync") ~>
        (initialComplete \/ state = "disconnected" \/ requests > 0)

\* A thread whose messages arrived during a sync is synced once more before
\* the pipeline rests (event-listener.ts:8-10).
FlaggedIsResynced ==
    \A t \in Threads :
        (t \in flagged) ~> \/ op # None /\ op.kind = "flagged_sync" /\ op.thread = t
                           \/ state = "disconnected"

\* The pipeline comes to rest with its work done, whatever fails on the way.
PipelineSettles == EventuallyReady /\ BatchGetsDone /\ FlaggedIsResynced

\* sync-orchestrator.ts:10-12: "Priority interrupts (user opens a thread)
\* pause the current queue, run the priority op, then resume": once ready,
\* every thread's recent messages have been synced in this session.
BatchResumes ==
    (Quiet /\ state = "ready") => \A t \in listed : quick[t] = session
====================
