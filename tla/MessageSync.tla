---------- MODULE MessageSync ----------
(* What the desktop's database holds of the phone's messages: the sync *)
(* operations, whose answers are snapshots, against the events the phone *)
(* pushes while they run. *)
(*                                                                            *)
(* Phone to desktop is one WebSocket: events and answers arrive in the order *)
(* they were sent. The phone takes its snapshot when it runs the query and *)
(* the operation gets it with the last page, so events sent in between are *)
(* applied first. No two messages have the same date, and none is dated *)
(* before it exists: "date <= queryTimestamp" is "existed at the snapshot". *)
(* Addresses, snippets, read marks and attachments are left out. *)
EXTENDS Naturals, Sequences, FiniteSets

CONSTANTS
    Messages, Threads,
    ThreadOf,       \* the thread of each message
    MaxBreaks,      \* bound on broken connections and failed queries
    MaxOpens,       \* bound on what the user asks for: threads opened, resyncs
    None

ASSUME MessageAssumption ==
    /\ ThreadOf \in [Messages -> Threads]
    /\ MaxBreaks \in Nat /\ MaxOpens \in Nat
    /\ None \notin Threads

VARIABLES
    phone, born,            \* messages on the phone; messages that ever existed
    channel,                \* what the phone sent and the desktop has not read
    connected,
    local, convs, fully,    \* message rows, conversation rows, full_sync_complete
    covered,                \* what existed when a thread was last fully synced
    stage, due, query,      \* the pipeline, its queue, the query in progress
    batch, interrupted,     \* threads the running batch still has to do; aborted
    missed,                 \* history: threads whose part of the batch was lost
    syncActive, flagged,    \* the event listener
    breaks, opens

database == <<local, convs, fully, covered>>
listener == <<syncActive, flagged>>
progress == <<batch, interrupted, missed>>
vars == <<phone, born, channel, connected, database, stage, due, query, progress,
          listener, breaks, opens>>

\* Every message of the one conversation: the instance that is checked.
AllInOne == [m \in Messages |-> CHOOSE t \in Threads : TRUE]

In(t, S) == {m \in S : ThreadOf[m] = t}
Op(kind, t) == [kind |-> kind, thread |-> t]
List == Op("list", None)
OpenOps(t) == {Op(k, t) : k \in {"full", "quick", "count"}}

--------------------
(* The phone *)

Push(e) == channel' = IF connected THEN Append(channel, e) ELSE channel
Event(kind, m, t) == [kind |-> kind, message |-> m, thread |-> t]

NewMessage(m) ==
    /\ m \notin born
    /\ phone' = phone \cup {m}
    /\ born' = born \cup {m}
    /\ Push(Event("new", m, ThreadOf[m]))

DeleteMessage(m) ==
    /\ m \in phone
    /\ phone' = phone \ {m}
    /\ Push(Event("deleted", m, ThreadOf[m]))
    /\ UNCHANGED born

DeleteThread(t) ==
    /\ In(t, phone) # {}
    /\ phone' = phone \ In(t, phone)
    /\ Push(Event("thread_deleted", None, t))
    /\ UNCHANGED born

PhoneChanges ==
    /\ \/ \E m \in Messages : NewMessage(m) \/ DeleteMessage(m)
       \/ \E t \in Threads : DeleteThread(t)
    /\ UNCHANGED <<connected, database, stage, due, query, progress, listener, breaks, opens>>

(* The snapshot each operation asks for. A quick sync asks for the messages *)
(* since a date: for a fully synced thread never later than its last full *)
(* sync (getQuickSyncWindow, with threads older than six days stale). Only *)
(* the widest and the narrowest window are tried. *)
Snapshots(op) ==
    CASE op.kind = "list"  -> {{t \in Threads : In(t, phone) # {}}}
      [] op.kind = "count" -> {Cardinality(In(op.thread, phone))}
      [] op.kind = "full"  -> {In(op.thread, phone)}
      [] op.kind = "quick" ->
            LET old == IF op.thread \in fully THEN covered[op.thread] ELSE born IN
            {In(op.thread, phone), In(op.thread, phone \ old)}

PhoneAnswers ==
    /\ query.phase = "asked"
    /\ \E a \in Snapshots(query.op) :
           query' = [query EXCEPT !.phase = "answering", !.answer = a, !.existing = born]
    /\ UNCHANGED <<phone, born, channel, connected, database, stage, due, progress, listener,
                   breaks, opens>>

PhoneSendsLastPage ==
    /\ query.phase = "answering"
    /\ query' = [query EXCEPT !.phase = "answered"]
    /\ channel' = Append(channel, Event("answer", None, query.op.thread))
    /\ UNCHANGED <<phone, born, connected, database, stage, due, progress, listener, breaks, opens>>

--------------------
(* Events: EventHandler (through SmsHandler), then EventListener *)

NoQuery == [op |-> None, phase |-> "none", answer |-> {}, existing |-> {}]

(* A priority operation aborts what runs. Only the batch looks, between two *)
(* threads: the others run to their end. *)
InsertPriorityOp(op) == due' = due \cup {op} /\ interrupted' = (stage = "batch")

(* received, sent. A message sent to a group also asks for the thread list. *)
NewMessageEvent(m) ==
    /\ local' = local \cup {m}
    /\ convs' = convs \cup {ThreadOf[m]}
    /\ flagged' = IF syncActive THEN flagged \cup {ThreadOf[m]} ELSE flagged
    /\ UNCHANGED <<due, interrupted>> \/ InsertPriorityOp(List)
    /\ UNCHANGED <<fully, covered>>

DeletedEvent(m) ==
    /\ local' = local \ {m}
    /\ UNCHANGED <<convs, fully, covered, flagged, due, interrupted>>

DeleteConversation(t) == convs' = convs \ {t} /\ fully' = fully \ {t}

ThreadDeletedEvent(t) ==
    /\ local' = local \ In(t, local)
    /\ DeleteConversation(t)
    /\ UNCHANGED <<covered, flagged, due, interrupted>>

ReceiveEvent ==
    /\ channel # <<>>
    /\ LET e == Head(channel) IN
       \/ e.kind = "new" /\ NewMessageEvent(e.message)
       \/ e.kind = "deleted" /\ DeletedEvent(e.message)
       \/ e.kind = "thread_deleted" /\ ThreadDeletedEvent(e.thread)
    /\ channel' = Tail(channel)
    /\ UNCHANGED <<phone, born, connected, stage, query, batch, missed, syncActive, breaks, opens>>

--------------------
(* Answers *)

\* Mutation of the next definition.
Unseen(t, seen, existing) == In(t, local) \ seen

(* Local rows of the thread that the answer does not have and that are not *)
(* newer than its snapshot. *)
NoLongerOnPhone(t, seen, existing) == (In(t, local) \ seen) \cap existing

\* Mutation of the next definition.
MarkAlways(t) == fully' = fully \cup {t}

(* An UPDATE: nothing to mark without a row. *)
MarkThreadFullySynced(t) == fully' = fully \cup ({t} \cap convs)

FullThreadSync(t, seen, existing) ==
    /\ local' = (local \ NoLongerOnPhone(t, seen, existing)) \cup seen
    /\ MarkThreadFullySynced(t)
    /\ covered' = [covered EXCEPT ![t] = existing]
    /\ missed' = missed \ {t}
    /\ UNCHANGED <<convs, due>>

QuickMessageSync(t, seen) ==
    /\ local' = local \cup seen
    /\ missed' = missed \ {t}
    /\ UNCHANGED <<convs, fully, covered, due>>

(* Rows the phone does not list go; the local rows are read when the answer *)
(* is here, not when the query was sent. *)
ThreadListSync(listed) ==
    /\ convs' = listed
    /\ fully' = fully \cap listed
    /\ UNCHANGED <<local, covered, due, missed>>

(* A thread whose count differs is marked stale and synced in full. *)
VerifyThreadCount(t, count) ==
    /\ IF count # Cardinality(In(t, local))
       THEN fully' = fully \ {t} /\ due' = due \cup {Op("full", t)}
       ELSE UNCHANGED <<fully, due>>
    /\ UNCHANGED <<local, convs, covered, missed>>

ReceiveAnswer ==
    /\ channel # <<>>
    /\ Head(channel).kind = "answer"
    /\ LET t == query.op.thread IN
       \/ query.op.kind = "full" /\ FullThreadSync(t, query.answer, query.existing)
       \/ query.op.kind = "quick" /\ QuickMessageSync(t, query.answer)
       \/ query.op.kind = "list" /\ ThreadListSync(query.answer)
       \/ query.op.kind = "count" /\ VerifyThreadCount(t, query.answer)
    /\ query' = NoQuery
    /\ channel' = Tail(channel)
    /\ UNCHANGED <<phone, born, connected, stage, batch, interrupted, listener, breaks, opens>>

(* A query times out or is refused: its operation has failed, and an answer *)
(* on its way is one to an unknown query. A thread of the batch waits for the *)
(* next connection; without the list the batch does not know which threads *)
(* have something new. *)
Lost == IF stage = "batch" THEN {query.op.thread} \cap Threads
        ELSE IF stage = "list" /\ query.op = List THEN convs ELSE {}

QueryFails ==
    /\ query # NoQuery
    /\ breaks < MaxBreaks
    /\ breaks' = breaks + 1
    /\ query' = NoQuery
    /\ channel' = [i \in DOMAIN channel |->
                      IF channel[i].kind = "answer" THEN Event("late", None, None) ELSE channel[i]]
    /\ missed' = missed \cup Lost
    /\ UNCHANGED <<phone, born, connected, database, stage, due, batch, interrupted, listener, opens>>

ReceiveLate ==
    /\ channel # <<>>
    /\ Head(channel).kind = "late"
    /\ channel' = Tail(channel)
    /\ UNCHANGED <<phone, born, connected, database, stage, due, query, progress, listener,
                   breaks, opens>>

--------------------
(* The pipeline, of which SyncOrchestrator has the loop. Operations run in *)
(* any order within a stage. Contacts and pending operations do not touch *)
(* messages. Verifications of a count stand at the end of the queue. *)

Ask(op) ==
    /\ connected
    /\ query = NoQuery
    /\ op \in due
    /\ stage # "batch"
    /\ stage = "list" => op.kind # "count"
    /\ due' = due \ {op}
    \* verifyThreadCount() returns at once without a row
    /\ query' = IF op.kind = "count" /\ op.thread \notin convs
                THEN NoQuery
                ELSE [NoQuery EXCEPT !.op = op, !.phase = "asked"]
    /\ UNCHANGED <<phone, born, channel, connected, database, stage, progress, listener,
                   breaks, opens>>

\* Mutation of the next definition.
UnsyncedBatch == convs \ fully

(* The batch's filter on the last month leaves out threads a quick sync would *)
(* find nothing new for; if the list was not read, others too. *)
Batch == convs

BatchStarts ==
    /\ stage = "list" /\ query = NoQuery
    /\ \A op \in due : op.kind = "count"
    /\ stage' = "batch"
    /\ \E skipped \in SUBSET missed : batch' = Batch \ skipped
    /\ UNCHANGED <<phone, born, channel, connected, database, due, query, interrupted, missed,
                   listener, breaks, opens>>

AskBatch(t) ==
    /\ stage = "batch" /\ query = NoQuery
    /\ ~interrupted
    /\ t \in batch
    /\ batch' = batch \ {t}
    /\ query' = [NoQuery EXCEPT !.op = Op("quick", t), !.phase = "asked"]
    /\ UNCHANGED <<phone, born, channel, connected, database, stage, due, interrupted, missed,
                   listener, breaks, opens>>

BackgroundFullSyncs == {Op("full", t) : t \in convs \ fully}

(* An interrupted batch does not come back, and queues no background syncs. *)
BatchEnds ==
    /\ stage = "batch" /\ query = NoQuery
    /\ \/ ~interrupted /\ batch = {} /\ due' = due \cup BackgroundFullSyncs
       \/ interrupted /\ UNCHANGED due
    /\ stage' = "background"
    /\ missed' = missed \cup batch
    /\ batch' = {} /\ interrupted' = FALSE
    /\ UNCHANGED <<phone, born, channel, connected, database, query, listener, breaks, opens>>

(* The timer of this interrupt, or of an earlier one, comes before the batch *)
(* looks: the batch goes on. *)
InterruptExpires ==
    /\ interrupted
    /\ interrupted' = FALSE
    /\ UNCHANGED <<phone, born, channel, connected, database, stage, due, query, batch, missed,
                   listener, breaks, opens>>

FlaggedSyncs == {Op("quick", t) : t \in flagged}

(* With an empty queue, the threads that were flagged meanwhile; ready when *)
(* none is. *)
QueueEnds ==
    /\ stage = "background" /\ due = {} /\ query = NoQuery
    /\ \/ /\ flagged # {}
          /\ due' = FlaggedSyncs
          /\ flagged' = {}
          /\ UNCHANGED <<stage, syncActive>>
       \/ /\ flagged = {}
          /\ stage' = "ready" /\ syncActive' = FALSE
          /\ UNCHANGED <<due, flagged>>
    /\ UNCHANGED <<phone, born, channel, connected, database, query, progress, breaks, opens>>

Advance == BatchStarts \/ BatchEnds \/ QueueEnds

(* onThreadOpened: a thread not fully synced, or stale by now, gets a full *)
(* sync; another one a quick sync and a count. *)
OpenThread(t) ==
    /\ stage # "off"
    /\ t \in convs
    /\ opens < MaxOpens
    /\ opens' = opens + 1
    /\ \/ InsertPriorityOp(Op("full", t))
       \/ /\ t \in fully
          /\ due' = (due \ {Op("full", t)}) \cup {Op("quick", t), Op("count", t)}
          /\ UNCHANGED interrupted
    /\ UNCHANGED <<phone, born, channel, connected, database, stage, query, batch, missed,
                   listener, breaks>>

(* After a group message sent from the window. *)
RequestThreadListResync ==
    /\ stage # "off"
    /\ opens < MaxOpens
    /\ opens' = opens + 1
    /\ InsertPriorityOp(List)
    /\ UNCHANGED <<phone, born, channel, connected, database, stage, query, batch, missed,
                   listener, breaks>>

(* onConnected: threads synced more than six days ago become stale. The *)
(* thread on the screen, if any, has its count verified. *)
Connect ==
    /\ ~connected
    /\ connected' = TRUE
    /\ stage' = "list"
    /\ \/ due' = {List} /\ UNCHANGED opens
       \/ /\ opens < MaxOpens /\ opens' = opens + 1
          /\ \E open \in Threads : due' = {List, Op("count", open)}
    /\ syncActive' = TRUE
    /\ \E stale \in SUBSET fully : fully' = fully \ stale
    /\ UNCHANGED <<phone, born, channel, local, convs, covered, query, progress, flagged, breaks>>

(* The connection breaks, with what was on its way. *)
LinkBreaks ==
    /\ connected
    /\ breaks < MaxBreaks
    /\ breaks' = breaks + 1
    /\ connected' = FALSE
    /\ channel' = <<>>
    /\ stage' = "off" /\ due' = {} /\ query' = NoQuery
    /\ batch' = {} /\ interrupted' = FALSE /\ missed' = {}
    /\ syncActive' = FALSE
    /\ UNCHANGED <<phone, born, database, flagged, opens>>

--------------------
Init ==
    /\ phone = {} /\ born = {}
    /\ channel = <<>> /\ connected = FALSE
    /\ local = {} /\ convs = {} /\ fully = {} /\ covered = [t \in Threads |-> {}]
    /\ stage = "off" /\ due = {} /\ query = NoQuery
    /\ batch = {} /\ interrupted = FALSE /\ missed = {}
    /\ syncActive = FALSE /\ flagged = {}
    /\ breaks = 0 /\ opens = 0

Next ==
    \/ PhoneChanges \/ PhoneAnswers \/ PhoneSendsLastPage
    \/ ReceiveEvent \/ ReceiveAnswer \/ ReceiveLate
    \/ \E op \in due : Ask(op)
    \/ \E t \in batch : AskBatch(t)
    \/ Advance \/ InterruptExpires \/ QueryFails
    \/ \E t \in Threads : OpenThread(t)
    \/ RequestThreadListResync
    \/ Connect \/ LinkBreaks

Asking == (\E op \in due : Ask(op)) \/ (\E t \in batch : AskBatch(t))

(* The desktop reads what arrives and works off its queue; the phone answers. *)
Spec ==
    /\ Init /\ [][Next]_vars
    /\ WF_vars(ReceiveEvent \/ ReceiveAnswer \/ ReceiveLate)
    /\ WF_vars(Asking) /\ WF_vars(Advance)
    /\ WF_vars(PhoneAnswers) /\ WF_vars(PhoneSendsLastPage)

--------------------
(* Properties *)

Ops == {List} \cup UNION {OpenOps(t) : t \in Threads}

TypeOK ==
    /\ phone \subseteq born /\ born \subseteq Messages
    /\ connected \in BOOLEAN /\ syncActive \in BOOLEAN
    /\ local \subseteq born
    /\ fully \subseteq convs /\ convs \subseteq Threads /\ flagged \subseteq Threads
    /\ covered \in [Threads -> SUBSET Messages]
    /\ stage \in {"off", "list", "batch", "background", "ready"}
    /\ due \subseteq Ops
    /\ batch \subseteq Threads /\ missed \subseteq Threads /\ interrupted \in BOOLEAN
    /\ query.op \in Ops \cup {None}
    /\ query.phase \in {"none", "asked", "answering", "answered"}
    /\ (query.phase = "answered") <=> (\E i \in DOMAIN channel : channel[i].kind = "answer")
    /\ (~connected) => (channel = <<>> /\ query = NoQuery /\ stage = "off")

Settled == stage = "ready" /\ due = {} /\ query = NoQuery /\ channel = <<>> /\ flagged = {}

(* When the pipeline is ready and nothing is under way, a thread marked as *)
(* fully synced lacks no message the phone has: not one that arrived during *)
(* a sync, while the desktop was away, or was lost with a connection. Not so *)
(* a thread whose part of this session's batch failed, or was dropped with an *)
(* interrupted batch, and that has not been synced since: the code leaves it *)
(* to the next connection. *)
NothingMissing ==
    Settled => \A t \in fully \ missed : In(t, phone) \subseteq local

(* No message the phone still has is ever removed from the database: not by *)
(* the delete detection of a full sync whose snapshot is older than the *)
(* message (full-thread-sync.ts:103-114), and not by a deletion event. *)
OnlyDeletedIsRemoved == [][\A m \in local \ local' : m \notin phone]_vars

(* A message of a fully synced thread gets to the desktop as long as the *)
(* connection holds, or the thread's part of the batch is lost. *)
EveryMessageArrives ==
    \A m \in Messages :
        (connected /\ m \in phone /\ ThreadOf[m] \in fully)
            ~> (m \in local \/ m \notin phone \/ ThreadOf[m] \notin fully
                \/ ThreadOf[m] \in missed \/ ~connected)

(* "For deleted threads (desktop has, phone doesn't): delete from DB" *)
(* (docs/PROTOCOL_1_3_REVISIONS.md:163), and no others: once settled, a *)
(* thread the phone has is in the conversation list. *)
\* The code does not keep this: see README.md, section 6.
ListedThreads ==
    Settled => \A t \in Threads : In(t, phone) # {} => t \in convs
====================
