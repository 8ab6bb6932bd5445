---------- MODULE MessageWindow ----------
(* The thread pane of the desktop window (stores/messages.svelte.ts and the *)
(* selection effect of MessageThread.svelte). The rows it shows are a copy of *)
(* the daemon's database, taken over an asynchronous call; what tells it to *)
(* take a new copy is a notification that the main process batches for *)
(* 100 ms and the store delays by another 100 ms, while other notifications *)
(* overtake the batch. Messages are numbered by date. *)
EXTENDS Integers, Sequences, FiniteSets, SequencesExt, FiniteSetsExt

CONSTANTS
    Threads,        \* conversations
    Ids,            \* messages of a conversation, 1..n, oldest first
    MaxNews,        \* bound on what happens on the phone (changes, lost connections)
    MaxClicks,      \* bound on what the user does
    MaxNotices,     \* bound on notifications to the window under way
    MaxLoads,       \* bound on loads under way
    None

\* Of the constants; assumed where they are given values.
WindowConstants ==
    /\ Ids = 1..Cardinality(Ids) /\ None \notin Threads
    /\ {MaxNews, MaxClicks, MaxNotices, MaxLoads} \subseteq Nat

VARIABLES
    phone,          \* [Threads -> SUBSET Ids]: what the phone holds
    db,             \* [Threads -> SUBSET Ids]: what the daemon has stored
    up,             \* the phone is connected
    asked,          \* history requests the phone has not answered: [thread, before]
    batch,          \* main process: [armed, threads] of sms.messages held back
    inbox,          \* notifications under way to the window, in order
    sel,            \* conversations.selectedThreadId
    win,            \* the store: threadId, rows, loading, and what paging remembers
    due,            \* the store's 100 ms refresh timer is running
    loads,          \* calls of doLoadThread under way, in order: [thread, read, rows]
    news,           \* how much has happened on the phone
    clicks          \* and in the window

vars == <<phone, db, up, asked, batch, inbox, sel, win, due, loads, news, clicks>>

AnyThread == "any thread"
Notice(kind, t) == [kind |-> kind, thread |-> t]
Request(t, before) == [thread |-> t, before |-> before]
Newest == Cardinality(Ids)

Init ==
    /\ phone = [t \in Threads |-> 1..(Newest - 1)]
    /\ db = [t \in Threads |-> {Newest - 1}]      \* the newest, from the list of conversations
    /\ up = FALSE
    /\ asked = {} /\ batch = [armed |-> FALSE, threads |-> {}] /\ inbox = <<>>
    /\ sel = None
    /\ win = [thread |-> None, rows |-> {}, loading |-> FALSE,
              pending |-> None, fetched |-> {}, prev |-> 0]
    /\ due = FALSE /\ loads = <<>> /\ news = 0 /\ clicks = 0

--------------------
(* The phone and the daemon. *)

News == news < MaxNews /\ news' = news + 1

Batched(ts) == [armed |-> TRUE, threads |-> batch.threads \cup ts]

\* A message event; the daemon stores it and notifies. A deleted conversation
\* does not come back: the phone gives the next one another number.
Arrives(t) ==
    /\ News /\ up /\ Newest \notin phone[t] /\ phone[t] # {}
    /\ phone' = [phone EXCEPT ![t] = @ \cup {Newest}]
    /\ db' = [db EXCEPT ![t] = @ \cup {Newest}]
    /\ batch' = Batched({t})
    /\ UNCHANGED <<up, asked, inbox, sel, win, due, loads, clicks>>

Deleted(t, i) ==    \* a deletion event names no conversation; unconnected, it is lost
    /\ News /\ i \in phone[t] /\ Cardinality(phone[t]) > 1
    /\ phone' = [phone EXCEPT ![t] = @ \ {i}]
    /\ IF up THEN db' = [db EXCEPT ![t] = @ \ {i}] /\ batch' = Batched({})
             ELSE UNCHANGED <<db, batch>>
    /\ UNCHANGED <<up, asked, inbox, sel, win, due, loads, clicks>>

ThreadDeleted(t) == \* sms.event is not batched
    /\ News /\ up /\ phone[t] # {} /\ Len(inbox) < MaxNotices
    /\ phone' = [phone EXCEPT ![t] = {}]
    /\ db' = [db EXCEPT ![t] = {}]
    /\ inbox' = Append(inbox, Notice("thread_deleted", t))
    /\ UNCHANGED <<up, asked, batch, sel, win, due, loads, clicks>>

Synced(t) ==        \* a full sync of the conversation, by the orchestrator
    /\ News /\ up
    /\ db' = [db EXCEPT ![t] = phone[t]]
    /\ batch' = Batched({t})
    /\ UNCHANGED <<phone, up, asked, inbox, sel, win, due, loads, clicks>>

\* The answer to a request: the message before the given one, if there is one.
Page(r) ==
    /\ up /\ r \in asked /\ asked' = asked \ {r}
    /\ LET older == {i \in phone[r.thread] : i < r.before}
       IN  IF older = {} THEN UNCHANGED <<db, batch>>
           ELSE /\ db' = [db EXCEPT ![r.thread] = @ \cup {Max(older)}]
                /\ batch' = Batched({r.thread})
    /\ UNCHANGED <<phone, up, inbox, sel, win, due, loads, news, clicks>>

Disconnect ==
    /\ News /\ up /\ up' = FALSE /\ asked' = {}
    /\ UNCHANGED <<phone, db, batch, inbox, sel, win, due, loads, clicks>>

Connect ==
    /\ ~up /\ up' = TRUE /\ Len(inbox) < MaxNotices
    /\ inbox' = Append(inbox, Notice("connected", AnyThread))
    /\ UNCHANGED <<phone, db, asked, batch, sel, win, due, loads, news, clicks>>

\* Mutation of the next definition.
FirstOfBatch(ts) == IF ts = {} THEN AnyThread ELSE CHOOSE t \in ts : TRUE

\* The batch names its conversation if the notifications that have one agree.
ThreadOfBatch(ts) == IF Cardinality(ts) = 1 THEN CHOOSE t \in ts : TRUE ELSE AnyThread

FlushSmsBatch ==
    /\ batch.armed /\ Len(inbox) < MaxNotices
    /\ batch' = [armed |-> FALSE, threads |-> {}]
    /\ inbox' = Append(inbox, Notice("messages", ThreadOfBatch(batch.threads)))
    /\ UNCHANGED <<phone, db, up, asked, sel, win, due, loads, news, clicks>>

GetThreadMessages ==    \* the daemon answers calls in the order they were made
    \E k \in DOMAIN loads :
        /\ ~loads[k].read /\ \A j \in 1..(k - 1) : loads[j].read
        /\ loads' = [loads EXCEPT ![k].read = TRUE, ![k].rows = db[loads[k].thread]]
        /\ UNCHANGED <<phone, db, up, asked, batch, inbox, sel, win, due, news, clicks>>

--------------------
(* The window. *)

Click == clicks < MaxClicks /\ clicks' = clicks + 1

DoLoadThread(t) == Append(loads, [thread |-> t, read |-> FALSE, rows |-> {}])

Select(t) ==        \* a click; the effect of MessageThread loads the conversation
    /\ Click /\ sel # t /\ Len(loads) < MaxLoads
    /\ sel' = t
    /\ win' = [win EXCEPT !.thread = t, !.loading = TRUE, !.prev = 0]
    /\ loads' = DoLoadThread(t)
    /\ UNCHANGED <<phone, db, up, asked, batch, inbox, due, news>>

StartCompose ==     \* unmounts the pane without telling the store
    /\ Click /\ sel # None /\ sel' = None
    /\ UNCHANGED <<phone, db, up, asked, batch, inbox, win, due, loads, news>>

OpenExtraPanel ==   \* loadThread(null)
    /\ Click /\ sel # None /\ sel' = None
    /\ win' = [win EXCEPT !.thread = None, !.rows = {}, !.pending = None, !.prev = 0]
    /\ UNCHANGED <<phone, db, up, asked, batch, inbox, due, loads, news>>

ResetMessages ==    \* after unpairing; what paging remembers is kept
    /\ Click /\ sel # None /\ sel' = None
    /\ win' = [win EXCEPT !.thread = None, !.rows = {}, !.loading = FALSE]
    /\ UNCHANGED <<phone, db, up, asked, batch, inbox, due, loads, news>>

RefreshCurrentThread(t) ==
    due' = (due \/ (win.thread # None /\ t \in {AnyThread, win.thread}))

Oldest(rows) == IF rows = {} THEN Newest + 1 ELSE Min(rows)

\* A request leaves only while the phone is connected; nobody hears of its failure.
RequestFullThread(t, before) ==
    asked' = IF up THEN asked \cup {Request(t, before)} ELSE asked

HandleNotification ==
    /\ inbox # <<>> /\ inbox' = Tail(inbox)
    /\ LET n == Head(inbox) IN
       \/ /\ n.kind = "messages"
          /\ RefreshCurrentThread(n.thread)
          /\ UNCHANGED <<win, asked>>
       \/ /\ n.kind = "thread_deleted"
          /\ win' = IF n.thread = win.thread THEN [win EXCEPT !.thread = None, !.rows = {}] ELSE win
          /\ UNCHANGED <<due, asked>>
       \/ /\ n.kind = "connected"
          /\ IF win.pending # None /\ win.pending = win.thread
             THEN RequestFullThread(win.thread, Oldest(win.rows)) ELSE UNCHANGED asked
          /\ UNCHANGED <<win, due>>
    /\ UNCHANGED <<phone, db, up, batch, sel, loads, news, clicks>>

RefreshTimer ==
    /\ due /\ due' = FALSE /\ Len(loads) < MaxLoads
    /\ loads' = IF win.thread = None THEN loads ELSE DoLoadThread(win.thread)
    /\ UNCHANGED <<phone, db, up, asked, batch, inbox, sel, win, news, clicks>>

\* isThreadDataUnchanged compares the length and the first, middle and last rows.
Unchanged(rows) ==
    LET old == SetToSortSeq(win.rows, <)
        new == SetToSortSeq(rows, <)
        n == Len(new)
    IN  n = Len(old) /\ \A k \in {1, n, (n \div 2) + 1} \cap 1..n : old[k] = new[k]

\* A call for a conversation no longer shown is dropped, its "finally" too.
Loaded ==
    /\ loads # <<>> /\ Head(loads).read /\ loads' = Tail(loads)
    /\ LET t == Head(loads).thread
           rows == Head(loads).rows
           count == Cardinality(rows)
           same == win.rows # {} /\ Unchanged(rows)
           more == count > win.prev
           full == ~more /\ count > 1
           ask == ~same /\ t \notin win.fetched /\ (count <= 1 \/ more)
       IN  IF win.thread # t THEN UNCHANGED <<win, asked>>
           ELSE /\ win' = [win EXCEPT
                      !.rows = IF same THEN @ ELSE rows,
                      !.prev = count,
                      !.loading = FALSE,
                      !.fetched = IF full THEN @ \cup {t} ELSE @,
                      !.pending = IF full \/ (~same /\ t \in win.fetched) THEN None
                                  ELSE IF ask THEN t ELSE @]
                /\ IF ask THEN RequestFullThread(t, IF count <= 1 THEN Newest + 1 ELSE Min(rows))
                          ELSE UNCHANGED asked
    /\ UNCHANGED <<phone, db, up, batch, inbox, sel, due, news, clicks>>

--------------------
User ==
    \/ \E t \in Threads : Select(t)
    \/ StartCompose \/ OpenExtraPanel \/ ResetMessages
Outside ==
    \/ \E t \in Threads : Arrives(t) \/ ThreadDeleted(t) \/ Synced(t)
    \/ \E t \in Threads, i \in Ids : Deleted(t, i)
    \/ \E r \in asked : Page(r)
    \/ Disconnect \/ Connect
Machine == FlushSmsBatch \/ GetThreadMessages \/ HandleNotification \/ RefreshTimer \/ Loaded
Next == User \/ Outside \/ Machine

Spec == Init /\ [][Next]_vars

--------------------
TypeOK ==
    /\ {phone, db} \subseteq [Threads -> SUBSET Ids]
    /\ {up, due} \subseteq BOOLEAN
    /\ asked \subseteq [thread : Threads, before : 1..(Newest + 1)]
    /\ batch \in [armed : BOOLEAN, threads : SUBSET Threads]
    /\ ToSet(inbox) \subseteq [kind : {"messages", "thread_deleted", "connected"},
                               thread : Threads \cup {AnyThread}]
    /\ sel \in Threads \cup {None}
    /\ win \in [thread : Threads \cup {None}, rows : SUBSET Ids, loading : BOOLEAN,
                pending : Threads \cup {None}, fetched : SUBSET Threads, prev : Nat]
    /\ ToSet(loads) \subseteq [thread : Threads, read : BOOLEAN, rows : SUBSET Ids]

\* A message the pane does not show yet is on its way: while the database has one
\* of the open conversation that the pane lacks, a batch or a notification that
\* concerns the conversation, the refresh timer, a load still to be served, or one
\* that carries the message will bring it, however these interleave with switches
\* of conversation. (The converse fails: a deletion names no conversation, so one
\* that shares its batch with a message of another leaves the pane as it is.)
MissingIsNoticed ==
    \A t \in Threads : sel = t /\ ~(db[t] \subseteq win.rows) =>
        \/ t \in batch.threads \/ due
        \/ \E n \in ToSet(inbox) : n.kind = "messages" /\ n.thread \in {t, AnyThread}
        \/ \E l \in ToSet(loads) : l.thread = t /\ (l.read => db[t] \subseteq l.rows)
====================
