---------- MODULE SendQueue ----------
(* Sending a message: the optimistic entry ("ghost") of the renderer's *)
(* send-queue store, the daemon's send queue with its two-minute timer, the *)
(* flush on every connection, the phone, and the real message that comes back *)
(* and replaces the ghost. The call sms.send, its reply, the notification *)
(* sms.send_status and the new rows overtake one another. *)
(*                                                                            *)
(* One conversation, which begins in the compose view or as a thread. A row *)
(* matches a ghost when body and date agree: the date window is a free choice *)
(* (cleared, matched). Attachment-only messages have no body and never match. *)
EXTENDS Naturals, Sequences, FiniteSets

CONSTANTS
    MaxSends,       \* bound on messages, retries included
    Contents, Texts,\* what is sent; Texts have a body
    MaxConnects,    \* bound on connections of the phone
    None

ASSUME SendAssumption ==
    /\ MaxSends \in Nat /\ MaxConnects \in Nat
    /\ Texts \subseteq Contents
    /\ None \notin Contents \cup {"sent", "timeout", "failed"}

VARIABLES
    view,           \* compose or thread; has the compose view sent; is the thread known
    content,        \* content of each message, None before it is sent
    ghost,          \* status of its pending entry
    store,          \* the store's maps, keyed by message, and its removal timers
    call,           \* the invocation of sms.send
    cancels,        \* sms.cancel_send on their way to the daemon
    daemon,         \* sendQueue and the timers of flushes
    link,           \* the connection and what is on the wire
    notes,          \* sms.send_status on their way to the renderer
    phone,          \* messages the phone has sent
    rows,           \* texts stored by the daemon, and shown by the thread
    excused         \* history: taken off the screen by the user, the compose view or an unpair

vars == <<view, content, ghost, store, call, cancels, daemon, link, notes, phone, rows, excused>>

Sends == 1..MaxSends
Statuses == {"sent", "timeout", "failed"}
Ghosts == {"none", "sending"} \cup Statuses

TypeOK ==
    /\ view \in [mode : {"compose", "thread"}, sent : BOOLEAN, found : BOOLEAN]
    /\ content \in [Sends -> Contents \cup {None}]
    /\ ghost \in [Sends -> Ghosts]
    /\ store.temp \subseteq Sends /\ store.known \subseteq Sends /\ store.skipped \subseteq Sends
    /\ store.mapped \subseteq Sends /\ store.timers \subseteq Sends
    /\ store.early \in [Sends -> Statuses \cup {None}]
    /\ call \in [Sends -> {"idle", "asked", "replied", "refused", "over"}]
    /\ cancels \subseteq Sends
    /\ daemon.queue \in Seq(Sends)
    /\ daemon.ticks \in [Sends -> 0..MaxConnects]
    /\ link.up \in BOOLEAN /\ link.connects \in 0..MaxConnects
    /\ link.down \in Seq(Sends) /\ link.answers \subseteq Sends \X {"sent", "failed"}
    /\ notes \subseteq Sends \X Statuses
    /\ phone \subseteq Sends
    /\ rows \in [stored : SUBSET Texts, shown : SUBSET Texts]
    /\ excused \subseteq Sends
    /\ \A s \in store.timers : ghost[s] = "sent"
    /\ \A s \in Sends : ghost[s] # "none" => content[s] # None

Init ==
    /\ view \in {[mode |-> "compose", sent |-> FALSE, found |-> FALSE],
                 [mode |-> "thread", sent |-> FALSE, found |-> TRUE]}
    /\ content = [s \in Sends |-> None]
    /\ ghost = [s \in Sends |-> "none"]
    /\ store = [temp |-> {}, known |-> {}, skipped |-> {}, mapped |-> {}, timers |-> {},
                early |-> [s \in Sends |-> None]]
    /\ call = [s \in Sends |-> "idle"]
    /\ cancels = {}
    /\ daemon = [queue |-> <<>>, ticks |-> [s \in Sends |-> 0]]
    /\ link = [up |-> FALSE, connects |-> 0, down |-> <<>>, answers |-> {}]
    /\ notes = {}
    /\ phone = {}
    /\ rows = [stored |-> {}, shown |-> {}]
    /\ excused = {}

Shown == {s \in Sends : ghost[s] # "none"}
Queued(s) == \E i \in DOMAIN daemon.queue : daemon.queue[i] = s
\* Map.delete() of an entry that is there.
Without(q, s) ==
    LET k == CHOOSE i \in DOMAIN q : q[i] = s
    IN  SubSeq(q, 1, k - 1) \o SubSeq(q, k + 1, Len(q))
renderer == <<view, content, ghost, store, call, excused>>
backend == <<daemon, link, notes, phone>>

--------------------
(* The renderer's store: removing ghosts *)

\* temp and known are fields of the entry, and go with it.
Forget(st, S) == [st EXCEPT !.temp = @ \ S, !.known = @ \ S]

\* Mutation of the next definition.
RemovedKeepTimer(S) ==
    /\ ghost' = [s \in Sends |-> IF s \in S THEN "none" ELSE ghost[s]]
    /\ store' = Forget([store EXCEPT !.mapped = @ \ (S \cap store.known)], S)
\* removeGhost(), clearSentMessages(), clearPendingForThread(): the entry, its timer
\* and, when the daemon's id is known, its mapping.
Removed(S) ==
    /\ ghost' = [s \in Sends |-> IF s \in S THEN "none" ELSE ghost[s]]
    /\ store' = Forget([store EXCEPT !.timers = @ \ S, !.mapped = @ \ (S \cap store.known)], S)

\* The 5 s timer of a message that was reported sent.
RemovalTimer(s) ==
    /\ s \in store.timers
    /\ ghost' = [ghost EXCEPT ![s] = "none"]
    /\ store' = Forget([store EXCEPT !.timers = @ \ {s}, !.mapped = @ \ {s}], {s})
    /\ UNCHANGED <<view, content, call, cancels, backend, rows, excused>>

--------------------
(* The user *)

\* sendMessage() up to its await: a ghost, unless the rows on screen have the message.
Submit(s, c, temp, matched) ==
    LET skip == matched /\ ~temp /\ c \in Texts /\ c \in rows.shown
    IN  /\ call[s] = "idle" /\ \A t \in Sends : t < s => call[t] # "idle"
        /\ content' = [content EXCEPT ![s] = c]
        /\ call' = [call EXCEPT ![s] = "asked"]
        /\ store' = [store EXCEPT !.temp = IF temp THEN @ \cup {s} ELSE @,
                                  !.skipped = IF skip THEN @ \cup {s} ELSE @]
        /\ ghost' = [ghost EXCEPT ![s] = IF skip THEN "none" ELSE "sending"]

\* handleSend() of MessageThread.
ThreadSend(s, c, matched) ==
    /\ view.mode = "thread"
    /\ Submit(s, c, FALSE, matched)
    /\ UNCHANGED <<view, cancels, backend, rows, excused>>

\* handleSend() of NewConversation: the ghost belongs to the temporary thread -1.
ComposeSend(s, c) ==
    /\ view.mode = "compose"
    /\ Submit(s, c, TRUE, FALSE)
    /\ view' = [view EXCEPT !.sent = TRUE]
    /\ UNCHANGED <<cancels, backend, rows, excused>>

\* The views offer Cancel while a message is being sent, or has failed; the compose
\* view shows nothing for "failed".
CanCancel(s) == ghost[s] \in {"sending", "timeout"} \cup (IF view.mode = "thread" THEN {"failed"} ELSE {})
CanRetry(s) == ghost[s] = "timeout" \/ (ghost[s] = "failed" /\ view.mode = "thread")

\* Before the reply to sms.send the daemon's id is not known, and nothing is cancelled there.
CancelSend(s) ==
    /\ CanCancel(s)
    /\ ghost' = [ghost EXCEPT ![s] = "none"]
    /\ store' = Forget([store EXCEPT !.mapped = @ \ ({s} \cap store.known)], {s})
    /\ cancels' = cancels \cup ({s} \cap store.known)
    /\ excused' = excused \cup {s}
    /\ UNCHANGED <<view, content, call, backend, rows>>

RetrySend(s, t, matched) ==
    LET temp == s \in store.temp
        skip == matched /\ ~temp /\ content[s] \in Texts /\ content[s] \in rows.shown
    IN  /\ CanRetry(s)
        /\ call[t] = "idle" /\ \A u \in Sends : u < t => call[u] # "idle"
        /\ content' = [content EXCEPT ![t] = content[s]]
        /\ call' = [call EXCEPT ![t] = "asked"]
        /\ ghost' = [ghost EXCEPT ![s] = "none", ![t] = IF skip THEN "none" ELSE "sending"]
        /\ store' = Forget([store EXCEPT !.mapped = @ \ ({s} \cap store.known),
                                         !.temp = IF temp THEN @ \cup {t} ELSE @,
                                         !.skipped = IF skip THEN @ \cup {t} ELSE @], {s})
        /\ excused' = excused \cup {s}
        /\ UNCHANGED <<view, cancels, backend, rows>>

\* NewConversation goes to the real thread as soon as one exists.
EnterThread ==
    LET S == Shown \cap store.temp
    IN  /\ view.mode = "compose" /\ view.sent /\ view.found
        /\ view' = [mode |-> "thread", sent |-> FALSE, found |-> TRUE]
        /\ Removed(S)
        /\ excused' = excused \cup S
        /\ UNCHANGED <<content, call, cancels, backend, rows>>

\* resetAppData() on unpair. The daemon's queue is left as it is.
ResetSendQueue ==
    /\ Shown # {}
    /\ ghost' = [s \in Sends |-> "none"]
    /\ store' = Forget([store EXCEPT !.timers = {}, !.mapped = {},
                                     !.early = [s \in Sends |-> None]], Sends)
    /\ excused' = excused \cup Shown
    /\ rows' = [stored |-> {}, shown |-> {}]
    /\ UNCHANGED <<view, content, call, cancels, backend>>

--------------------
(* Replies and notifications *)

\* Mutation of the next definition.
AppliedBlindly(g, s, st) == [g EXCEPT ![s] = st]
\* applyStatus(): a status for a ghost that is gone is dropped.
Applied(g, s, st) == IF g[s] = "none" THEN g ELSE [g EXCEPT ![s] = st]

\* sendMessage() after its await.
SendReplied(s) ==
    LET st == store.early[s]
        skip == s \in store.skipped
        apply == ~skip /\ st # None
    IN  /\ call[s] = "replied"
        /\ call' = [call EXCEPT ![s] = "over"]
        /\ ghost' = IF apply THEN Applied(ghost, s, st) ELSE ghost
        /\ store' = [store EXCEPT
               !.mapped = IF skip THEN @ ELSE @ \cup {s},
               !.known = IF ~skip /\ ghost[s] # "none" THEN @ \cup {s} ELSE @,
               !.skipped = @ \ {s},
               !.early[s] = None,
               !.timers = IF apply /\ st = "sent" /\ ghost[s] # "none" THEN @ \cup {s} ELSE @]
        /\ UNCHANGED <<view, content, cancels, backend, rows, excused>>

SendRefused(s) ==
    /\ call[s] = "refused"
    /\ call' = [call EXCEPT ![s] = "over"]
    /\ ghost' = Applied(ghost, s, "timeout")
    /\ store' = [store EXCEPT !.skipped = @ \ {s}]
    /\ UNCHANGED <<view, content, cancels, backend, rows, excused>>

\* handleSendStatus(): mapped, or kept for the reply that has not come yet.
\* Mutation of the next definition.
DropEarly(s, st) ==
    /\ ghost' = IF s \in store.mapped THEN Applied(ghost, s, st) ELSE ghost
    /\ store' = [store EXCEPT !.timers = IF s \in store.mapped /\ st = "sent" /\ ghost[s] # "none"
                                         THEN @ \cup {s} ELSE @]
SendStatus(s, st) ==
    /\ ghost' = IF s \in store.mapped THEN Applied(ghost, s, st) ELSE ghost
    /\ store' = [store EXCEPT
           !.timers = IF s \in store.mapped /\ st = "sent" /\ ghost[s] # "none" THEN @ \cup {s} ELSE @,
           !.early[s] = IF s \in store.mapped THEN @ ELSE st]

HandleSendStatus(s, st) ==
    /\ <<s, st>> \in notes
    /\ notes' = notes \ {<<s, st>>}
    /\ SendStatus(s, st)
    /\ UNCHANGED <<view, content, call, cancels, daemon, link, phone, rows, excused>>

\* Mutation of the next definition.
MatchingEmpty == {s \in Shown \ store.temp : rows.stored # {}}
\* doLoadThread() of the conversation: clearMatchingPending(), then clearSentMessages().
Matching == {s \in Shown \ store.temp : content[s] \in Texts \cap rows.stored}
LoadThread(cleared) ==
    /\ view.mode = "thread"
    /\ cleared \subseteq Matching
    /\ rows' = [rows EXCEPT !.shown = rows.stored]
    /\ Removed(cleared \cup {s \in Shown : ghost[s] = "sent"})
    /\ UNCHANGED <<view, content, call, cancels, backend, excused>>

--------------------
(* The daemon *)

\* trySendQueued() for an entry that is in the queue.
Dispatched(l, s) == IF l.up THEN [l EXCEPT !.down = Append(@, s)] ELSE l

\* sms.send: queueMessage(), which tries at once.
QueueMessage(s) ==
    /\ call[s] = "asked"
    /\ call' = [call EXCEPT ![s] = "replied"]
    /\ daemon' = [daemon EXCEPT !.queue = Append(@, s)]
    /\ link' = Dispatched(link, s)
    /\ UNCHANGED <<view, content, ghost, store, cancels, notes, phone, rows, excused>>

\* An attachment cannot be read, or the embedded daemon is not running.
RefuseMessage(s) ==
    /\ call[s] = "asked"
    /\ call' = [call EXCEPT ![s] = "refused"]
    /\ UNCHANGED <<view, content, ghost, store, cancels, backend, rows, excused>>

\* cancelSend() of the daemon: true if the entry was still in the queue.
DaemonCancel(s) ==
    /\ s \in cancels
    /\ cancels' = cancels \ {s}
    /\ daemon' = IF Queued(s)
                 THEN [daemon EXCEPT !.queue = Without(@, s)]
                 ELSE daemon
    /\ UNCHANGED <<renderer, link, notes, phone, rows>>

Answer(s, st) ==
    /\ daemon' = [daemon EXCEPT !.queue = Without(@, s)]
    /\ notes' = notes \cup {<<s, st>>}

\* The two-minute timer of an entry.
SendTimeout(s) ==
    /\ Queued(s)
    /\ Answer(s, "timeout")
    /\ UNCHANGED <<renderer, cancels, link, phone, rows>>

\* handleSendStatusResponse(): an answer for an entry that is gone is ignored.
HandleSendStatusResponse(s, st) ==
    /\ <<s, st>> \in link.answers
    /\ link' = [link EXCEPT !.answers = @ \ {<<s, st>>}]
    /\ IF Queued(s) THEN Answer(s, st) ELSE UNCHANGED <<daemon, notes>>
    /\ UNCHANGED <<renderer, cancels, phone, rows>>

\* A connection flushes the queue: the first entry at once, the others on timers.
FlushSendQueue ==
    /\ ~link.up /\ link.connects < MaxConnects
    /\ LET l == [link EXCEPT !.up = TRUE, !.connects = @ + 1]
           q == daemon.queue
       IN  IF q = <<>>
           THEN link' = l /\ UNCHANGED daemon
           ELSE /\ link' = Dispatched(l, Head(q))
                /\ daemon' = [daemon EXCEPT !.ticks =
                       [s \in Sends |-> IF \E i \in DOMAIN Tail(q) : Tail(q)[i] = s
                                        THEN @[s] + 1 ELSE @[s]]]
    /\ UNCHANGED <<renderer, cancels, notes, phone, rows>>

\* Mutation of the next definition.
DispatchUnchecked(s) == link' = Dispatched(link, s)
TrySendQueued(s) == link' = IF Queued(s) THEN Dispatched(link, s) ELSE link

FlushTimer(s) ==
    /\ daemon.ticks[s] > 0
    /\ daemon' = [daemon EXCEPT !.ticks[s] = @ - 1]
    /\ TrySendQueued(s)
    /\ UNCHANGED <<renderer, cancels, notes, phone, rows>>

--------------------
(* The phone *)

\* The connection breaks: what is on the wire is lost.
Disconnect ==
    /\ link.up
    /\ link' = [link EXCEPT !.up = FALSE, !.down = <<>>, !.answers = {}]
    /\ UNCHANGED <<renderer, cancels, daemon, notes, phone, rows>>

\* The phone sends the message, or not, and says so, or says nothing.
PhoneSends(ok, answers) ==
    /\ link.down # <<>>
    /\ LET s == Head(link.down)
       IN  /\ phone' = IF ok THEN phone \cup {s} ELSE phone
           /\ link' = [link EXCEPT !.down = Tail(@),
                          !.answers = IF answers THEN @ \cup {<<s, IF ok THEN "sent" ELSE "failed">>} ELSE @]
    /\ UNCHANGED <<renderer, cancels, daemon, notes, rows>>

\* The message the phone has sent is synchronised; a new thread becomes known by it.
MessageStored(s) ==
    /\ s \in phone /\ (~view.found \/ content[s] \in Texts \ rows.stored)
    /\ rows' = [rows EXCEPT !.stored = @ \cup ({content[s]} \cap Texts)]
    /\ view' = [view EXCEPT !.found = TRUE]
    /\ UNCHANGED <<content, ghost, store, call, cancels, backend, excused>>

--------------------
Reply(s) == SendReplied(s) \/ SendRefused(s)
Deliver(s) == \E st \in Statuses : HandleSendStatus(s, st)

Next ==
    \/ \E s \in Sends :
           \/ \E c \in Contents, matched \in BOOLEAN : ThreadSend(s, c, matched)
           \/ \E c \in Contents : ComposeSend(s, c)
           \/ CancelSend(s)
           \/ \E t \in Sends, matched \in BOOLEAN : RetrySend(s, t, matched)
           \/ Reply(s)
           \/ Deliver(s)
           \/ RemovalTimer(s)
           \/ QueueMessage(s)
           \/ RefuseMessage(s)
           \/ DaemonCancel(s)
           \/ SendTimeout(s)
           \/ \E st \in {"sent", "failed"} : HandleSendStatusResponse(s, st)
           \/ FlushTimer(s)
           \/ MessageStored(s)
    \/ \E cleared \in SUBSET Sends : LoadThread(cleared)
    \/ EnterThread
    \/ ResetSendQueue
    \/ FlushSendQueue
    \/ Disconnect
    \/ \E ok, answers \in BOOLEAN : PhoneSends(ok, answers)

Safety == Init /\ [][Next]_vars

\* Calls return, notifications arrive and timers fire; nothing is owed by the phone,
\* the network or the user.
Fairness ==
    \A s \in Sends :
        /\ WF_vars(QueueMessage(s) \/ RefuseMessage(s)) /\ WF_vars(Reply(s))
        /\ WF_vars(SendTimeout(s)) /\ WF_vars(Deliver(s)) /\ WF_vars(RemovalTimer(s))

Spec == Safety /\ Fairness

--------------------
(* Properties *)

Stage(s) == IF content[s] = None THEN "unused"
            ELSE IF ghost[s] = "none" THEN "closed" ELSE ghost[s]

Promise == INSTANCE Outbox WITH stage <- [s \in Sends |-> Stage(s)], delivered <- phone

\* The store and the queue together keep the outbox's promise: one outcome for each
\* message, "sent" only of a message the phone has sent, and none after it was closed.
OutboxSpec == Promise!Init /\ [][Promise!Next]_Promise!vars

\* A message leaves the screen on its own only when a message of the same content has
\* been sent; otherwise its user cancelled or retried it, the compose view made way for
\* the thread, or the device was unpaired.
NothingSilentlyLost ==
    \A s \in Sends :
        content[s] # None /\ ghost[s] = "none" /\ s \notin excused =>
            \E t \in Sends : content[t] = content[s] /\ t \in phone

\* What has left the daemon's queue, at the user's word or with an outcome, is never
\* dispatched again, whatever flush timers and connections are still to come.
Times(q, s) == Cardinality({i \in DOMAIN q : q[i] = s})
GoneStaysGone ==
    [][\A s \in Sends : call[s] \in {"replied", "over"} /\ ~Queued(s) =>
                        Times(link.down', s) <= Times(link.down, s)]_vars

\* The outbox keeps its promise, and the daemon its own.
OutboxIsKept == OutboxSpec /\ GoneStaysGone

\* No message stays at "Sending...", in whatever order reply, status and timer come.
EverySendSettles == \A s \in Sends : (ghost[s] = "sending") ~> (ghost[s] # "sending")
====================
