---------- MODULE QueryClient ----------
(***************************************************************************)
(* The desktop's paginated query client (src/sync/query-client.ts), the *)
(* WebSocket it talks through, and the phone's query server as the *)
(* protocol document describes it (pages in order, a sliding window that *)
(* each ACK moves by one page). *)
(*                                                                         *)
(* Every call of query()/queryStreaming() is a member of Queries and is *)
(* made once, so the call stands for its fresh queryId.  A page is its *)
(* number: page p of q carries the p-th part of q's answer, and the *)
(* complete answer is the set 1..PageCount[q]. *)
(***************************************************************************)
EXTENDS Naturals, Sequences, FiniteSets

CONSTANTS
    None,         \* null
    Queries,      \* the calls ever made of the client
    PageCount,    \* PageCount[q]: the pages the phone splits q's answer into
    Streaming,    \* the calls made through queryStreaming()
    Resource,     \* Resource[q]: the resource q names
    Aborters,     \* the streaming calls whose abort function is ever used
    Window        \* pages the phone sends ahead of the ACKs (20 in the docs)

ASSUME QueryClientAssumption ==
    /\ None \notin Queries
    /\ PageCount \in [Queries -> Nat \ {0}]
    /\ Streaming \subseteq Queries
    /\ Aborters \subseteq Streaming
    /\ Window \in Nat \ {0}

VARIABLES
    link,          \* the socket delivers what is sent
    sendMessage,   \* sendMessage !== null
    active,        \* the query in progress, or None
    queue,         \* the queued calls
    got,           \* active.pages: the page numbers stored
    receivedCount, \* active.receivedCount
    onPage,        \* active.onPage is set
    timer,         \* inactivityTimer: "off", "first" (10 min) or "idle" (30 s)
    outcome,       \* outcome[q]: what became of the caller's promise
    result,        \* result[q]: the pages the promise was resolved with
    streamed,      \* streamed[q]: the pages handed to q's onPage callback
    toPhone,       \* messages on their way to the phone
    toDesktop,     \* result pages on their way to the desktop
    sent, acked,   \* phone: pages of q sent, and acknowledged
    serving,       \* phone: the queries it is still answering
    orphaned       \* history: queries dropped by a resync on a live socket

client  == <<sendMessage, active, queue, got, receivedCount, onPage, timer>>
promise == <<outcome, result, streamed>>
phone   == <<sent, acked, serving, orphaned>>
vars    == <<link, client, promise, toPhone, toDesktop, phone>>

Query(q)  == [type |-> "query", q |-> q]
Ack(q)    == [type |-> "ack", q |-> q]
Cancel(q) == [type |-> "cancel", q |-> q]
Message   == [type : {"query", "ack", "cancel"}, q : Queries]
Page      == [q : Queries, page : Nat \ {0}]

Answer == [q \in Queries |-> 1..PageCount[q]]

Init ==
    /\ link = FALSE
    /\ sendMessage = FALSE
    /\ active = None
    /\ queue = <<>>
    /\ got = {}
    /\ receivedCount = 0
    /\ onPage = FALSE
    /\ timer = "off"
    /\ outcome = [q \in Queries |-> "idle"]
    /\ result = [q \in Queries |-> {}]
    /\ streamed = [q \in Queries |-> {}]
    /\ toPhone = <<>>
    /\ toDesktop = <<>>
    /\ sent = [q \in Queries |-> 0]
    /\ acked = [q \in Queries |-> 0]
    /\ serving = {}
    /\ orphaned = {}

--------------------
(* The client. *)

\* A socket that is not open swallows what is sent on it.
OnWire(msgs) == IF link /\ sendMessage THEN toPhone \o msgs ELSE toPhone

\* resetInactivityTimer(): ten minutes for the first page, 30 s from then on.
ShortTimerOnly(count) == "idle"
TimerForFirstPageOnly(count) == IF count = 0 THEN "first" ELSE "off"
TimerFor(count) == IF count = 0 THEN "first" ELSE "idle"

\* sendCancel() and the acknowledgement of a page.
NoCancel(q) == <<>>
CancelOfNobody(q) == <<Cancel(None)>>    \* active forgotten too early
CancelFor(q) == <<Cancel(q)>>
NoAck(q) == <<>>
AckFor(q) == <<Ack(q)>>

\* dispatch(): q becomes the query in progress; msgs goes out before it.
Dispatch(q, withOnPage, msgs) ==
    /\ active' = q
    /\ got' = {}
    /\ receivedCount' = 0
    /\ onPage' = withOnPage
    /\ timer' = TimerFor(0)
    /\ toPhone' = OnWire(Append(msgs, Query(q)))

\* No query in progress.
Idle ==
    /\ active' = None
    /\ got' = {}
    /\ receivedCount' = 0
    /\ onPage' = FALSE
    /\ timer' = "off"

LeaveQueue(msgs) == Idle /\ toPhone' = OnWire(msgs) /\ UNCHANGED queue

\* drainQueue() once active is null: the next call, without its onPage (a
\* queue entry has none).
DrainQueue(msgs) ==
    IF queue = <<>>
    THEN LeaveQueue(msgs)
    ELSE /\ Dispatch(Head(queue), FALSE, msgs)
         /\ queue' = Tail(queue)

Settle(q, how) == outcome' = [outcome EXCEPT ![q] = how]

EnqueueFirst(q) == <<q>> \o queue
Enqueue(q) == Append(queue, q)

\* query() and queryStreaming().
Call(q) ==
    /\ outcome[q] = "idle"
    /\ \/ /\ ~sendMessage
          /\ Settle(q, "refused")
          /\ UNCHANGED <<client, toPhone>>
       \/ /\ sendMessage /\ active # None
          /\ Settle(q, "waiting")
          /\ queue' = Enqueue(q)
          /\ UNCHANGED <<sendMessage, active, got, receivedCount, onPage, timer, toPhone>>
       \/ /\ sendMessage /\ active = None
          /\ Settle(q, "waiting")
          /\ Dispatch(q, q \in Streaming, <<>>)
          /\ UNCHANGED <<sendMessage, queue>>
    /\ UNCHANGED <<link, result, streamed, toDesktop, phone>>

\* The page belongs to the query in progress.
Expected(p) == p.q = active

\* receivedCount >= totalPages, once one more page is counted.
OneShort(q) == receivedCount + 2 >= PageCount[q]
IsLast(q) == receivedCount + 1 >= PageCount[q]

\* handleResultPage() for a page of a query that is not in progress.
PageOfUnknownQuery ==
    /\ toDesktop # <<>>
    /\ ~Expected(Head(toDesktop))
    /\ toDesktop' = Tail(toDesktop)
    /\ UNCHANGED <<link, client, promise, toPhone, phone>>

\* handleResultPage() for the query in progress; the last page runs
\* completeQuery(), which resolves the promise and drains the queue.
HandleResultPage ==
    /\ toDesktop # <<>>
    /\ Expected(Head(toDesktop))
    /\ toDesktop' = Tail(toDesktop)
    /\ LET page == Head(toDesktop).page IN
        /\ streamed' = IF onPage THEN [streamed EXCEPT ![active] = @ \cup {page}]
                                 ELSE streamed
        /\ \/ /\ IsLast(active)
              /\ Settle(active, "resolved")
              /\ result' = [result EXCEPT
                               ![active] = (got \cup {page}) \cap Answer[active]]
              /\ DrainQueue(AckFor(active))
           \/ /\ ~IsLast(active)
              /\ got' = got \cup {page}
              /\ receivedCount' = receivedCount + 1
              /\ timer' = TimerFor(receivedCount + 1)
              /\ toPhone' = OnWire(AckFor(active))
              /\ UNCHANGED <<active, queue, onPage, outcome, result>>
    /\ UNCHANGED <<link, sendMessage, phone>>

\* The inactivity timer's callback.
TimeoutKeepsActive ==
    /\ timer # "off"
    /\ Settle(active, "rejected")
    /\ timer' = "off"
    /\ toPhone' = OnWire(CancelFor(active))
    /\ UNCHANGED <<link, sendMessage, active, queue, got, receivedCount, onPage>>
    /\ UNCHANGED <<result, streamed, toDesktop, phone>>

Timeout ==
    /\ timer # "off"
    /\ active # None
    /\ Settle(active, "rejected")
    /\ DrainQueue(CancelFor(active))
    /\ UNCHANGED <<link, sendMessage, result, streamed, toDesktop, phone>>

\* The abort function queryStreaming() returned for q (none, if the call was
\* refused): it looks at the resource of the query in progress, not at q.
Abort(q) ==
    /\ outcome[q] \notin {"idle", "refused"}
    /\ active # None
    /\ Resource[active] = Resource[q]
    /\ Settle(active, "rejected")
    /\ DrainQueue(CancelFor(active))
    /\ UNCHANGED <<link, sendMessage, result, streamed, toDesktop, phone>>

\* clearSendFunction(): the query in progress and every queued one fail.
RejectAll ==
    /\ Idle
    /\ queue' = <<>>
    /\ outcome' = [q \in Queries |->
                      IF q = active \/ \E i \in DOMAIN queue : queue[i] = q
                      THEN "rejected" ELSE outcome[q]]
    /\ UNCHANGED <<result, streamed>>

--------------------
(* The connection. *)

\* Whatever was in transit is lost and the phone drops its query state.
LoseChannel ==
    /\ toPhone' = <<>>
    /\ toDesktop' = <<>>
    /\ serving' = {}
    /\ UNCHANGED <<sent, acked, orphaned>>

\* The network drops; nobody has noticed yet.
LinkBreaks ==
    /\ link
    /\ link' = FALSE
    /\ LoseChannel
    /\ UNCHANGED <<client, promise>>

\* daemon.onDisconnection: cleanupConnection -> clearSendFunction().
Disconnected ==
    /\ sendMessage /\ ~link
    /\ sendMessage' = FALSE
    /\ RejectAll
    /\ UNCHANGED <<link, toPhone, toDesktop, phone>>

\* daemon.onConnection of a paired phone: clearSendFunction(), then
\* setSendFunction() on the new socket.  An older socket may still have been
\* registered; it is closed and its messages are dropped.
Connected ==
    /\ link' = TRUE
    /\ sendMessage' = TRUE
    /\ RejectAll
    /\ LoseChannel

\* daemon.resync(): clearSendFunction() and setSendFunction() on the socket
\* that stays open, so the phone and the channels are not told.
Rewire ==
    /\ sendMessage
    /\ RejectAll
    /\ orphaned' = IF active = None THEN orphaned ELSE orphaned \cup {active}
    /\ UNCHANGED <<link, sendMessage, toPhone, toDesktop, sent, acked, serving>>

--------------------
(* The phone's query server. *)

PhoneReceives ==
    /\ toPhone # <<>>
    /\ toPhone' = Tail(toPhone)
    /\ LET m == Head(toPhone) IN
        \/ /\ m.type = "query"
           /\ serving' = serving \cup {m.q}
           /\ UNCHANGED acked
        \/ /\ m.type = "ack"
           /\ acked' = [acked EXCEPT ![m.q] = @ + 1]
           /\ serving' = IF acked[m.q] + 1 = PageCount[m.q]
                         THEN serving \ {m.q} ELSE serving
        \/ /\ m.type = "cancel"
           /\ serving' = serving \ {m.q}
           /\ UNCHANGED acked
    /\ UNCHANGED <<link, client, promise, toDesktop, sent, orphaned>>

PhoneSendsPage(q) ==
    /\ q \in serving
    /\ sent[q] < PageCount[q]
    /\ sent[q] < acked[q] + Window
    /\ sent' = [sent EXCEPT ![q] = @ + 1]
    /\ toDesktop' = Append(toDesktop, [q |-> q, page |-> sent[q] + 1])
    /\ UNCHANGED <<link, client, promise, toPhone, acked, serving, orphaned>>

--------------------
Next ==
    \/ \E q \in Queries : Call(q)
    \/ PageOfUnknownQuery
    \/ HandleResultPage
    \/ Timeout
    \/ \E q \in Aborters : Abort(q)
    \/ LinkBreaks
    \/ Disconnected
    \/ Connected
    \/ Rewire
    \/ PhoneReceives
    \/ \E q \in Queries : PhoneSendsPage(q)

\* A timer that is armed fires unless it is cleared first, and what lies in a
\* channel is delivered.  Nothing is assumed of the callers or of the network.
Spec ==
    /\ Init /\ [][Next]_vars
    /\ WF_vars(Timeout)
    /\ WF_vars(HandleResultPage)
    /\ WF_vars(PageOfUnknownQuery)

--------------------
(* Properties. *)

TypeOK ==
    /\ link \in BOOLEAN
    /\ sendMessage \in BOOLEAN
    /\ active \in Queries \cup {None}
    /\ queue \in Seq(Queries)
    /\ got \subseteq Nat \ {0}
    /\ receivedCount \in Nat
    /\ onPage \in BOOLEAN
    /\ timer \in {"off", "first", "idle"}
    /\ outcome \in [Queries -> {"idle", "refused", "waiting", "resolved", "rejected"}]
    /\ result \in [Queries -> SUBSET (Nat \ {0})]
    /\ streamed \in [Queries -> SUBSET (Nat \ {0})]
    /\ toPhone \in Seq(Message)
    /\ toDesktop \in Seq(Page)
    /\ sent \in [Queries -> Nat]
    /\ acked \in [Queries -> Nat]
    /\ serving \subseteq Queries
    /\ orphaned \subseteq Queries

\* The calls that wait, the query in progress first.
Line == IF active = None THEN queue ELSE <<active>> \o queue

\* A promise that is resolved holds every page of its own answer, whatever
\* timeouts, cancellations and reconnections its pages overlapped with.
ResolvedIsComplete ==
    \A q \in Queries : outcome[q] = "resolved" => result[q] = Answer[q]

\* Nobody waits forgotten: a promise is unsettled exactly while its call is
\* the query in progress or stands in the queue, once; the queue is never
\* left standing with nothing in progress to drain it, and the query in
\* progress always has a timer to end it.
NobodyForgotten ==
    /\ \A q \in Queries :
          outcome[q] = "waiting" <=> \E i \in DOMAIN Line : Line[i] = q
    /\ \A i, j \in DOMAIN Line : Line[i] = Line[j] => i = j
    /\ active = None => queue = <<>>
    /\ active # None <=> timer # "off"

\* The short page-to-page timer never guards a phone that is still computing
\* its first page (query-client.ts:41-52 gives that phone ten minutes).
FirstPageHasItsBudget ==
    (active # None /\ got = {}) => timer = "first"

\* A call that waits is never left to nobody, and never given up too early.
EveryoneIsAwaited == NobodyForgotten /\ FirstPageHasItsBudget

\* A promise settles at most once, and what it was resolved with stays.
SettledForGood ==
    [][\A q \in Queries :
          outcome[q] \in {"refused", "resolved", "rejected"} =>
             outcome'[q] = outcome[q] /\ result'[q] = result[q]]_vars

\* The phone is never left working for nobody: a query it serves and still
\* has pages to send for is the one in progress, or its cancellation is on
\* the way ("Tell the phone to stop walking", query-client.ts:294) - or it is
\* one that a resync on the live socket dropped without a word.
NoAbandonedWork ==
    \A q \in serving :
        sent[q] < PageCount[q] =>
            \/ q = active
            \/ q \in orphaned
            \/ \E i \in DOMAIN toPhone : toPhone[i] = Cancel(q)

\* No credit of the phone's window is lost: each page it sent for the query
\* in progress is acknowledged, or on its way, or its ACK is.
CreditsConserved ==
    (link /\ active # None) =>
        sent[active] = acked[active]
            + Cardinality({i \in DOMAIN toPhone : toPhone[i] = Ack(active)})
            + Cardinality({i \in DOMAIN toDesktop : toDesktop[i].q = active})

\* The phone's window is neither left open for nobody nor leaked.
WindowIsKept == NoAbandonedWork /\ CreditsConserved

\* Every call ends, even if the phone never says a word.
EveryCallSettles ==
    \A q \in Queries : outcome[q] = "waiting" ~> outcome[q] # "waiting"

\* The client implements the line of calls its callers are promised.
Promised == INSTANCE QueryLine WITH line <- Line
PromiseSpec == Promised!Spec
PromiseSafeSpec == Promised!SafeSpec

\* query-client.ts:116, queryStreaming(): "calls onPage for each page as it
\* arrives".
StreamsEveryPage ==
    \A q \in Streaming : outcome[q] = "resolved" => streamed[q] = Answer[q]
====================
