---------- MODULE AttachmentDownload_proofs ----------
(* The download queue is never held back by nothing and never lets two *)
(* requests out, and no attachment has more requests, payload sockets and *)
(* ffmpeg processes together than callers: for any number of callers, *)
(* attachments and broken connections. *)
(* *)
(* The rest is about the windows that wait for what the daemon fetches: *)
(* AttachmentStates (Spinners) and LinkPreviews (Previews); and, with the names *)
(* that MCDesktop gives, about what it hears of the daemon, in whatever order: *)
(* Relays, the phone's own status and notes (Status), and Shell (Bridge). *)
EXTENDS AttachmentDownload, Integers, FiniteSets, FiniteSetTheorems, SequenceTheorems, TLAPS

CONSTANTS
    Rows, MaxRetries, MaxClicks, MaxTrouble, MaxCalls,                     \* AttachmentStates
    Links, Refused, Calls, MaxConcurrent, MaxResets, MaxEdits,                 \* LinkPreviews
    Levels, Notes, MaxTells, MaxStatusTurns, MaxInbox, \* Relays
    MaxEvents, MaxGuiClicks, MaxPolls, MaxWay \* Shell

VARIABLES
    stored, sel, flagged, range, states, timers, notices, up, clicks, trouble, \* AttachmentStates
    store, made, url, phase, active, queue, cached, draft, resets, edits,      \* LinkPreviews
    statusPhone, statusUp, statusAsked, statusWire, statusDaemon, rows, session, statusInbox,
    statusWindow, tells, statusTurns, \* Relays
    bridge, guiDaemon, guiWindow, guiCalls, guiInbox, events, guiClicks, polls \* Shell

Spinners == INSTANCE AttachmentStates
Previews == INSTANCE LinkPreviews
Status == INSTANCE Relays WITH
        MaxTurns <- MaxStatusTurns, phone <- statusPhone, up <- statusUp, asked <- statusAsked,
        wire <- statusWire, daemon <- statusDaemon, inbox <- statusInbox, window <- statusWindow,
        turns <- statusTurns
Bridge == INSTANCE Shell WITH
        MaxClicks <- MaxGuiClicks, daemon <- guiDaemon, window <- guiWindow, calls <- guiCalls,
        inbox <- guiInbox, clicks <- guiClicks

Items == [attachment : Attachments, caller : Callers]

(* The handler's state. What is on the wire plays no role here. *)
Downloads ==
    [queue : Seq(Items), inFlight : BOOLEAN,
     pending : [Attachments -> Pending \cup {NoPending}],
     timers : SUBSET Items, asked : [Attachments -> Nat]]

Served(d, online) == online /\ d.queue # <<>> => d.inFlight

Inv ==
    /\ downloads \in Downloads
    /\ connected \in BOOLEAN
    /\ OneOpen(downloads)
    /\ Served(downloads, connected)

--------------------

LEMMA Strangers == NoPending \notin Pending
BY AttachmentAssumption DEF NoPending, Pending

(* Updates of the handler's state keep its type. *)
LEMMA QueueUpdate ==
    ASSUME NEW d \in Downloads, NEW q \in Seq(Items)
    PROVE  [d EXCEPT !.queue = q] \in Downloads
BY DEF Downloads

LEMMA WireUpdate ==
    ASSUME NEW d \in Downloads, NEW a \in Attachments, NEW n \in Nat
    PROVE  [d EXCEPT !.asked[a] = n] \in Downloads
BY DEF Downloads

(* A request goes out from a handler with nothing open. *)
LEMMA InFlightIsOne ==
    ASSUME NEW d \in Downloads, NEW item \in Items, Open(d) = {}, d.timers = {}
    PROVE  /\ InFlight(d, item) \in Downloads
           /\ OneOpen(InFlight(d, item))
           /\ InFlight(d, item).inFlight
<1> DEFINE e == InFlight(d, item)
           p == [owner |-> item.caller, joined |-> {}]
           at == item.attachment
           n == d.asked[at] + 1
<1>1. p \in Pending /\ at \in Attachments /\ item.caller \in Callers BY DEF Items, Pending
<1>2. n \in Nat BY <1>1 DEF Downloads
<1>3. e = [d EXCEPT !.inFlight = TRUE, !.pending[at] = p,
                    !.timers = @ \cup {item}, !.asked[at] = n]
  BY DEF InFlight
<1>4. /\ e \in Downloads /\ e.inFlight = TRUE
      /\ e.pending = [d.pending EXCEPT ![at] = p]
      /\ e.timers = d.timers \cup {item}
  <2> HIDE DEF e, p, at, n
  <2> QED BY <1>1, <1>2, <1>3 DEF Downloads
<1>5. d.pending \in [Attachments -> Pending \cup {NoPending}] BY DEF Downloads
<1>6. Open(e) = {at}
  <2>1. e.pending[at] # NoPending
    <3>1. e.pending[at] = p
      <4> HIDE DEF e, p
      <4> QED BY <1>1, <1>4, <1>5
    <3> QED BY <1>1, <3>1, Strangers
  <2>2. ASSUME NEW b \in Attachments, b # at PROVE e.pending[b] = NoPending
    BY <1>4, <1>5, <2>2 DEF Open, HasPending
  <2> QED BY <1>1, <2>1, <2>2 DEF Open, HasPending
<1>7. e.pending[at].owner = item.caller BY <1>1, <1>4, <1>5
<1>8. item = Item(at, item.caller) BY DEF Items, Item
<1>9. OneOpen(e) BY <1>4, <1>6, <1>7, <1>8 DEF OneOpen
<1> QED BY <1>4, <1>9

(* processDownloadQueue() keeps the flag, the entry and the timer together, *)
(* and leaves no queue waiting for nothing. *)
LEMMA ProcessKeepsOne ==
    ASSUME NEW d \in Downloads, NEW online \in BOOLEAN, OneOpen(d)
    PROVE  LET e == processDownloadQueue(d, online) IN
           e \in Downloads /\ OneOpen(e) /\ Served(e, online)
<1> DEFINE e == processDownloadQueue(d, online)
<1>1. CASE d.inFlight \/ d.queue = <<>> \/ ~online BY <1>1 DEF processDownloadQueue, Served
<1>2. CASE ~d.inFlight /\ d.queue # <<>> /\ online
  <2> DEFINE f == [d EXCEPT !.queue = Tail(@)]
  <2>1. e = InFlight(f, Head(d.queue)) BY <1>2 DEF processDownloadQueue
  <2>2. Head(d.queue) \in Items /\ Tail(d.queue) \in Seq(Items) BY <1>2 DEF Downloads
  <2>3. /\ f \in Downloads
        /\ f.pending = d.pending /\ f.timers = d.timers
    BY <2>2 DEF Downloads
  <2>4. Open(f) = {} /\ f.timers = {} BY <1>2, <2>3 DEF OneOpen, Open, HasPending
  <2>5. e \in Downloads /\ OneOpen(e) /\ e.inFlight BY <2>1, <2>2, <2>3, <2>4, InFlightIsOne
  <2> QED BY <2>5 DEF Served
<1> QED BY <1>1, <1>2

(* The entry of a download goes, with its flag and its timer: what resolve, *)
(* reject and the timer do before they look at the queue. *)
LEMMA ClearedIsNone ==
    ASSUME NEW d \in Downloads, OneOpen(d), NEW a \in Attachments, HasPending(d, a)
    PROVE  LET e == [d EXCEPT !.pending[a] = NoPending, !.inFlight = FALSE,
                              !.timers = @ \ {Item(a, d.pending[a].owner)}] IN
           e \in Downloads /\ OneOpen(e)
<1> DEFINE e == [d EXCEPT !.pending[a] = NoPending, !.inFlight = FALSE,
                          !.timers = @ \ {Item(a, d.pending[a].owner)}]
<1>1. /\ e.queue = d.queue /\ e.inFlight = FALSE
      /\ e.pending = [d.pending EXCEPT ![a] = NoPending]
      /\ e.timers = d.timers \ {Item(a, d.pending[a].owner)}
      /\ e.asked = d.asked
  BY DEF Downloads
<1>2. e \in Downloads BY DEF Downloads
<1>3. Open(d) = {a} BY DEF OneOpen, Open
<1>4. d.timers = {Item(a, d.pending[a].owner)} BY <1>3 DEF OneOpen
<1>5. Open(e) = {} BY <1>1, <1>3 DEF Open, HasPending, Downloads
<1>6. OneOpen(e) BY <1>1, <1>4, <1>5 DEF OneOpen
<1> QED BY <1>2, <1>6

LEMMA SettledKeepsOne ==
    ASSUME NEW d \in Downloads, OneOpen(d), NEW a \in Attachments, HasPending(d, a),
           connected \in BOOLEAN
    PROVE  Settled(d, a) \in Downloads /\ OneOpen(Settled(d, a)) /\ Served(Settled(d, a), connected)
BY ClearedIsNone, ProcessKeepsOne DEF Settled

LEMMA SettleKeepsOne ==
    ASSUME NEW d \in Downloads, OneOpen(d), Served(d, connected), NEW a \in Attachments,
           NEW outcome, connected \in BOOLEAN, Settle(d, a, outcome)
    PROVE  downloads' \in Downloads /\ OneOpen(downloads') /\ Served(downloads', connected)
BY SettledKeepsOne DEF Settle

(* What the flag, the entries, the timers and the queue say does not depend *)
(* on the wire. *)
LEMMA AnsweredKeepsOne ==
    ASSUME NEW a \in Attachments, Inv, downloads.asked[a] > 0
    PROVE  /\ Answered(a) \in Downloads
           /\ OneOpen(Answered(a))
           /\ Served(Answered(a), connected)
<1> DEFINE e == Answered(a)
<1>1. /\ e.queue = downloads.queue /\ e.inFlight = downloads.inFlight
      /\ e.pending = downloads.pending /\ e.timers = downloads.timers
  BY DEF Answered, Inv, Downloads
<1>2. e \in Downloads
  <2>1. downloads.asked[a] - 1 \in Nat BY DEF Inv, Downloads
  <2> QED BY <2>1, WireUpdate DEF Answered, Inv
<1>3. Open(e) = Open(downloads) BY <1>1 DEF Open, HasPending
<1> QED BY <1>1, <1>2, <1>3 DEF Inv, OneOpen, Served

--------------------

(* One step for each action, all of which end in processDownloadQueue(), in *)
(* Settle, or leave the handler's state alone. *)
LEMMA InvStep == Inv /\ [Next]_vars => Inv'
<1> SUFFICES ASSUME Inv, [Next]_vars PROVE Inv'
  OBVIOUS
<1>0. /\ downloads \in Downloads /\ connected \in BOOLEAN
      /\ OneOpen(downloads) /\ Served(downloads, connected)
  BY DEF Inv
<1>k. ASSUME downloads' \in Downloads, OneOpen(downloads'),
             Served(downloads', connected'), connected' \in BOOLEAN
      PROVE  Inv'
  BY <1>k DEF Inv, OneOpen, Open, HasPending, Served
<1>u. CASE UNCHANGED <<downloads, connected>> BY <1>0, <1>u, <1>k
<1>1. ASSUME NEW c \in Callers, NEW a \in Attachments, downloadAttachment(c, a) PROVE Inv'
  <2>0. connected' = connected BY <1>1 DEF downloadAttachment
  <2>1. CASE FromDisk(c, a) BY <2>0, <2>1, <1>u DEF FromDisk
  <2>2. CASE Join(c, a)
    <3> DEFINE p == [downloads.pending[a] EXCEPT !.joined = @ \cup {c}]
    <3>1. /\ downloads'.queue = downloads.queue /\ downloads'.inFlight = downloads.inFlight
          /\ downloads'.timers = downloads.timers
          /\ downloads'.pending = [downloads.pending EXCEPT ![a] = p]
      BY <1>0, <2>2 DEF Join, Downloads
    <3>2. downloads.pending[a] \in Pending BY <1>0, <2>2 DEF Join, HasPending, Downloads
    <3>3. p \in Pending /\ p.owner = downloads.pending[a].owner BY <3>2 DEF Pending
    <3>4. downloads' \in Downloads BY <1>0, <2>2, <3>3 DEF Join, Downloads
    <3>5. Open(downloads') = Open(downloads)
      BY <1>0, <2>2, <3>1, <3>3, Strangers DEF Open, HasPending, Join, Downloads
    <3>6. \A b \in Attachments : downloads'.pending[b].owner = downloads.pending[b].owner
      BY <1>0, <3>1, <3>3 DEF Downloads
    <3>7. OneOpen(downloads') BY <1>0, <3>1, <3>5, <3>6 DEF OneOpen, Open
    <3> QED BY <1>0, <1>k, <2>0, <3>1, <3>4, <3>7 DEF Served
  <2>3. CASE Enqueue(c, a)
    <3> DEFINE d == [downloads EXCEPT !.queue = Append(@, Item(a, c))]
    <3>1. /\ d.inFlight = downloads.inFlight /\ d.timers = downloads.timers
          /\ d.pending = downloads.pending
      BY <1>0 DEF Downloads
    <3>2. Item(a, c) \in Items BY DEF Item, Items
    <3>3. d \in Downloads
      <4>1. Append(downloads.queue, Item(a, c)) \in Seq(Items) BY <1>0, <3>2 DEF Downloads
      <4> QED BY <1>0, <4>1, QueueUpdate
    <3>4. OneOpen(d) BY <1>0, <3>1 DEF OneOpen, Open, HasPending
    <3>5. downloads' = processDownloadQueue(d, connected) BY <2>3 DEF Enqueue
    <3> QED BY <1>0, <1>k, <2>0, <3>3, <3>4, <3>5, ProcessKeepsOne
  <2> QED BY <1>1, <2>1, <2>2, <2>3 DEF downloadAttachment
<1>2. ASSUME NEW a \in Attachments, NEW c \in Callers, Timeout(Item(a, c)) PROVE Inv'
  <2>1. /\ Item(a, c).attachment = a /\ Item(a, c).caller = c
        /\ Item(a, c) \in downloads.timers /\ HasPending(downloads, a)
        /\ connected' = connected
    BY <1>2 DEF Timeout, Item
  <2>2. Item(a, c) = Item(a, downloads.pending[a].owner) BY <1>0, <2>1 DEF OneOpen, Open, Item
  <2>3. downloads' = processDownloadQueue(
           [downloads EXCEPT !.pending[a] = NoPending, !.inFlight = FALSE,
                             !.timers = @ \ {Item(a, c)}], connected)
    BY <1>2, <2>1 DEF Timeout
  <2>4. downloads' = Settled(downloads, a) BY <2>2, <2>3 DEF Settled
  <2> QED BY <1>0, <1>k, <2>1, <2>4, SettledKeepsOne
<1>3. ASSUME NEW a \in Attachments, handleAttachmentFile(a) PROVE Inv'
  <2>0. /\ connected' = connected /\ downloads.asked[a] > 0 BY <1>3 DEF handleAttachmentFile
  <2>1. /\ Answered(a) \in Downloads /\ OneOpen(Answered(a))
        /\ Served(Answered(a), connected)
    BY <2>0, AnsweredKeepsOne
  <2>2. CASE downloads' = Answered(a) BY <1>0, <1>k, <2>0, <2>1, <2>2
  <2>3. CASE Unmatched(a) BY <2>2, <2>3 DEF Unmatched
  <2>4. CASE OpenPayload(a) BY <2>2, <2>4 DEF OpenPayload
  <2>5. ASSUME NEW outcome, Settle(Answered(a), a, outcome) PROVE Inv'
    BY <1>0, <1>k, <2>0, <2>1, <2>5, SettleKeepsOne
  <2>6. CASE handleInlineAttachment(a) BY <2>2, <2>5, <2>6 DEF handleInlineAttachment, notify
  <2>7. CASE rejectPendingByFilename(a) BY <2>5, <2>7 DEF rejectPendingByFilename, Reject
  <2> QED BY <1>3, <2>3, <2>4, <2>6, <2>7 DEF handleAttachmentFile
<1>4. ASSUME NEW a \in Attachments, NEW outcome, Settle(downloads, a, outcome),
             connected' = connected
      PROVE  Inv'
  BY <1>0, <1>4, <1>k, SettleKeepsOne
<1>5. ASSUME NEW a \in Attachments, PayloadEnds(a) PROVE Inv'
  BY <1>4, <1>5, <1>u DEF PayloadEnds, notify
<1>6. ASSUME NEW a \in Attachments, PayloadFails(a) PROVE Inv'
  BY <1>4, <1>6 DEF PayloadFails, Reject
<1>7. ASSUME NEW v \in Videos, NEW p \in Paths, generateVideoThumbnail(v, p) PROVE Inv'
  BY <1>4, <1>7, AttachmentAssumption DEF generateVideoThumbnail, notify
<1>8. CASE Connect BY <1>0, <1>8, <1>k, ProcessKeepsOne DEF Connect
<1>9. CASE Disconnect
  <2>1. /\ downloads'.queue = downloads.queue /\ downloads'.inFlight = downloads.inFlight
        /\ downloads'.timers = downloads.timers /\ downloads'.pending = downloads.pending
        /\ connected' = FALSE
    BY <1>0, <1>9 DEF Disconnect, Downloads
  <2>2. downloads' \in Downloads BY <1>0, <1>9 DEF Disconnect, Downloads
  <2>3. OneOpen(downloads') BY <1>0, <2>1 DEF OneOpen, Open, HasPending
  <2> QED BY <1>k, <2>1, <2>2, <2>3 DEF Served
<1>10. ASSUME NEW v \in Videos, needsTranscode(v) \/ transcodeToMp4(v) PROVE Inv'
  BY <1>10, <1>u DEF needsTranscode, transcodeToMp4
<1>11. ASSUME NEW a \in Attachments, FileRemoved(a) PROVE Inv'
  BY <1>11, <1>u DEF FileRemoved
<1>12. CASE UNCHANGED vars BY <1>12, <1>u DEF vars
<1> QED BY <1>1, <1>2, <1>3, <1>5, <1>6, <1>7, <1>8, <1>9, <1>10, <1>11, <1>12 DEF Next

LEMMA InvInit == Init => Inv
<1> SUFFICES ASSUME Init PROVE Inv
  OBVIOUS
<1>1. downloads \in Downloads /\ connected = FALSE BY DEF Init, Downloads
<1>2. Open(downloads) = {} BY DEF Init, Open, HasPending
<1>3. downloads.inFlight = FALSE /\ downloads.timers = {} BY DEF Init
<1>4. OneOpen(downloads) BY <1>2, <1>3 DEF OneOpen
<1> QED BY <1>1, <1>4 DEF Inv, Served

LEMMA DownloadInvariant == Spec => []Inv
BY InvInit, InvStep, PTL DEF Spec

(* The flag that holds the queue back is set exactly while one download is *)
(* pending with its timer, for any callers, attachments and breaks. *)
THEOREM OneAtATime == Spec => []OneRequestAtATime
<1>1. Inv => OneRequestAtATime BY DEF Inv, OneRequestAtATime
<1> QED BY <1>1, DownloadInvariant, PTL

(* While the phone is connected, no queue waits for nothing. *)
THEOREM NoLostWakeUp == Spec => []QueueIsServed
<1>1. Inv => QueueIsServed BY DEF Inv, QueueIsServed, Served
<1> QED BY <1>1, DownloadInvariant, PTL

--------------------
(* Types *)

CallRecords ==
    {Call("idle", None, None)}
        \cup {Call(s, a, None) : s \in {"waiting", "rejected"}, a \in Attachments}
        \cup {Call("resolved", a, p) : a \in Attachments, p \in Paths}

(* What each caller has asked for. *)
Wish(k) == [c \in Callers |-> k[c].attachment]

(* The callers of a whose item has left the queue, or never was in it. *)
Heard(a, q, w) == {c \in Callers : w[c] = a /\ \A i \in DOMAIN q : q[i].caller # c}

(* A caller is queued once, for what it asked, and waits for nothing else. *)
Consistent(d, w) ==
    /\ \A i \in DOMAIN d.queue : w[d.queue[i].caller] = d.queue[i].attachment
    /\ \A i, j \in DOMAIN d.queue : d.queue[i].caller = d.queue[j].caller => i = j
    /\ \A a \in Open(d) : \A c \in Waiters(d.pending[a]) : w[c] = a

(* What runs for an attachment outside of the queue: payload sockets and the *)
(* ffmpeg processes of all stages. *)
Work(v, a) ==
    IF a \in Videos
    THEN v[<<a, "probe">>] + v[<<a, "transcode">>] + v[<<a, "original">>] + v[<<a, "mp4">>]
    ELSE 0
VideoTable == [Videos \X Stages -> Nat]
Load(s, v) == [a \in Attachments |-> s[a] + Work(v, a)]

(* Each request, socket and process goes back to a caller of its own. *)
Covered(d, w, load) ==
    \A a \in Attachments : d.asked[a] + load[a] <= Cardinality(Heard(a, d.queue, w))

Places ==
    /\ breaks \in 0..MaxBreaks
    /\ row \in [Attachments -> Paths \cup {None}]
    /\ disk \subseteq Attachments \X Paths
    /\ sockets \in [Attachments -> Nat]
    /\ videos \in VideoTable

Rest == Places /\ calls \in [Callers -> CallRecords]

Account == Consistent(downloads, Wish(calls)) /\ Covered(downloads, Wish(calls), Load(sockets, videos))

LEMMA HeardIsFinite ==
    ASSUME NEW a, NEW q, NEW w
    PROVE  /\ IsFiniteSet(Heard(a, q, w))
           /\ Cardinality(Heard(a, q, w)) \in Nat
           /\ Cardinality(Heard(a, q, w)) <= Cardinality(Callers)
           /\ Cardinality(Callers) \in Nat
<1>1. Heard(a, q, w) \subseteq Callers BY DEF Heard
<1> QED BY <1>1, AttachmentAssumption, FS_Subset, FS_CardinalityType

LEMMA HeardGrows ==
    ASSUME NEW a, NEW q, NEW w, NEW r, NEW u, Heard(a, q, w) \subseteq Heard(a, r, u)
    PROVE  Cardinality(Heard(a, q, w)) <= Cardinality(Heard(a, r, u))
BY HeardIsFinite, FS_Subset

(* The head of the queue is sent: its caller is heard, and nobody else is. *)
LEMMA HeadIsHeard ==
    ASSUME NEW d \in Downloads, d.queue # <<>>, NEW w, Consistent(d, w)
    PROVE  LET item == Head(d.queue)
               at == item.attachment IN
           /\ item \in Items /\ Tail(d.queue) \in Seq(Items) /\ w[item.caller] = at
           /\ Cardinality(Heard(at, Tail(d.queue), w)) = Cardinality(Heard(at, d.queue, w)) + 1
           /\ \A a \in Attachments : a # at => Heard(a, Tail(d.queue), w) = Heard(a, d.queue, w)
<1> DEFINE q == d.queue
           item == Head(q)
           at == item.attachment
           c == item.caller
<1>1. q \in Seq(Items) /\ q # <<>> BY DEF Downloads
<1>2. /\ item \in Items /\ Tail(q) \in Seq(Items) /\ item = q[1] /\ 1 \in DOMAIN q
      /\ c \in Callers /\ at \in Attachments
  <2>1. /\ item \in Items /\ Tail(q) \in Seq(Items) /\ item = q[1] /\ 1 \in DOMAIN q
    <3> HIDE DEF q
    <3> QED BY <1>1
  <2> QED BY <2>1 DEF Items
<1>3. /\ \A i \in DOMAIN Tail(q) : i + 1 \in DOMAIN q /\ i + 1 # 1 /\ Tail(q)[i] = q[i + 1]
      /\ \A i \in DOMAIN q : i = 1 \/ (i - 1 \in DOMAIN Tail(q) /\ Tail(q)[i - 1] = q[i])
  BY <1>1
<1>4. w[c] = at BY <1>2 DEF Consistent
<1>5. \A i \in DOMAIN Tail(q) : Tail(q)[i].caller # c BY <1>2, <1>3 DEF Consistent
<1>6. ASSUME NEW e \in Callers, e # c
      PROVE  (\A i \in DOMAIN q : q[i].caller # e) <=> (\A i \in DOMAIN Tail(q) : Tail(q)[i].caller # e)
  <2>1. ASSUME NEW i \in DOMAIN q, q[i].caller = e PROVE \E j \in DOMAIN Tail(q) : Tail(q)[j].caller = e
    <3>1. q[1].caller = c BY <1>2
    <3>2. i # 1 BY <1>6, <2>1, <3>1
    <3> QED BY <1>3, <2>1, <3>2
  <2>2. ASSUME NEW i \in DOMAIN Tail(q), Tail(q)[i].caller = e PROVE \E j \in DOMAIN q : q[j].caller = e
    BY <1>3, <2>2
  <2> QED BY <2>1, <2>2
<1> HIDE DEF q, item, at, c
<1>7. Heard(at, Tail(q), w) = Heard(at, q, w) \cup {c} BY <1>2, <1>4, <1>5, <1>6 DEF Heard
<1>8. c \notin Heard(at, q, w)
  <2>1. q[1].caller = c BY <1>2 DEF c
  <2> QED BY <1>2, <2>1 DEF Heard
<1>9. Cardinality(Heard(at, Tail(q), w)) = Cardinality(Heard(at, q, w)) + 1
  BY <1>7, <1>8, HeardIsFinite, FS_AddElement
<1>10. \A a \in Attachments : a # at => Heard(a, Tail(q), w) = Heard(a, q, w)
  BY <1>4, <1>6 DEF Heard
<1> QED BY <1>2, <1>4, <1>9, <1>10 DEF q, item, at, c

LEMMA ProcessKeepsAccount ==
    ASSUME NEW d \in Downloads, NEW online \in BOOLEAN, NEW w, NEW load \in [Attachments -> Nat],
           Consistent(d, w), Covered(d, w, load)
    PROVE  LET e == processDownloadQueue(d, online) IN Consistent(e, w) /\ Covered(e, w, load)
<1> DEFINE e == processDownloadQueue(d, online)
<1>1. CASE d.inFlight \/ d.queue = <<>> \/ ~online BY <1>1 DEF processDownloadQueue
<1>2. CASE ~d.inFlight /\ d.queue # <<>> /\ online
  <2> DEFINE item == Head(d.queue)
             at == item.attachment
             p == [owner |-> item.caller, joined |-> {}]
  <2>1. /\ item \in Items /\ Tail(d.queue) \in Seq(Items) /\ w[item.caller] = at
        /\ Cardinality(Heard(at, Tail(d.queue), w)) = Cardinality(Heard(at, d.queue, w)) + 1
        /\ \A a \in Attachments : a # at => Heard(a, Tail(d.queue), w) = Heard(a, d.queue, w)
    BY <1>2, HeadIsHeard
  <2>2. at \in Attachments /\ p \in Pending BY <2>1 DEF Items, Pending
  <2>3. e = InFlight([d EXCEPT !.queue = Tail(@)], item) BY <1>2 DEF processDownloadQueue
  <2>4. /\ e.queue = Tail(d.queue)
        /\ e.pending = [d.pending EXCEPT ![at] = p]
        /\ e.asked = [d.asked EXCEPT ![at] = @ + 1]
    BY <2>3 DEF InFlight, Downloads
  <2>5. /\ d.pending \in [Attachments -> Pending \cup {NoPending}] /\ d.asked \in [Attachments -> Nat]
        /\ d.queue \in Seq(Items)
    BY DEF Downloads
  <2> HIDE DEF e, at, item
  <2>6. Covered(e, w, load)
    <3> SUFFICES ASSUME NEW a \in Attachments
                 PROVE  e.asked[a] + load[a] <= Cardinality(Heard(a, e.queue, w))
      BY DEF Covered
    <3>1. d.asked[a] + load[a] <= Cardinality(Heard(a, d.queue, w)) BY DEF Covered
    <3>2. CASE a = at
      <4>1. e.asked[a] = d.asked[a] + 1 BY <2>2, <2>4, <2>5, <3>2
      <4> QED BY <2>1, <2>4, <2>5, <3>1, <3>2, <4>1, HeardIsFinite
    <3>3. CASE a # at
      <4>1. e.asked[a] = d.asked[a] BY <2>2, <2>4, <2>5, <3>3
      <4> QED BY <2>1, <2>4, <3>1, <3>3, <4>1
    <3> QED BY <3>2, <3>3
  <2>7. Consistent(e, w)
    <3>1. /\ \A i \in DOMAIN Tail(d.queue) : i + 1 \in DOMAIN d.queue /\ Tail(d.queue)[i] = d.queue[i + 1]
          /\ \A i \in DOMAIN Tail(d.queue) : i \in Nat
      BY <1>2, <2>5
    <3>2. \A i \in DOMAIN e.queue : w[e.queue[i].caller] = e.queue[i].attachment
      BY <2>4, <3>1 DEF Consistent
    <3>3. \A i, j \in DOMAIN e.queue : e.queue[i].caller = e.queue[j].caller => i = j
      <4> SUFFICES ASSUME NEW i \in DOMAIN e.queue, NEW j \in DOMAIN e.queue,
                          e.queue[i].caller = e.queue[j].caller
                   PROVE  i = j
        OBVIOUS
      <4>1. i + 1 = j + 1 BY <2>4, <3>1 DEF Consistent
      <4> QED BY <2>4, <3>1, <4>1
    <3>4. ASSUME NEW a \in Open(e), NEW c \in Waiters(e.pending[a]) PROVE w[c] = a
      <4>1. CASE a = at
        <5>1. e.pending[a] = p BY <2>2, <2>4, <2>5, <4>1
        <5>2. c = item.caller BY <3>4, <5>1 DEF Waiters
        <5> QED BY <2>1, <4>1, <5>2
      <4>2. CASE a # at
        <5>1. a \in Attachments BY <3>4 DEF Open
        <5>2. e.pending[a] = d.pending[a] BY <2>2, <2>4, <2>5, <4>2, <5>1
        <5>3. a \in Open(d) BY <3>4, <5>1, <5>2 DEF Open, HasPending
        <5> QED BY <3>4, <5>2, <5>3 DEF Consistent
      <4> QED BY <4>1, <4>2
    <3> QED BY <3>2, <3>3, <3>4 DEF Consistent
  <2> QED BY <2>6, <2>7 DEF e
<1> QED BY <1>1, <1>2
LEMMA SettledKeepsAccount ==
    ASSUME NEW d \in Downloads, connected \in BOOLEAN, NEW a \in Attachments, NEW w,
           NEW load \in [Attachments -> Nat], Consistent(d, w), Covered(d, w, load)
    PROVE  Consistent(Settled(d, a), w) /\ Covered(Settled(d, a), w, load)
<1> DEFINE e == [d EXCEPT !.pending[a] = NoPending, !.inFlight = FALSE,
                          !.timers = @ \ {Item(a, d.pending[a].owner)}]
<1>1. /\ e \in Downloads /\ e.queue = d.queue /\ e.asked = d.asked
      /\ e.pending = [d.pending EXCEPT ![a] = NoPending]
  BY DEF Downloads
<1>2. Settled(d, a) = processDownloadQueue(e, connected) BY DEF Settled
<1> HIDE DEF e
<1>3. \A b \in Open(e) : b \in Open(d) /\ e.pending[b] = d.pending[b]
  BY <1>1 DEF Open, HasPending, Downloads
<1>4. Consistent(e, w) /\ Covered(e, w, load) BY <1>1, <1>3 DEF Consistent, Covered
<1> QED BY <1>1, <1>2, <1>4, ProcessKeepsAccount

(* Whoever waits for an attachment has asked for it, and keeps that wish. *)
LEMMA OutcomeKeepsWish ==
    ASSUME calls \in [Callers -> CallRecords], NEW a \in Attachments, NEW S \in SUBSET Callers,
           \A c \in S : Wish(calls)[c] = a,
           NEW outcome \in CallRecords, outcome.attachment = a,
           calls' = [c \in Callers |-> IF c \in S THEN outcome ELSE calls[c]]
    PROVE  calls' \in [Callers -> CallRecords] /\ Wish(calls') = Wish(calls)
BY DEF Wish

LEMMA SettleKeepsAccount ==
    ASSUME NEW d \in Downloads, connected \in BOOLEAN, NEW a \in Attachments,
           calls \in [Callers -> CallRecords], NEW load \in [Attachments -> Nat],
           Consistent(d, Wish(calls)), Covered(d, Wish(calls), load),
           NEW outcome \in CallRecords, outcome.attachment = a, Settle(d, a, outcome)
    PROVE  /\ calls' \in [Callers -> CallRecords] /\ Wish(calls') = Wish(calls)
           /\ Consistent(downloads', Wish(calls')) /\ Covered(downloads', Wish(calls'), load)
<1>1. CASE ~HasPending(d, a) BY <1>1 DEF Settle
<1>2. CASE HasPending(d, a)
  <2>1. d.pending[a] \in Pending BY <1>2 DEF HasPending, Downloads
  <2>2. Waiters(d.pending[a]) \subseteq Callers BY <2>1 DEF Waiters, Pending
  <2>3. \A c \in Waiters(d.pending[a]) : Wish(calls)[c] = a BY <1>2 DEF Consistent, Open
  <2>4. calls' = [c \in Callers |-> IF c \in Waiters(d.pending[a]) THEN outcome ELSE calls[c]]
    BY <1>2 DEF Settle
  <2>5. calls' \in [Callers -> CallRecords] /\ Wish(calls') = Wish(calls)
    BY <2>2, <2>3, <2>4, OutcomeKeepsWish
  <2>6. downloads' = Settled(d, a) BY <1>2 DEF Settle
  <2> QED BY <2>5, <2>6, SettledKeepsAccount
<1> QED BY <1>1, <1>2

LEMMA Outcomes ==
    ASSUME NEW a \in Attachments
    PROVE  /\ Call("rejected", a, None) \in CallRecords /\ Call("rejected", a, None).attachment = a
           /\ Call("waiting", a, None) \in CallRecords /\ Call("waiting", a, None).attachment = a
           /\ \A p \in Paths :
                 Call("resolved", a, p) \in CallRecords /\ Call("resolved", a, p).attachment = a
BY DEF CallRecords, Call

(* Sockets and processes move the load, never make it. *)
LEMMA LoadIsNat ==
    ASSUME NEW s \in [Attachments -> Nat], NEW v \in VideoTable
    PROVE  Load(s, v) \in [Attachments -> Nat]
<1> SUFFICES ASSUME NEW a \in Attachments PROVE s[a] + Work(v, a) \in Nat BY DEF Load
<1>1. a \in Videos => \A g \in Stages : v[<<a, g>>] \in Nat BY DEF VideoTable
<1>2. a \in Videos =>
        /\ v[<<a, "probe">>] \in Nat /\ v[<<a, "transcode">>] \in Nat
        /\ v[<<a, "original">>] \in Nat /\ v[<<a, "mp4">>] \in Nat
  BY <1>1 DEF Stages, Paths
<1> QED BY <1>2 DEF Work

(* The number of processes of x at stage g becomes n. *)
Set(v, u, x, g, n) ==
    /\ u \in VideoTable
    /\ \A y \in Videos, h \in Stages :
           u[<<y, h>>] = IF y = x /\ h = g THEN n ELSE v[<<y, h>>]

LEMMA StageStep ==
    ASSUME NEW v \in VideoTable, NEW x \in Videos, NEW g \in Stages, NEW n \in Nat,
           NEW u, Set(v, u, x, g, n)
    PROVE  /\ \A a \in Attachments : Work(v, a) \in Nat /\ Work(u, a) \in Nat
           /\ \A a \in Attachments : a # x => Work(u, a) = Work(v, a)
           /\ Work(u, x) + v[<<x, g>>] = Work(v, x) + n
<1> USE DEF Set, VideoTable
<1>1. ASSUME NEW y \in Videos
      PROVE  /\ \A h \in {"probe", "transcode", "original", "mp4"} :
                    /\ v[<<y, h>>] \in Nat /\ u[<<y, h>>] \in Nat
                    /\ u[<<y, h>>] = IF y = x /\ h = g THEN n ELSE v[<<y, h>>]
  BY DEF Stages, Paths
<1>2. g \in {"probe", "transcode", "original", "mp4"} BY DEF Stages, Paths
<1>3. ASSUME NEW a \in Attachments
      PROVE  /\ Work(v, a) \in Nat /\ Work(u, a) \in Nat
             /\ Work(u, a) + (IF a = x THEN v[<<x, g>>] ELSE 0)
                    = Work(v, a) + (IF a = x THEN n ELSE 0)
  <2>1. CASE a \notin Videos BY <2>1 DEF Work
  <2>2. CASE a \in Videos /\ a # x BY <1>1, <2>2 DEF Work
  <2>3. CASE a = x
    <3> DEFINE of(f, h) == f[<<x, h>>]
    <3>1. \A h \in {"probe", "transcode", "original", "mp4"} :
             of(v, h) \in Nat /\ of(u, h) \in Nat /\ of(u, h) = IF h = g THEN n ELSE of(v, h)
      BY <1>1
    <3>2. /\ Work(v, a) = of(v, "probe") + of(v, "transcode") + of(v, "original") + of(v, "mp4")
          /\ Work(u, a) = of(u, "probe") + of(u, "transcode") + of(u, "original") + of(u, "mp4")
      BY <2>3 DEF Work
    <3>3. SUFFICES /\ Work(v, a) \in Nat /\ Work(u, a) \in Nat
                   /\ Work(u, a) + of(v, g) = Work(v, a) + n
      BY <2>3
    <3> HIDE DEF of
    <3>4. CASE g = "probe" BY <3>1, <3>2, <3>4
    <3>5. CASE g = "transcode" BY <3>1, <3>2, <3>5
    <3>6. CASE g = "original" BY <3>1, <3>2, <3>6
    <3>7. CASE g = "mp4" BY <3>1, <3>2, <3>7
    <3> QED BY <1>2, <3>4, <3>5, <3>6, <3>7
  <2> QED BY <2>1, <2>2, <2>3
<1>4. x \in Attachments BY AttachmentAssumption
<1> QED BY <1>3, <1>4

LEMMA LessIsCovered ==
    ASSUME NEW d \in Downloads, NEW e \in Downloads, e.queue = d.queue, NEW w,
           NEW load \in [Attachments -> Nat], NEW less \in [Attachments -> Nat],
           Covered(d, w, load),
           \A a \in Attachments : e.asked[a] + less[a] <= d.asked[a] + load[a]
    PROVE  Covered(e, w, less)
<1> SUFFICES ASSUME NEW a \in Attachments
             PROVE  e.asked[a] + less[a] <= Cardinality(Heard(a, e.queue, w))
  BY DEF Covered
<1>1. d.asked[a] \in Nat /\ e.asked[a] \in Nat /\ load[a] \in Nat /\ less[a] \in Nat
  BY DEF Downloads
<1>2. d.asked[a] + load[a] <= Cardinality(Heard(a, e.queue, w)) BY DEF Covered
<1> QED BY <1>1, <1>2, HeardIsFinite

(* A caller that asks was in no queue and waited for nothing. *)
LEMMA NewWish ==
    ASSUME NEW d \in Downloads, NEW w \in [Callers -> Attachments \cup {None}],
           NEW load \in [Attachments -> Nat], Consistent(d, w), Covered(d, w, load),
           NEW c \in Callers, NEW a \in Attachments, w[c] = None,
           NEW u, u[c] = a, \A e \in Callers : e # c => u[e] = w[e]
    PROVE  /\ Consistent(d, u) /\ Covered(d, u, load)
           /\ \A i \in DOMAIN d.queue : d.queue[i].caller # c
<1>1. \A i \in DOMAIN d.queue : d.queue[i] \in Items BY DEF Downloads
<1>2. \A i \in DOMAIN d.queue : d.queue[i].caller # c /\ d.queue[i].caller \in Callers
  BY <1>1, AttachmentAssumption DEF Items, Consistent
<1>3. \A b \in Open(d) : b \in Attachments /\ Waiters(d.pending[b]) \subseteq Callers
  <2> SUFFICES ASSUME NEW b \in Open(d) PROVE b \in Attachments /\ Waiters(d.pending[b]) \subseteq Callers
    OBVIOUS
  <2>1. b \in Attachments /\ d.pending[b] \in Pending BY DEF Open, HasPending, Downloads
  <2> QED BY <2>1 DEF Waiters, Pending
<1>4. Consistent(d, u)
  <2>1. \A i \in DOMAIN d.queue : u[d.queue[i].caller] = d.queue[i].attachment
    BY <1>2 DEF Consistent
  <2>2. ASSUME NEW b \in Open(d), NEW e \in Waiters(d.pending[b]) PROVE u[e] = b
    BY <1>3, <2>2, AttachmentAssumption DEF Consistent
  <2> QED BY <2>1, <2>2 DEF Consistent
<1>5. ASSUME NEW b \in Attachments PROVE \A x \in Heard(b, d.queue, w) : x \in Heard(b, d.queue, u) /\ x # c
  BY AttachmentAssumption DEF Heard
<1>6. Covered(d, u, load)
  <2> SUFFICES ASSUME NEW b \in Attachments
               PROVE  d.asked[b] + load[b] <= Cardinality(Heard(b, d.queue, u))
    BY DEF Covered
  <2>1. Cardinality(Heard(b, d.queue, w)) <= Cardinality(Heard(b, d.queue, u)) BY <1>5, HeardGrows
  <2>2. d.asked[b] + load[b] <= Cardinality(Heard(b, d.queue, w)) BY DEF Covered
  <2>3. d.asked[b] \in Nat /\ load[b] \in Nat BY DEF Downloads
  <2> QED BY <2>1, <2>2, <2>3, HeardIsFinite
<1> QED BY <1>2, <1>4, <1>5, <1>6

(* Its item at the end of the queue does not count as heard. *)
LEMMA QueuedIsNotHeard ==
    ASSUME NEW d \in Downloads, NEW w \in [Callers -> Attachments \cup {None}],
           NEW load \in [Attachments -> Nat], Consistent(d, w), Covered(d, w, load),
           NEW c \in Callers, NEW a \in Attachments, w[c] = None,
           NEW u, u[c] = a, \A b \in Callers : b # c => u[b] = w[b],
           NEW e, e = [d EXCEPT !.queue = Append(@, Item(a, c))]
    PROVE  e \in Downloads /\ Consistent(e, u) /\ Covered(e, u, load)
<1> DEFINE item == Item(a, c)
<1>1. /\ Consistent(d, u)
      /\ \A i \in DOMAIN d.queue : d.queue[i].caller # c
      /\ \A b \in Attachments : \A x \in Heard(b, d.queue, w) : x \in Heard(b, d.queue, u) /\ x # c
  <2>1. Consistent(d, u) /\ Covered(d, u, load) BY NewWish
  <2>2. \A b \in Attachments : \A x \in Heard(b, d.queue, w) : x \in Heard(b, d.queue, u) /\ x # c
    BY AttachmentAssumption DEF Heard
  <2> QED BY <2>1, <2>2, NewWish
<1>2. item \in Items /\ item.caller = c /\ item.attachment = a BY DEF Items, Item
<1>3. d.queue \in Seq(Items) BY DEF Downloads
<1> HIDE DEF item
<1>4. Append(d.queue, item) \in Seq(Items) BY <1>2, <1>3
<1>5. /\ e \in Downloads /\ e.queue = Append(d.queue, item)
      /\ e.pending = d.pending /\ e.asked = d.asked
  BY <1>4 DEF Downloads, item
<1>6. \A i \in DOMAIN e.queue : \/ i \in DOMAIN d.queue /\ e.queue[i] = d.queue[i]
                                \/ i = Len(d.queue) + 1 /\ e.queue[i] = item
  BY <1>2, <1>3, <1>5
<1>7. Consistent(e, u)
  <2>1. \A i \in DOMAIN e.queue : u[e.queue[i].caller] = e.queue[i].attachment
    BY <1>1, <1>2, <1>6 DEF Consistent
  <2>2. \A i, j \in DOMAIN e.queue : e.queue[i].caller = e.queue[j].caller => i = j
    BY <1>1, <1>2, <1>6 DEF Consistent
  <2>3. Open(e) = Open(d) BY <1>5 DEF Open, HasPending
  <2> QED BY <1>1, <1>5, <2>1, <2>2, <2>3 DEF Consistent
<1>8. Covered(e, u, load)
  <2> SUFFICES ASSUME NEW b \in Attachments
               PROVE  e.asked[b] + load[b] <= Cardinality(Heard(b, e.queue, u))
    BY DEF Covered
  <2>1. \A x \in Heard(b, d.queue, u) : x # c => x \in Heard(b, e.queue, u) BY <1>2, <1>6 DEF Heard
  <2>2. Heard(b, d.queue, w) \subseteq Heard(b, e.queue, u) BY <1>1, <2>1
  <2>3. Cardinality(Heard(b, d.queue, w)) <= Cardinality(Heard(b, e.queue, u)) BY <2>2, HeardGrows
  <2>4. d.asked[b] + load[b] <= Cardinality(Heard(b, d.queue, w)) BY DEF Covered
  <2>5. d.asked[b] \in Nat /\ load[b] \in Nat BY DEF Downloads
  <2> QED BY <1>5, <2>3, <2>4, <2>5, HeardIsFinite
<1> QED BY <1>5, <1>7, <1>8
LEMMA WishIs ==
    ASSUME calls \in [Callers -> CallRecords]
    PROVE  Wish(calls) \in [Callers -> Attachments \cup {None}]
<1>1. \A r \in CallRecords : r.attachment \in Attachments \cup {None} BY DEF CallRecords, Call
<1> QED BY <1>1 DEF Wish

(* One step for each action; what is at stake is the load. *)
LEMMA AskStep ==
    ASSUME Inv, Rest, Account, NEW c \in Callers, NEW a \in Attachments, downloadAttachment(c, a)
    PROVE  Rest' /\ Account'
<1> DEFINE w == Wish(calls)
           u == Wish(calls')
           load == Load(sockets, videos)
<1>0. /\ downloads \in Downloads /\ connected \in BOOLEAN
      /\ calls \in [Callers -> CallRecords] /\ calls[c].state = "idle"
      /\ Consistent(downloads, w) /\ Covered(downloads, w, load)
      /\ w \in [Callers -> Attachments \cup {None}] /\ load \in [Attachments -> Nat]
  BY WishIs, LoadIsNat DEF Inv, Rest, Places, Account, downloadAttachment
<1>1. /\ UNCHANGED <<connected, breaks, row, disk, sockets, videos>>
      /\ FromDisk(c, a) \/ Join(c, a) \/ Enqueue(c, a)
  BY DEF downloadAttachment
<1>2. Load(sockets', videos') = load BY <1>1
<1>3. w[c] = None
  <2>1. \A r \in CallRecords : r.state = "idle" => r.attachment = None BY DEF CallRecords, Call
  <2> QED BY <1>0, <2>1 DEF Wish
<1>4. \E r \in CallRecords : r.attachment = a /\ calls' = [calls EXCEPT ![c] = r]
  <2>1. CASE FromDisk(c, a)
    <3>1. row[a] \in Paths BY <2>1 DEF FromDisk, Cached, Rest, Places
    <3> QED BY <2>1, <3>1, Outcomes DEF FromDisk
  <2>2. CASE Join(c, a) \/ Enqueue(c, a) BY <2>2, Outcomes DEF Join, Enqueue
  <2> QED BY <1>1, <2>1, <2>2
<1>5. /\ calls' \in [Callers -> CallRecords]
      /\ u[c] = a /\ \A e \in Callers : e # c => u[e] = w[e]
  BY <1>0, <1>4 DEF Wish
<1>6. Rest' BY <1>1, <1>5 DEF Rest, Places
<1> HIDE DEF w, u, load
<1>7. /\ Consistent(downloads, u) /\ Covered(downloads, u, load) BY <1>0, <1>3, <1>5, NewWish
<1>8. CASE FromDisk(c, a) BY <1>2, <1>6, <1>7, <1>8 DEF FromDisk, Account, u
<1>9. CASE Join(c, a)
  <2>1. /\ downloads'.queue = downloads.queue /\ downloads'.asked = downloads.asked
        /\ downloads'.pending = [downloads.pending EXCEPT ![a].joined = @ \cup {c}]
    BY <1>0, <1>9 DEF Join, Downloads
  <2>2. downloads.pending \in [Attachments -> Pending \cup {NoPending}] BY <1>0 DEF Downloads
  <2>3. downloads.pending[a] \in Pending BY <1>9, <2>2 DEF Join, HasPending
  <2>4. Waiters(downloads'.pending[a]) = Waiters(downloads.pending[a]) \cup {c}
    BY <2>1, <2>2, <2>3 DEF Waiters, Pending
  <2>5. ASSUME NEW b \in Open(downloads'), NEW e \in Waiters(downloads'.pending[b]) PROVE u[e] = b
    <3>1. b \in Attachments BY <2>5 DEF Open
    <3>2. CASE b = a
      <4>1. a \in Open(downloads) BY <1>9 DEF Open, Join
      <4> QED BY <1>5, <1>7, <2>4, <2>5, <3>2, <4>1 DEF Consistent
    <3>3. CASE b # a
      <4>1. downloads'.pending[b] = downloads.pending[b] BY <2>1, <2>2, <3>1, <3>3
      <4>2. b \in Open(downloads) BY <2>5, <3>1, <4>1 DEF Open, HasPending
      <4> QED BY <1>7, <2>5, <4>1, <4>2 DEF Consistent
    <3> QED BY <3>2, <3>3
  <2>6. Consistent(downloads', u) BY <1>7, <2>1, <2>5 DEF Consistent
  <2>7. Covered(downloads', u, load) BY <1>7, <2>1 DEF Covered
  <2> QED BY <1>2, <1>6, <2>6, <2>7 DEF Account, u
<1>10. CASE Enqueue(c, a)
  <2> DEFINE d == [downloads EXCEPT !.queue = Append(@, Item(a, c))]
  <2>1. d \in Downloads /\ Consistent(d, u) /\ Covered(d, u, load)
    BY <1>0, <1>3, <1>5, QueuedIsNotHeard
  <2>2. downloads' = processDownloadQueue(d, connected) BY <1>10 DEF Enqueue
  <2> HIDE DEF d
  <2>3. Consistent(downloads', u) /\ Covered(downloads', u, load)
    BY <1>0, <2>1, <2>2, ProcessKeepsAccount
  <2> QED BY <1>2, <1>6, <2>3 DEF Account, u
<1> QED BY <1>1, <1>8, <1>9, <1>10
(* Something settles, with a handler whose load is covered. *)
LEMMA SettleStep ==
    ASSUME Rest, Places', connected \in BOOLEAN, NEW d \in Downloads, NEW a \in Attachments,
           Consistent(d, Wish(calls)), Covered(d, Wish(calls), Load(sockets', videos')),
           NEW outcome \in CallRecords, outcome.attachment = a, Settle(d, a, outcome)
    PROVE  Rest' /\ Account'
<1>1. Load(sockets', videos') \in [Attachments -> Nat] BY LoadIsNat DEF Places
<1>2. /\ calls' \in [Callers -> CallRecords]
      /\ Consistent(downloads', Wish(calls')) /\ Covered(downloads', Wish(calls'), Load(sockets', videos'))
  BY <1>1, SettleKeepsAccount DEF Rest
<1> QED BY <1>2 DEF Rest, Account

(* The handler's queue and entries stay, and the load does not grow. *)
Total(d, s, v, a) == d.asked[a] + (s[a] + Work(v, a))

LEMMA LoadStep ==
    ASSUME Inv, Rest, Account, Places', NEW d \in Downloads,
           d.queue = downloads.queue, d.pending = downloads.pending,
           \A b \in Attachments :
               Total(d, sockets', videos', b) <= Total(downloads, sockets, videos, b)
    PROVE  /\ Consistent(d, Wish(calls)) /\ Covered(d, Wish(calls), Load(sockets', videos'))
           /\ downloads' = d /\ calls' = calls => Rest' /\ Account'
<1>1. /\ Load(sockets, videos) \in [Attachments -> Nat]
      /\ Load(sockets', videos') \in [Attachments -> Nat]
  BY LoadIsNat DEF Rest, Places
<1>2. Covered(d, Wish(calls), Load(sockets', videos'))
  <2>1. \A b \in Attachments :
           d.asked[b] + Load(sockets', videos')[b] <= downloads.asked[b] + Load(sockets, videos)[b]
    BY DEF Load, Total
  <2> QED BY <1>1, <2>1, LessIsCovered DEF Inv, Account
<1>3. Consistent(d, Wish(calls))
  <2>1. Open(d) = Open(downloads) BY DEF Open, HasPending
  <2> QED BY <2>1 DEF Consistent, Account
<1> QED BY <1>2, <1>3 DEF Rest, Account

LEMMA WorkIsNat ==
    ASSUME NEW v \in VideoTable, NEW a \in Attachments
    PROVE  Work(v, a) \in Nat
<1>1. a \in Videos => \A g \in Stages : v[<<a, g>>] \in Nat BY DEF VideoTable
<1> QED BY <1>1 DEF Work, Stages, Paths

LEMMA Amounts ==
    ASSUME Inv, Rest, NEW a \in Attachments
    PROVE  downloads.asked[a] \in Nat /\ sockets[a] \in Nat /\ Work(videos, a) \in Nat
BY WorkIsNat DEF Inv, Rest, Places, Downloads

(* An ffmpeg process starts, ends, or hands over to the next stage. *)
LEMMA VideoMoves ==
    ASSUME Inv, Rest, NEW x \in Videos, NEW g \in Stages
    PROVE  /\ Started(x, g) =>
                /\ videos' \in VideoTable
                /\ \A b \in Attachments :
                      Work(videos', b) = Work(videos, b) + (IF b = x THEN 1 ELSE 0)
           /\ Running(x, g) /\ videos' = [videos EXCEPT ![<<x, g>>] = @ - 1] =>
                /\ videos' \in VideoTable
                /\ \A b \in Attachments : Work(videos', b) <= Work(videos, b)
           /\ \A h \in Stages : Running(x, g) /\ h # g /\ videos' = Passed(x, g, h) =>
                /\ videos' \in VideoTable
                /\ \A b \in Attachments : Work(videos', b) <= Work(videos, b)
<1>0. videos \in VideoTable BY DEF Rest, Places
<1>1. ASSUME NEW v \in VideoTable, NEW h \in Stages
      PROVE  LET u == [v EXCEPT ![<<x, h>>] = @ + 1] IN
             /\ u \in VideoTable
             /\ \A b \in Attachments :
                   /\ Work(v, b) \in Nat
                   /\ Work(u, b) = Work(v, b) + (IF b = x THEN 1 ELSE 0)
  <2> DEFINE u == [v EXCEPT ![<<x, h>>] = @ + 1]
             n == v[<<x, h>>]
             m == n + 1
  <2>1. n \in Nat /\ m \in Nat BY DEF VideoTable
  <2>2. u \in VideoTable /\ Set(v, u, x, h, m) BY DEF Set, VideoTable
  <2>3. m = n + 1 OBVIOUS
  <2> HIDE DEF u, m
  <2>4. /\ \A b \in Attachments : Work(v, b) \in Nat /\ Work(u, b) \in Nat
        /\ \A b \in Attachments : b # x => Work(u, b) = Work(v, b)
        /\ Work(u, x) + n = Work(v, x) + m
    <3>1. v \in VideoTable /\ x \in Videos /\ h \in Stages /\ m \in Nat /\ Set(v, u, x, h, m)
      BY <2>1, <2>2 DEF n
    <3>2. /\ \A b \in Attachments : Work(v, b) \in Nat /\ Work(u, b) \in Nat
          /\ \A b \in Attachments : b # x => Work(u, b) = Work(v, b)
          /\ Work(u, x) + v[<<x, h>>] = Work(v, x) + m
      BY <3>1, StageStep
    <3> QED BY <3>2
  <2> HIDE DEF n
  <2>5. \A b \in Attachments :
           /\ Work(v, b) \in Nat
           /\ Work(u, b) = Work(v, b) + (IF b = x THEN 1 ELSE 0)
    BY <2>1, <2>3, <2>4
  <2> QED BY <2>2, <2>5 DEF u
<1>2. ASSUME Running(x, g)
      PROVE  LET u == [videos EXCEPT ![<<x, g>>] = @ - 1] IN
             /\ u \in VideoTable
             /\ \A b \in Attachments :
                   /\ Work(videos, b) \in Nat /\ Work(u, b) \in Nat
                   /\ Work(u, b) + (IF b = x THEN 1 ELSE 0) = Work(videos, b)
  <2> DEFINE u == [videos EXCEPT ![<<x, g>>] = @ - 1]
             n == videos[<<x, g>>]
             m == n - 1
  <2>0. n > 0 BY <1>2 DEF Running
  <2>1. n \in Nat /\ m \in Nat BY <1>0, <2>0 DEF VideoTable
  <2>2. u \in VideoTable /\ Set(videos, u, x, g, m) BY <1>0, <2>1 DEF Set, VideoTable
  <2>3. n = m + 1 BY <2>1
  <2> HIDE DEF u, m
  <2>4. /\ \A b \in Attachments : Work(videos, b) \in Nat /\ Work(u, b) \in Nat
        /\ \A b \in Attachments : b # x => Work(u, b) = Work(videos, b)
        /\ Work(u, x) + n = Work(videos, x) + m
    BY <1>0, <2>1, <2>2, StageStep
  <2> HIDE DEF n
  <2>5. \A b \in Attachments :
           /\ Work(videos, b) \in Nat /\ Work(u, b) \in Nat
           /\ Work(u, b) + (IF b = x THEN 1 ELSE 0) = Work(videos, b)
    BY <2>1, <2>3, <2>4
  <2> QED BY <2>2, <2>5 DEF u
<1>3. ASSUME NEW h \in Stages, Running(x, g), h # g, videos' = Passed(x, g, h)
      PROVE  videos' \in VideoTable /\ \A b \in Attachments : Work(videos', b) <= Work(videos, b)
  <2> DEFINE u == [videos EXCEPT ![<<x, g>>] = @ - 1]
  <2>1. u \in VideoTable /\ \A b \in Attachments :
                      /\ Work(videos, b) \in Nat /\ Work(u, b) \in Nat
                      /\ Work(u, b) + (IF b = x THEN 1 ELSE 0) = Work(videos, b)
    BY <1>2, <1>3
  <2>2. videos' = [u EXCEPT ![<<x, h>>] = @ + 1] BY <1>0, <1>3 DEF Passed, VideoTable
  <2> HIDE DEF u
  <2>3. videos' \in VideoTable /\ \A b \in Attachments :
                            Work(videos', b) = Work(u, b) + (IF b = x THEN 1 ELSE 0)
    BY <1>1, <2>1, <2>2
  <2> QED BY <2>1, <2>3
<1>4. ASSUME Running(x, g), videos' = [videos EXCEPT ![<<x, g>>] = @ - 1]
      PROVE  videos' \in VideoTable /\ \A b \in Attachments : Work(videos', b) <= Work(videos, b)
  <2> DEFINE u == [videos EXCEPT ![<<x, g>>] = @ - 1]
  <2>1. u \in VideoTable /\ \A b \in Attachments :
                      /\ Work(videos, b) \in Nat /\ Work(u, b) \in Nat
                      /\ Work(u, b) + (IF b = x THEN 1 ELSE 0) = Work(videos, b)
    BY <1>2, <1>4
  <2>2. videos' = u BY <1>4
  <2> HIDE DEF u
  <2> QED BY <2>1, <2>2
<1>5. ASSUME Started(x, g)
      PROVE  /\ videos' \in VideoTable
             /\ \A b \in Attachments : Work(videos', b) = Work(videos, b) + (IF b = x THEN 1 ELSE 0)
  BY <1>0, <1>1, <1>5 DEF Started
<1> QED BY <1>3, <1>4, <1>5
LEMMA RestStep ==
    ASSUME Inv, Rest, Account, Next
    PROVE  Rest' /\ Account'
<1>0. /\ downloads \in Downloads /\ connected \in BOOLEAN /\ OneOpen(downloads)
      /\ calls \in [Callers -> CallRecords] /\ Places
      /\ Videos \subseteq Attachments /\ {"probe", "transcode"} \cup Paths = Stages
      /\ "original" \in Paths /\ "mp4" \in Paths
  BY AttachmentAssumption DEF Inv, Rest, Stages, Paths
<1>a. \A b \in Attachments : downloads.asked[b] \in Nat /\ sockets[b] \in Nat /\ Work(videos, b) \in Nat
  BY Amounts
<1>1. ASSUME NEW c \in Callers, NEW a \in Attachments, downloadAttachment(c, a)
      PROVE  Rest' /\ Account'
  BY <1>1, AskStep
<1>2. ASSUME NEW a \in Attachments, NEW c \in Callers, Timeout(Item(a, c))
      PROVE  Rest' /\ Account'
  <2>1. /\ Item(a, c).attachment = a /\ Item(a, c).caller = c
        /\ Item(a, c) \in downloads.timers /\ HasPending(downloads, a)
        /\ UNCHANGED <<connected, breaks, row, disk, sockets, videos>>
        /\ calls' = [calls EXCEPT ![c] = Call("rejected", a, None)]
    BY <1>2 DEF Timeout, Item
  <2>2. c = downloads.pending[a].owner BY <1>0, <2>1 DEF OneOpen, Open, Item
  <2>3. downloads' = Settled(downloads, a) BY <1>2, <2>1, <2>2 DEF Timeout, Settled
  <2>4. Wish(calls)[c] = a BY <2>1, <2>2 DEF Account, Consistent, Open, Waiters
  <2>5. calls' \in [Callers -> CallRecords] /\ Wish(calls') = Wish(calls)
    <3>1. Call("rejected", a, None) \in CallRecords /\ Call("rejected", a, None).attachment = a
      BY Outcomes
    <3>2. calls' = [calls EXCEPT ![c] = Call("rejected", a, None)] BY <2>1
    <3> QED BY <1>0, <2>4, <3>1, <3>2 DEF Wish
  <2>6. /\ Load(sockets, videos) \in [Attachments -> Nat]
        /\ Load(sockets', videos') = Load(sockets, videos)
    BY <2>1, <1>0, LoadIsNat DEF Places, VideoTable
  <2>7. Consistent(downloads', Wish(calls)) /\ Covered(downloads', Wish(calls), Load(sockets, videos))
    BY <1>0, <2>3, <2>6, SettledKeepsAccount DEF Account
  <2> QED BY <1>0, <2>1, <2>5, <2>6, <2>7 DEF Rest, Places, Account
<1>3. ASSUME NEW a \in Attachments, handleAttachmentFile(a) PROVE Rest' /\ Account'
  <2> DEFINE d == Answered(a)
  <2>0. downloads.asked[a] > 0 /\ UNCHANGED <<connected, breaks>> BY <1>3 DEF handleAttachmentFile
  <2>1. /\ d \in Downloads /\ d.queue = downloads.queue /\ d.pending = downloads.pending
        /\ d.asked = [downloads.asked EXCEPT ![a] = @ - 1]
    BY <2>0, AnsweredKeepsOne, <1>0 DEF Answered, Downloads
  <2>2. /\ \A b \in Attachments : d.asked[b] <= downloads.asked[b] /\ d.asked[b] \in Nat
        /\ d.asked[a] + 1 = downloads.asked[a]
    BY <1>0, <1>a, <2>1 DEF Downloads
  <2> HIDE DEF d
  <2>3. CASE Unmatched(a)
    <3>1. /\ UNCHANGED <<calls, row, disk, sockets, videos>> /\ downloads' = d
      BY <2>3 DEF Unmatched, d
    <3>2. Places' BY <1>0, <2>0, <3>1 DEF Places
    <3>t. \A b \in Attachments : Total(d, sockets', videos', b) <= Total(downloads, sockets, videos, b)
      BY <1>0, <1>a, <2>1, <2>2, <3>1, <3>2 DEF Total
    <3> QED BY <1>0, <1>a, <2>1, <2>2, <3>1, <3>2, <3>t, LoadStep
  <2>4. CASE handleInlineAttachment(a)
    <3>1. /\ row' = [row EXCEPT ![a] = "original"] /\ disk' = disk \cup {<<a, "original">>}
          /\ sockets' = sockets
      BY <2>4 DEF handleInlineAttachment
    <3>2. CASE a \in Videos
      <4>1. Started(a, "probe") /\ downloads' = d /\ calls' = calls
        BY <2>4, <3>2 DEF handleInlineAttachment, d
      <4>2. /\ videos' \in VideoTable
            /\ \A b \in Attachments : Work(videos', b) = Work(videos, b) + (IF b = a THEN 1 ELSE 0)
        BY <1>0, <3>2, <4>1, VideoMoves
      <4>3. Places' BY <1>0, <2>0, <3>1, <4>2 DEF Places
      <4>t. \A b \in Attachments : Total(d, sockets', videos', b) <= Total(downloads, sockets, videos, b)
        BY <1>0, <1>a, <2>1, <2>2, <3>1, <4>1, <4>2, <4>3 DEF Total
      <4> QED BY <1>0, <1>a, <2>1, <2>2, <3>1, <4>1, <4>2, <4>3, <4>t, LoadStep
    <3>3. CASE a \notin Videos
      <4>1. Settle(d, a, Call("resolved", a, "original")) /\ videos' = videos
        BY <2>4, <3>3 DEF handleInlineAttachment, notify, d
      <4>2. Places' BY <1>0, <2>0, <3>1, <4>1 DEF Places
      <4>t. \A b \in Attachments : Total(d, sockets', videos', b) <= Total(downloads, sockets, videos, b)
        BY <1>0, <1>a, <2>1, <2>2, <3>1, <4>1, <4>2 DEF Total
      <4>3. Consistent(d, Wish(calls)) /\ Covered(d, Wish(calls), Load(sockets', videos'))
        BY <1>0, <1>a, <2>1, <2>2, <3>1, <4>1, <4>2, <4>t, LoadStep
      <4> QED BY <1>0, <2>1, <4>1, <4>2, <4>3, Outcomes, SettleStep
    <3> QED BY <3>2, <3>3
  <2>5. CASE rejectPendingByFilename(a)
    <3>1. Settle(d, a, Call("rejected", a, None)) /\ UNCHANGED <<row, disk, sockets, videos>>
      BY <2>5 DEF rejectPendingByFilename, Reject, d
    <3>2. Places' BY <1>0, <2>0, <3>1 DEF Places
    <3>t. \A b \in Attachments : Total(d, sockets', videos', b) <= Total(downloads, sockets, videos, b)
      BY <1>0, <1>a, <2>1, <2>2, <3>1, <3>2 DEF Total
    <3>3. Consistent(d, Wish(calls)) /\ Covered(d, Wish(calls), Load(sockets', videos'))
      BY <1>0, <1>a, <2>1, <2>2, <3>1, <3>2, <3>t, LoadStep
    <3> QED BY <1>0, <2>1, <3>1, <3>2, <3>3, Outcomes, SettleStep
  <2>6. CASE OpenPayload(a)
    <3>1. /\ sockets' = [sockets EXCEPT ![a] = @ + 1] /\ disk' = disk \cup {<<a, "original">>}
          /\ downloads' = d /\ UNCHANGED <<calls, row, videos>>
      BY <2>6 DEF OpenPayload, d
    <3>2. /\ sockets' \in [Attachments -> Nat]
          /\ \A b \in Attachments : sockets'[b] = sockets[b] + (IF b = a THEN 1 ELSE 0)
      BY <1>0, <1>a, <3>1 DEF Places
    <3>3. Places' BY <1>0, <2>0, <3>1, <3>2 DEF Places
    <3>t. \A b \in Attachments : Total(d, sockets', videos', b) <= Total(downloads, sockets, videos, b)
      BY <1>0, <1>a, <2>1, <2>2, <3>1, <3>2, <3>3 DEF Total
    <3> QED BY <1>0, <1>a, <2>1, <2>2, <3>1, <3>2, <3>3, <3>t, LoadStep
  <2> QED BY <1>3, <2>3, <2>4, <2>5, <2>6 DEF handleAttachmentFile
<1>k. ASSUME NEW a \in Attachments, sockets[a] > 0, sockets' = [sockets EXCEPT ![a] = @ - 1]
      PROVE  /\ sockets' \in [Attachments -> Nat]
             /\ \A b \in Attachments : sockets'[b] + (IF b = a THEN 1 ELSE 0) = sockets[b]
  BY <1>0, <1>a, <1>k DEF Places
<1>4. ASSUME NEW a \in Attachments, PayloadEnds(a) PROVE Rest' /\ Account'
  <2>1. /\ sockets[a] > 0 /\ sockets' = [sockets EXCEPT ![a] = @ - 1]
        /\ row' = [row EXCEPT ![a] = "original"] /\ UNCHANGED <<connected, breaks, disk>>
    BY <1>4 DEF PayloadEnds
  <2>2. /\ sockets' \in [Attachments -> Nat]
        /\ \A b \in Attachments : sockets'[b] + (IF b = a THEN 1 ELSE 0) = sockets[b]
    BY <1>k, <2>1
  <2>3. CASE a \in Videos
    <3>1. Started(a, "probe") /\ UNCHANGED <<downloads, calls>> BY <1>4, <2>3 DEF PayloadEnds
    <3>2. /\ videos' \in VideoTable
          /\ \A b \in Attachments : Work(videos', b) = Work(videos, b) + (IF b = a THEN 1 ELSE 0)
      BY <1>0, <2>3, <3>1, VideoMoves
    <3>3. Places' BY <1>0, <2>1, <2>2, <3>2 DEF Places
    <3>4. \A b \in Attachments : sockets'[b] \in Nat BY <2>2
    <3>t. \A b \in Attachments : Total(downloads, sockets', videos', b) <= Total(downloads, sockets, videos, b)
      BY <1>0, <1>a, <2>2, <3>1, <3>2, <3>3, <3>4 DEF Total
    <3> QED BY <1>0, <1>a, <2>2, <3>1, <3>2, <3>3, <3>4, <3>t, LoadStep
  <2>4. CASE a \notin Videos
    <3>1. Settle(downloads, a, Call("resolved", a, "original")) /\ videos' = videos
      BY <1>4, <2>4 DEF PayloadEnds, notify
    <3>2. Places' BY <1>0, <2>1, <2>2, <3>1 DEF Places
    <3>3. \A b \in Attachments : sockets'[b] \in Nat BY <2>2
    <3>t. \A b \in Attachments : Total(downloads, sockets', videos', b) <= Total(downloads, sockets, videos, b)
      BY <1>0, <1>a, <2>2, <3>1, <3>2, <3>3 DEF Total
    <3>4. /\ Consistent(downloads, Wish(calls))
          /\ Covered(downloads, Wish(calls), Load(sockets', videos'))
      BY <1>0, <1>a, <2>2, <3>1, <3>2, <3>3, <3>t, LoadStep
    <3> QED BY <1>0, <3>1, <3>2, <3>4, Outcomes, SettleStep
  <2> QED BY <2>3, <2>4
<1>5. ASSUME NEW a \in Attachments, PayloadFails(a) PROVE Rest' /\ Account'
  <2>1. /\ sockets[a] > 0 /\ sockets' = [sockets EXCEPT ![a] = @ - 1]
        /\ disk' = disk \ {<<a, "original">>} /\ UNCHANGED <<connected, breaks, row, videos>>
        /\ Settle(downloads, a, Call("rejected", a, None))
    BY <1>5 DEF PayloadFails, Reject
  <2>2. /\ sockets' \in [Attachments -> Nat]
        /\ \A b \in Attachments : sockets'[b] + (IF b = a THEN 1 ELSE 0) = sockets[b]
    BY <1>k, <2>1
  <2>3. Places' BY <1>0, <2>1, <2>2 DEF Places
  <2>4. \A b \in Attachments : sockets'[b] \in Nat BY <2>2
  <2>t. \A b \in Attachments : Total(downloads, sockets', videos', b) <= Total(downloads, sockets, videos, b)
    BY <1>0, <1>a, <2>1, <2>2, <2>3, <2>4 DEF Total
  <2>5. /\ Consistent(downloads, Wish(calls))
        /\ Covered(downloads, Wish(calls), Load(sockets', videos'))
    BY <1>0, <1>a, <2>1, <2>2, <2>3, <2>4, <2>t, LoadStep
  <2> QED BY <1>0, <2>1, <2>3, <2>5, Outcomes, SettleStep
<1>6. ASSUME NEW v \in Videos, needsTranscode(v) PROVE Rest' /\ Account'
  <2>1. /\ Running(v, "probe")
        /\ \E s \in {"original", "mp4", "transcode"} : videos' = Passed(v, "probe", s)
        /\ UNCHANGED <<connected, breaks, row, disk, calls, downloads, sockets>>
    BY <1>6 DEF needsTranscode
  <2>2. videos' \in VideoTable /\ \A b \in Attachments : Work(videos', b) <= Work(videos, b)
    BY <1>0, <2>1, VideoMoves
  <2>3. Places' BY <1>0, <2>1, <2>2 DEF Places
  <2>4. \A b \in Attachments : Work(videos', b) \in Nat BY <2>2, <2>3, WorkIsNat
  <2>t. \A b \in Attachments : Total(downloads, sockets', videos', b) <= Total(downloads, sockets, videos, b)
    BY <1>0, <1>a, <2>1, <2>2, <2>3, <2>4 DEF Total
  <2> QED BY <1>0, <1>a, <2>1, <2>2, <2>3, <2>4, <2>t, LoadStep
<1>7. ASSUME NEW v \in Videos, transcodeToMp4(v) PROVE Rest' /\ Account'
  <2>1. /\ Running(v, "transcode")
        /\ \E s \in Paths : videos' = Passed(v, "transcode", s)
        /\ UNCHANGED <<connected, breaks, calls, downloads, sockets>>
        /\ row' \in [Attachments -> Paths \cup {None}]
        /\ disk' \subseteq Attachments \X Paths
    BY <1>0, <1>7 DEF transcodeToMp4, Places
  <2>2. videos' \in VideoTable /\ \A b \in Attachments : Work(videos', b) <= Work(videos, b)
    BY <1>0, <2>1, VideoMoves DEF Paths
  <2>3. Places' BY <1>0, <2>1, <2>2 DEF Places
  <2>4. \A b \in Attachments : Work(videos', b) \in Nat BY <2>2, <2>3, WorkIsNat
  <2>t. \A b \in Attachments : Total(downloads, sockets', videos', b) <= Total(downloads, sockets, videos, b)
    BY <1>0, <1>a, <2>1, <2>2, <2>3, <2>4 DEF Total
  <2> QED BY <1>0, <1>a, <2>1, <2>2, <2>3, <2>4, <2>t, LoadStep
<1>8. ASSUME NEW v \in Videos, NEW p \in Paths, generateVideoThumbnail(v, p) PROVE Rest' /\ Account'
  <2>1. /\ Running(v, p) /\ videos' = [videos EXCEPT ![<<v, p>>] = @ - 1]
        /\ Settle(downloads, v, Call("resolved", v, p))
        /\ UNCHANGED <<connected, breaks, row, disk, sockets>>
    BY <1>8 DEF generateVideoThumbnail, notify
  <2>2. videos' \in VideoTable /\ \A b \in Attachments : Work(videos', b) <= Work(videos, b)
    BY <1>0, <2>1, VideoMoves
  <2>3. Places' BY <1>0, <2>1, <2>2 DEF Places
  <2>4. \A b \in Attachments : Work(videos', b) \in Nat BY <2>2, <2>3, WorkIsNat
  <2>t. \A b \in Attachments : Total(downloads, sockets', videos', b) <= Total(downloads, sockets, videos, b)
    <3>1. sockets' = sockets BY <2>1
    <3> QED BY <1>0, <1>a, <2>2, <2>4, <3>1 DEF Total
  <2>5. /\ Consistent(downloads, Wish(calls))
        /\ Covered(downloads, Wish(calls), Load(sockets', videos'))
    BY <1>0, <1>a, <2>1, <2>2, <2>3, <2>4, <2>t, LoadStep
  <2> QED BY <1>0, <2>1, <2>3, <2>5, Outcomes, SettleStep
<1>9. CASE Connect
  <2>1. /\ downloads' = processDownloadQueue(downloads, TRUE)
        /\ UNCHANGED <<breaks, row, disk, calls, sockets, videos>>
    BY <1>9 DEF Connect
  <2>2. Load(sockets, videos) \in [Attachments -> Nat] BY <1>0, LoadIsNat DEF Places, VideoTable
  <2>3. /\ Consistent(downloads', Wish(calls)) /\ Covered(downloads', Wish(calls), Load(sockets, videos))
    BY <1>0, <2>1, <2>2, ProcessKeepsAccount DEF Account
  <2> QED BY <1>0, <2>1, <2>3 DEF Rest, Places, Account
<1>10. CASE Disconnect
  <2>1. /\ downloads' = [downloads EXCEPT !.asked = [a \in Attachments |-> 0]]
        /\ breaks' = breaks + 1 /\ breaks < MaxBreaks
        /\ UNCHANGED <<row, disk, calls, sockets, videos>>
    BY <1>10 DEF Disconnect
  <2>2. /\ downloads' \in Downloads /\ downloads'.queue = downloads.queue
        /\ downloads'.pending = downloads.pending
        /\ \A b \in Attachments : downloads'.asked[b] = 0
    BY <1>0, <2>1 DEF Downloads
  <2>3. Places' BY <1>0, <2>1, AttachmentAssumption DEF Places
  <2>t. \A b \in Attachments : Total(downloads', sockets', videos', b) <= Total(downloads, sockets, videos, b)
    BY <1>0, <1>a, <2>1, <2>2, <2>3 DEF Total
  <2> QED BY <1>0, <1>a, <2>1, <2>2, <2>3, <2>t, LoadStep
<1>11. ASSUME NEW a \in Attachments, FileRemoved(a) PROVE Rest' /\ Account'
  <2>1. /\ disk' = disk \ {<<a, row[a]>>}
        /\ UNCHANGED <<breaks, row, calls, downloads, sockets, videos>>
    BY <1>11 DEF FileRemoved
  <2> QED BY <1>0, <2>1 DEF Rest, Places, Account
<1> QED BY <1>1, <1>2, <1>3, <1>4, <1>5, <1>6, <1>7, <1>8, <1>9, <1>10, <1>11 DEF Next
LEMMA RestInit == Init => Rest /\ Account
<1> SUFFICES ASSUME Init PROVE Rest /\ Account
  OBVIOUS
<1>1. Rest BY AttachmentAssumption DEF Init, Rest, Places, CallRecords, VideoTable
<1>2. Consistent(downloads, Wish(calls)) BY DEF Init, Consistent, Open, HasPending
<1>3. ASSUME NEW a \in Attachments
      PROVE  downloads.asked[a] + Load(sockets, videos)[a] = 0
  <2>1. \A g \in Stages : a \in Videos => videos[<<a, g>>] = 0 BY DEF Init
  <2>2. Work(videos, a) = 0 BY <2>1 DEF Work, Stages, Paths
  <2> QED BY <2>2 DEF Init, Load
<1> QED BY <1>1, <1>2, <1>3, HeardIsFinite DEF Account, Covered

LEMMA LoadInvariant == Spec => [](Inv /\ Rest /\ Account)
<1>1. Inv /\ Rest /\ Account /\ [Next]_vars => (Inv /\ Rest /\ Account)'
  <2> SUFFICES ASSUME Inv, Rest, Account, [Next]_vars PROVE (Inv /\ Rest /\ Account)'
    OBVIOUS
  <2>1. Inv' BY InvStep
  <2>2. CASE Next BY <2>1, <2>2, RestStep
  <2>3. CASE UNCHANGED vars BY <2>1, <2>3 DEF vars, Rest, Places, Account
  <2> QED BY <2>2, <2>3
<1> QED BY <1>1, InvInit, RestInit, PTL DEF Spec

(* No counter exceeds the number of callers, as each request on the wire, each *)
(* payload socket and each ffmpeg process goes back to a caller of its own. *)
LEMMA LoadIsBounded ==
    ASSUME Inv, Rest, Account, NEW a \in Attachments
    PROVE  /\ downloads.asked[a] \in 0..Cardinality(Callers)
           /\ sockets[a] \in 0..Cardinality(Callers)
           /\ Work(videos, a) \in 0..Cardinality(Callers)
<1>1. downloads.asked[a] + (sockets[a] + Work(videos, a)) <= Cardinality(Heard(a, downloads.queue, Wish(calls)))
  BY DEF Account, Covered, Load
<1> DEFINE n == downloads.asked[a]
           m == sockets[a]
           k == Work(videos, a)
<1>2. n \in Nat /\ m \in Nat /\ k \in Nat BY Amounts
<1> HIDE DEF n, m, k
<1>3. n + (m + k) <= Cardinality(Callers) BY <1>1, <1>2, HeardIsFinite DEF n, m, k
<1>4. n \in 0..Cardinality(Callers) /\ m \in 0..Cardinality(Callers) /\ k \in 0..Cardinality(Callers)
  BY <1>2, <1>3, HeardIsFinite
<1> QED BY <1>4 DEF n, m, k

(* The handler's state, the files, the promises, the payload sockets and the *)
(* ffmpeg processes keep their types, and there are never more requests, *)
(* sockets or processes for an attachment than calls. *)
THEOREM TypeCorrect == Spec => []TypeOK
<1>1. Inv /\ Rest /\ Account => TypeOK
  <2> SUFFICES ASSUME Inv, Rest, Account PROVE TypeOK
    OBVIOUS
  <2>1. /\ downloads \in Downloads /\ connected \in BOOLEAN
        /\ Places /\ calls \in [Callers -> CallRecords]
    BY DEF Inv, Rest
  <2>2. \A c \in Callers :
           \/ calls[c] = Call("idle", None, None)
           \/ \E a \in Attachments, s \in {"waiting", "rejected"} : calls[c] = Call(s, a, None)
           \/ \E a \in Attachments, p \in Paths : calls[c] = Call("resolved", a, p)
    BY <2>1 DEF CallRecords
  <2>3. downloads.asked \in [Attachments -> 0..Cardinality(Callers)]
    <3>1. downloads.asked \in [Attachments -> Nat] BY <2>1 DEF Downloads
    <3> QED BY <3>1, LoadIsBounded
  <2>4. sockets \in [Attachments -> 0..Cardinality(Callers)] BY <2>1, LoadIsBounded DEF Places
  <2>5. videos \in [Videos \X Stages -> 0..Cardinality(Callers)]
    <3>1. videos \in [Videos \X Stages -> Nat] BY <2>1 DEF Places, VideoTable
    <3>2. ASSUME NEW v \in Videos, NEW g \in Stages
          PROVE  videos[<<v, g>>] \in 0..Cardinality(Callers)
      <4> DEFINE of(h) == videos[<<v, h>>]
      <4>1. of("probe") \in Nat /\ of("transcode") \in Nat /\ of("original") \in Nat /\ of("mp4") \in Nat
        BY <3>1 DEF Stages, Paths
      <4>2. Work(videos, v) = of("probe") + of("transcode") + of("original") + of("mp4") BY DEF Work
      <4>3. Work(videos, v) \in 0..Cardinality(Callers) BY LoadIsBounded, AttachmentAssumption
      <4>4. g \in {"probe", "transcode", "original", "mp4"} BY DEF Stages, Paths
      <4>5. Cardinality(Callers) \in Nat BY HeardIsFinite
      <4> HIDE DEF of
      <4>6. of(g) \in Nat /\ of(g) <= Work(videos, v) BY <4>1, <4>2, <4>4
      <4>7. of(g) \in 0..Cardinality(Callers) BY <4>3, <4>5, <4>6
      <4> QED BY <4>7 DEF of
    <3> QED BY <3>1, <3>2
  <2>6. /\ downloads.queue \in Seq(Items) /\ downloads.inFlight \in BOOLEAN
        /\ downloads.pending \in [Attachments -> Pending \cup {NoPending}]
        /\ downloads.timers \subseteq Items
    BY <2>1 DEF Downloads
  <2> QED BY <2>1, <2>2, <2>3, <2>4, <2>5, <2>6 DEF TypeOK, Places, Items
<1> QED BY <1>1, LoadInvariant, PTL

--------------------
(* AttachmentStates: the attachments of the open conversation *)

SpinInv == Spinners!AttachmentConstants /\ Spinners!TypeOK /\ Spinners!SpinnersHaveACause

Counts == [Attachments \X Spinners!Retries -> Nat]

LEMMA CountsMove ==
    ASSUME NEW f \in Counts, NEW a \in Attachments, NEW n \in Spinners!Retries
    PROVE  /\ Spinners!Plus(f, <<a, n>>) \in Counts
           /\ Spinners!Plus(f, <<a, n>>)[<<a, n>>] > 0
           /\ \A b \in Attachments, k \in Spinners!Retries :
                 f[<<b, k>>] > 0 => Spinners!Plus(f, <<a, n>>)[<<b, k>>] > 0
           /\ f[<<a, n>>] > 0 => Spinners!Minus(f, <<a, n>>) \in Counts
           /\ \A b \in Attachments, k \in Spinners!Retries :
                 b # a => Spinners!Minus(f, <<a, n>>)[<<b, k>>] = f[<<b, k>>]
<1> DEFINE x == <<a, n>>
<1>1. x \in Attachments \X Spinners!Retries /\ f[x] \in Nat BY DEF Counts
<1>2. ASSUME NEW b \in Attachments, NEW k \in Spinners!Retries
      PROVE  /\ <<b, k>> \in Attachments \X Spinners!Retries
             /\ b # a => <<b, k>> # x
             /\ f[<<b, k>>] \in Nat
  BY DEF Counts
<1> HIDE DEF x
<1>3. /\ Spinners!Plus(f, x) \in Counts /\ Spinners!Plus(f, x)[x] > 0
      /\ f[x] > 0 => Spinners!Minus(f, x) \in Counts
  BY <1>1 DEF Spinners!Plus, Spinners!Minus, Counts
<1>4. ASSUME NEW b \in Attachments, NEW k \in Spinners!Retries
      PROVE  /\ f[<<b, k>>] > 0 => Spinners!Plus(f, x)[<<b, k>>] > 0
             /\ b # a => Spinners!Minus(f, x)[<<b, k>>] = f[<<b, k>>]
  BY <1>1, <1>2 DEF Spinners!Plus, Spinners!Minus, Counts
<1> QED BY <1>3, <1>4 DEF x

LEMMA SpinInit == Spinners!AttachmentConstants /\ Spinners!Init => SpinInv
BY DEF Spinners!AttachmentConstants, Spinners!Init, SpinInv, Spinners!TypeOK,
       Spinners!SpinnersHaveACause, Spinners!Idle, Spinners!Entry, Spinners!Retries

SpinStates == [Attachments -> [state : {"idle", "downloading", "ready", "error"},
                               retries : Spinners!Retries]]

LEMMA SpinTypes ==
    SpinInv <=> /\ Spinners!AttachmentConstants /\ Spinners!SpinnersHaveACause
                /\ stored \subseteq Attachments /\ flagged \subseteq Attachments
                /\ sel \in Attachments \cup {None} /\ range \in Nat /\ up \in BOOLEAN
                /\ states \in SpinStates /\ calls \in Counts /\ timers \in Counts
                /\ notices \subseteq Attachments \cup {Spinners!Connected}
                /\ clicks \in 0..MaxClicks /\ trouble \in 0..MaxTrouble
BY DEF SpinInv, Spinners!TypeOK, SpinStates, Counts

LEMMA RequestKeeps ==
    ASSUME states \in SpinStates, calls \in Counts, MaxRetries \in Nat,
           NEW a \in Attachments, Spinners!RequestDownload(a)
    PROVE  /\ states' \in SpinStates /\ calls' \in Counts
           /\ \A b \in Attachments : states'[b].state = "downloading" =>
                 \/ states[b].state = "downloading"
                 \/ \E n \in Spinners!Retries : calls'[<<b, n>>] > 0
           /\ \A b \in Attachments, n \in Spinners!Retries :
                 calls[<<b, n>>] > 0 => calls'[<<b, n>>] > 0
<1>0. states[a].retries \in Spinners!Retries /\ 0 \in Spinners!Retries
  BY DEF Spinners!Retries, SpinStates
<1>1. CASE a \in flagged
  <2>1. calls' = calls /\ (states' = states \/
                           states' = [states EXCEPT ![a] = Spinners!Entry("ready", 0)])
    BY <1>1 DEF Spinners!RequestDownload
  <2>2. states' \in SpinStates /\ \A b \in Attachments : b # a => states'[b] = states[b]
    BY <1>0, <2>1 DEF Spinners!Entry, SpinStates
  <2>3. states'[a].state = "downloading" => states[a].state = "downloading"
    BY <2>1 DEF Spinners!Entry, SpinStates
  <2> QED BY <2>1, <2>2, <2>3
<1>2. CASE a \notin flagged /\ states[a].state \in {"downloading", "ready"}
  BY <1>2 DEF Spinners!RequestDownload
<1>3. CASE a \notin flagged /\ states[a].state \notin {"downloading", "ready"}
  <2>1. /\ states' = [states EXCEPT ![a].state = "downloading"]
        /\ calls' = Spinners!Plus(calls, <<a, states[a].retries>>)
    BY <1>3 DEF Spinners!RequestDownload
  <2>2. /\ calls' \in Counts /\ calls'[<<a, states[a].retries>>] > 0
        /\ \A b \in Attachments, n \in Spinners!Retries :
              calls[<<b, n>>] > 0 => calls'[<<b, n>>] > 0
    BY <2>1, <1>0, CountsMove
  <2>3. states' \in SpinStates /\ \A b \in Attachments : b # a => states'[b] = states[b]
    BY <2>1, <1>0 DEF SpinStates
  <2> QED BY <2>2, <2>3, <1>0
<1> QED BY <1>1, <1>2, <1>3

LEMMA SpinStep ==
    ASSUME SpinInv, [Spinners!Next]_(Spinners!vars)
    PROVE  SpinInv'
<1>0. /\ Spinners!AttachmentConstants /\ Spinners!SpinnersHaveACause
      /\ stored \subseteq Attachments /\ flagged \subseteq Attachments
      /\ sel \in Attachments \cup {None} /\ range \in Nat /\ up \in BOOLEAN
      /\ states \in SpinStates /\ calls \in Counts /\ timers \in Counts
      /\ notices \subseteq Attachments \cup {Spinners!Connected}
      /\ clicks \in 0..MaxClicks /\ trouble \in 0..MaxTrouble
      /\ 0 \in Spinners!Retries /\ MaxRetries \in Nat /\ MaxClicks \in Nat /\ MaxTrouble \in Nat
      /\ Rows \in [Attachments -> Nat]
      /\ None \notin Attachments /\ Spinners!Connected \notin Attachments
  BY SpinTypes DEF Spinners!Retries, Spinners!AttachmentConstants
<1> DEFINE Goal ==
             /\ Spinners!SpinnersHaveACause'
             /\ stored' \subseteq Attachments /\ flagged' \subseteq Attachments
             /\ sel' \in Attachments \cup {None} /\ range' \in Nat /\ up' \in BOOLEAN
             /\ states' \in SpinStates /\ calls' \in Counts /\ timers' \in Counts
             /\ notices' \subseteq Attachments \cup {Spinners!Connected}
             /\ clicks' \in 0..MaxClicks /\ trouble' \in 0..MaxTrouble
<1> SUFFICES Goal BY <1>0 DEF SpinInv, Spinners!TypeOK, SpinStates, Counts
<1> USE DEF Spinners!SpinnersHaveACause, Spinners!Click, Spinners!Trouble
<1>1. ASSUME NEW a \in Attachments, Spinners!Select(a)  PROVE Goal
  BY <1>0, <1>1 DEF Spinners!Select, Spinners!Idle, Spinners!Entry, SpinStates
<1>2. ASSUME NEW a \in Attachments, Spinners!NotifyAttachmentReady(a)  PROVE Goal
  <2>1. /\ states' \in SpinStates
        /\ \A b \in Attachments : states'[b].state = "downloading" =>
              states[b].state = "downloading"
    BY <1>0, <1>2 DEF Spinners!NotifyAttachmentReady, SpinStates
  <2>2. Spinners!Connected \in notices => Spinners!Connected \in notices'
    BY <1>0, <1>2 DEF Spinners!NotifyAttachmentReady
  <2> QED BY <1>0, <1>2, <2>1, <2>2 DEF Spinners!NotifyAttachmentReady
<1>3. ASSUME NEW a \in Attachments, Spinners!Download(a)  PROVE Goal
  BY <1>0, <1>3 DEF Spinners!Download
<1>4. ASSUME NEW a \in Attachments, NEW n \in Spinners!Retries, Spinners!Succeeds(a, n)
      PROVE Goal
  <2>1. calls' \in Counts BY <1>0, <1>4, CountsMove DEF Spinners!Succeeds
  <2>2. /\ states' \in SpinStates
        /\ states'[a].state = "ready" /\ \A b \in Attachments : b # a => states'[b] = states[b]
    BY <1>0, <1>4 DEF Spinners!Succeeds, Spinners!Entry, SpinStates
  <2>3. \A b \in Attachments, k \in Spinners!Retries : b # a => calls'[<<b, k>>] = calls[<<b, k>>]
    <3>1. calls' = Spinners!Minus(calls, <<a, n>>) BY <1>4 DEF Spinners!Succeeds
    <3>2. \A b \in Attachments, k \in Spinners!Retries :
             b # a => Spinners!Minus(calls, <<a, n>>)[<<b, k>>] = calls[<<b, k>>]
      BY <1>0, CountsMove
    <3> QED BY <3>1, <3>2
  <2>4. Spinners!SpinnersHaveACause' BY <1>0, <2>2, <2>3, <1>4 DEF Spinners!Succeeds
  <2> QED BY <1>0, <2>1, <2>2, <2>4, <1>4 DEF Spinners!Succeeds
<1>5. ASSUME NEW a \in Attachments, NEW n \in Spinners!Retries, Spinners!Fails(a, n)
      PROVE Goal
  <2>1. calls' \in Counts BY <1>0, <1>5, CountsMove DEF Spinners!Fails
  <2>2. \A b \in Attachments, k \in Spinners!Retries : b # a => calls'[<<b, k>>] = calls[<<b, k>>]
    <3>1. calls' = Spinners!Minus(calls, <<a, n>>) BY <1>5 DEF Spinners!Fails
    <3>2. \A b \in Attachments, k \in Spinners!Retries :
             b # a => Spinners!Minus(calls, <<a, n>>)[<<b, k>>] = calls[<<b, k>>]
      BY <1>0, CountsMove
    <3> QED BY <3>1, <3>2
  <2>3. /\ timers' \in Counts
        /\ \A b \in Attachments, k \in Spinners!Retries :
              timers[<<b, k>>] > 0 => timers'[<<b, k>>] > 0
        /\ states' \in SpinStates
        /\ \A b \in Attachments : b # a => states'[b] = states[b]
        /\ states'[a].state = "downloading" => \E k \in Spinners!Retries : timers'[<<a, k>>] > 0
    <3>1. CASE n < MaxRetries
      <4>1. n + 1 \in Spinners!Retries BY <1>0, <3>1 DEF Spinners!Retries
      <4>2. /\ states' = [states EXCEPT ![a] = Spinners!Entry("downloading", n + 1)]
            /\ timers' = Spinners!Plus(timers, <<a, n + 1>>)
        BY <1>0, <1>5, <3>1 DEF Spinners!Fails, Spinners!Failed
      <4>4. /\ timers' \in Counts
            /\ timers'[<<a, n + 1>>] > 0
            /\ \A b \in Attachments, k \in Spinners!Retries :
                  timers[<<b, k>>] > 0 => timers'[<<b, k>>] > 0
        BY <1>0, <4>1, <4>2, CountsMove
      <4>5. /\ states' \in SpinStates
            /\ \A b \in Attachments : b # a => states'[b] = states[b]
        BY <1>0, <4>1, <4>2 DEF Spinners!Entry, SpinStates
      <4> QED BY <1>0, <4>1, <4>4, <4>5
    <3>2. CASE ~(n < MaxRetries)
      BY <1>0, <1>5, <3>2 DEF Spinners!Fails, Spinners!Failed, Spinners!Entry, SpinStates
    <3> QED BY <1>0, <3>1, <3>2
  <2>4. Spinners!SpinnersHaveACause'
    <3> SUFFICES ASSUME NEW b \in Attachments, states'[b].state = "downloading", up,
                        Spinners!Connected \notin notices
                 PROVE  \E k \in Spinners!Retries : calls'[<<b, k>>] > 0 \/ timers'[<<b, k>>] > 0
      BY <1>0, <1>5 DEF Spinners!Fails
    <3>1. CASE b = a BY <1>0, <3>1, <2>3
    <3>2. CASE b # a
      <4>1. PICK k \in Spinners!Retries : calls[<<b, k>>] > 0 \/ timers[<<b, k>>] > 0
        BY <1>0, <3>2, <2>3
      <4> QED BY <1>0, <4>1, <3>2, <2>2, <2>3
    <3> QED BY <1>0, <3>1, <3>2
  <2> QED BY <1>0, <2>1, <2>3, <2>4, <1>5 DEF Spinners!Fails
<1>6. ASSUME NEW a \in Attachments, NEW n \in Spinners!Retries, Spinners!NotConnected(a, n)
      PROVE Goal
  <2>1. calls' \in Counts BY <1>0, <1>6, CountsMove DEF Spinners!NotConnected
  <2> QED BY <1>0, <2>1, <1>6 DEF Spinners!NotConnected, Spinners!Entry, SpinStates
<1>7. ASSUME NEW a \in Attachments, NEW n \in Spinners!Retries, Spinners!RetryTimer(a, n)
      PROVE Goal
  <2>1. /\ timers' \in Counts
        /\ \A b \in Attachments, k \in Spinners!Retries :
              b # a => timers'[<<b, k>>] = timers[<<b, k>>]
    <3>1. timers' = Spinners!Minus(timers, <<a, n>>) /\ timers[<<a, n>>] > 0
      BY <1>7 DEF Spinners!RetryTimer
    <3>2. \A b \in Attachments, k \in Spinners!Retries :
             b # a => Spinners!Minus(timers, <<a, n>>)[<<b, k>>] = timers[<<b, k>>]
      BY <1>0, CountsMove
    <3>3. Spinners!Minus(timers, <<a, n>>) \in Counts BY <1>0, <3>1, CountsMove
    <3> QED BY <3>1, <3>2, <3>3
  <2>2. /\ calls' \in Counts
        /\ \A b \in Attachments, k \in Spinners!Retries :
              calls[<<b, k>>] > 0 => calls'[<<b, k>>] > 0
        /\ states[a].state = "downloading" => calls'[<<a, n>>] > 0
    BY <1>0, <1>7, CountsMove DEF Spinners!RetryTimer
  <2>3. Spinners!SpinnersHaveACause'
    <3> SUFFICES ASSUME NEW b \in Attachments, states[b].state = "downloading", up,
                        Spinners!Connected \notin notices
                 PROVE  \E k \in Spinners!Retries : calls'[<<b, k>>] > 0 \/ timers'[<<b, k>>] > 0
      BY <1>0, <1>7 DEF Spinners!RetryTimer
    <3>1. CASE b = a BY <1>0, <3>1, <2>2
    <3>2. CASE b # a
      <4>1. PICK k \in Spinners!Retries : calls[<<b, k>>] > 0 \/ timers[<<b, k>>] > 0 BY <1>0, <3>2
      <4> QED BY <1>0, <4>1, <3>2, <2>1, <2>2
    <3> QED BY <1>0, <3>1, <3>2
  <2> QED BY <1>0, <2>1, <2>2, <2>3, <1>7 DEF Spinners!RetryTimer
<1>8. CASE Spinners!RetryPendingDownloads
  <2> USE <1>8 DEF Spinners!RetryPendingDownloads
  <2>1. /\ calls' \in Counts
        /\ \A a \in Attachments, n \in Spinners!Retries :
              states[a] = Spinners!Entry("downloading", n) => calls'[<<a, n>>] > 0
    <3>1. DOMAIN calls = Attachments \X Spinners!Retries BY <1>0 DEF Counts
    <3>2. \A y \in Attachments \X Spinners!Retries :
             /\ calls[y] \in Nat
             /\ calls'[y] = IF states[y[1]] = Spinners!Entry("downloading", y[2])
                            THEN calls[y] + 1 ELSE calls[y]
      BY <1>0, <3>1 DEF Counts
    <3>3. calls' \in Counts BY <1>0, <3>1, <3>2 DEF Counts
    <3>4. ASSUME NEW a \in Attachments, NEW n \in Spinners!Retries,
                 states[a] = Spinners!Entry("downloading", n)
          PROVE  calls'[<<a, n>>] > 0
      BY <1>0, <3>2, <3>4
    <3> QED BY <1>0, <3>3, <3>4
  <2>2. ASSUME NEW a \in Attachments, states[a].state = "downloading"
        PROVE  /\ states[a].retries \in Spinners!Retries
               /\ states[a] = Spinners!Entry("downloading", states[a].retries)
    BY <1>0, <2>2 DEF Spinners!Entry, SpinStates
  <2>3. Spinners!SpinnersHaveACause' BY <1>0, <2>1, <2>2
  <2> QED BY <1>0, <2>1, <2>3
<1>9. CASE Spinners!VisibleRange
  <2>1. sel \in Attachments /\ Spinners!RequestDownload(sel) BY <1>0, <1>9 DEF Spinners!VisibleRange
  <2>2. /\ states' \in SpinStates
        /\ calls' \in Counts
        /\ \A b \in Attachments : states'[b].state = "downloading" =>
              \/ states[b].state = "downloading"
              \/ \E n \in Spinners!Retries : calls'[<<b, n>>] > 0
        /\ \A b \in Attachments, n \in Spinners!Retries :
              calls[<<b, n>>] > 0 => calls'[<<b, n>>] > 0
    BY <1>0, <2>1, RequestKeeps
  <2>3. Spinners!SpinnersHaveACause' BY <1>0, <2>2, <1>9 DEF Spinners!VisibleRange
  <2> QED BY <1>0, <2>2, <2>3, <1>9 DEF Spinners!VisibleRange
<1>10. CASE Spinners!Loaded \/ Spinners!Scroll \/ Spinners!Disconnect \/ Spinners!Connect
  <2>1. CASE Spinners!Loaded BY <1>0, <2>1 DEF Spinners!Loaded
  <2>2. CASE Spinners!Scroll BY <1>0, <2>2 DEF Spinners!Scroll
  <2>3. CASE Spinners!Disconnect
    <3>1. /\ ~up' /\ up' \in BOOLEAN /\ trouble' = trouble + 1 /\ trouble < MaxTrouble
          /\ UNCHANGED <<stored, sel, flagged, range, states, calls, timers, notices, clicks>>
      BY <2>3 DEF Spinners!Disconnect
    <3>2. Spinners!SpinnersHaveACause' BY <3>1
    <3> HIDE DEF Spinners!SpinnersHaveACause
    <3> QED BY <1>0, <3>1, <3>2
  <2>4. CASE Spinners!Connect BY <1>0, <2>4 DEF Spinners!Connect
  <2> QED BY <1>10, <2>1, <2>2, <2>3, <2>4
<1>11. CASE UNCHANGED Spinners!vars BY <1>0, <1>11 DEF Spinners!vars
<1> QED
  BY <1>0, <1>1, <1>2, <1>3, <1>4, <1>5, <1>6, <1>7, <1>8, <1>9, <1>10, <1>11 DEF Spinners!Next

(* While an attachment of the open conversation shows as downloading, a call *)
(* to the daemon or a retry timer is under way for it, or the phone is away *)
(* and its return will ask again (SpinnersHaveACause): for every number of *)
(* attachments, retries, calls and switches of conversation. *)
THEOREM SpinnersAreCaused ==
    Spinners!AttachmentConstants =>
        (Spinners!Spec => [](Spinners!TypeOK /\ Spinners!SpinnersHaveACause))
<1> SUFFICES ASSUME Spinners!AttachmentConstants
             PROVE  Spinners!Spec => [](Spinners!TypeOK /\ Spinners!SpinnersHaveACause)
  OBVIOUS
<1>1. Spinners!Init => SpinInv BY SpinInit
<1>2. SpinInv /\ [Spinners!Next]_(Spinners!vars) => SpinInv' BY SpinStep
<1>3. SpinInv => Spinners!TypeOK /\ Spinners!SpinnersHaveACause BY DEF SpinInv
<1> QED BY <1>1, <1>2, <1>3, PTL DEF Spinners!Spec

--------------------
(* LinkPreviews: the previews of links *)

LEMMA PreviewCards ==
    /\ \A S : Previews!Cardinality(S) = Cardinality(S) /\ Previews!IsFiniteSet(S) = IsFiniteSet(S)
    /\ Previews!LinkConstants =>
          /\ IsFiniteSet(Calls) /\ Cardinality(Calls) \in Nat /\ Calls = 1..Cardinality(Calls)
          /\ MaxConcurrent \in Nat \ {0} /\ None \notin Links /\ Links # {}
<1>1. \A S : Previews!Cardinality(S) = Cardinality(S) /\ Previews!IsFiniteSet(S) = IsFiniteSet(S)
  BY DEF Previews!Cardinality, Previews!IsFiniteSet, Cardinality, IsFiniteSet
<1> QED BY <1>1, FS_CardinalityType DEF Previews!LinkConstants

Phases == Previews!Fetching \cup {"new", "asked", "queued", "answered", "settled"}
Drafts == [text : Links \cup {None}, shown : Links \cup {None},
           dismissed : Links \cup {None}, timer : BOOLEAN]
Busy(f) == {c \in Calls : f[c] \in Previews!Fetching}

(* The queue holds the waits that wait, each once; and a call that was not *)
(* made yet is new. *)
Lined(waits, f) ==
    /\ waits \in Seq(Calls) /\ f \in [Calls -> Phases]
    /\ \A i \in DOMAIN waits : f[waits[i]] = "queued"
    /\ \A c \in Calls : f[c] = "queued" => \E i \in DOMAIN waits : waits[i] = c
    /\ \A i, j \in DOMAIN waits : waits[i] = waits[j] => i = j

Awaited ==
    \A l \in store.pending : \E c \in Calls : c <= made /\ phase[c] # "settled" /\ url[c] = l

FetcherInv ==
    /\ Lined(queue, phase)
    /\ active = Cardinality(Busy(phase)) /\ active <= MaxConcurrent
    /\ queue # <<>> => active = MaxConcurrent
    /\ \A c \in Calls : c > made => phase[c] = "new"
PreviewInv ==
    /\ Previews!LinkConstants
    /\ store \in [cache : SUBSET Links, pending : SUBSET Links]
    /\ made \in 0..Cardinality(Calls) /\ url \in [Calls -> Links] /\ cached \subseteq Links
    /\ draft \in Drafts
    /\ FetcherInv /\ Awaited /\ Previews!PreviewIsTyped

LEMMA BusyCount ==
    ASSUME Previews!LinkConstants, NEW f \in [Calls -> Phases]
    PROVE  IsFiniteSet(Busy(f)) /\ Cardinality(Busy(f)) \in Nat
<1>1. IsFiniteSet(Calls) /\ Busy(f) \subseteq Calls BY PreviewCards DEF Busy
<1> QED BY <1>1, FS_Subset, FS_CardinalityType

(* What a call's turn does to the number of fetches. *)
LEMMA BusyTurns ==
    ASSUME Previews!LinkConstants, NEW f \in [Calls -> Phases], NEW c \in Calls, NEW p \in Phases
    PROVE  /\ [f EXCEPT ![c] = p] \in [Calls -> Phases]
           /\ (f[c] \in Previews!Fetching <=> p \in Previews!Fetching) =>
                 Cardinality(Busy([f EXCEPT ![c] = p])) = Cardinality(Busy(f))
           /\ f[c] \notin Previews!Fetching /\ p \in Previews!Fetching =>
                 Cardinality(Busy([f EXCEPT ![c] = p])) = Cardinality(Busy(f)) + 1
           /\ f[c] \in Previews!Fetching /\ p \notin Previews!Fetching =>
                 Cardinality(Busy([f EXCEPT ![c] = p])) = Cardinality(Busy(f)) - 1
<1> DEFINE g == [f EXCEPT ![c] = p]
<1>1. g \in [Calls -> Phases] /\ g[c] = p /\ \A d \in Calls : d # c => g[d] = f[d] OBVIOUS
<1>2. IsFiniteSet(Busy(f)) BY BusyCount
<1> HIDE DEF g
<1>3. CASE f[c] \in Previews!Fetching <=> p \in Previews!Fetching
  <2>1. Busy(g) = Busy(f) BY <1>1, <1>3 DEF Busy
  <2> QED BY <1>1, <1>3, <2>1 DEF g
<1>4. CASE f[c] \notin Previews!Fetching /\ p \in Previews!Fetching
  <2>1. Busy(g) = Busy(f) \cup {c} /\ c \notin Busy(f) BY <1>1, <1>4 DEF Busy
  <2>2. Cardinality(Busy(g)) = Cardinality(Busy(f)) + 1 BY <1>2, <2>1, FS_AddElement
  <2> QED BY <1>1, <1>4, <2>2 DEF g
<1>5. CASE f[c] \in Previews!Fetching /\ p \notin Previews!Fetching
  <2>1. Busy(g) = Busy(f) \ {c} /\ c \in Busy(f) BY <1>1, <1>5 DEF Busy
  <2>2. Cardinality(Busy(g)) = Cardinality(Busy(f)) - 1 BY <1>2, <2>1, FS_RemoveElement
  <2> QED BY <1>1, <1>5, <2>2 DEF g
<1> QED BY <1>3, <1>4, <1>5

(* A turn of a call that does not wait, to another place where it does not. *)
LEMMA LineStands ==
    ASSUME NEW waits, NEW f, Lined(waits, f), NEW c \in Calls, NEW p \in Phases,
           f[c] # "queued", p # "queued"
    PROVE  Lined(waits, [f EXCEPT ![c] = p])
BY DEF Lined

LEMMA LineGrows ==
    ASSUME NEW waits, NEW f, Lined(waits, f), NEW c \in Calls, f[c] # "queued"
    PROVE  Lined(Append(waits, c), [f EXCEPT ![c] = "queued"])
<1> DEFINE r == Append(waits, c)
           g == [f EXCEPT ![c] = "queued"]
<1>0. waits \in Seq(Calls) /\ Len(waits) \in Nat /\ DOMAIN waits = 1..Len(waits)
  BY LenProperties DEF Lined
<1>1. /\ r \in Seq(Calls) /\ DOMAIN r = 1..Len(waits) + 1 /\ r[Len(waits) + 1] = c
      /\ \A i \in DOMAIN waits : r[i] = waits[i]
  BY <1>0, AppendProperties
<1>2. g \in [Calls -> Phases] /\ g[c] = "queued" /\ \A d \in Calls : d # c => g[d] = f[d]
  BY DEF Lined, Phases
<1>3. \A i \in DOMAIN waits : waits[i] \in Calls /\ waits[i] # c BY <1>0, ElementOfSeq DEF Lined
<1> HIDE DEF r, g
<1>4. \A i \in DOMAIN r : (i \in DOMAIN waits \/ i = Len(waits) + 1) /\ g[r[i]] = "queued"
  BY <1>0, <1>1, <1>2, <1>3 DEF Lined
<1>5. \A d \in Calls : g[d] = "queued" => \E i \in DOMAIN r : r[i] = d
  <2> TAKE d \in Calls
  <2>1. CASE d = c BY <1>0, <1>1, <2>1
  <2>2. CASE d # c BY <1>0, <1>1, <1>2, <2>2 DEF Lined
  <2> QED BY <2>1, <2>2
<1>6. \A i, j \in DOMAIN r : r[i] = r[j] => i = j BY <1>0, <1>1, <1>3, <1>4 DEF Lined
<1> QED BY <1>1, <1>2, <1>4, <1>5, <1>6 DEF Lined, r, g

LEMMA LineMoves ==
    ASSUME NEW waits, NEW f, Lined(waits, f), waits # <<>>, NEW p \in Phases, p # "queued"
    PROVE  Head(waits) \in Calls /\ f[Head(waits)] = "queued"
           /\ Lined(Tail(waits), [f EXCEPT ![Head(waits)] = p])
<1> DEFINE h == Head(waits)
           r == Tail(waits)
           g == [f EXCEPT ![h] = p]
<1>0. waits \in Seq(Calls) /\ Len(waits) \in Nat \ {0} /\ DOMAIN waits = 1..Len(waits)
  BY LenProperties, EmptySeq DEF Lined
<1>1. /\ r \in Seq(Calls) /\ Len(r) = Len(waits) - 1 /\ h = waits[1] /\ DOMAIN r = 1..Len(r)
      /\ \A i \in DOMAIN r : r[i] = waits[i + 1] /\ i + 1 \in DOMAIN waits
  BY <1>0, HeadTailProperties
<1>2. 1 \in DOMAIN waits /\ h \in Calls /\ f[h] = "queued" BY <1>0, <1>1, ElementOfSeq DEF Lined
<1>3. g \in [Calls -> Phases] /\ g[h] = p /\ \A d \in Calls : d # h => g[d] = f[d] BY <1>2 DEF Lined
<1>4. \A i \in DOMAIN waits : waits[i] \in Calls BY <1>0, ElementOfSeq
<1> HIDE DEF h, r, g
<1>5. \A i \in DOMAIN r : r[i] # h BY <1>0, <1>1, <1>2 DEF Lined
<1>6. \A i \in DOMAIN r : g[r[i]] = "queued" BY <1>1, <1>3, <1>4, <1>5 DEF Lined
<1>7. \A d \in Calls : g[d] = "queued" => \E i \in DOMAIN r : r[i] = d
  <2> SUFFICES ASSUME NEW d \in Calls, g[d] = "queued"  PROVE \E i \in DOMAIN r : r[i] = d
    OBVIOUS
  <2>1. d # h BY <1>3
  <2>2. PICK i \in DOMAIN waits : waits[i] = d BY <1>3, <2>1 DEF Lined
  <2>3. i # 1 /\ i - 1 \in DOMAIN r BY <1>0, <1>1, <2>1, <2>2
  <2>4. r[i - 1] = waits[i] BY <1>0, <1>1, <2>3
  <2> QED BY <2>2, <2>3, <2>4
<1>8. \A i, j \in DOMAIN r : r[i] = r[j] => i = j
  <2> SUFFICES ASSUME NEW i \in DOMAIN r, NEW j \in DOMAIN r, r[i] = r[j]  PROVE i = j
    OBVIOUS
  <2>1. waits[i + 1] = waits[j + 1] /\ i + 1 \in DOMAIN waits /\ j + 1 \in DOMAIN waits BY <1>1
  <2>2. i + 1 = j + 1 BY <2>1 DEF Lined
  <2> QED BY <1>1, <2>2
<1> QED BY <1>1, <1>2, <1>3, <1>6, <1>7, <1>8 DEF Lined, h, r, g

LEMMA PreviewInit == Previews!LinkConstants /\ Previews!Init => PreviewInv
<1> SUFFICES ASSUME Previews!LinkConstants, Previews!Init  PROVE PreviewInv
  OBVIOUS
<1>0. /\ store = [cache |-> {}, pending |-> {}] /\ made = 0 /\ active = 0 /\ queue = <<>>
      /\ phase = [c \in Calls |-> "new"] /\ cached = {}
      /\ url \in [Calls -> {CHOOSE l \in Links : TRUE}]
      /\ draft = [text |-> None, shown |-> None, dismissed |-> None, timer |-> FALSE]
  BY DEF Previews!Init
<1>1. phase \in [Calls -> Phases] /\ Busy(phase) = {} /\ Cardinality({}) = 0
  BY <1>0, FS_EmptySet DEF Busy, Phases, Previews!Fetching
<1>2. url \in [Calls -> Links] BY <1>0, PreviewCards
<1>3. Lined(queue, phase) BY <1>0, <1>1 DEF Lined
<1>4. draft \in Drafts /\ Previews!PreviewIsTyped BY <1>0 DEF Drafts, Previews!PreviewIsTyped
<1>5. FetcherInv
  <2>1. MaxConcurrent \in Nat /\ Cardinality(Busy(phase)) = 0 BY <1>1, PreviewCards
  <2>2. \A c \in Calls : phase[c] = "new" BY <1>0
  <2> QED BY <1>0, <1>3, <2>1, <2>2 DEF FetcherInv
<1> QED BY <1>0, <1>2, <1>4, <1>5, PreviewCards DEF PreviewInv, Awaited

(* A step of the fetcher on the state of one call: what the invariant needs. *)
LEMMA CallTurnKeeps ==
    ASSUME PreviewInv, NEW c \in Calls, NEW p \in Phases,
           c <= made, p \notin {"queued", "settled"}, phase[c] # "queued",
           phase' = [phase EXCEPT ![c] = p],
           phase[c] \in Previews!Fetching <=> p \in Previews!Fetching,
           UNCHANGED <<store, made, url, active, queue>>
    PROVE  FetcherInv' /\ Awaited'
<1> USE DEF PreviewInv, FetcherInv
<1>1. Lined(queue, phase)' BY LineStands
<1>2. Cardinality(Busy(phase)') = Cardinality(Busy(phase)) BY BusyTurns DEF Lined, Busy
<1>3. phase \in [Calls -> Phases] /\ \A d \in Calls : d # c => phase'[d] = phase[d] BY DEF Lined
<1>4. made \in Int /\ \A d \in Calls : d \in Int BY PreviewCards
<1>5. Awaited' BY <1>3 DEF Awaited
<1> QED BY <1>1, <1>2, <1>3, <1>4, <1>5

LEMMA PreviewStep ==
    ASSUME PreviewInv, [Previews!Next]_(Previews!vars)
    PROVE  PreviewInv'
<1>0. /\ Previews!LinkConstants
      /\ IsFiniteSet(Calls) /\ Cardinality(Calls) \in Nat /\ Calls = 1..Cardinality(Calls)
      /\ MaxConcurrent \in Nat \ {0} /\ None \notin Links
      /\ store \in [cache : SUBSET Links, pending : SUBSET Links]
      /\ made \in 0..Cardinality(Calls) /\ url \in [Calls -> Links] /\ cached \subseteq Links
      /\ draft \in Drafts
      /\ FetcherInv /\ Awaited /\ Previews!PreviewIsTyped
      /\ Lined(queue, phase) /\ phase \in [Calls -> Phases]
      /\ Previews!Cardinality(Calls) = Cardinality(Calls)
  BY PreviewCards DEF PreviewInv, FetcherInv, Lined
<1> DEFINE Goal ==
      /\ store' \in [cache : SUBSET Links, pending : SUBSET Links]
      /\ made' \in 0..Cardinality(Calls) /\ url' \in [Calls -> Links] /\ cached' \subseteq Links
      /\ draft' \in Drafts
      /\ FetcherInv' /\ Awaited' /\ Previews!PreviewIsTyped'
<1> SUFFICES Goal BY <1>0 DEF PreviewInv
<1>f. UNCHANGED <<made, phase, active, queue>> => FetcherInv' BY <1>0 DEF FetcherInv
<1>a. UNCHANGED <<store, made, url, phase>> => Awaited' BY <1>0 DEF Awaited
<1>d. UNCHANGED draft => draft' \in Drafts /\ Previews!PreviewIsTyped'
  BY <1>0 DEF Previews!PreviewIsTyped
<1>1. ASSUME NEW l \in Links, Previews!FetchPreview(l)  PROVE Goal
  <2>0. /\ made < Cardinality(Calls) /\ store' = [store EXCEPT !.pending = @ \cup {l}]
        /\ made' = made + 1 /\ url' = [url EXCEPT ![made + 1] = l]
        /\ phase' = [phase EXCEPT ![made + 1] = "asked"]
        /\ UNCHANGED <<active, queue, cached, draft, resets, edits>>
    BY <1>0, <1>1 DEF Previews!FetchPreview
  <2>1. made \in Nat /\ made + 1 \in Calls /\ made + 1 > made /\ phase[made + 1] = "new"
    BY <1>0, <2>0 DEF FetcherInv
  <2>2. "asked" \in Phases /\ "asked" \notin Previews!Fetching /\ "new" \notin Previews!Fetching
    BY DEF Phases, Previews!Fetching
  <2>3. Lined(queue, phase)' BY <1>0, <2>0, <2>1, <2>2, LineStands
  <2>4. Cardinality(Busy(phase)') = Cardinality(Busy(phase))
    BY <1>0, <2>0, <2>1, <2>2, BusyTurns DEF Busy
  <2>5. \A c \in Calls : c > made' => c > made /\ c # made + 1 /\ phase'[c] = phase[c]
    BY <1>0, <2>0, <2>1
  <2>6. FetcherInv' BY <1>0, <2>0, <2>3, <2>4, <2>5 DEF FetcherInv
  <2>7. Awaited'
    <3> SUFFICES ASSUME NEW m \in store'.pending
                 PROVE  \E c \in Calls : c <= made' /\ phase'[c] # "settled" /\ url'[c] = m
      BY DEF Awaited
    <3>1. CASE m = l BY <1>0, <2>0, <2>1, <3>1
    <3>2. CASE m # l
      <4>1. m \in store.pending BY <1>0, <2>0, <3>2
      <4>2. PICK c \in Calls : c <= made /\ phase[c] # "settled" /\ url[c] = m
        BY <1>0, <4>1 DEF Awaited
      <4>3. c # made + 1 /\ c <= made' BY <1>0, <2>0, <2>1, <4>2
      <4> QED BY <1>0, <2>0, <4>2, <4>3
    <3> QED BY <3>1, <3>2
  <2>8. store' \in [cache : SUBSET Links, pending : SUBSET Links] /\ url' \in [Calls -> Links]
    BY <1>0, <2>0
  <2> QED BY <1>0, <1>d, <2>0, <2>1, <2>6, <2>7, <2>8
<1>2. ASSUME NEW l \in Links, Previews!Expires(l)  PROVE Goal
  BY <1>0, <1>2, <1>f, <1>a, <1>d DEF Previews!Expires
<1>3. ASSUME NEW l \in Links \cup {None}, Previews!Type(l)  PROVE Goal
  <2>1. /\ draft' = [draft EXCEPT !.text = l, !.timer = TRUE]
        /\ UNCHANGED <<store, made, url, phase, active, queue, cached, resets>>
    BY <1>3 DEF Previews!Type
  <2>2. draft' \in Drafts /\ Previews!PreviewIsTyped'
    BY <1>0, <2>1 DEF Drafts, Previews!PreviewIsTyped
  <2> QED BY <1>0, <1>f, <1>a, <2>1, <2>2
<1>4. ASSUME NEW c \in Calls, Previews!Answered(c)  PROVE Goal
  <2>0. /\ phase[c] = "answered" /\ phase' = [phase EXCEPT ![c] = "settled"]
        /\ store' = [cache |-> store.cache \cup {url[c]}, pending |-> store.pending \ {url[c]}]
        /\ UNCHANGED <<made, url, active, queue, cached, draft, resets, edits>>
    BY <1>4 DEF Previews!Answered
  <2>1. /\ "settled" \in Phases /\ "settled" \notin Previews!Fetching
        /\ "answered" \notin Previews!Fetching
    BY DEF Phases, Previews!Fetching
  <2>2. Lined(queue, phase)' BY <1>0, <2>0, <2>1, LineStands
  <2>3. Cardinality(Busy(phase)') = Cardinality(Busy(phase)) BY <1>0, <2>0, <2>1, BusyTurns DEF Busy
  <2>4. \A d \in Calls : d # c => phase'[d] = phase[d] BY <1>0, <2>0
  <2>5. ~(c > made) BY <1>0, <2>0 DEF FetcherInv
  <2>6. FetcherInv' BY <1>0, <2>0, <2>2, <2>3, <2>4, <2>5 DEF FetcherInv
  <2>7. Awaited' BY <1>0, <2>0, <2>4 DEF Awaited
  <2>8. store' \in [cache : SUBSET Links, pending : SUBSET Links] BY <1>0, <2>0
  <2> QED BY <1>0, <1>d, <2>0, <2>6, <2>7, <2>8
<1>5. ASSUME NEW c \in Calls, Previews!FetchLinkPreview(c)  PROVE Goal
  <2>0. /\ phase[c] = "asked" /\ UNCHANGED <<store, made, url, cached, draft, resets, edits>>
        /\ "asked" \notin Previews!Fetching /\ "answered" \notin Previews!Fetching
        /\ "answered" \in Phases /\ "queued" \in Phases /\ "queued" \notin Previews!Fetching
        /\ Previews!Begins(c) \in Previews!Fetching /\ Previews!Begins(c) \in Phases
        /\ Previews!Begins(c) \notin {"queued", "settled"}
    BY <1>5 DEF Previews!FetchLinkPreview, Phases, Previews!Fetching, Previews!Begins
  <2>1. c <= made /\ made \in Int /\ \A d \in Calls : d \in Int BY <1>0, <2>0 DEF FetcherInv
  <2>2. CASE phase' = [phase EXCEPT ![c] = "answered"] /\ UNCHANGED <<active, queue>>
    <3>1. FetcherInv' /\ Awaited' BY <1>0, <2>0, <2>1, <2>2, CallTurnKeeps
    <3> QED BY <1>0, <1>d, <2>0, <3>1
  <2>3. CASE /\ active < MaxConcurrent /\ active' = active + 1 /\ UNCHANGED queue
             /\ phase' = [phase EXCEPT ![c] = Previews!Begins(c)]
    <3>1. Lined(queue, phase)' BY <1>0, <2>0, <2>3, LineStands
    <3>2. Cardinality(Busy(phase)') = Cardinality(Busy(phase)) + 1
      BY <1>0, <2>0, <2>3, BusyTurns DEF Busy
    <3>3. \A d \in Calls : d # c => phase'[d] = phase[d] BY <1>0, <2>3
    <3>4. Cardinality(Busy(phase)) \in Nat BY <1>0, BusyCount
    <3>5. queue' = <<>> BY <1>0, <2>3, <3>4 DEF FetcherInv
    <3>6. FetcherInv' BY <1>0, <2>0, <2>1, <2>3, <3>1, <3>2, <3>3, <3>4, <3>5 DEF FetcherInv
    <3>7. Awaited' BY <1>0, <2>0, <2>3, <3>3 DEF Awaited
    <3> QED BY <1>0, <1>d, <2>0, <3>6, <3>7
  <2>4. CASE /\ ~(active < MaxConcurrent) /\ queue' = Append(queue, c) /\ UNCHANGED active
             /\ phase' = [phase EXCEPT ![c] = "queued"]
    <3>1. Lined(queue, phase)' BY <1>0, <2>0, <2>4, LineGrows
    <3>2. Cardinality(Busy(phase)') = Cardinality(Busy(phase))
      <4>1. phase[c] \notin Previews!Fetching /\ "queued" \notin Previews!Fetching BY <2>0
      <4>2. Cardinality(Busy([phase EXCEPT ![c] = "queued"])) = Cardinality(Busy(phase))
        BY <1>0, <2>0, <4>1, BusyTurns
      <4> QED BY <2>4, <4>2 DEF Busy
    <3>3. \A d \in Calls : d # c => phase'[d] = phase[d] BY <1>0, <2>4
    <3>4. Cardinality(Busy(phase)) \in Nat BY <1>0, BusyCount
    <3>5. active = MaxConcurrent BY <1>0, <2>4, <3>4 DEF FetcherInv
    <3>6. FetcherInv' BY <1>0, <2>0, <2>1, <2>4, <3>1, <3>2, <3>3, <3>5 DEF FetcherInv
    <3>7. Awaited' BY <1>0, <2>0, <2>4, <3>3 DEF Awaited
    <3> QED BY <1>0, <1>d, <2>0, <3>6, <3>7
  <2> QED BY <1>5, <2>2, <2>3, <2>4 DEF Previews!FetchLinkPreview
<1>6. ASSUME NEW c \in Calls, NEW n \in BOOLEAN, NEW k \in BOOLEAN, Previews!PageArrives(c, n, k)
      PROVE  Goal
  <2>1. PICK p \in {"image", "done"} : phase' = [phase EXCEPT ![c] = p]
    BY <1>6 DEF Previews!PageArrives
  <2>2. /\ phase[c] = "page" /\ cached' \subseteq Links
        /\ UNCHANGED <<store, made, url, active, queue, draft, resets, edits>>
    BY <1>0, <1>6 DEF Previews!PageArrives
  <2>3. c <= made BY <1>0, <2>2 DEF FetcherInv
  <2>4. FetcherInv' /\ Awaited'
    <3>1. /\ p \in Phases /\ p \in Previews!Fetching /\ "page" \in Previews!Fetching
          /\ p \notin {"queued", "settled"}
      BY DEF Phases, Previews!Fetching
    <3> QED BY <2>1, <2>2, <2>3, <3>1, CallTurnKeeps
  <2> QED BY <1>0, <1>d, <2>2, <2>4
<1>7. ASSUME NEW c \in Calls, Previews!ImageArrives(c)  PROVE Goal
  <2>1. /\ phase[c] = "image" /\ cached' \subseteq Links /\ phase' = [phase EXCEPT ![c] = "done"]
        /\ UNCHANGED <<store, made, url, active, queue, draft, resets, edits>>
    BY <1>0, <1>7 DEF Previews!ImageArrives
  <2>2. c <= made BY <1>0, <2>1 DEF FetcherInv
  <2>3. FetcherInv' /\ Awaited'
    <3>1. {"image", "done"} \subseteq Phases \cap Previews!Fetching BY DEF Phases, Previews!Fetching
    <3> QED BY <2>1, <2>2, <3>1, CallTurnKeeps
  <2> QED BY <1>0, <1>d, <2>1, <2>3
<1>8. ASSUME NEW c \in Calls, Previews!Fetched(c)  PROVE Goal
  <2>0. /\ phase[c] = "done" /\ Previews!Release(c)
        /\ UNCHANGED <<store, made, url, cached, draft, resets, edits>>
        /\ "done" \in Previews!Fetching /\ "answered" \notin Previews!Fetching
        /\ "answered" \in Phases /\ "queued" \notin Previews!Fetching
    BY <1>8 DEF Previews!Fetched, Phases, Previews!Fetching
  <2> DEFINE f == [phase EXCEPT ![c] = "answered"]
  <2>1. /\ Lined(queue, f) /\ f \in [Calls -> Phases]
        /\ Cardinality(Busy(f)) = Cardinality(Busy(phase)) - 1
        /\ f[c] = "answered" /\ \A d \in Calls : d # c => f[d] = phase[d]
    <3>1. phase[c] \in Previews!Fetching /\ phase[c] # "queued" BY <2>0
    <3>2. f \in [Calls -> Phases] /\ Cardinality(Busy(f)) = Cardinality(Busy(phase)) - 1
      BY <1>0, <2>0, <3>1, BusyTurns
    <3>3. Lined(queue, f) BY <1>0, <2>0, <3>1, LineStands
    <3> QED BY <1>0, <3>2, <3>3
  <2>2. c <= made /\ made \in Int /\ \A d \in Calls : d \in Int BY <1>0, <2>0 DEF FetcherInv
  <2>3. Cardinality(Busy(phase)) \in Nat BY <1>0, BusyCount
  <2>4. CASE queue = <<>>
    <3>1. phase' = f /\ active' = active - 1 /\ UNCHANGED queue BY <2>0, <2>4 DEF Previews!Release
    <3> HIDE DEF f
    <3>2. FetcherInv' BY <1>0, <2>0, <2>1, <2>2, <2>3, <2>4, <3>1 DEF FetcherInv, Busy
    <3>3. Awaited' BY <1>0, <2>0, <2>1, <3>1 DEF Awaited
    <3> QED BY <1>0, <1>d, <2>0, <3>2, <3>3
  <2>5. CASE queue # <<>>
    <3> DEFINE h == Head(queue)
               p == Previews!Begins(h)
    <3>1. /\ phase' = [phase EXCEPT ![c] = "answered", ![h] = p]
          /\ queue' = Tail(queue) /\ UNCHANGED active
      BY <2>0, <2>5 DEF Previews!Release
    <3>2. p \in {"done", "page"} BY DEF Previews!Begins
    <3>3. p \in Phases /\ p \in Previews!Fetching /\ p # "queued" /\ p # "settled" /\ p # "new"
      BY <3>2 DEF Phases, Previews!Fetching
    <3>4. h \in Calls /\ f[h] = "queued" /\ Lined(Tail(queue), [f EXCEPT ![h] = p])
      BY <2>1, <2>5, <3>3, LineMoves
    <3>5. phase' = [f EXCEPT ![h] = p] BY <3>1
    <3> HIDE DEF f, h, p
    <3>6. Lined(queue, phase)' BY <3>1, <3>4, <3>5
    <3>7. Cardinality(Busy([f EXCEPT ![h] = p])) = Cardinality(Busy(f)) + 1
      <4>1. f[h] \notin Previews!Fetching BY <2>0, <3>4
      <4> QED BY <1>0, <2>1, <3>3, <3>4, <4>1, BusyTurns
    <3>8. Cardinality(Busy(phase)') = Cardinality(Busy(phase)) BY <2>1, <2>3, <3>5, <3>7 DEF Busy
    <3>9. phase'[h] = p /\ \A d \in Calls : d # h => phase'[d] = f[d] BY <2>1, <3>4, <3>5
    <3>10. h # c /\ phase[h] = "queued" BY <2>1, <3>4
    <3>11. h <= made BY <1>0, <2>2, <3>4, <3>10 DEF FetcherInv
    <3>12. FetcherInv'
      BY <1>0, <2>0, <2>1, <2>2, <2>5, <3>1, <3>4, <3>6, <3>8, <3>9, <3>10, <3>11 DEF FetcherInv
    <3>13. Awaited' BY <1>0, <2>0, <2>1, <3>3, <3>4, <3>9 DEF Awaited
    <3> QED BY <1>0, <1>d, <2>0, <3>12, <3>13
  <2> QED BY <2>4, <2>5
<1>9. CASE Previews!Dismiss \/ Previews!Send
  <2>1. /\ draft' \in Drafts /\ draft'.shown = None
        /\ UNCHANGED <<store, made, url, phase, active, queue, cached, resets, edits>>
    <3>1. CASE Previews!Dismiss BY <1>0, <3>1 DEF Previews!Dismiss, Drafts
    <3>2. CASE Previews!Send BY <1>0, <3>2 DEF Previews!Send, Drafts
    <3> QED BY <1>9, <3>1, <3>2
  <2> QED BY <1>0, <1>f, <1>a, <2>1 DEF Previews!PreviewIsTyped
<1>10. CASE Previews!ResetLinkPreviews
  <2>1. /\ store' = [cache |-> {}, pending |-> {}]
        /\ UNCHANGED <<made, url, phase, active, queue, cached, draft, edits>>
    BY <1>10 DEF Previews!ResetLinkPreviews
  <2>2. Awaited' /\ store' \in [cache : SUBSET Links, pending : SUBSET Links] BY <2>1 DEF Awaited
  <2> QED BY <1>0, <1>f, <1>d, <2>1, <2>2
<1>11. ASSUME NEW e \in BOOLEAN, Previews!DebounceTimer(e)  PROVE Goal
  <2>1. /\ draft' = Previews!Show(e)
        /\ UNCHANGED <<store, made, url, phase, active, queue, cached, resets, edits>>
    BY <1>11 DEF Previews!DebounceTimer
  <2>2. draft' \in Drafts /\ Previews!PreviewIsTyped'
    <3>1. CASE e = TRUE BY <1>0, <2>1, <3>1 DEF Drafts, Previews!PreviewIsTyped, Previews!Show
    <3>2. CASE e = FALSE BY <1>0, <2>1, <3>2 DEF Drafts, Previews!PreviewIsTyped, Previews!Show
    <3> QED BY <3>1, <3>2
  <2> QED BY <1>0, <1>f, <1>a, <2>1, <2>2
<1>12. CASE UNCHANGED Previews!vars BY <1>0, <1>f, <1>a, <1>d, <1>12 DEF Previews!vars
<1>13. \A l \in Links \cup {None} : Previews!Type(l) => Goal BY <1>3
<1> QED BY <1>1, <1>2, <1>13, <1>4, <1>5, <1>6, <1>7, <1>8, <1>9, <1>10, <1>11, <1>12
        DEF Previews!Next

LEMMA PreviewsHold ==
    ASSUME PreviewInv  PROVE Previews!TypeOK /\ Previews!PreviewsAreSound
<1> USE DEF PreviewInv, FetcherInv
<1>1. Cardinality(Busy(phase)) \in Nat /\ phase \in [Calls -> Phases] BY BusyCount DEF Lined
<1>2. Previews!ToSet(queue) = {c \in Calls : phase[c] = "queued"}
  <2>1. \A i \in DOMAIN queue : queue[i] \in Calls BY ElementOfSeq, LenProperties DEF Lined
  <2> QED BY <2>1 DEF Previews!ToSet, Lined
<1>3. Previews!TypeOK BY <1>1, <1>2, PreviewCards DEF Previews!TypeOK, Phases, Drafts
<1>4. \A l \in store.pending : \E c \in Previews!Under : url[c] = l
  <2> SUFFICES ASSUME NEW l \in store.pending  PROVE \E c \in Previews!Under : url[c] = l
    OBVIOUS
  <2>1. PICK c \in Calls : c <= made /\ phase[c] # "settled" /\ url[c] = l BY DEF Awaited
  <2>2. c \in 1..made BY <2>1, PreviewCards
  <2> QED BY <2>1, <2>2 DEF Previews!Under
<1>5. Previews!Cardinality({c \in Calls : phase[c] \in Previews!Fetching})
      = Cardinality(Busy(phase))
  BY PreviewCards DEF Busy
<1> QED BY <1>2, <1>3, <1>4, <1>5 DEF Previews!PreviewsAreSound, Previews!FetchesAreCounted

(* The counter of the fetcher is the number of fetches under way and never *)
(* above its limit, no call waits while a place is free, and a preview that *)
(* shows as loading has a call that will end it, whatever was reset or *)
(* expired meanwhile; and the composer previews the link being typed, once *)
(* the typing rests, and never one that was dismissed (PreviewsAreSound): for *)
(* every set of links, number of waits, limit, and number of edits. *)
THEOREM PreviewsStaySound ==
    Previews!LinkConstants =>
        (Previews!Spec => [](Previews!TypeOK /\ Previews!PreviewsAreSound))
<1> SUFFICES ASSUME Previews!LinkConstants
             PROVE  Previews!Spec => [](Previews!TypeOK /\ Previews!PreviewsAreSound)
  OBVIOUS
<1>1. Previews!Init => PreviewInv BY PreviewInit
<1>2. PreviewInv /\ [Previews!Next]_(Previews!vars) => PreviewInv' BY PreviewStep
<1>3. PreviewInv => Previews!TypeOK /\ Previews!PreviewsAreSound BY PreviewsHold
<1> QED BY <1>1, <1>2, <1>3, PTL DEF Previews!Spec

--------------------
(* Of the messages of one kind that wait in a queue, the last is the one that *)
(* counts. *)

LastIn(s, Kind, x) ==
    \E k \in DOMAIN s : s[k] = x /\ x \in Kind /\ \A j \in DOMAIN s : j > k => s[j] \notin Kind
NoneIn(s, Kind) == \A k \in DOMAIN s : s[k] \notin Kind

LEMMA LastSent ==
    ASSUME NEW T, NEW s \in Seq(T), NEW m \in T, NEW Kind, m \in Kind
    PROVE  LastIn(Append(s, m), Kind, m)
<1>1. /\ Len(s) \in Nat /\ DOMAIN Append(s, m) = 1..Len(s) + 1
      /\ Append(s, m)[Len(s) + 1] = m
  BY LenProperties, AppendProperties
<1> QED BY <1>1 DEF LastIn

LEMMA OthersSent ==
    ASSUME NEW T, NEW s \in Seq(T), NEW m \in T, NEW Kind, m \notin Kind
    PROVE  /\ \A x : LastIn(s, Kind, x) => LastIn(Append(s, m), Kind, x)
           /\ NoneIn(s, Kind) => NoneIn(Append(s, m), Kind)
<1>1. /\ Len(s) \in Nat /\ DOMAIN s = 1..Len(s) /\ DOMAIN Append(s, m) = 1..Len(s) + 1
      /\ Append(s, m)[Len(s) + 1] = m /\ \A i \in 1..Len(s) : Append(s, m)[i] = s[i]
  BY LenProperties, AppendProperties
<1> DEFINE r == Append(s, m)
<1> HIDE DEF r
<1>2. \A i \in DOMAIN r : i \in DOMAIN s \/ r[i] = m BY <1>1 DEF r
<1>3. \A i \in DOMAIN s : i \in DOMAIN r /\ r[i] = s[i] BY <1>1 DEF r
<1> QED BY <1>2, <1>3 DEF LastIn, NoneIn, r

LEMMA FirstTaken ==
    ASSUME NEW T, NEW s \in Seq(T), s # <<>>, NEW Kind
    PROVE  /\ Head(s) \in T /\ Tail(s) \in Seq(T)
           /\ \A x : LastIn(s, Kind, x) =>
                 LastIn(Tail(s), Kind, x) \/ (NoneIn(Tail(s), Kind) /\ Head(s) = x)
           /\ NoneIn(s, Kind) => NoneIn(Tail(s), Kind) /\ Head(s) \notin Kind
<1> DEFINE r == Tail(s)
           h == Head(s)
<1>1. /\ Len(s) \in Nat \ {0} /\ DOMAIN s = 1..Len(s) /\ h = s[1] /\ h \in T /\ r \in Seq(T)
      /\ Len(r) = Len(s) - 1 /\ DOMAIN r = 1..Len(r)
      /\ \A i \in 1..Len(r) : r[i] = s[i + 1]
  BY LenProperties, EmptySeq, HeadTailProperties
<1> HIDE DEF r, h
<1>2. \A i \in DOMAIN r : i + 1 \in DOMAIN s /\ r[i] = s[i + 1] BY <1>1
<1>3. \A i \in DOMAIN s : i = 1 \/ (i - 1 \in DOMAIN r /\ r[i - 1] = s[i])
  <2> TAKE i \in DOMAIN s
  <2>1. i \in Nat /\ (i = 1 \/ i - 1 \in 1..Len(r)) BY <1>1
  <2>2. i # 1 => r[i - 1] = s[(i - 1) + 1] BY <1>1, <2>1
  <2>3. (i - 1) + 1 = i BY <2>1
  <2> QED BY <1>1, <2>1, <2>2, <2>3
<1>4. ASSUME NEW x, LastIn(s, Kind, x)
      PROVE  LastIn(r, Kind, x) \/ (NoneIn(r, Kind) /\ h = x)
  <2>1. PICK k \in DOMAIN s : s[k] = x /\ x \in Kind /\ \A j \in DOMAIN s : j > k => s[j] \notin Kind
    BY <1>4 DEF LastIn
  <2>2. CASE k = 1
    <3>1. \A i \in DOMAIN r : i + 1 \in DOMAIN s /\ i + 1 > k /\ r[i] = s[i + 1] BY <1>1, <1>2, <2>2
    <3> QED BY <1>1, <2>1, <2>2, <3>1 DEF NoneIn
  <2>3. CASE k # 1
    <3>1. k - 1 \in DOMAIN r /\ r[k - 1] = x BY <1>3, <2>1, <2>3
    <3>2. \A i \in DOMAIN r : i > k - 1 => i + 1 \in DOMAIN s /\ i + 1 > k /\ r[i] = s[i + 1]
      BY <1>1, <1>2
    <3>3. \A i \in DOMAIN r : i > k - 1 => r[i] \notin Kind BY <2>1, <3>2
    <3> DEFINE q == k - 1
    <3>4. q \in DOMAIN r /\ r[q] = x /\ \A i \in DOMAIN r : i > q => r[i] \notin Kind BY <3>1, <3>3
    <3> HIDE DEF q
    <3> QED BY <2>1, <3>4 DEF LastIn
  <2> QED BY <2>2, <2>3
<1>5. NoneIn(s, Kind) => NoneIn(r, Kind) /\ h \notin Kind BY <1>1, <1>2 DEF NoneIn
<1> QED BY <1>1, <1>4, <1>5 DEF r, h

--------------------
(* Relays: what the phone tells and the daemon passes on *)

Batteries == {"battery"} \X Levels
Remarks(n) == {"notification", "cancel"} \X {n}
Packets == Batteries \cup {"notification", "cancel"} \X Notes
Charges == {"battery"} \X (Levels \cup {Status!Unknown})
Mails == Charges \cup {"state"} \X (Status!Good \cup {"DISCOVERING"})
Windows == [mounted : BOOLEAN, state : Status!States, level : Levels \cup {Status!Unknown},
            shown : Status!States, timer : {"none", "armed"}]

RelayTypes ==
    /\ statusPhone \in [level : Levels, notes : SUBSET Notes]
    /\ statusUp \in BOOLEAN /\ statusAsked \in BOOLEAN /\ (statusAsked => statusUp) /\ (statusWire # <<>> => statusUp)
    /\ statusWire \in Seq(Packets) /\ statusInbox \in Seq(Mails)
    /\ statusDaemon \in [state : Status!Good \cup {"DISCOVERING"}, level : Levels \cup {Status!Unknown}]
    /\ rows \subseteq Notes /\ session \subseteq Notes
    /\ statusWindow \in Windows
    /\ (statusUp <=> statusDaemon.state \in Status!Good)
    /\ tells \in 0..MaxTells /\ statusTurns \in 0..MaxStatusTurns

(* The last packet about the battery, or about a notification told of in this *)
(* session, says what is so on the phone; with none under way the daemon has *)
(* what is so. *)
BatteryTold ==
    statusUp /\ ~statusAsked =>
        \/ LastIn(statusWire, Batteries, <<"battery", statusPhone.level>>)
        \/ NoneIn(statusWire, Batteries) /\ statusDaemon.level = statusPhone.level
NoteTold(n) ==
    \/ n \in statusPhone.notes /\ LastIn(statusWire, Remarks(n), <<"notification", n>>)
    \/ n \notin statusPhone.notes /\ LastIn(statusWire, Remarks(n), <<"cancel", n>>)
    \/ NoneIn(statusWire, Remarks(n)) /\ (n \in rows <=> n \in statusPhone.notes)
NotesTold == statusUp => \A n \in session : NoteTold(n)

(* The same on the way to the window, which forgets a level and never *)
(* replaces one by the unknown. *)
ChargePassed ==
    IF statusWindow.mounted
    THEN \/ LastIn(statusInbox, Charges, <<"battery", statusDaemon.level>>)
         \/ NoneIn(statusInbox, Charges) /\ statusWindow.level \in {Status!Unknown, statusDaemon.level}
    ELSE statusInbox = <<>> /\ statusWindow.level = Status!Unknown
NothingKnown ==
    statusDaemon.level = Status!Unknown =>
        /\ statusWindow.level = Status!Unknown
        /\ \A k \in DOMAIN statusInbox : statusInbox[k] \in Charges => statusInbox[k] = <<"battery", Status!Unknown>>

RelayInv ==
    /\ Status!RelayConstants /\ RelayTypes
    /\ BatteryTold /\ NotesTold /\ ChargePassed /\ NothingKnown /\ Status!StatusIsBacked

LEMMA RelayInit == Status!RelayConstants /\ Status!Init => RelayInv
<1> SUFFICES ASSUME Status!RelayConstants, Status!Init  PROVE RelayInv
  OBVIOUS
<1>0. <<>> \in Seq(Packets) /\ <<>> \in Seq(Mails) BY EmptySeq
<1>1. /\ statusPhone \in [level : Levels, notes : {{}}]
      /\ statusUp = FALSE /\ statusAsked = FALSE /\ statusWire = <<>>
      /\ statusDaemon = [state |-> "DISCOVERING", level |-> Status!Unknown]
      /\ rows = {} /\ session = {} /\ statusInbox = <<>>
      /\ statusWindow = [mounted |-> FALSE, state |-> "null", level |-> Status!Unknown,
                         shown |-> "null", timer |-> "none"]
      /\ tells = 0 /\ statusTurns = 0
  BY DEF Status!Init
<1>2. statusWindow \in Windows /\ "DISCOVERING" \notin Status!Good
  BY <1>1 DEF Windows, Status!States, Status!Good
<1>3. MaxTells \in Nat /\ MaxStatusTurns \in Nat BY DEF Status!RelayConstants
<1>4. RelayTypes
  <2>1. ~statusUp /\ ~statusAsked /\ statusWire = <<>> /\ statusDaemon.state \notin Status!Good
    BY <1>1, <1>2
  <2>2. /\ statusPhone \in [level : Levels, notes : SUBSET Notes]
        /\ statusDaemon \in [state : Status!Good \cup {"DISCOVERING"},
                             level : Levels \cup {Status!Unknown}]
    BY <1>1
  <2>3. statusUp \in BOOLEAN /\ statusAsked \in BOOLEAN BY <1>1
  <2> QED BY <1>0, <1>1, <1>2, <1>3, <2>1, <2>2, <2>3 DEF RelayTypes
<1> QED BY <1>1, <1>4 DEF RelayInv, BatteryTold, NotesTold, ChargePassed, NothingKnown,
                          Status!StatusIsBacked

(* The phone's packets. *)
LEMMA KindsDiffer ==
    /\ \A l \in Levels : <<"battery", l>> \in Batteries /\ <<"battery", l>> \in Packets
                         /\ \A n : <<"battery", l>> \notin Remarks(n)
    /\ \A n \in Notes, op \in {"notification", "cancel"} :
          /\ <<op, n>> \in Packets /\ <<op, n>> \in Remarks(n) /\ <<op, n>> \notin Batteries
          /\ \A m : m # n => <<op, n>> \notin Remarks(m)
    /\ \A l \in Levels \cup {Status!Unknown} : <<"battery", l>> \in Charges /\ <<"battery", l>> \in Mails
    /\ \A st \in Status!Good \cup {"DISCOVERING"} : <<"state", st>> \in Mails /\ <<"state", st>> \notin Charges
BY DEF Batteries, Remarks, Packets, Charges, Mails

LEMMA BatterySent ==
    ASSUME RelayInv, statusUp, NEW l \in Levels, statusWire' = Append(statusWire, <<"battery", l>>),
           statusPhone'.level = l, statusPhone'.notes = statusPhone.notes, UNCHANGED <<statusDaemon, rows, session>>
    PROVE  statusWire' \in Seq(Packets) /\ BatteryTold' /\ NotesTold' /\ statusWire' # <<>>
<1>0. statusWire \in Seq(Packets) /\ <<"battery", l>> \in Packets
  BY KindsDiffer DEF RelayInv, RelayTypes
<1>1. statusWire' \in Seq(Packets) /\ statusWire' # <<>> BY <1>0, AppendProperties
<1>2. LastIn(statusWire', Batteries, <<"battery", l>>) BY <1>0, KindsDiffer, LastSent
<1>3. ASSUME NEW n \in session  PROVE NoteTold(n)'
  <2>1. <<"battery", l>> \notin Remarks(n) /\ NoteTold(n) BY KindsDiffer DEF RelayInv, NotesTold
  <2>2. /\ \A x : LastIn(statusWire, Remarks(n), x) => LastIn(statusWire', Remarks(n), x)
        /\ NoneIn(statusWire, Remarks(n)) => NoneIn(statusWire', Remarks(n))
    BY <1>0, <2>1, OthersSent
  <2> QED BY <2>1, <2>2 DEF NoteTold, Remarks
<1> QED BY <1>1, <1>2, <1>3 DEF BatteryTold, NotesTold

LEMMA NoteSent ==
    ASSUME RelayInv, statusUp, NEW n \in Notes, NEW op \in {"notification", "cancel"},
           statusWire' = Append(statusWire, <<op, n>>), statusPhone'.level = statusPhone.level,
           \A m \in Notes : m # n => (m \in statusPhone'.notes <=> m \in statusPhone.notes),
           n \in statusPhone'.notes <=> op = "notification",
           session' = session \cup {n}, UNCHANGED <<statusUp, statusAsked, statusDaemon, rows>>
    PROVE  statusWire' \in Seq(Packets) /\ BatteryTold' /\ NotesTold' /\ statusWire' # <<>>
<1>0. statusWire \in Seq(Packets) /\ <<op, n>> \in Packets /\ session \subseteq Notes
  BY KindsDiffer DEF RelayInv, RelayTypes
<1>1. statusWire' \in Seq(Packets) /\ statusWire' # <<>> BY <1>0, AppendProperties
<1>2. /\ \A x : LastIn(statusWire, Batteries, x) => LastIn(statusWire', Batteries, x)
      /\ NoneIn(statusWire, Batteries) => NoneIn(statusWire', Batteries)
  BY <1>0, KindsDiffer, OthersSent
<1>3. BatteryTold' BY <1>2 DEF RelayInv, BatteryTold
<1>4. ASSUME NEW m \in session'  PROVE NoteTold(m)'
  <2>1. CASE m = n
    <3>1. LastIn(statusWire', Remarks(n), <<op, n>>) BY <1>0, KindsDiffer, LastSent
    <3> QED BY <2>1, <3>1 DEF NoteTold, Remarks
  <2>2. CASE m # n
    <3>1. m \in session /\ m \in Notes /\ <<op, n>> \notin Remarks(m) /\ NoteTold(m)
      BY <1>0, <1>4, <2>2, KindsDiffer DEF RelayInv, NotesTold
    <3>2. /\ \A x : LastIn(statusWire, Remarks(m), x) => LastIn(statusWire', Remarks(m), x)
          /\ NoneIn(statusWire, Remarks(m)) => NoneIn(statusWire', Remarks(m))
      BY <1>0, <3>1, OthersSent
    <3>3. m \in statusPhone'.notes <=> m \in statusPhone.notes BY <2>2, <3>1
    <3> QED BY <3>1, <3>2, <3>3 DEF NoteTold, Remarks
  <2> QED BY <2>1, <2>2
<1> QED BY <1>1, <1>3, <1>4 DEF NotesTold

(* What the daemon tells the window. *)
LEMMA StateEmitted ==
    ASSUME RelayInv, NEW to \in Status!Good \cup {"DISCOVERING"}, Status!Moves(to),
           UNCHANGED statusWindow
    PROVE  /\ statusInbox' \in Seq(Mails) /\ ChargePassed' /\ NothingKnown'
           /\ statusDaemon'.state = to /\ statusDaemon'.level = statusDaemon.level
           /\ statusDaemon' \in [state : Status!Good \cup {"DISCOVERING"},
                                 level : Levels \cup {Status!Unknown}]
<1>1. /\ statusDaemon' = [statusDaemon EXCEPT !.state = to]
      /\ statusInbox' = IF statusWindow.mounted THEN Append(statusInbox, <<"state", to>>) ELSE statusInbox
  BY DEF Status!Moves, Status!Emits
<1>2. /\ statusDaemon'.state = to /\ statusDaemon'.level = statusDaemon.level
      /\ statusDaemon' \in [state : Status!Good \cup {"DISCOVERING"},
                            level : Levels \cup {Status!Unknown}]
  BY <1>1 DEF RelayInv, RelayTypes
<1>3. statusInbox \in Seq(Mails) /\ <<"state", to>> \in Mails /\ <<"state", to>> \notin Charges
  BY KindsDiffer DEF RelayInv, RelayTypes
<1>4. CASE statusWindow.mounted
  <2>1. statusInbox' = Append(statusInbox, <<"state", to>>) BY <1>1, <1>4
  <2>2. /\ \A x : LastIn(statusInbox, Charges, x) => LastIn(statusInbox', Charges, x)
        /\ NoneIn(statusInbox, Charges) => NoneIn(statusInbox', Charges)
    BY <1>3, <2>1, OthersSent
  <2>3. /\ statusInbox' \in Seq(Mails) /\ Len(statusInbox) \in Nat /\ DOMAIN statusInbox = 1..Len(statusInbox)
        /\ DOMAIN statusInbox' = 1..Len(statusInbox) + 1 /\ statusInbox'[Len(statusInbox) + 1] = <<"state", to>>
        /\ \A k \in 1..Len(statusInbox) : statusInbox'[k] = statusInbox[k]
    BY <1>3, <2>1, AppendProperties, LenProperties
  <2>4. \A k \in DOMAIN statusInbox' : (k \in DOMAIN statusInbox /\ statusInbox'[k] = statusInbox[k]) \/ statusInbox'[k] \notin Charges
    <3> TAKE k \in DOMAIN statusInbox'
    <3>1. k \in 1..Len(statusInbox) \/ k = Len(statusInbox) + 1 BY <2>3
    <3> QED BY <1>3, <2>3, <3>1
  <2>5. NothingKnown' BY <1>2, <2>4 DEF RelayInv, NothingKnown, Charges
  <2>6. ChargePassed' BY <1>2, <1>4, <2>2 DEF RelayInv, ChargePassed, Charges
  <2> QED BY <1>2, <2>3, <2>5, <2>6
<1>5. CASE ~statusWindow.mounted
  <2>1. statusInbox' = statusInbox BY <1>1, <1>5
  <2> QED BY <1>2, <1>3, <1>5, <2>1 DEF RelayInv, ChargePassed, NothingKnown, Charges
<1> QED BY <1>4, <1>5

LEMMA LevelEmitted ==
    ASSUME RelayInv, NEW l \in Levels, Status!Battery(l), UNCHANGED statusWindow
    PROVE  /\ statusInbox' \in Seq(Mails) /\ ChargePassed' /\ NothingKnown'
           /\ statusDaemon'.state = statusDaemon.state /\ statusDaemon'.level = l
           /\ statusDaemon' \in [state : Status!Good \cup {"DISCOVERING"},
                                 level : Levels \cup {Status!Unknown}]
<1>0. statusInbox \in Seq(Mails) /\ <<"battery", l>> \in Mails /\ <<"battery", l>> \in Charges
      /\ l # Status!Unknown
      /\ statusDaemon \in [state : Status!Good \cup {"DISCOVERING"}, level : Levels \cup {Status!Unknown}]
  BY KindsDiffer DEF RelayInv, RelayTypes, Status!RelayConstants
<1>1. CASE l = statusDaemon.level
  <2>1. UNCHANGED <<statusDaemon, statusInbox>> BY <1>1 DEF Status!Battery
  <2> QED BY <1>0, <1>1, <2>1 DEF RelayInv, ChargePassed, NothingKnown, Charges
<1>2. CASE l # statusDaemon.level
  <2>1. /\ statusDaemon' = [statusDaemon EXCEPT !.level = l]
        /\ statusInbox' = IF statusWindow.mounted THEN Append(statusInbox, <<"battery", l>>) ELSE statusInbox
    BY <1>2 DEF Status!Battery, Status!Emits
  <2>2. /\ statusDaemon'.state = statusDaemon.state /\ statusDaemon'.level = l
        /\ statusDaemon' \in [state : Status!Good \cup {"DISCOVERING"},
                              level : Levels \cup {Status!Unknown}]
    BY <1>0, <2>1
  <2>3. CASE statusWindow.mounted
    <3>1. statusInbox' = Append(statusInbox, <<"battery", l>>) BY <2>1, <2>3
    <3>2. statusInbox' \in Seq(Mails) /\ LastIn(statusInbox', Charges, <<"battery", l>>)
      BY <1>0, <3>1, AppendProperties, LastSent
    <3> QED BY <1>0, <2>2, <2>3, <3>2 DEF ChargePassed, NothingKnown, Charges
  <2>4. CASE ~statusWindow.mounted
    <3>1. statusInbox' = statusInbox BY <2>1, <2>4
    <3> QED BY <1>0, <2>2, <2>4, <3>1 DEF RelayInv, ChargePassed, NothingKnown, Charges
  <2> QED BY <2>2, <2>3, <2>4
<1> QED BY <1>1, <1>2

LEMMA RelayStep ==
    ASSUME RelayInv, [Status!Next]_(Status!vars)
    PROVE  RelayInv'
<1>0. /\ Status!RelayConstants /\ RelayTypes
      /\ BatteryTold /\ NotesTold /\ ChargePassed /\ NothingKnown /\ Status!StatusIsBacked
      /\ MaxTells \in Nat /\ MaxStatusTurns \in Nat /\ "DISCOVERING" \notin Status!Good
  BY DEF RelayInv, Status!RelayConstants, Status!Good
<1>p. UNCHANGED <<statusInbox, statusDaemon, statusWindow>> => ChargePassed' /\ NothingKnown'
  BY <1>0 DEF ChargePassed, NothingKnown, Charges
<1>b. UNCHANGED statusWindow => Status!StatusIsBacked' BY <1>0 DEF Status!StatusIsBacked
<1>w. UNCHANGED <<statusPhone, statusUp, statusAsked, statusWire, rows, session>> /\ statusDaemon'.level = statusDaemon.level =>
         BatteryTold' /\ NotesTold'
  BY <1>0 DEF BatteryTold, NotesTold, NoteTold, Batteries, Remarks
<1>1. ASSUME NEW l \in Levels, Status!Tells, statusPhone' = [statusPhone EXCEPT !.level = l],
             Status!Sends("battery", l), UNCHANGED <<statusAsked, session>>
      PROVE  RelayInv'
  <2>0. /\ tells' \in 0..MaxTells /\ UNCHANGED <<statusUp, statusDaemon, rows, statusInbox, statusWindow, statusTurns>>
        /\ statusPhone' \in [level : Levels, notes : SUBSET Notes] /\ statusPhone'.level = l
        /\ statusPhone'.notes = statusPhone.notes
        /\ statusWire' = IF statusUp THEN Append(statusWire, <<"battery", l>>) ELSE statusWire
    BY SMTT(30), <1>0, <1>1 DEF Status!Tells, Status!Sends, RelayTypes
  <2>1. CASE statusUp
    <3>1. statusWire' \in Seq(Packets) /\ BatteryTold' /\ NotesTold' /\ statusWire' # <<>>
      BY <1>1, <2>0, <2>1, BatterySent
    <3> QED BY <1>0, <1>1, <1>p, <1>b, <2>0, <2>1, <3>1 DEF RelayInv, RelayTypes
  <2>2. CASE ~statusUp
    <3>1. statusWire' = statusWire /\ BatteryTold' /\ NotesTold'
      BY <2>0, <2>2 DEF BatteryTold, NotesTold
    <3> QED BY <1>0, <1>1, <1>p, <1>b, <2>0, <3>1 DEF RelayInv, RelayTypes
  <2> QED BY <2>1, <2>2
<1>2. CASE Status!BatteryAnswered
  <2>0. /\ statusAsked /\ statusAsked' = FALSE /\ statusUp
        /\ statusWire' = Append(statusWire, <<"battery", statusPhone.level>>) /\ statusPhone.level \in Levels
        /\ UNCHANGED <<statusPhone, statusUp, statusDaemon, rows, session, statusInbox, statusWindow, tells, statusTurns>>
    BY <1>0, <1>2 DEF Status!BatteryAnswered, Status!Sends, RelayTypes
  <2>1. statusWire' \in Seq(Packets) /\ BatteryTold' /\ NotesTold' /\ statusWire' # <<>>
    BY <2>0, BatterySent
  <2> QED BY <1>0, <1>p, <1>b, <2>0, <2>1 DEF RelayInv, RelayTypes
<1>3. ASSUME NEW n \in Notes, NEW op \in {"notification", "cancel"}, Status!Tells,
             statusPhone' = [statusPhone EXCEPT !.notes = IF op = "notification" THEN statusPhone.notes \cup {n}
                                             ELSE statusPhone.notes \ {n}],
             Status!Sends(op, n), Status!Told(n), UNCHANGED statusAsked
      PROVE  RelayInv'
  <2>0. /\ tells' \in 0..MaxTells /\ UNCHANGED <<statusUp, statusDaemon, rows, statusInbox, statusWindow, statusTurns>>
        /\ statusWire' = IF statusUp THEN Append(statusWire, <<op, n>>) ELSE statusWire
        /\ session' = IF statusUp THEN session \cup {n} ELSE session
    BY <1>0, <1>3 DEF Status!Tells, Status!Sends, Status!Told, RelayTypes
  <2>1. /\ statusPhone' \in [level : Levels, notes : SUBSET Notes] /\ statusPhone'.level = statusPhone.level
        /\ statusPhone'.notes = IF op = "notification" THEN statusPhone.notes \cup {n} ELSE statusPhone.notes \ {n}
    BY <1>0, <1>3 DEF RelayTypes
  <2>2. CASE statusUp
    <3>1. /\ \A m \in Notes : m # n => (m \in statusPhone'.notes <=> m \in statusPhone.notes)
          /\ n \in statusPhone'.notes <=> op = "notification"
      BY <2>1
    <3>2. statusWire' \in Seq(Packets) /\ BatteryTold' /\ NotesTold' /\ statusWire' # <<>>
      BY <1>3, <2>0, <2>1, <2>2, <3>1, NoteSent
    <3>3. session' \subseteq Notes BY <1>0, <2>0 DEF RelayTypes
    <3> QED BY <1>0, <1>3, <1>p, <1>b, <2>0, <2>1, <2>2, <3>2, <3>3 DEF RelayInv, RelayTypes
  <2>3. CASE ~statusUp
    <3>1. statusWire' = statusWire /\ session' = session /\ BatteryTold' /\ NotesTold'
      BY <2>0, <2>3 DEF BatteryTold, NotesTold
    <3> QED BY <1>0, <1>3, <1>p, <1>b, <2>0, <2>1, <3>1 DEF RelayInv, RelayTypes
  <2> QED BY <2>2, <2>3
<1>4. CASE Status!Connects
  <2>0. /\ ~statusUp /\ statusTurns' \in 0..MaxStatusTurns /\ statusUp' = TRUE /\ statusAsked' = TRUE /\ session' = {}
        /\ Status!Moves("CONNECTED") /\ UNCHANGED <<statusPhone, statusWire, rows, statusWindow, tells>>
    BY <1>0, <1>4 DEF Status!Connects, RelayTypes
  <2>1. /\ statusInbox' \in Seq(Mails) /\ ChargePassed' /\ NothingKnown'
        /\ statusDaemon'.state = "CONNECTED" /\ "CONNECTED" \in Status!Good
        /\ statusDaemon' \in [state : Status!Good \cup {"DISCOVERING"},
                              level : Levels \cup {Status!Unknown}]
    BY <2>0, StateEmitted DEF Status!Good
  <2>2. BatteryTold' /\ NotesTold' BY <2>0 DEF BatteryTold, NotesTold
  <2> QED BY <1>0, <1>b, <2>0, <2>1, <2>2 DEF RelayInv, RelayTypes
<1>5. CASE Status!Disconnects
  <2>0. /\ statusUp' = FALSE /\ statusAsked' = FALSE /\ statusWire' = <<>>
        /\ Status!Moves("DISCOVERING")
        /\ UNCHANGED <<statusPhone, rows, session, statusWindow, tells, statusTurns>>
    BY <1>5 DEF Status!Disconnects
  <2>1. /\ statusInbox' \in Seq(Mails) /\ ChargePassed' /\ NothingKnown'
        /\ statusDaemon'.state = "DISCOVERING"
        /\ statusDaemon' \in [state : Status!Good \cup {"DISCOVERING"},
                              level : Levels \cup {Status!Unknown}]
    BY <2>0, StateEmitted
  <2>2. BatteryTold' /\ NotesTold' /\ <<>> \in Seq(Packets)
    BY <2>0, EmptySeq DEF BatteryTold, NotesTold
  <2> QED BY <1>0, <1>b, <2>0, <2>1, <2>2 DEF RelayInv, RelayTypes
<1>6. CASE Status!Syncs
  <2>0. /\ statusUp /\ statusTurns' \in 0..MaxStatusTurns
        /\ UNCHANGED <<statusPhone, statusUp, statusAsked, statusWire, rows, session, statusWindow, tells>>
    BY <1>0, <1>6 DEF Status!Syncs, RelayTypes
  <2>1. PICK to \in {"READY", "SYNCING"} : Status!Moves(to) BY <1>6 DEF Status!Syncs
  <2>2. to \in Status!Good BY DEF Status!Good
  <2>3. /\ statusInbox' \in Seq(Mails) /\ ChargePassed' /\ NothingKnown'
        /\ statusDaemon'.state = to /\ statusDaemon'.level = statusDaemon.level
        /\ statusDaemon' \in [state : Status!Good \cup {"DISCOVERING"},
                              level : Levels \cup {Status!Unknown}]
    BY <2>0, <2>1, <2>2, StateEmitted
  <2> QED BY <1>0, <1>b, <1>w, <2>0, <2>2, <2>3 DEF RelayInv, RelayTypes
<1>7. CASE Status!Route
  <2> DEFINE p == Head(statusWire)
  <2>0. /\ statusWire # <<>> /\ statusWire' = Tail(statusWire)
        /\ UNCHANGED <<statusPhone, statusUp, statusAsked, session, statusWindow, tells, statusTurns>>
        /\ statusUp /\ statusWire \in Seq(Packets)
    BY <1>0, <1>7 DEF Status!Route, RelayTypes
  <2>1. p \in Packets /\ statusWire' \in Seq(Packets) BY <2>0, FirstTaken
  <2>2. /\ \A x : LastIn(statusWire, Batteries, x) =>
              LastIn(statusWire', Batteries, x) \/ (NoneIn(statusWire', Batteries) /\ p = x)
        /\ NoneIn(statusWire, Batteries) => NoneIn(statusWire', Batteries) /\ p \notin Batteries
    BY <2>0, FirstTaken
  <2>3. \A n : /\ \A x : LastIn(statusWire, Remarks(n), x) =>
                     LastIn(statusWire', Remarks(n), x) \/ (NoneIn(statusWire', Remarks(n)) /\ p = x)
               /\ NoneIn(statusWire, Remarks(n)) => NoneIn(statusWire', Remarks(n)) /\ p \notin Remarks(n)
    BY <2>0, FirstTaken
  <2>4. CASE p \in Batteries
    <3>1. PICK l \in Levels : p = <<"battery", l>> BY <2>4 DEF Batteries
    <3> HIDE DEF p
    <3>2. Status!Battery(l) /\ UNCHANGED rows BY <1>7, <3>1 DEF Status!Route, p
    <3>3. /\ statusInbox' \in Seq(Mails) /\ ChargePassed' /\ NothingKnown'
          /\ statusDaemon'.state = statusDaemon.state /\ statusDaemon'.level = l
          /\ statusDaemon' \in [state : Status!Good \cup {"DISCOVERING"},
                                level : Levels \cup {Status!Unknown}]
      BY <2>0, <3>2, LevelEmitted
    <3>4. BatteryTold'
      <4> SUFFICES ASSUME statusUp, ~statusAsked
                   PROVE  \/ LastIn(statusWire', Batteries, <<"battery", statusPhone.level>>)
                          \/ NoneIn(statusWire', Batteries) /\ l = statusPhone.level
        BY <2>0, <3>3 DEF BatteryTold, Batteries
      <4>1. LastIn(statusWire, Batteries, <<"battery", statusPhone.level>>)
        BY <1>0, <2>2, <2>4 DEF BatteryTold
      <4>2. p = <<"battery", statusPhone.level>> => l = statusPhone.level BY <3>1
      <4> QED BY <2>2, <4>1, <4>2
    <3>5. ASSUME NEW n \in session  PROVE NoteTold(n)'
      <4>1. NoteTold(n) /\ p \notin Remarks(n) /\ p # <<"notification", n>> /\ p # <<"cancel", n>>
        BY <1>0, <2>0, <3>1, KindsDiffer DEF NotesTold
      <4> QED BY <2>0, <2>3, <3>2, <4>1 DEF NoteTold, Remarks
    <3>6. NotesTold' BY <2>0, <3>5 DEF NotesTold
    <3> QED BY <1>0, <1>b, <2>0, <2>1, <3>2, <3>3, <3>4, <3>6 DEF RelayInv, RelayTypes
  <2>5. CASE p \notin Batteries
    <3>1. PICK op \in {"notification", "cancel"}, n \in Notes : p = <<op, n>>
      BY <2>1, <2>5 DEF Packets
    <3> HIDE DEF p
    <3>2. Status!Notification(op, n) /\ UNCHANGED <<statusDaemon, statusInbox>>
      BY <1>7, <3>1 DEF Status!Route, p
    <3>3. rows' = IF op = "cancel" THEN rows \ {n} ELSE rows \cup {n}
      BY <3>2 DEF Status!Notification
    <3>4. BatteryTold'
      <4> SUFFICES ASSUME statusUp, ~statusAsked
                   PROVE  \/ LastIn(statusWire', Batteries, <<"battery", statusPhone.level>>)
                          \/ NoneIn(statusWire', Batteries) /\ statusDaemon.level = statusPhone.level
        BY <2>0, <3>2 DEF BatteryTold, Batteries
      <4>1. p # <<"battery", statusPhone.level>> BY <3>1
      <4> QED BY <1>0, <2>2, <4>1 DEF BatteryTold
    <3>5. ASSUME NEW m \in session  PROVE NoteTold(m)'
      <4>0. NoteTold(m) BY <1>0, <2>0, <3>5 DEF NotesTold
      <4>1. CASE m = n
        <5>1. NoneIn(statusWire, Remarks(n)) => FALSE BY <2>3, <3>1, KindsDiffer
        <5>2. CASE n \in statusPhone.notes /\ LastIn(statusWire, Remarks(n), <<"notification", n>>)
          <6>1. p = <<"notification", n>> => n \in rows' BY <3>1, <3>3
          <6>2. \/ LastIn(statusWire', Remarks(n), <<"notification", n>>)
                \/ NoneIn(statusWire', Remarks(n)) /\ p = <<"notification", n>>
            BY <2>3, <5>2
          <6> QED BY <2>0, <4>1, <5>2, <6>1, <6>2 DEF NoteTold, Remarks
        <5>3. CASE n \notin statusPhone.notes /\ LastIn(statusWire, Remarks(n), <<"cancel", n>>)
          <6>1. p = <<"cancel", n>> => n \notin rows' BY <3>1, <3>3
          <6>2. \/ LastIn(statusWire', Remarks(n), <<"cancel", n>>)
                \/ NoneIn(statusWire', Remarks(n)) /\ p = <<"cancel", n>>
            BY <2>3, <5>3
          <6> QED BY <2>0, <4>1, <5>3, <6>1, <6>2 DEF NoteTold, Remarks
        <5> QED BY <4>0, <4>1, <5>1, <5>2, <5>3 DEF NoteTold
      <4>2. CASE m # n
        <5>1. p \notin Remarks(m) /\ p # <<"notification", m>> /\ p # <<"cancel", m>>
          BY <3>1, <4>2, KindsDiffer
        <5>2. m \in rows' <=> m \in rows BY <3>3, <4>2
        <5> QED BY <2>0, <2>3, <4>0, <5>1, <5>2 DEF NoteTold, Remarks
      <4> QED BY <4>1, <4>2
    <3>6. NotesTold' /\ rows' \subseteq Notes BY <1>0, <2>0, <3>3, <3>5 DEF NotesTold, RelayTypes
    <3> QED BY <1>0, <1>p, <1>b, <2>0, <2>1, <3>2, <3>4, <3>6 DEF RelayInv, RelayTypes
  <2> QED BY <2>4, <2>5
<1>8. CASE Status!Mount
  <2> DEFINE a == <<"state", statusDaemon.state>>
             b == <<"battery", statusDaemon.level>>
  <2>0. /\ ~statusWindow.mounted /\ statusWindow' = [statusWindow EXCEPT !.mounted = TRUE] /\ statusInbox' = <<a, b>>
        /\ UNCHANGED <<statusPhone, statusUp, statusAsked, statusWire, statusDaemon, rows, session, tells, statusTurns>>
    BY <1>8 DEF Status!Mount
  <2>1. /\ statusWindow' \in Windows /\ statusWindow'.mounted /\ statusWindow'.level = statusWindow.level
        /\ statusWindow'.state = statusWindow.state /\ statusWindow'.shown = statusWindow.shown
        /\ statusWindow'.timer = statusWindow.timer
    BY <1>0, <2>0 DEF RelayTypes, Windows
  <2>2. /\ a \in Mails /\ a \notin Charges /\ b \in Mails /\ b \in Charges
    BY <1>0, KindsDiffer DEF RelayTypes
  <2> HIDE DEF a, b
  <2>3. statusInbox' \in Seq(Mails) /\ DOMAIN statusInbox' = 1..2 /\ statusInbox'[1] = a /\ statusInbox'[2] = b
    BY <2>0, <2>2
  <2>4. LastIn(statusInbox', Charges, b) BY <2>2, <2>3 DEF LastIn
  <2>5. ChargePassed' BY <2>0, <2>1, <2>4 DEF ChargePassed, Charges, b
  <2>6. NothingKnown' BY <1>0, <2>0, <2>1, <2>2, <2>3 DEF NothingKnown, ChargePassed, Charges, b
  <2>7. Status!StatusIsBacked' BY <1>0, <2>1 DEF Status!StatusIsBacked
  <2> QED BY <1>0, <1>w, <2>0, <2>1, <2>3, <2>5, <2>6, <2>7 DEF RelayInv, RelayTypes
<1>9. CASE Status!Receive
  <2> DEFINE m == Head(statusInbox)
  <2>0. /\ statusInbox # <<>> /\ statusInbox' = Tail(statusInbox) /\ statusInbox \in Seq(Mails)
        /\ UNCHANGED <<statusPhone, statusUp, statusAsked, statusWire, statusDaemon, rows, session, tells, statusTurns>>
    BY <1>0, <1>9 DEF Status!Receive, RelayTypes
  <2>1. /\ m \in Mails /\ statusInbox' \in Seq(Mails)
        /\ LastIn(statusInbox, Charges, <<"battery", statusDaemon.level>>) =>
              \/ LastIn(statusInbox', Charges, <<"battery", statusDaemon.level>>)
              \/ NoneIn(statusInbox', Charges) /\ m = <<"battery", statusDaemon.level>>
        /\ NoneIn(statusInbox, Charges) => NoneIn(statusInbox', Charges) /\ m \notin Charges
    BY <2>0, FirstTaken
  <2>2. statusWindow.mounted BY <1>0, <2>0 DEF ChargePassed
  <2>3. /\ 1 \in DOMAIN statusInbox /\ m = statusInbox[1]
        /\ \A k \in DOMAIN statusInbox' : k + 1 \in DOMAIN statusInbox /\ statusInbox'[k] = statusInbox[k + 1]
    BY <2>0, HeadTailProperties, LenProperties, EmptySeq
  <2>4. statusDaemon.level = Status!Unknown =>
          /\ m \in Charges => m = <<"battery", Status!Unknown>>
          /\ \A k \in DOMAIN statusInbox' : statusInbox'[k] \in Charges =>
                statusInbox'[k] = <<"battery", Status!Unknown>>
    BY <1>0, <2>3 DEF NothingKnown
  <2>5. CASE m \in Charges
    <3>1. PICK l \in Levels \cup {Status!Unknown} : m = <<"battery", l>> BY <2>5 DEF Charges
    <3> HIDE DEF m
    <3>2. statusWindow' = [statusWindow EXCEPT !.level = IF l = Status!Unknown THEN statusWindow.level ELSE l]
      <4>1. m[1] = "battery" /\ m[2] = l BY <3>1
      <4>2. statusWindow' = IF m[1] = "battery"
                            THEN [statusWindow EXCEPT !.level = IF m[2] = Status!Unknown THEN statusWindow.level
                                                                ELSE m[2]]
                            ELSE statusWindow'
        BY <1>9 DEF Status!Receive, m
      <4> QED BY <4>1, <4>2
    <3>3. /\ statusWindow' \in Windows /\ statusWindow'.mounted = statusWindow.mounted
          /\ statusWindow'.level = (IF l = Status!Unknown THEN statusWindow.level ELSE l)
          /\ statusWindow'.state = statusWindow.state /\ statusWindow'.shown = statusWindow.shown
          /\ statusWindow'.timer = statusWindow.timer
      BY <1>0, <3>2 DEF RelayTypes, Windows
    <3>4. NothingKnown' BY <1>0, <2>0, <2>4, <2>5, <3>1, <3>3 DEF NothingKnown, Charges
    <3>5. ChargePassed'
      BY <1>0, <2>0, <2>1, <2>2, <2>5, <3>1, <3>3 DEF ChargePassed, NothingKnown, Charges
    <3>6. Status!StatusIsBacked' BY <1>0, <3>3 DEF Status!StatusIsBacked
    <3> QED BY <1>0, <1>w, <2>0, <2>1, <3>3, <3>4, <3>5, <3>6 DEF RelayInv, RelayTypes
  <2>6. CASE m \notin Charges
    <3>1. PICK st \in Status!Good \cup {"DISCOVERING"} : m = <<"state", st>> BY <2>1, <2>6 DEF Mails
    <3> HIDE DEF m
    <3> DEFINE w == [statusWindow EXCEPT !.state = st,
                                         !.level = IF st = "DISCOVERING" THEN Status!Unknown ELSE @]
    <3>2. statusWindow' = Status!Display(w)
      <4>1. m[1] = "state" /\ m[2] = st BY <3>1
      <4>2. m[1] # "battery" =>
              statusWindow' = Status!Display([statusWindow EXCEPT !.state = m[2],
                  !.level = IF m[2] = "DISCOVERING" THEN Status!Unknown ELSE statusWindow.level])
        BY <1>9 DEF Status!Receive, m
      <4> QED BY <4>1, <4>2
    <3>3. /\ w \in Windows /\ w.mounted = statusWindow.mounted /\ w.state = st
          /\ w.level \in {Status!Unknown, statusWindow.level}
      BY <1>0 DEF RelayTypes, Windows, Status!States
    <3> HIDE DEF w
    <3>4. /\ statusWindow' \in Windows /\ statusWindow'.mounted = w.mounted /\ statusWindow'.state = w.state
          /\ statusWindow'.level = w.level /\ Status!StatusIsBacked'
      <4>1. CASE w.state \in Status!Good
        <5> DEFINE v == IF w.state = "SYNCING" THEN "SYNCING" ELSE "CONNECTED"
        <5>1. statusWindow' = [w EXCEPT !.shown = v, !.timer = "none"] /\ v \in Status!Good
          BY <3>2, <4>1 DEF Status!Display, Status!Good
        <5>2. v = w.state \/ (v = "CONNECTED" /\ w.state = "READY")
          <6>1. w.state = "SYNCING" \/ w.state = "READY" \/ w.state = "CONNECTED"
            BY <4>1 DEF Status!Good
          <6> QED BY <6>1
        <5> HIDE DEF v
        <5>3. /\ statusWindow' \in Windows /\ statusWindow'.mounted = w.mounted /\ statusWindow'.state = w.state
              /\ statusWindow'.level = w.level /\ statusWindow'.shown = v
          BY <3>3, <5>1 DEF Windows, Status!States
        <5> QED BY <5>2, <5>3 DEF Status!StatusIsBacked
      <4>2. CASE w.state \notin Status!Good /\ w.shown \in Status!Good
        <5>1. statusWindow' = [w EXCEPT !.timer = "armed"]
          BY <3>2, <3>3, <4>2 DEF Status!Display, Windows
        <5>2. /\ statusWindow' \in Windows /\ statusWindow'.mounted = w.mounted /\ statusWindow'.state = w.state
              /\ statusWindow'.level = w.level /\ statusWindow'.shown = w.shown /\ statusWindow'.timer = "armed"
          BY <3>3, <5>1 DEF Windows
        <5> QED BY <4>2, <5>2 DEF Status!StatusIsBacked
      <4>3. CASE w.state \notin Status!Good /\ w.shown \notin Status!Good
        <5>1. statusWindow' = [w EXCEPT !.shown = w.state] BY <3>2, <4>3 DEF Status!Display
        <5>2. /\ statusWindow' \in Windows /\ statusWindow'.mounted = w.mounted /\ statusWindow'.state = w.state
              /\ statusWindow'.level = w.level /\ statusWindow'.shown = w.state
          BY <3>3, <5>1 DEF Windows
        <5> QED BY <5>2 DEF Status!StatusIsBacked
      <4> QED BY <4>1, <4>2, <4>3
    <3>5. NothingKnown' BY <1>0, <2>0, <2>4, <3>3, <3>4 DEF NothingKnown, Charges
    <3>6. ChargePassed'
      <4>1. m # <<"battery", statusDaemon.level>> BY <3>1
      <4>2. /\ LastIn(statusInbox, Charges, <<"battery", statusDaemon.level>>) =>
                  LastIn(statusInbox', Charges, <<"battery", statusDaemon.level>>)
            /\ NoneIn(statusInbox, Charges) => NoneIn(statusInbox', Charges)
        BY <2>1, <4>1
      <4>3. statusWindow.level = statusDaemon.level => statusWindow'.level \in {Status!Unknown, statusDaemon.level}
        BY <3>3, <3>4
      <4>4. statusWindow.level = Status!Unknown => statusWindow'.level = Status!Unknown
        BY <3>3, <3>4
      <4> QED BY <1>0, <2>0, <2>2, <3>3, <3>4, <4>2, <4>3, <4>4 DEF ChargePassed, Charges
    <3> QED BY <1>0, <1>w, <2>0, <2>1, <3>4, <3>5, <3>6 DEF RelayInv, RelayTypes
  <2> QED BY <2>5, <2>6
<1>10. CASE Status!Degrade
  <2>0. /\ statusWindow' = [statusWindow EXCEPT !.timer = "none", !.shown = statusWindow.state]
        /\ UNCHANGED <<statusPhone, statusUp, statusAsked, statusWire, statusDaemon, rows, session, statusInbox, tells, statusTurns>>
    BY <1>10 DEF Status!Degrade
  <2>1. /\ statusWindow' \in Windows /\ statusWindow'.mounted = statusWindow.mounted
        /\ statusWindow'.level = statusWindow.level /\ statusWindow'.shown = statusWindow'.state
    BY <1>0, <2>0 DEF RelayTypes, Windows
  <2>2. ChargePassed' /\ NothingKnown' /\ Status!StatusIsBacked'
    BY <1>0, <2>0, <2>1 DEF ChargePassed, NothingKnown, Status!StatusIsBacked, Charges
  <2> QED BY <1>0, <1>w, <2>0, <2>1, <2>2 DEF RelayInv, RelayTypes
<1>11. CASE UNCHANGED Status!vars
  BY <1>0, <1>p, <1>b, <1>w, <1>11 DEF Status!vars, RelayInv, RelayTypes
<1>12. Status!BatteryChanges => RelayInv' BY <1>1 DEF Status!BatteryChanges
<1>13. ASSUME NEW n \in Notes, Status!Posts(n)  PROVE RelayInv'
  <2>1. /\ Status!Tells /\ Status!Sends("notification", n) /\ Status!Told(n) /\ UNCHANGED statusAsked
        /\ statusPhone' = [statusPhone EXCEPT !.notes = statusPhone.notes \cup {n}]
    BY <1>13 DEF Status!Posts
  <2> QED BY <1>3, <2>1
<1>14. ASSUME NEW n \in Notes, Status!Cancels(n)  PROVE RelayInv'
  <2>1. /\ Status!Tells /\ Status!Sends("cancel", n) /\ Status!Told(n) /\ UNCHANGED statusAsked
        /\ statusPhone' = [statusPhone EXCEPT !.notes = statusPhone.notes \ {n}]
    BY <1>14 DEF Status!Cancels
  <2> QED BY <1>3, <2>1
<1> QED BY <1>2, <1>4, <1>5, <1>6, <1>7, <1>8, <1>9, <1>10, <1>11, <1>12, <1>13, <1>14
        DEF Status!Next

LEMMA RelaysHold == RelayInv => Status!TypeOK /\ Status!RelaysAreTrue
<1> SUFFICES ASSUME RelayInv  PROVE Status!TypeOK /\ Status!RelaysAreTrue
  OBVIOUS
<1>1. Status!TypeOK BY DEF RelayInv, RelayTypes, Windows, Status!TypeOK, Status!States
<1>2. Status!TellsArrive
  <2> SUFFICES ASSUME Status!Settled
               PROVE  /\ statusDaemon.level = statusPhone.level
                      /\ statusWindow.level \in {Status!Unknown, statusPhone.level}
                      /\ rows \cap session = statusPhone.notes \cap session
    BY DEF Status!TellsArrive
  <2>1. statusUp /\ ~statusAsked /\ statusWire = <<>> /\ statusInbox = <<>> /\ statusWindow.mounted
    BY DEF Status!Settled
  <2>2. \A Kind, x : ~LastIn(<<>>, Kind, x) BY DEF LastIn
  <2>3. statusDaemon.level = statusPhone.level BY <2>1, <2>2 DEF RelayInv, BatteryTold
  <2>4. statusWindow.level \in {Status!Unknown, statusDaemon.level}
    BY <2>1, <2>2 DEF RelayInv, ChargePassed
  <2>5. \A n \in session : n \in rows <=> n \in statusPhone.notes
    BY <2>1, <2>2 DEF RelayInv, NotesTold, NoteTold
  <2> QED BY <2>3, <2>4, <2>5
<1> QED BY <1>1, <1>2 DEF RelayInv, Status!RelaysAreTrue

(* Once everything told has arrived, the daemon has the phone's battery, the *)
(* window shows that or none, and the table has just those of the *)
(* notifications told of in this session that the phone still shows; and the *)
(* status line owes what it shows to the state, or to a grace period that *)
(* ends (RelaysAreTrue): for every set of levels and notifications and every *)
(* number of tellings, connections and messages on their way. *)
THEOREM RelaysStayTrue ==
    Status!RelayConstants =>
        (Status!Spec => [](Status!TypeOK /\ Status!RelaysAreTrue))
<1> SUFFICES ASSUME Status!RelayConstants
             PROVE  Status!Spec => [](Status!TypeOK /\ Status!RelaysAreTrue)
  OBVIOUS
<1>1. Status!Init => RelayInv BY RelayInit
<1>2. RelayInv /\ [Status!Next]_(Status!vars) => RelayInv' BY RelayStep
<1>3. RelayInv => Status!TypeOK /\ Status!RelaysAreTrue BY RelaysHold
<1> QED BY <1>1, <1>2, <1>3, PTL DEF Status!Spec

--------------------
(* Shell: what the window knows of the daemon it runs beside *)

Says(s, Kind, v) == \E x \in Kind : x[2] = v /\ LastIn(s, Kind, x)
Has(s, Kind) == \E k \in DOMAIN s : s[k] \in Kind

LEMMA Joined ==
    ASSUME NEW T, NEW s \in Seq(T), NEW t \in Seq(T), NEW Kind
    PROVE  /\ s \o t \in Seq(T)
           /\ \A v : Says(t, Kind, v) => Says(s \o t, Kind, v)
           /\ \A v : Says(s, Kind, v) /\ NoneIn(t, Kind) => Says(s \o t, Kind, v)
           /\ NoneIn(s, Kind) /\ NoneIn(t, Kind) => NoneIn(s \o t, Kind)
           /\ Has(s, Kind) \/ Has(t, Kind) => Has(s \o t, Kind)
           /\ Has(s \o t, Kind) => Has(s, Kind) \/ Has(t, Kind)
<1> DEFINE r == s \o t
<1>1. /\ r \in Seq(T) /\ Len(s) \in Nat /\ Len(t) \in Nat /\ Len(r) = Len(s) + Len(t)
      /\ DOMAIN s = 1..Len(s) /\ DOMAIN t = 1..Len(t) /\ DOMAIN r = 1..Len(r)
      /\ \A i \in 1..Len(r) : r[i] = IF i <= Len(s) THEN s[i] ELSE t[i - Len(s)]
  BY ConcatProperties, LenProperties
<1> HIDE DEF r
<1>2. \A i \in DOMAIN s : i \in DOMAIN r /\ r[i] = s[i] BY <1>1
<1>3. \A i \in DOMAIN t : Len(s) + i \in DOMAIN r /\ r[Len(s) + i] = t[i]
  <2> TAKE i \in DOMAIN t
  <2>1. i \in 1..Len(t) /\ Len(s) + i \in 1..Len(r) /\ ~(Len(s) + i <= Len(s))
        /\ (Len(s) + i) - Len(s) = i
    BY <1>1
  <2> QED BY <1>1, <2>1
<1>4. \A i \in DOMAIN r : i \in DOMAIN s \/ (i - Len(s) \in DOMAIN t /\ r[i] = t[i - Len(s)])
  <2> TAKE i \in DOMAIN r
  <2>1. i \in Nat /\ (i \in 1..Len(s) \/ (i - Len(s) \in 1..Len(t) /\ ~(i <= Len(s)))) BY <1>1
  <2> QED BY <1>1, <2>1
<1>5. ASSUME NEW v, Says(t, Kind, v)  PROVE Says(r, Kind, v)
  <2>1. PICK x \in Kind : x[2] = v /\ LastIn(t, Kind, x) BY <1>5 DEF Says
  <2>2. PICK k \in DOMAIN t : t[k] = x /\ \A j \in DOMAIN t : j > k => t[j] \notin Kind
    BY <2>1 DEF LastIn
  <2> DEFINE q == Len(s) + k
  <2>3. q \in DOMAIN r /\ r[q] = x BY <1>3, <2>2
  <2>4. ASSUME NEW j \in DOMAIN r, j > q  PROVE r[j] \notin Kind
    <3>1. j \notin DOMAIN s /\ j - Len(s) > k BY <1>1, <2>2, <2>4
    <3> QED BY <1>4, <2>2, <3>1
  <2> HIDE DEF q
  <2> QED BY <2>1, <2>3, <2>4 DEF Says, LastIn
<1>6. ASSUME NEW v, Says(s, Kind, v), NoneIn(t, Kind)  PROVE Says(r, Kind, v)
  <2>1. PICK x \in Kind : x[2] = v /\ LastIn(s, Kind, x) BY <1>6 DEF Says
  <2>2. PICK k \in DOMAIN s : s[k] = x /\ \A j \in DOMAIN s : j > k => s[j] \notin Kind
    BY <2>1 DEF LastIn
  <2>3. k \in DOMAIN r /\ r[k] = x BY <1>2, <2>2
  <2>4. ASSUME NEW j \in DOMAIN r, j > k  PROVE r[j] \notin Kind
    <3>1. CASE j \in DOMAIN s BY <1>2, <2>2, <2>4, <3>1
    <3>2. CASE j \notin DOMAIN s BY <1>4, <1>6, <3>2 DEF NoneIn
    <3> QED BY <3>1, <3>2
  <2> QED BY <2>1, <2>3, <2>4 DEF Says, LastIn
<1>7. NoneIn(s, Kind) /\ NoneIn(t, Kind) => NoneIn(r, Kind) BY <1>2, <1>4 DEF NoneIn
<1>8. Has(s, Kind) \/ Has(t, Kind) => Has(r, Kind) BY <1>2, <1>3 DEF Has
<1>9. Has(r, Kind) => Has(s, Kind) \/ Has(t, Kind) BY <1>2, <1>4 DEF Has
<1> QED BY <1>1, <1>5, <1>6, <1>7, <1>8, <1>9 DEF r

LEMMA OneSent ==
    ASSUME NEW m, NEW Kind
    PROVE  /\ m \in Kind => Says(<<m>>, Kind, m[2]) /\ Has(<<m>>, Kind)
           /\ m \notin Kind => NoneIn(<<m>>, Kind)
           /\ NoneIn(<<>>, Kind)
<1>1. DOMAIN <<m>> = {1} /\ <<m>>[1] = m OBVIOUS
<1>2. m \in Kind => LastIn(<<m>>, Kind, m) BY <1>1 DEF LastIn
<1> QED BY <1>1, <1>2 DEF Says, NoneIn, Has

LEMMA FirstHeard ==
    ASSUME NEW T, NEW s \in Seq(T), s # <<>>, NEW Kind
    PROVE  /\ Head(s) \in T /\ Tail(s) \in Seq(T)
           /\ \A v : Says(s, Kind, v) =>
                 \/ Says(Tail(s), Kind, v)
                 \/ NoneIn(Tail(s), Kind) /\ Head(s) \in Kind /\ Head(s)[2] = v
           /\ NoneIn(s, Kind) => NoneIn(Tail(s), Kind) /\ Head(s) \notin Kind
           /\ Has(s, Kind) => Head(s) \in Kind \/ Has(Tail(s), Kind)
           /\ Has(Tail(s), Kind) => Has(s, Kind)
<1>1. /\ Head(s) \in T /\ Tail(s) \in Seq(T)
      /\ \A x : LastIn(s, Kind, x) =>
            LastIn(Tail(s), Kind, x) \/ (NoneIn(Tail(s), Kind) /\ Head(s) = x)
      /\ NoneIn(s, Kind) => NoneIn(Tail(s), Kind) /\ Head(s) \notin Kind
  BY FirstTaken
<1>2. /\ Len(s) \in Nat \ {0} /\ DOMAIN s = 1..Len(s) /\ Head(s) = s[1]
      /\ Len(Tail(s)) = Len(s) - 1 /\ DOMAIN Tail(s) = 1..Len(Tail(s))
      /\ \A i \in 1..Len(Tail(s)) : Tail(s)[i] = s[i + 1]
  BY LenProperties, EmptySeq, HeadTailProperties
<1> DEFINE r == Tail(s)
<1>3. \A k \in DOMAIN s : k = 1 \/ (k - 1 \in DOMAIN r /\ r[k - 1] = s[k])
  <2> TAKE k \in DOMAIN s
  <2>1. k \in Nat /\ (k = 1 \/ k - 1 \in 1..Len(r)) /\ (k - 1) + 1 = k BY <1>2
  <2> QED BY <1>2, <2>1
<1>4. \A k \in DOMAIN r : k + 1 \in DOMAIN s /\ r[k] = s[k + 1] BY <1>2
<1> HIDE DEF r
<1>5. Has(s, Kind) => Head(s) \in Kind \/ Has(r, Kind) BY <1>2, <1>3 DEF Has
<1>6. Has(r, Kind) => Has(s, Kind) BY <1>4 DEF Has
<1>7. ASSUME NEW v, Says(s, Kind, v)
      PROVE  \/ Says(r, Kind, v)
             \/ NoneIn(r, Kind) /\ Head(s) \in Kind /\ Head(s)[2] = v
  BY <1>1, <1>7 DEF Says, r
<1> QED BY <1>1, <1>5, <1>6, <1>7 DEF r

(* The messages that set what the window shows of the state, of the phone *)
(* discovered and of the pairing, and the calls. *)
StateMsgs == {"state.changed", "daemon.status"} \X Bridge!States
FoundMsgs == {"device.found", "device.lost", "devices.discovered"} \X BOOLEAN
PairMsgs == {<<"devices.paired", TRUE>>, <<"devices.paired", FALSE>>, <<"pairing.result", TRUE>>,
             <<"pair.unpair", FALSE>>, <<"settings.unpair", FALSE>>}
Socks == {"connecting", "connected", "disconnected"}
ConnMsgs == {"getConnectionState"} \X Socks
ListMsgs == {"devices.discovered"} \X BOOLEAN
BackMsgs == {<<"state.changed", "DISCOVERING">>}
UpMsgs == {<<"socket", "connected">>, <<"getConnectionState", "connected">>}
Ops == {"getConnectionState", "daemon.status", "devices.discovered", "devices.paired",
        "pair.unpair", "settings.unpair", "pair.accept", "pair.reject", "pair.request"}
ShellMails == StateMsgs \cup FoundMsgs \cup {"socket", "getConnectionState"} \X Socks
              \cup {"devices.paired", "pairing.result"} \X BOOLEAN
              \cup {<<"pairing.incoming", TRUE>>} \cup {"pairing.code", "pair.request"} \X Nat
              \cup {"pair.unpair", "settings.unpair", "pair.reject"} \X {FALSE}
              \cup {<<"pair.failed", 0>>} \cup {"error"} \X Ops
AskState == {"daemon.status", "getConnectionState"}
AskFound == {"devices.discovered"}
AskPair == {"devices.discovered", "devices.paired"}

Daemons == [state : Bridge!States, trusted : BOOLEAN, conn : {"none", "open", "closing"},
            code : Nat, codes : Nat, found : BOOLEAN, hook : BOOLEAN, asked : BOOLEAN]
Shown == [mounted : BOOLEAN, socket : Socks, app : Bridge!States \cup {"null"}, found : BOOLEAN,
          paired : BOOLEAN, incoming : BOOLEAN, code : Nat, hasBeen : BOOLEAN]

ShellTypes ==
    /\ bridge \in Socks /\ guiDaemon \in Daemons /\ guiWindow \in Shown
    /\ guiCalls \in Seq(Ops) /\ guiInbox \in Seq(ShellMails)

(* Nothing is said to a window that is not opened, and only a daemon that is *)
(* opened is said to be. *)
Wired ==
    /\ ~guiWindow.mounted => guiCalls = <<>> /\ guiInbox = <<>> /\ guiWindow.socket # "connected"
    /\ guiWindow.socket = "connected" \/ Has(guiInbox, UpMsgs) => bridge = "connected"

(* The three copies: an answer is asked for, or the last message that sets *)
(* the copy says what is so; of the pairing, whatever makes the window again *)
(* again will do. *)
StateCopied ==
    \/ Has(guiCalls, AskState) \/ Has(guiInbox, ConnMsgs)
    \/ Says(guiInbox, StateMsgs, guiDaemon.state)
    \/ NoneIn(guiInbox, StateMsgs) /\ guiWindow.app = guiDaemon.state
FoundCopied ==
    \/ Has(guiCalls, AskFound)
    \/ Says(guiInbox, FoundMsgs, guiDaemon.found)
    \/ NoneIn(guiInbox, FoundMsgs) /\ guiWindow.found = guiDaemon.found
PairCopied ==
    \/ Has(guiCalls, AskPair) \/ Has(guiInbox, ListMsgs) \/ Has(guiInbox, BackMsgs)
    \/ guiDaemon.conn = "closing"
    \/ Says(guiInbox, PairMsgs, guiDaemon.trusted)
    \/ NoneIn(guiInbox, PairMsgs) /\ guiWindow.paired = guiDaemon.trusted

ShellInv ==
    /\ ShellTypes /\ Wired
    /\ guiWindow.socket = "connected" => StateCopied
    /\ Bridge!Known(guiWindow) => FoundCopied /\ PairCopied

LEMMA ShellInit == Bridge!Init => ShellInv
<1> SUFFICES ASSUME Bridge!Init  PROVE ShellInv
  OBVIOUS
<1>1. PICK old \in BOOLEAN :
        guiDaemon = [state |-> "DISCOVERING", trusted |-> old, conn |-> "none", code |-> 0,
                     codes |-> 0, found |-> FALSE, hook |-> FALSE, asked |-> FALSE]
  BY DEF Bridge!Init
<1>2. bridge = "connecting" /\ guiWindow = Bridge!NewWindow /\ guiCalls = <<>> /\ guiInbox = <<>>
  BY DEF Bridge!Init
<1>3. guiDaemon \in Daemons /\ guiWindow \in Shown /\ guiWindow.socket = "disconnected"
  BY <1>1, <1>2 DEF Daemons, Shown, Bridge!NewWindow, Bridge!States, Socks
<1>4. <<>> \in Seq(Ops) /\ <<>> \in Seq(ShellMails) /\ ~Has(<<>>, UpMsgs) BY EmptySeq DEF Has
<1> QED BY <1>2, <1>3, <1>4 DEF ShellInv, ShellTypes, Wired, Bridge!Known, Socks

--------------------
(* The daemon speaks: what notes must say of what has changed. *)
StateNoted(notes) ==
    \/ Says(notes, StateMsgs, guiDaemon'.state) \/ Has(notes, ConnMsgs)
    \/ /\ NoneIn(notes, StateMsgs) /\ guiDaemon'.state = guiDaemon.state
       /\ Has(guiCalls, AskState) => Has(guiCalls', AskState)
FoundNoted(notes) ==
    \/ Says(notes, FoundMsgs, guiDaemon'.found)
    \/ /\ NoneIn(notes, FoundMsgs) /\ guiDaemon'.found = guiDaemon.found
       /\ Has(guiCalls, AskFound) => Has(guiCalls', AskFound)
PairNoted(notes) ==
    \/ Says(notes, PairMsgs, guiDaemon'.trusted) \/ Has(notes, ListMsgs) \/ Has(notes, BackMsgs)
    \/ guiDaemon'.conn = "closing"
    \/ /\ NoneIn(notes, PairMsgs) /\ guiDaemon'.trusted = guiDaemon.trusted
       /\ guiDaemon.conn = "closing" => guiDaemon'.conn = "closing"
       /\ Has(guiCalls, AskPair) => Has(guiCalls', AskPair)
Noted(notes) == StateNoted(notes) /\ FoundNoted(notes) /\ PairNoted(notes)

LEMMA NotesKeep ==
    ASSUME ShellInv, NEW notes \in Seq(ShellMails), guiInbox' = guiInbox \o notes,
           UNCHANGED <<bridge, guiWindow>>, guiDaemon' \in Daemons, guiCalls' \in Seq(Ops),
           guiWindow.mounted, Has(notes, UpMsgs) => bridge = "connected",
           bridge = "connected" => Noted(notes)
    PROVE  ShellInv'
<1>0. /\ ShellTypes /\ Wired
      /\ guiWindow.socket = "connected" => StateCopied
      /\ Bridge!Known(guiWindow) => FoundCopied /\ PairCopied
      /\ guiInbox \in Seq(ShellMails)
  BY DEF ShellInv, ShellTypes
<1>1. guiInbox' \in Seq(ShellMails) BY <1>0, Joined
<1>2. ASSUME NEW Kind
      PROVE  /\ \A v : Says(notes, Kind, v) => Says(guiInbox', Kind, v)
             /\ \A v : Says(guiInbox, Kind, v) /\ NoneIn(notes, Kind) => Says(guiInbox', Kind, v)
             /\ NoneIn(guiInbox, Kind) /\ NoneIn(notes, Kind) => NoneIn(guiInbox', Kind)
             /\ Has(guiInbox, Kind) \/ Has(notes, Kind) => Has(guiInbox', Kind)
             /\ Has(guiInbox', Kind) => Has(guiInbox, Kind) \/ Has(notes, Kind)
  BY <1>0, Joined
<1>3. Wired'
  <2>1. Has(guiInbox', UpMsgs) => bridge = "connected" BY <1>0, <1>2 DEF Wired
  <2> QED BY <1>0, <2>1 DEF Wired, UpMsgs
<1>4. guiWindow.socket = "connected" => StateCopied'
  <2> SUFFICES ASSUME guiWindow.socket = "connected"
               PROVE  \/ Has(guiCalls', AskState) \/ Has(guiInbox', ConnMsgs)
                      \/ Says(guiInbox', StateMsgs, guiDaemon'.state)
                      \/ NoneIn(guiInbox', StateMsgs) /\ guiWindow.app = guiDaemon'.state
    BY DEF StateCopied, AskState, ConnMsgs, StateMsgs, Bridge!States, Socks
  <2>1. StateCopied /\ StateNoted(notes) BY <1>0 DEF Wired, Noted
  <2>2. CASE Says(notes, StateMsgs, guiDaemon'.state) \/ Has(notes, ConnMsgs) BY <1>2, <2>2
  <2>3. CASE /\ NoneIn(notes, StateMsgs) /\ guiDaemon'.state = guiDaemon.state
             /\ Has(guiCalls, AskState) => Has(guiCalls', AskState)
    BY <1>2, <2>1, <2>3 DEF StateCopied
  <2> QED BY <2>1, <2>2, <2>3 DEF StateNoted
<1>5. Bridge!Known(guiWindow) => FoundCopied'
  <2> SUFFICES ASSUME Bridge!Known(guiWindow)
               PROVE  \/ Has(guiCalls', AskFound)
                      \/ Says(guiInbox', FoundMsgs, guiDaemon'.found)
                      \/ NoneIn(guiInbox', FoundMsgs) /\ guiWindow.found = guiDaemon'.found
    BY DEF FoundCopied, AskFound, FoundMsgs
  <2>1. FoundCopied /\ FoundNoted(notes) BY <1>0 DEF Wired, Noted, Bridge!Known
  <2>2. CASE Says(notes, FoundMsgs, guiDaemon'.found) BY <1>2, <2>2
  <2>3. CASE /\ NoneIn(notes, FoundMsgs) /\ guiDaemon'.found = guiDaemon.found
             /\ Has(guiCalls, AskFound) => Has(guiCalls', AskFound)
    BY <1>2, <2>1, <2>3 DEF FoundCopied
  <2> QED BY <2>1, <2>2, <2>3 DEF FoundNoted
<1>6. Bridge!Known(guiWindow) => PairCopied'
  <2> SUFFICES ASSUME Bridge!Known(guiWindow)
               PROVE  \/ Has(guiCalls', AskPair) \/ Has(guiInbox', ListMsgs) \/ Has(guiInbox', BackMsgs)
                      \/ guiDaemon'.conn = "closing"
                      \/ Says(guiInbox', PairMsgs, guiDaemon'.trusted)
                      \/ NoneIn(guiInbox', PairMsgs) /\ guiWindow.paired = guiDaemon'.trusted
    BY DEF PairCopied, AskPair, ListMsgs, BackMsgs, PairMsgs
  <2>1. PairCopied /\ PairNoted(notes) BY <1>0 DEF Wired, Noted, Bridge!Known
  <2>2. CASE \/ Says(notes, PairMsgs, guiDaemon'.trusted) \/ Has(notes, ListMsgs)
             \/ Has(notes, BackMsgs) \/ guiDaemon'.conn = "closing"
    BY <1>2, <2>2
  <2>3. CASE /\ NoneIn(notes, PairMsgs) /\ guiDaemon'.trusted = guiDaemon.trusted
             /\ guiDaemon.conn = "closing" => guiDaemon'.conn = "closing"
             /\ Has(guiCalls, AskPair) => Has(guiCalls', AskPair)
    BY <1>2, <2>1, <2>3 DEF PairCopied
  <2> QED BY <2>1, <2>2, <2>3 DEF PairNoted
<1>7. Bridge!Known(guiWindow)' <=> Bridge!Known(guiWindow) BY DEF Bridge!Known
<1>8. ShellTypes' BY <1>0, <1>1 DEF ShellTypes, Ops, ShellMails, Daemons, Shown, Socks
<1> QED BY <1>3, <1>4, <1>5, <1>6, <1>7, <1>8 DEF ShellInv

(* An event of the daemon: nobody hears it before the window is opened. *)
LEMMA EventKeeps ==
    ASSUME ShellInv, NEW d \in Daemons, NEW notes \in Seq(ShellMails), Bridge!Sends(d, notes),
           UNCHANGED <<bridge, guiWindow, guiCalls>>, ~Has(notes, UpMsgs), Noted(notes)
    PROVE  ShellInv'
<1>0. guiDaemon' = d /\ guiCalls \in Seq(Ops) /\ guiCalls' = guiCalls
  BY DEF Bridge!Sends, ShellInv, ShellTypes
<1>1. CASE bridge = "connected" /\ guiWindow.mounted
  <2>1. guiInbox' = guiInbox \o notes BY <1>1 DEF Bridge!Sends
  <2> QED BY <1>0, <1>1, <2>1, NotesKeep
<1>2. CASE ~(bridge = "connected" /\ guiWindow.mounted)
  <2>1. guiInbox' = guiInbox /\ guiWindow.socket # "connected"
    BY <1>2 DEF Bridge!Sends, ShellInv, Wired
  <2>2. ShellTypes' BY <1>0, <2>1 DEF ShellInv, ShellTypes, Daemons, Shown, Ops, ShellMails
  <2>3. Wired' BY <1>0, <2>1 DEF ShellInv, Wired, UpMsgs
  <2>4. guiWindow'.socket # "connected" /\ ~Bridge!Known(guiWindow)' BY <2>1 DEF Bridge!Known
  <2> QED BY <2>2, <2>3, <2>4 DEF ShellInv
<1> QED BY <1>1, <1>2

(* What each note says. *)
Talk(notes) == notes \in Seq(ShellMails) /\ ~Has(notes, UpMsgs)
Mute(notes) == Talk(notes) /\ NoneIn(notes, StateMsgs) /\ NoneIn(notes, FoundMsgs)
               /\ NoneIn(notes, PairMsgs)

LEMMA MuteIs ==
    ASSUME NEW m \in ShellMails, m \notin StateMsgs \cup FoundMsgs \cup PairMsgs \cup UpMsgs
    PROVE  Mute(<<m>>) /\ Mute(<<>>)
<1>1. <<m>> \in Seq(ShellMails) /\ <<>> \in Seq(ShellMails) BY EmptySeq
<1>2. ~Has(<<m>>, UpMsgs) /\ ~Has(<<>>, UpMsgs) BY DEF Has
<1> QED BY <1>1, <1>2, OneSent DEF Mute, Talk

LEMMA NoteIs ==
    /\ \A to \in Bridge!States :
          /\ Talk(Bridge!State(to)) /\ Says(Bridge!State(to), StateMsgs, to)
          /\ NoneIn(Bridge!State(to), FoundMsgs) /\ NoneIn(Bridge!State(to), PairMsgs)
    /\ Has(Bridge!State("DISCOVERING"), BackMsgs)
    /\ /\ Talk(Bridge!Note("pairing.result", TRUE))
       /\ Says(Bridge!Note("pairing.result", TRUE), PairMsgs, TRUE)
       /\ NoneIn(Bridge!Note("pairing.result", TRUE), StateMsgs)
       /\ NoneIn(Bridge!Note("pairing.result", TRUE), FoundMsgs)
    /\ \A v \in BOOLEAN, op \in {"device.found", "device.lost", "devices.discovered"} :
          /\ Talk(Bridge!Note(op, v)) /\ Says(Bridge!Note(op, v), FoundMsgs, v)
          /\ NoneIn(Bridge!Note(op, v), StateMsgs) /\ NoneIn(Bridge!Note(op, v), PairMsgs)
    /\ Mute(<<>>) /\ Mute(Bridge!Note("pairing.result", FALSE))
    /\ Mute(Bridge!Note("pairing.incoming", TRUE)) /\ Mute(Bridge!Note("pair.failed", 0))
    /\ Mute(Bridge!Note("pair.reject", FALSE))
    /\ \A c \in Nat : Mute(Bridge!Note("pairing.code", c)) /\ Mute(Bridge!Note("pair.request", c))
<1> USE DEF Bridge!Note, Bridge!State
<1>0. ASSUME NEW m \in ShellMails, m \notin UpMsgs  PROVE Talk(<<m>>)
  BY <1>0 DEF Talk, Has
<1>1. ASSUME NEW to \in Bridge!States
      PROVE  /\ Talk(Bridge!State(to)) /\ Says(Bridge!State(to), StateMsgs, to)
             /\ NoneIn(Bridge!State(to), FoundMsgs) /\ NoneIn(Bridge!State(to), PairMsgs)
  <2> DEFINE m == <<"state.changed", to>>
  <2>1. m \in ShellMails /\ m \notin UpMsgs \cup FoundMsgs \cup PairMsgs /\ m \in StateMsgs
        /\ m[2] = to
    BY DEF ShellMails, UpMsgs, FoundMsgs, PairMsgs, StateMsgs
  <2> HIDE DEF m
  <2>2. Talk(<<m>>) /\ Says(<<m>>, StateMsgs, to) /\ NoneIn(<<m>>, FoundMsgs) /\ NoneIn(<<m>>, PairMsgs)
    BY <1>0, <2>1, OneSent
  <2> QED BY <2>2 DEF m
<1>2. Has(Bridge!State("DISCOVERING"), BackMsgs) BY OneSent DEF BackMsgs
<1>3. /\ Talk(Bridge!Note("pairing.result", TRUE))
      /\ Says(Bridge!Note("pairing.result", TRUE), PairMsgs, TRUE)
      /\ NoneIn(Bridge!Note("pairing.result", TRUE), StateMsgs)
      /\ NoneIn(Bridge!Note("pairing.result", TRUE), FoundMsgs)
  <2> DEFINE m == <<"pairing.result", TRUE>>
  <2>1. m \in ShellMails /\ m \notin UpMsgs \cup FoundMsgs \cup StateMsgs /\ m \in PairMsgs
        /\ m[2] = TRUE
    BY DEF ShellMails, UpMsgs, FoundMsgs, PairMsgs, StateMsgs
  <2> HIDE DEF m
  <2>2. Talk(<<m>>) /\ Says(<<m>>, PairMsgs, TRUE) /\ NoneIn(<<m>>, FoundMsgs) /\ NoneIn(<<m>>, StateMsgs)
    BY <1>0, <2>1, OneSent
  <2> QED BY <2>2 DEF m
<1>4. ASSUME NEW v \in BOOLEAN, NEW op \in {"device.found", "device.lost", "devices.discovered"}
      PROVE  /\ Talk(Bridge!Note(op, v)) /\ Says(Bridge!Note(op, v), FoundMsgs, v)
             /\ NoneIn(Bridge!Note(op, v), StateMsgs) /\ NoneIn(Bridge!Note(op, v), PairMsgs)
  <2> DEFINE m == <<op, v>>
  <2>1. m \in ShellMails /\ m \notin UpMsgs \cup PairMsgs \cup StateMsgs /\ m \in FoundMsgs
        /\ m[2] = v
    BY DEF ShellMails, UpMsgs, FoundMsgs, PairMsgs, StateMsgs
  <2> HIDE DEF m
  <2>2. Talk(<<m>>) /\ Says(<<m>>, FoundMsgs, v) /\ NoneIn(<<m>>, PairMsgs) /\ NoneIn(<<m>>, StateMsgs)
    BY <1>0, <2>1, OneSent
  <2> QED BY <2>2 DEF m
<1>5. ASSUME NEW op \in {"pairing.incoming", "pair.failed", "pair.reject", "pairing.code",
                         "pair.request"}, NEW v, <<op, v>> \in ShellMails
      PROVE  Mute(<< <<op, v>> >>)
  <2>1. <<op, v>> \notin StateMsgs /\ <<op, v>> \notin FoundMsgs BY DEF StateMsgs, FoundMsgs
  <2>2. <<op, v>> \notin PairMsgs /\ <<op, v>> \notin UpMsgs BY DEF PairMsgs, UpMsgs
  <2> QED BY <1>5, <2>1, <2>2, MuteIs
<1>8. Mute(<< <<"pairing.result", FALSE>> >>) /\ Mute(<<>>)
  <2> DEFINE m == <<"pairing.result", FALSE>>
  <2>1. m \notin StateMsgs /\ m \notin FoundMsgs BY DEF StateMsgs, FoundMsgs
  <2>2. m \notin PairMsgs /\ m \notin UpMsgs BY DEF PairMsgs, UpMsgs
  <2>3. m \in ShellMails BY DEF ShellMails
  <2> HIDE DEF m
  <2>4. Mute(<<m>>) /\ Mute(<<>>) BY <2>1, <2>2, <2>3, MuteIs
  <2> QED BY <2>4 DEF m
<1>9. /\ <<"pairing.incoming", TRUE>> \in ShellMails /\ <<"pair.failed", 0>> \in ShellMails
      /\ <<"pair.reject", FALSE>> \in ShellMails
      /\ \A c \in Nat : <<"pairing.code", c>> \in ShellMails /\ <<"pair.request", c>> \in ShellMails
  BY DEF ShellMails
<1>6. \A c \in Nat : Mute(Bridge!Note("pairing.code", c)) /\ Mute(Bridge!Note("pair.request", c))
  BY <1>5, <1>9
<1>7. /\ Mute(<<>>) /\ Mute(Bridge!Note("pairing.result", FALSE))
      /\ Mute(Bridge!Note("pairing.incoming", TRUE)) /\ Mute(Bridge!Note("pair.failed", 0))
      /\ Mute(Bridge!Note("pair.reject", FALSE))
  BY <1>5, <1>8, <1>9
<1> QED BY <1>1, <1>2, <1>3, <1>4, <1>6, <1>7

LEMMA TalkJoins ==
    ASSUME NEW s, NEW t, Talk(s), Talk(t)
    PROVE  /\ Talk(s \o t)
           /\ \A Kind, v : Says(t, Kind, v) => Says(s \o t, Kind, v)
           /\ \A Kind, v : Says(s, Kind, v) /\ NoneIn(t, Kind) => Says(s \o t, Kind, v)
           /\ \A Kind : NoneIn(s, Kind) /\ NoneIn(t, Kind) => NoneIn(s \o t, Kind)
           /\ \A Kind : Has(s, Kind) \/ Has(t, Kind) => Has(s \o t, Kind)
BY Joined DEF Talk

(* The phone finds, connects, pairs, and goes. *)
LEMMA FoundIs ==
    ASSUME guiDaemon.found \in BOOLEAN
    PROVE  /\ Talk(Bridge!Found(guiDaemon))
           /\ NoneIn(Bridge!Found(guiDaemon), StateMsgs) /\ NoneIn(Bridge!Found(guiDaemon), PairMsgs)
           /\ IF guiDaemon.found THEN NoneIn(Bridge!Found(guiDaemon), FoundMsgs)
                                 ELSE Says(Bridge!Found(guiDaemon), FoundMsgs, TRUE)
<1>1. CASE guiDaemon.found BY <1>1, NoteIs DEF Bridge!Found, Mute
<1>2. CASE ~guiDaemon.found BY <1>2, NoteIs DEF Bridge!Found
<1> QED BY <1>1, <1>2

LEMMA SucceedsKeeps ==
    ASSUME ShellInv, NEW d \in Daemons, Bridge!Succeeds(d), UNCHANGED <<bridge, guiWindow, guiCalls>>,
           d.trusted = TRUE, d.state = guiDaemon.state, d.found = guiDaemon.found
    PROVE  ShellInv'
<1> DEFINE e == [d EXCEPT !.state = "CONNECTED"]
           result == Bridge!Note("pairing.result", TRUE)
           notes == (IF d.state = "CONNECTED" THEN <<>> ELSE Bridge!State("CONNECTED")) \o result
<1>1. e \in Daemons /\ e.state = "CONNECTED" /\ e.trusted = TRUE /\ e.found = guiDaemon.found
      /\ "CONNECTED" \in Bridge!States
  BY DEF Daemons, Bridge!States
<1>2. Bridge!Sends(e, notes) /\ guiDaemon' = e BY DEF Bridge!Succeeds, Bridge!Sends
<1>3. /\ Talk(notes) /\ Says(notes, PairMsgs, TRUE) /\ NoneIn(notes, FoundMsgs)
      /\ IF d.state = "CONNECTED" THEN NoneIn(notes, StateMsgs)
                                  ELSE Says(notes, StateMsgs, "CONNECTED")
  <2>1. CASE d.state = "CONNECTED"
    <3>1. notes = <<>> \o result BY <2>1
    <3> HIDE DEF notes, result
    <3>2. /\ Mute(<<>>) /\ Talk(result) /\ Says(result, PairMsgs, TRUE)
          /\ NoneIn(result, StateMsgs) /\ NoneIn(result, FoundMsgs)
      BY NoteIs DEF result
    <3> QED BY <2>1, <3>1, <3>2, TalkJoins DEF Mute
  <2>2. CASE d.state # "CONNECTED"
    <3> DEFINE st == Bridge!State("CONNECTED")
    <3>1. notes = st \o result BY <2>2
    <3> HIDE DEF notes, result, st
    <3>2. /\ Talk(st) /\ Talk(result) /\ Says(result, PairMsgs, TRUE)
          /\ NoneIn(result, StateMsgs) /\ NoneIn(result, FoundMsgs)
          /\ NoneIn(st, FoundMsgs) /\ Says(st, StateMsgs, "CONNECTED")
      BY <1>1, NoteIs DEF result, st
    <3> QED BY <2>2, <3>1, <3>2, TalkJoins
  <2> QED BY <2>1, <2>2
<1> HIDE DEF notes, e
<1>4. Noted(notes) BY <1>1, <1>2, <1>3 DEF Noted, StateNoted, FoundNoted, PairNoted
<1> QED BY <1>1, <1>2, <1>3, <1>4, EventKeeps DEF Talk

LEMMA FailsKeeps ==
    ASSUME ShellInv, NEW d \in Daemons, Bridge!Fails(d), UNCHANGED <<bridge, guiWindow, guiCalls>>,
           d.trusted = guiDaemon.trusted, d.found = guiDaemon.found
    PROVE  ShellInv'
<1> DEFINE e == Bridge!Back(d)
           result == Bridge!Note("pairing.result", FALSE)
           st == Bridge!State("DISCOVERING")
           notes == st \o result
<1>0. "DISCOVERING" \in Bridge!States BY DEF Bridge!States
<1>1. e \in Daemons /\ e.state = "DISCOVERING" /\ e.found = guiDaemon.found
      /\ e.trusted = guiDaemon.trusted /\ "DISCOVERING" \in Bridge!States
  BY <1>0 DEF Daemons, Bridge!Back
<1>2. Bridge!Sends(e, notes) /\ guiDaemon' = e BY DEF Bridge!Fails, Bridge!Sends
<1>3. /\ Talk(st) /\ Mute(result) /\ Says(st, StateMsgs, "DISCOVERING") /\ Has(st, BackMsgs)
      /\ NoneIn(st, FoundMsgs)
  BY <1>1, NoteIs
<1> HIDE DEF e, st, result
<1>4. /\ Talk(notes) /\ Says(notes, StateMsgs, "DISCOVERING") /\ Has(notes, BackMsgs)
      /\ NoneIn(notes, FoundMsgs)
  BY <1>3, TalkJoins DEF Mute
<1> HIDE DEF notes
<1>5. Noted(notes) BY <1>1, <1>2, <1>4 DEF Noted, StateNoted, FoundNoted, PairNoted
<1> QED BY <1>1, <1>2, <1>4, <1>5, EventKeeps DEF Talk

LEMMA ConnectsKeeps ==
    ASSUME ShellInv, Bridge!PhoneConnects
    PROVE  ShellInv'
<1> DEFINE opened == [guiDaemon EXCEPT !.conn = "open", !.found = TRUE, !.hook = FALSE, !.asked = FALSE]
           first == Bridge!NewCode([opened EXCEPT !.state = "PAIRING"])
           fd == Bridge!Found(guiDaemon)
<1>0. guiDaemon \in Daemons /\ guiDaemon.conn = "none" /\ UNCHANGED <<bridge, guiWindow, guiCalls>>
  BY DEF ShellInv, ShellTypes, Bridge!PhoneConnects, Bridge!Event
<1>a. "CONNECTED" \in Bridge!States /\ "PAIRING" \in Bridge!States BY DEF Bridge!States
<1>b. /\ opened \in Daemons /\ opened.found = TRUE /\ opened.trusted = guiDaemon.trusted
  BY <1>0 DEF Daemons
<1>1. /\ opened \in Daemons /\ opened.found = TRUE /\ opened.trusted = guiDaemon.trusted
      /\ "CONNECTED" \in Bridge!States /\ "PAIRING" \in Bridge!States
  BY <1>a, <1>b
<1>2. /\ first \in Daemons /\ first.state = "PAIRING" /\ first.found = TRUE
      /\ first.trusted = guiDaemon.trusted
  <2> DEFINE mid == [opened EXCEPT !.state = "PAIRING"]
  <2>1. /\ mid \in Daemons /\ mid.state = "PAIRING" /\ mid.found = TRUE
        /\ mid.trusted = guiDaemon.trusted
    <3> HIDE DEF opened
    <3> QED BY <1>1 DEF Daemons
  <2> HIDE DEF mid
  <2>2. mid.codes + 1 \in Nat BY <2>1 DEF Daemons
  <2>3. Bridge!NewCode(mid) \in Daemons /\ Bridge!NewCode(mid).state = "PAIRING"
        /\ Bridge!NewCode(mid).found = TRUE /\ Bridge!NewCode(mid).trusted = guiDaemon.trusted
    BY <2>1, <2>2 DEF Daemons, Bridge!NewCode
  <2> QED BY <2>3 DEF mid
<1>3. /\ Talk(fd) /\ NoneIn(fd, StateMsgs) /\ NoneIn(fd, PairMsgs)
      /\ IF guiDaemon.found THEN NoneIn(fd, FoundMsgs) ELSE Says(fd, FoundMsgs, TRUE)
  BY <1>0, FoundIs DEF Daemons
<1>4. ASSUME NEW d \in Daemons, NEW notes, Bridge!Sends(d, notes), Talk(notes), d.found = TRUE,
             Says(notes, StateMsgs, d.state), NoneIn(notes, PairMsgs), d.trusted = guiDaemon.trusted,
             IF guiDaemon.found THEN NoneIn(notes, FoundMsgs) ELSE Says(notes, FoundMsgs, TRUE)
      PROVE  ShellInv'
  <2>1. guiDaemon' = d BY <1>4 DEF Bridge!Sends
  <2>2. guiDaemon.found => guiDaemon.found = TRUE BY <1>0 DEF Daemons
  <2>3. Noted(notes) BY <1>0, <1>4, <2>1, <2>2 DEF Noted, StateNoted, FoundNoted, PairNoted
  <2> QED BY <1>0, <1>4, <2>3, EventKeeps DEF Talk
<1>5. CASE guiDaemon.trusted
  <2> DEFINE d == [opened EXCEPT !.state = "CONNECTED"]
             st == Bridge!State("CONNECTED")
             more == IF guiDaemon.asked THEN Bridge!Note("pair.failed", 0) ELSE <<>>
  <2>1. Bridge!Sends(d, (fd \o st) \o more) BY <1>5 DEF Bridge!PhoneConnects
  <2>2. d \in Daemons /\ d.state = "CONNECTED" /\ d.found = TRUE /\ d.trusted = guiDaemon.trusted
    BY <1>1 DEF Daemons
  <2>3. /\ Talk(st) /\ Says(st, StateMsgs, "CONNECTED") /\ NoneIn(st, FoundMsgs)
        /\ NoneIn(st, PairMsgs)
    BY <1>1, NoteIs
  <2>4. Mute(more) BY NoteIs
  <2> HIDE DEF fd, st, more, d
  <2>5. /\ Talk(fd \o st) /\ Says(fd \o st, StateMsgs, "CONNECTED") /\ NoneIn(fd \o st, PairMsgs)
        /\ IF guiDaemon.found THEN NoneIn(fd \o st, FoundMsgs) ELSE Says(fd \o st, FoundMsgs, TRUE)
    BY <1>3, <2>3, TalkJoins
  <2>6. /\ Talk((fd \o st) \o more) /\ Says((fd \o st) \o more, StateMsgs, "CONNECTED")
        /\ NoneIn((fd \o st) \o more, PairMsgs)
        /\ IF guiDaemon.found THEN NoneIn((fd \o st) \o more, FoundMsgs)
                              ELSE Says((fd \o st) \o more, FoundMsgs, TRUE)
    BY <2>4, <2>5, TalkJoins DEF Mute
  <2> QED BY <1>4, <2>1, <2>2, <2>6
<1>6. CASE ~guiDaemon.trusted
  <2> DEFINE st == Bridge!State("PAIRING")
             one == Bridge!CodeNote(opened)
             two == Bridge!CodeNote(first)
             answer == IF guiDaemon.asked THEN Bridge!Note("pair.request", first.codes + 1) ELSE <<>>
  <2>1. /\ Talk(st) /\ Says(st, StateMsgs, "PAIRING") /\ NoneIn(st, FoundMsgs)
        /\ NoneIn(st, PairMsgs)
    BY <1>1, NoteIs
  <2>2. Mute(one) /\ Mute(two) /\ Mute(answer)
    <3> HIDE DEF opened, first
    <3>1. opened.codes + 1 \in Nat /\ first.codes + 1 \in Nat BY <1>1, <1>2 DEF Daemons
    <3> QED BY <3>1, NoteIs DEF Bridge!CodeNote
  <2>3. CASE guiDaemon.hook
    <3> DEFINE d == Bridge!NewCode(first)
    <3>1. Bridge!Sends(d, (((fd \o st) \o one) \o two) \o answer)
      BY <1>6, <2>3 DEF Bridge!PhoneConnects
    <3>2. d \in Daemons /\ d.state = "PAIRING" /\ d.found = TRUE /\ d.trusted = guiDaemon.trusted
      <4> HIDE DEF first
      <4>1. first.codes + 1 \in Nat BY <1>2 DEF Daemons
      <4> QED BY <1>2, <4>1 DEF Daemons, Bridge!NewCode
    <3> HIDE DEF fd, st, one, two, answer, d, opened, first
    <3>3. /\ Talk(fd \o st) /\ Says(fd \o st, StateMsgs, "PAIRING") /\ NoneIn(fd \o st, PairMsgs)
          /\ IF guiDaemon.found THEN NoneIn(fd \o st, FoundMsgs) ELSE Says(fd \o st, FoundMsgs, TRUE)
      BY <1>3, <2>1, TalkJoins
    <3> DEFINE a == (fd \o st) \o one
               b == a \o two
               c == b \o answer
    <3>4. /\ Talk(a) /\ Says(a, StateMsgs, "PAIRING") /\ NoneIn(a, PairMsgs)
          /\ IF guiDaemon.found THEN NoneIn(a, FoundMsgs) ELSE Says(a, FoundMsgs, TRUE)
      BY <2>2, <3>3, TalkJoins DEF Mute
    <3> HIDE DEF a
    <3>5. /\ Talk(b) /\ Says(b, StateMsgs, "PAIRING") /\ NoneIn(b, PairMsgs)
          /\ IF guiDaemon.found THEN NoneIn(b, FoundMsgs) ELSE Says(b, FoundMsgs, TRUE)
      BY <2>2, <3>4, TalkJoins DEF Mute
    <3> HIDE DEF b
    <3>6. /\ Talk(c) /\ Says(c, StateMsgs, "PAIRING") /\ NoneIn(c, PairMsgs)
          /\ IF guiDaemon.found THEN NoneIn(c, FoundMsgs) ELSE Says(c, FoundMsgs, TRUE)
      BY <2>2, <3>5, TalkJoins DEF Mute
    <3>7. Bridge!Sends(d, c) BY <3>1 DEF a, b
    <3> HIDE DEF c
    <3> QED BY <1>4, <3>2, <3>6, <3>7
  <2>4. CASE ~guiDaemon.hook
    <3>1. Bridge!Sends(first, (fd \o st) \o one) BY <1>6, <2>4 DEF Bridge!PhoneConnects
    <3> HIDE DEF fd, st, one, two, answer, opened, first
    <3>2. /\ Talk(fd \o st) /\ Says(fd \o st, StateMsgs, "PAIRING") /\ NoneIn(fd \o st, PairMsgs)
          /\ IF guiDaemon.found THEN NoneIn(fd \o st, FoundMsgs) ELSE Says(fd \o st, FoundMsgs, TRUE)
      BY <1>3, <2>1, TalkJoins
    <3> DEFINE a == (fd \o st) \o one
    <3>3. /\ Talk(a) /\ Says(a, StateMsgs, "PAIRING") /\ NoneIn(a, PairMsgs)
          /\ IF guiDaemon.found THEN NoneIn(a, FoundMsgs) ELSE Says(a, FoundMsgs, TRUE)
      BY <2>2, <3>2, TalkJoins DEF Mute
    <3> HIDE DEF a
    <3> QED BY <1>2, <1>4, <3>1, <3>3 DEF a
  <2> QED BY <2>3, <2>4
<1> QED BY <1>5, <1>6
LEMMA EventsKeep ==
    ASSUME ShellInv,
           \/ Bridge!PhoneDiscovered \/ Bridge!PhoneLost \/ Bridge!PhoneRequestsPair
           \/ Bridge!PhoneConfirms \/ Bridge!PhoneRejects \/ Bridge!CodeTimeout
           \/ Bridge!PhoneUnpairs \/ Bridge!Disconnected \/ Bridge!RequestTimeout
    PROVE  ShellInv'
<1> USE DEF Bridge!EventOnOpen, Bridge!Event
<1>0. guiDaemon \in Daemons BY DEF ShellInv, ShellTypes
<1>1. /\ guiDaemon.found \in BOOLEAN /\ guiDaemon.trusted \in BOOLEAN /\ guiDaemon.state \in Bridge!States
      /\ guiDaemon.conn \in {"none", "open", "closing"}
  BY <1>0 DEF Daemons
<1>2. /\ [guiDaemon EXCEPT !.code = 0] \in Daemons
      /\ [guiDaemon EXCEPT !.code = 0, !.trusted = TRUE] \in Daemons
      /\ [guiDaemon EXCEPT !.found = TRUE] \in Daemons /\ [guiDaemon EXCEPT !.found = FALSE] \in Daemons
      /\ [guiDaemon EXCEPT !.asked = FALSE] \in Daemons
  BY <1>0 DEF Daemons
<1>3. ASSUME NEW d \in Daemons, NEW notes, Mute(notes), Bridge!Sends(d, notes),
             UNCHANGED <<bridge, guiWindow, guiCalls>>, d.state = guiDaemon.state, d.found = guiDaemon.found,
             \/ d.trusted = guiDaemon.trusted /\ d.conn = guiDaemon.conn
             \/ d.conn = "closing"
      PROVE  ShellInv'
  <2>1. guiDaemon' = d /\ guiCalls' = guiCalls BY <1>3 DEF Bridge!Sends
  <2>2. Noted(notes) BY <1>3, <2>1 DEF Mute, Noted, StateNoted, FoundNoted, PairNoted
  <2> QED BY <1>3, <2>2, EventKeeps DEF Mute, Talk
<1>4. CASE Bridge!PhoneDiscovered
  <2> DEFINE d == [guiDaemon EXCEPT !.found = TRUE]
             notes == Bridge!Found(guiDaemon)
  <2>1. Bridge!Sends(d, notes) /\ UNCHANGED <<bridge, guiWindow, guiCalls>> /\ guiDaemon' = d
    BY <1>4 DEF Bridge!PhoneDiscovered, Bridge!Sends
  <2>2. /\ d \in Daemons /\ d.found = TRUE /\ d.state = guiDaemon.state
        /\ d.trusted = guiDaemon.trusted /\ d.conn = guiDaemon.conn
    BY <1>0, <1>2 DEF Daemons
  <2>3. /\ Talk(notes) /\ NoneIn(notes, StateMsgs) /\ NoneIn(notes, PairMsgs)
        /\ IF guiDaemon.found THEN NoneIn(notes, FoundMsgs) ELSE Says(notes, FoundMsgs, TRUE)
    BY <1>1, FoundIs
  <2> HIDE DEF d, notes
  <2>4. Noted(notes)
    <3>1. guiDaemon.found => guiDaemon.found = TRUE BY <1>1
    <3> QED BY <2>1, <2>2, <2>3, <3>1 DEF Noted, StateNoted, FoundNoted, PairNoted
  <2> QED BY <2>1, <2>2, <2>3, <2>4, EventKeeps DEF Talk
<1>5. CASE Bridge!PhoneLost
  <2> DEFINE d == [guiDaemon EXCEPT !.found = FALSE]
             notes == Bridge!Note("device.lost", FALSE)
  <2>1. Bridge!Sends(d, notes) /\ UNCHANGED <<bridge, guiWindow, guiCalls>> /\ guiDaemon' = d
    BY <1>5 DEF Bridge!PhoneLost, Bridge!Sends
  <2>2. /\ d \in Daemons /\ d.found = FALSE /\ d.state = guiDaemon.state
        /\ d.trusted = guiDaemon.trusted /\ d.conn = guiDaemon.conn
    BY <1>0, <1>2 DEF Daemons
  <2>3. /\ Talk(notes) /\ NoneIn(notes, StateMsgs) /\ NoneIn(notes, PairMsgs)
        /\ Says(notes, FoundMsgs, FALSE)
    BY NoteIs
  <2> HIDE DEF d, notes
  <2>4. Noted(notes) BY <2>1, <2>2, <2>3 DEF Noted, StateNoted, FoundNoted, PairNoted
  <2> QED BY <2>1, <2>2, <2>3, <2>4, EventKeeps DEF Talk
<1>6. CASE Bridge!PhoneRequestsPair
  <2>1. CASE guiDaemon.trusted
    <3>1. Bridge!Succeeds(guiDaemon) /\ UNCHANGED <<bridge, guiWindow, guiCalls>> /\ guiDaemon.trusted = TRUE
      BY <1>1, <1>6, <2>1 DEF Bridge!PhoneRequestsPair
    <3> QED BY <1>0, <3>1, SucceedsKeeps
  <2>2. CASE ~guiDaemon.trusted
    <3>1. Bridge!Sends(guiDaemon, Bridge!Note("pairing.incoming", TRUE)) /\ UNCHANGED <<bridge, guiWindow, guiCalls>>
      BY <1>6, <2>2 DEF Bridge!PhoneRequestsPair
    <3>2. Mute(Bridge!Note("pairing.incoming", TRUE)) BY NoteIs
    <3> QED BY <1>0, <1>3, <3>1, <3>2
  <2> QED BY <2>1, <2>2
<1>7. CASE Bridge!PhoneConfirms
  <2> DEFINE d == [guiDaemon EXCEPT !.code = 0, !.trusted = TRUE]
  <2>1. Bridge!Succeeds(d) /\ UNCHANGED <<bridge, guiWindow, guiCalls>>
    BY <1>7 DEF Bridge!PhoneConfirms
  <2>2. d \in Daemons /\ d.trusted = TRUE /\ d.state = guiDaemon.state /\ d.found = guiDaemon.found
    BY <1>0, <1>2 DEF Daemons
  <2> HIDE DEF d
  <2> QED BY <2>1, <2>2, SucceedsKeeps
<1>8. CASE Bridge!PhoneRejects \/ Bridge!CodeTimeout
  <2> DEFINE d == [guiDaemon EXCEPT !.code = 0]
  <2>1. Bridge!Fails(d) /\ UNCHANGED <<bridge, guiWindow, guiCalls>>
    BY <1>8 DEF Bridge!PhoneRejects, Bridge!CodeTimeout
  <2>2. d \in Daemons /\ d.trusted = guiDaemon.trusted /\ d.found = guiDaemon.found
    BY <1>0, <1>2 DEF Daemons
  <2> HIDE DEF d
  <2> QED BY <2>1, <2>2, FailsKeeps
<1>9. CASE Bridge!PhoneUnpairs
  <2> DEFINE d == Bridge!Unpair(guiDaemon)
  <2>1. Bridge!Sends(d, <<>>) /\ UNCHANGED <<bridge, guiWindow, guiCalls>> /\ guiDaemon.conn = "open"
    BY <1>9 DEF Bridge!PhoneUnpairs
  <2>2. d \in Daemons /\ d.conn = "closing" /\ d.state = guiDaemon.state /\ d.found = guiDaemon.found
    BY <1>0, <2>1 DEF Daemons, Bridge!Unpair
  <2>3. Mute(<<>>) BY NoteIs
  <2> HIDE DEF d
  <2> QED BY <1>3, <2>1, <2>2, <2>3
<1>10. CASE Bridge!Disconnected
  <2> DEFINE left == [guiDaemon EXCEPT !.conn = "none"]
             d == Bridge!Back(left)
             notes == Bridge!State("DISCOVERING")
  <2>0. "DISCOVERING" \in Bridge!States BY DEF Bridge!States
  <2>1. Bridge!Sends(d, notes) /\ UNCHANGED <<bridge, guiWindow, guiCalls>> /\ guiDaemon' = d
    BY <1>10 DEF Bridge!Disconnected, Bridge!Sends
  <2>2. left \in Daemons /\ left.found = guiDaemon.found BY <1>0 DEF Daemons
  <2> HIDE DEF left
  <2>3. d \in Daemons /\ d.state = "DISCOVERING" /\ d.found = guiDaemon.found
    BY <2>0, <2>2 DEF Daemons, Bridge!Back
  <2>4. /\ Talk(notes) /\ Says(notes, StateMsgs, "DISCOVERING") /\ Has(notes, BackMsgs)
        /\ NoneIn(notes, FoundMsgs)
    BY <2>0, NoteIs
  <2> HIDE DEF d, notes
  <2>5. Noted(notes) BY <2>1, <2>3, <2>4 DEF Noted, StateNoted, FoundNoted, PairNoted
  <2> QED BY <2>1, <2>3, <2>4, <2>5, EventKeeps DEF Talk
<1>11. CASE Bridge!RequestTimeout
  <2> DEFINE d == [guiDaemon EXCEPT !.asked = FALSE]
  <2>1. Bridge!Sends(d, Bridge!Note("pair.failed", 0)) /\ UNCHANGED <<bridge, guiWindow, guiCalls>>
    BY <1>11 DEF Bridge!RequestTimeout
  <2>2. /\ d \in Daemons /\ d.trusted = guiDaemon.trusted /\ d.state = guiDaemon.state
        /\ d.found = guiDaemon.found /\ d.conn = guiDaemon.conn
    BY <1>0, <1>2 DEF Daemons
  <2>3. Mute(Bridge!Note("pair.failed", 0)) BY NoteIs
  <2> HIDE DEF d
  <2> QED BY <1>3, <2>1, <2>2, <2>3
<1> QED BY <1>4, <1>5, <1>6, <1>7, <1>8, <1>9, <1>10, <1>11
LEMMA StartKeeps ==
    ASSUME ShellInv, Bridge!DaemonStarted \/ Bridge!StartFails
    PROVE  ShellInv'
<1> DEFINE to == IF Bridge!DaemonStarted THEN "connected" ELSE "disconnected"
           m == <<"socket", to>>
<1>1. ShellTypes /\ Wired /\ bridge = "connecting" /\ UNCHANGED <<guiDaemon, guiWindow, guiCalls>>
  BY DEF ShellInv, Bridge!DaemonStarted, Bridge!StartFails
<1>2. guiWindow.socket # "connected" /\ ~Has(guiInbox, UpMsgs) BY <1>1 DEF Wired
<1>3. bridge' = to /\ guiInbox' = IF guiWindow.mounted THEN guiInbox \o <<m>> ELSE guiInbox
  BY DEF Bridge!DaemonStarted, Bridge!StartFails, Bridge!Note
<1>4. to \in Socks /\ m \in ShellMails /\ (m \in UpMsgs => to = "connected")
  BY DEF Socks, ShellMails, UpMsgs
<1> HIDE DEF to, m
<1>5. <<m>> \in Seq(ShellMails) /\ (Has(<<m>>, UpMsgs) => m \in UpMsgs) /\ guiInbox \in Seq(ShellMails)
  BY <1>1, <1>4 DEF Has, ShellTypes
<1>6. guiInbox' \in Seq(ShellMails) /\ (Has(guiInbox', UpMsgs) => to = "connected")
  <2>1. CASE guiWindow.mounted
    <3>1. /\ guiInbox \o <<m>> \in Seq(ShellMails)
          /\ Has(guiInbox \o <<m>>, UpMsgs) => Has(guiInbox, UpMsgs) \/ Has(<<m>>, UpMsgs)
      BY <1>5, Joined
    <3> QED BY <1>2, <1>3, <1>4, <1>5, <2>1, <3>1
  <2>2. CASE ~guiWindow.mounted BY <1>2, <1>3, <1>5, <2>2
  <2> QED BY <2>1, <2>2
<1>7. ShellTypes'
  <2>1. bridge' \in Socks BY <1>3, <1>4
  <2>2. guiDaemon' \in Daemons /\ guiWindow' \in Shown /\ guiCalls' \in Seq(Ops)
    BY <1>1 DEF ShellTypes
  <2> QED BY <1>6, <2>1, <2>2 DEF ShellTypes, Socks, Daemons, Shown, Ops, ShellMails
<1>8. Wired' BY <1>1, <1>2, <1>3, <1>6 DEF Wired, UpMsgs
<1> QED BY <1>1, <1>2, <1>7, <1>8 DEF ShellInv, Bridge!Known

(* The user, and the poll, again; the window arrives. *)
LEMMA AskKeeps ==
    ASSUME ShellInv, NEW op \in Ops, guiCalls' = Append(guiCalls, op), guiWindow.mounted,
           UNCHANGED <<bridge, guiDaemon, guiInbox>>, guiWindow' \in Shown,
           guiWindow'.mounted = guiWindow.mounted, guiWindow'.socket = guiWindow.socket,
           guiWindow'.app = guiWindow.app, guiWindow'.found = guiWindow.found, guiWindow'.paired = guiWindow.paired
    PROVE  ShellInv'
<1>1. ShellTypes /\ Wired /\ guiCalls \in Seq(Ops) /\ <<op>> \in Seq(Ops)
  BY DEF ShellInv, ShellTypes
<1>2. guiCalls' = guiCalls \o <<op>> BY <1>1
<1>a. ASSUME NEW Kind
      PROVE  guiCalls \o <<op>> \in Seq(Ops) /\ (Has(guiCalls, Kind) => Has(guiCalls \o <<op>>, Kind))
  <2> DEFINE t == <<op>>
  <2>1. t \in Seq(Ops) BY <1>1
  <2> HIDE DEF t
  <2>2. guiCalls \o t \in Seq(Ops) /\ (Has(guiCalls, Kind) => Has(guiCalls \o t, Kind))
    BY <1>1, <2>1, Joined
  <2> QED BY <2>2 DEF t
<1>3. guiCalls' \in Seq(Ops) /\ \A Kind : Has(guiCalls, Kind) => Has(guiCalls', Kind) BY <1>2, <1>a
<1>4. ShellTypes' BY <1>1, <1>3 DEF ShellTypes, Socks, Daemons, Shown, Ops, ShellMails
<1>5. Wired' BY <1>1 DEF Wired, UpMsgs
<1>6. Bridge!Known(guiWindow)' <=> Bridge!Known(guiWindow) BY DEF Bridge!Known
<1>7. StateCopied => StateCopied'
  BY <1>3 DEF StateCopied, AskState, ConnMsgs, StateMsgs, Bridge!States, Socks
<1>8. FoundCopied => FoundCopied' BY <1>3 DEF FoundCopied, AskFound, FoundMsgs
<1>9. PairCopied => PairCopied' BY <1>3 DEF PairCopied, AskPair, ListMsgs, BackMsgs, PairMsgs
<1> QED BY <1>4, <1>5, <1>6, <1>7, <1>8, <1>9 DEF ShellInv

LEMMA UserKeeps ==
    ASSUME ShellInv,
           \/ Bridge!Poll \/ Bridge!RequestPairing \/ Bridge!AcceptIncoming
           \/ Bridge!RejectIncoming \/ Bridge!CancelOutgoing \/ Bridge!UnpairInSettings
    PROVE  ShellInv'
<1>1. guiWindow \in Shown BY DEF ShellInv, ShellTypes
<1>2. [guiWindow EXCEPT !.code = 0] \in Shown BY <1>1 DEF Shown
<1>3. PICK op \in Ops : guiCalls' = Append(guiCalls, op)
  BY DEF Bridge!Poll, Bridge!RequestPairing, Bridge!AcceptIncoming, Bridge!RejectIncoming,
         Bridge!CancelOutgoing, Bridge!UnpairInSettings, Bridge!Click, Bridge!Asks, Ops
<1>4. guiWindow.mounted /\ UNCHANGED <<bridge, guiDaemon, guiInbox>>
      /\ (guiWindow' = guiWindow \/ guiWindow' = [guiWindow EXCEPT !.code = 0])
  BY DEF Bridge!Poll, Bridge!RequestPairing, Bridge!AcceptIncoming, Bridge!RejectIncoming,
         Bridge!CancelOutgoing, Bridge!UnpairInSettings, Bridge!Click, Bridge!Asks
<1>5. /\ guiWindow' \in Shown /\ guiWindow'.mounted = guiWindow.mounted /\ guiWindow'.socket = guiWindow.socket
      /\ guiWindow'.app = guiWindow.app /\ guiWindow'.found = guiWindow.found /\ guiWindow'.paired = guiWindow.paired
  BY <1>1, <1>2, <1>4 DEF Shown
<1> QED BY <1>3, <1>4, <1>5, AskKeeps

LEMMA MountKeeps == ASSUME ShellInv, Bridge!Mount  PROVE ShellInv'
<1>1. /\ ShellTypes /\ Wired /\ ~guiWindow.mounted /\ UNCHANGED <<bridge, guiDaemon, guiInbox>>
      /\ guiWindow' = [guiWindow EXCEPT !.mounted = TRUE] /\ guiCalls' = Append(guiCalls, "getConnectionState")
  BY DEF ShellInv, Bridge!Mount
<1>2. guiCalls = <<>> /\ guiInbox = <<>> /\ guiWindow.socket # "connected" BY <1>1 DEF Wired
<1>3. guiWindow' \in Shown /\ guiWindow'.socket = guiWindow.socket /\ guiWindow'.mounted = TRUE
  BY <1>1 DEF ShellTypes, Shown
<1>4. guiCalls' \in Seq(Ops) BY <1>1, AppendProperties DEF ShellTypes, Ops
<1>5. ShellTypes' BY <1>1, <1>3, <1>4 DEF ShellTypes, Socks, Daemons, Ops, ShellMails, Shown
<1>6. Wired' BY <1>1, <1>2, <1>3 DEF Wired, UpMsgs
<1> QED BY <1>2, <1>3, <1>5, <1>6 DEF ShellInv, Bridge!Known

(* The daemon answers: an answer that is taken from the calls is in the notes. *)
LEMMA ServeKeeps == ASSUME ShellInv, Bridge!Serve  PROVE ShellInv'
<1> DEFINE c == Head(guiCalls)
<1>0. /\ ShellTypes /\ Wired /\ guiCalls # <<>> /\ guiCalls \in Seq(Ops) /\ guiCalls' = Tail(guiCalls)
      /\ UNCHANGED <<bridge, guiWindow>> /\ guiDaemon \in Daemons
  BY DEF ShellInv, ShellTypes, Bridge!Serve
<1>1. guiWindow.mounted BY <1>0 DEF Wired
<1>2. c \in Ops /\ guiCalls' \in Seq(Ops)
      /\ \A Kind : Has(guiCalls, Kind) => c \in Kind \/ Has(guiCalls', Kind)
  BY <1>0, FirstHeard
<1>3. /\ guiDaemon.found \in BOOLEAN /\ guiDaemon.trusted \in BOOLEAN /\ guiDaemon.state \in Bridge!States
      /\ guiDaemon.conn \in {"none", "open", "closing"} /\ bridge \in Socks
  BY <1>0 DEF Daemons, ShellTypes
<1>4. ASSUME NEW d \in Daemons, NEW notes, Talk(notes), Bridge!Answer(d, notes),
             bridge = "connected" => Noted(notes)
      PROVE  ShellInv'
  <2>1. guiDaemon' \in Daemons /\ guiInbox' = guiInbox \o notes /\ notes \in Seq(ShellMails)
        /\ ~Has(notes, UpMsgs)
    BY <1>4 DEF Bridge!Answer, Talk
  <2> QED BY <1>0, <1>1, <1>2, <1>4, <2>1, NotesKeep
<1>5. ASSUME NEW notes, Mute(notes), NEW d \in Daemons, Bridge!Answer(d, notes),
             d.state = guiDaemon.state, d.found = guiDaemon.found, d.trusted = guiDaemon.trusted,
             d.conn = guiDaemon.conn,
             bridge = "connected" => c \notin AskState \cup AskFound \cup AskPair
      PROVE  ShellInv'
  <2>1. guiDaemon' = d BY <1>5 DEF Bridge!Answer
  <2>2. bridge = "connected" => Noted(notes)
    BY <1>2, <1>5, <2>1 DEF Noted, StateNoted, FoundNoted, PairNoted, Mute
  <2> QED BY <1>4, <1>5, <2>2 DEF Mute
<1> HIDE DEF c
<1>6. CASE c = "getConnectionState"
  <2> DEFINE m == <<"getConnectionState", bridge>>
  <2>1. guiDaemon' = guiDaemon /\ guiInbox' = guiInbox \o <<m>>
    BY <1>6 DEF Bridge!Serve, Bridge!Answer, Bridge!Note, c
  <2>2. /\ m \in ShellMails /\ m \in ConnMsgs /\ m \notin FoundMsgs /\ m \notin PairMsgs
        /\ m \in UpMsgs => bridge = "connected"
    BY <1>3 DEF ShellMails, ConnMsgs, FoundMsgs, PairMsgs, UpMsgs
  <2> HIDE DEF m
  <2>3. /\ <<m>> \in Seq(ShellMails) /\ Has(<<m>>, ConnMsgs) /\ NoneIn(<<m>>, FoundMsgs)
        /\ NoneIn(<<m>>, PairMsgs) /\ (Has(<<m>>, UpMsgs) => bridge = "connected")
    <3>1. Has(<<m>>, UpMsgs) => m \in UpMsgs BY DEF Has
    <3> QED BY <2>2, <3>1, OneSent
  <2>4. Noted(<<m>>)
    BY <1>2, <1>6, <2>1, <2>3 DEF Noted, StateNoted, FoundNoted, PairNoted, AskFound, AskPair
  <2> QED BY <1>0, <1>1, <1>2, <2>1, <2>3, <2>4, NotesKeep
<1>7. CASE c # "getConnectionState" /\ bridge # "connected"
  <2>1. Bridge!Answer(guiDaemon, Bridge!Note("error", c)) BY <1>7 DEF Bridge!Serve, c
  <2>2. <<"error", c>> \in ShellMails /\ <<"error", c>> \notin UpMsgs BY <1>2 DEF ShellMails, UpMsgs
  <2>3. Talk(Bridge!Note("error", c)) BY <2>2 DEF Talk, Has, Bridge!Note
  <2> QED BY <1>0, <1>4, <1>7, <2>1, <2>3
<1>8. ASSUME c # "getConnectionState", bridge = "connected"
      PROVE  ShellInv'
  <2>1. CASE c = "daemon.status" /\ Bridge!Answer(guiDaemon, Bridge!Note(c, guiDaemon.state))
    <3> DEFINE m == <<"daemon.status", guiDaemon.state>>
    <3>1. /\ m \in ShellMails /\ m \in StateMsgs /\ m \notin FoundMsgs /\ m \notin PairMsgs
          /\ m \notin UpMsgs /\ m[2] = guiDaemon.state
      BY <1>3 DEF ShellMails, StateMsgs, FoundMsgs, PairMsgs, UpMsgs
    <3>2. Bridge!Answer(guiDaemon, <<m>>) /\ guiDaemon' = guiDaemon
      BY <2>1 DEF Bridge!Answer, Bridge!Note
    <3> HIDE DEF m
    <3>3. /\ Talk(<<m>>) /\ Says(<<m>>, StateMsgs, guiDaemon.state) /\ NoneIn(<<m>>, FoundMsgs)
          /\ NoneIn(<<m>>, PairMsgs)
      BY <3>1, OneSent DEF Talk, Has
    <3>4. Noted(<<m>>)
      BY <1>2, <2>1, <3>2, <3>3 DEF Noted, StateNoted, FoundNoted, PairNoted, AskFound, AskPair
    <3> QED BY <1>0, <1>4, <3>2, <3>3, <3>4
  <2>2. CASE c = "devices.discovered" /\ Bridge!Answer(guiDaemon, Bridge!Note(c, guiDaemon.found))
    <3> DEFINE m == <<"devices.discovered", guiDaemon.found>>
    <3>1. /\ m \in ShellMails /\ m \in FoundMsgs /\ m \notin StateMsgs /\ m \in ListMsgs
          /\ m \notin UpMsgs /\ m[2] = guiDaemon.found
      BY <1>3 DEF ShellMails, StateMsgs, FoundMsgs, ListMsgs, UpMsgs
    <3>2. Bridge!Answer(guiDaemon, <<m>>) /\ guiDaemon' = guiDaemon
      BY <2>2 DEF Bridge!Answer, Bridge!Note
    <3> HIDE DEF m
    <3>3. /\ Talk(<<m>>) /\ Says(<<m>>, FoundMsgs, guiDaemon.found) /\ NoneIn(<<m>>, StateMsgs)
          /\ Has(<<m>>, ListMsgs)
      BY <3>1, OneSent DEF Talk, Has
    <3>4. Noted(<<m>>)
      BY <1>2, <2>2, <3>2, <3>3 DEF Noted, StateNoted, FoundNoted, PairNoted, AskState
    <3> QED BY <1>0, <1>4, <3>2, <3>3, <3>4
  <2>3. CASE c = "devices.paired" /\ Bridge!Answer(guiDaemon, Bridge!Note(c, guiDaemon.trusted))
    <3> DEFINE m == <<"devices.paired", guiDaemon.trusted>>
    <3>0. guiDaemon.trusted = TRUE \/ guiDaemon.trusted = FALSE BY <1>3
    <3>1. /\ m \in ShellMails /\ m \in PairMsgs /\ m \notin StateMsgs /\ m \notin FoundMsgs
          /\ m \notin UpMsgs /\ m[2] = guiDaemon.trusted
      BY <1>3, <3>0 DEF ShellMails, StateMsgs, FoundMsgs, PairMsgs, UpMsgs
    <3>2. Bridge!Answer(guiDaemon, <<m>>) /\ guiDaemon' = guiDaemon
      BY <2>3 DEF Bridge!Answer, Bridge!Note
    <3> HIDE DEF m
    <3>3. /\ Talk(<<m>>) /\ Says(<<m>>, PairMsgs, guiDaemon.trusted) /\ NoneIn(<<m>>, StateMsgs)
          /\ NoneIn(<<m>>, FoundMsgs)
      BY <3>1, OneSent DEF Talk, Has
    <3>4. Noted(<<m>>)
      BY <1>2, <2>3, <3>2, <3>3 DEF Noted, StateNoted, FoundNoted, PairNoted, AskState, AskFound
    <3> QED BY <1>0, <1>4, <3>2, <3>3, <3>4
  <2>4. CASE c \in {"pair.unpair", "settings.unpair"}
             /\ Bridge!Answer(Bridge!Unpair(guiDaemon), Bridge!Note(c, FALSE))
    <3> DEFINE m == <<c, FALSE>>
               d == Bridge!Unpair(guiDaemon)
    <3>1. /\ m \in ShellMails /\ m \in PairMsgs /\ m \notin StateMsgs /\ m \notin FoundMsgs
          /\ m \notin UpMsgs /\ m[2] = FALSE
      BY <2>4 DEF ShellMails, StateMsgs, FoundMsgs, PairMsgs, UpMsgs
    <3>2. /\ d \in Daemons /\ d.trusted = FALSE /\ d.state = guiDaemon.state
          /\ d.found = guiDaemon.found
      BY <1>0, <1>3 DEF Daemons, Bridge!Unpair
    <3>3. Bridge!Answer(d, <<m>>) /\ guiDaemon' = d BY <2>4 DEF Bridge!Answer, Bridge!Note
    <3> HIDE DEF m, d
    <3>a. /\ Talk(<<m>>) /\ Says(<<m>>, PairMsgs, m[2]) /\ NoneIn(<<m>>, StateMsgs)
          /\ NoneIn(<<m>>, FoundMsgs)
      BY <3>1, OneSent DEF Talk, Has
    <3>4. /\ Talk(<<m>>) /\ Says(<<m>>, PairMsgs, FALSE) /\ NoneIn(<<m>>, StateMsgs)
          /\ NoneIn(<<m>>, FoundMsgs)
      <4> DEFINE no == FALSE
      <4>1. m[2] = no BY <3>1
      <4> HIDE DEF no
      <4>2. Says(<<m>>, PairMsgs, no) BY <3>a, <4>1
      <4> QED BY <3>a, <4>2 DEF no
    <3>5. Noted(<<m>>)
      BY <1>2, <2>4, <3>2, <3>3, <3>4
         DEF Noted, StateNoted, FoundNoted, PairNoted, AskState, AskFound
    <3> QED BY <1>4, <3>2, <3>3, <3>4, <3>5
  <2>5. CASE c = "pair.accept" /\ Bridge!Answer(guiDaemon, <<>>)
    BY <1>0, <1>5, <2>5, NoteIs DEF AskState, AskFound, AskPair
  <2>6. CASE /\ c = "pair.reject"
             /\ Bridge!Answer(Bridge!Back(guiDaemon),
                    (Bridge!State("DISCOVERING") \o Bridge!Note("pairing.result", FALSE))
                        \o Bridge!Note(c, FALSE))
    <3> DEFINE st == Bridge!State("DISCOVERING")
               one == Bridge!Note("pairing.result", FALSE)
               two == Bridge!Note(c, FALSE)
               d == Bridge!Back(guiDaemon)
    <3>0. "DISCOVERING" \in Bridge!States BY DEF Bridge!States
    <3>1. /\ d \in Daemons /\ d.state = "DISCOVERING" /\ d.found = guiDaemon.found
      BY <1>0, <3>0 DEF Daemons, Bridge!Back
    <3>2. Bridge!Answer(d, (st \o one) \o two) /\ guiDaemon' = d BY <2>6 DEF Bridge!Answer
    <3>3. /\ Talk(st) /\ Says(st, StateMsgs, "DISCOVERING") /\ Has(st, BackMsgs)
          /\ NoneIn(st, FoundMsgs) /\ Mute(one) /\ Mute(two)
      BY <2>6, <3>0, NoteIs
    <3> HIDE DEF st, one, two, d
    <3> DEFINE a == st \o one
    <3>4. /\ Talk(a) /\ Says(a, StateMsgs, "DISCOVERING") /\ Has(a, BackMsgs)
          /\ NoneIn(a, FoundMsgs)
      BY <3>3, TalkJoins DEF Mute
    <3> HIDE DEF a
    <3>5. /\ Talk(a \o two) /\ Says(a \o two, StateMsgs, "DISCOVERING")
          /\ Has(a \o two, BackMsgs) /\ NoneIn(a \o two, FoundMsgs)
      BY <3>3, <3>4, TalkJoins DEF Mute
    <3>6. Noted(a \o two)
      BY <1>2, <2>6, <3>1, <3>2, <3>5 DEF Noted, StateNoted, FoundNoted, PairNoted, AskFound
    <3>7. Bridge!Answer(d, a \o two) BY <3>2 DEF a
    <3> QED BY <1>4, <3>1, <3>5, <3>6, <3>7
  <2>7. CASE /\ c = "pair.request"
             /\ Bridge!Answer(Bridge!NewCode(guiDaemon),
                    Bridge!CodeNote(guiDaemon) \o Bridge!Note(c, guiDaemon.codes + 1))
    <3> DEFINE one == Bridge!CodeNote(guiDaemon)
               two == Bridge!Note(c, guiDaemon.codes + 1)
               d == Bridge!NewCode(guiDaemon)
    <3>0. guiDaemon.codes + 1 \in Nat BY <1>0 DEF Daemons
    <3>1. /\ d \in Daemons /\ d.state = guiDaemon.state /\ d.found = guiDaemon.found
          /\ d.trusted = guiDaemon.trusted /\ d.conn = guiDaemon.conn
      BY <1>0, <3>0 DEF Daemons, Bridge!NewCode
    <3>2. Mute(one) /\ Mute(two) BY <2>7, <3>0, NoteIs DEF Bridge!CodeNote
    <3>3. Bridge!Answer(d, one \o two) BY <2>7
    <3> HIDE DEF one, two, d
    <3>4. Mute(one \o two) BY <3>2, TalkJoins DEF Mute
    <3> QED BY <1>5, <2>7, <3>1, <3>3, <3>4 DEF AskState, AskFound, AskPair
  <2>8. CASE /\ c = "pair.request"
             /\ Bridge!Answer([guiDaemon EXCEPT !.hook = TRUE, !.asked = TRUE], <<>>)
    <3> DEFINE d == [guiDaemon EXCEPT !.hook = TRUE, !.asked = TRUE]
    <3>1. /\ d \in Daemons /\ d.state = guiDaemon.state /\ d.found = guiDaemon.found
          /\ d.trusted = guiDaemon.trusted /\ d.conn = guiDaemon.conn
      BY <1>0 DEF Daemons
    <3> HIDE DEF d
    <3>2. Mute(<<>>) BY NoteIs
    <3>3. Bridge!Answer(d, <<>>) BY <2>8 DEF d
    <3> QED BY <1>5, <2>8, <3>1, <3>2, <3>3 DEF AskState, AskFound, AskPair
  <2>9. CASE c = "pair.request" /\ Bridge!Answer(guiDaemon, Bridge!Note("pair.failed", 0))
    <3>1. Mute(Bridge!Note("pair.failed", 0)) BY NoteIs
    <3> QED BY <1>0, <1>5, <2>9, <3>1 DEF AskState, AskFound, AskPair
  <2> QED BY <1>8, <2>1, <2>2, <2>3, <2>4, <2>5, <2>6, <2>7, <2>8, <2>9 DEF Bridge!Serve, c
<1> QED BY <1>6, <1>7, <1>8
(* The window hears: what the first message must set, and what is asked anew. *)
LEMMA HeardKeeps ==
    ASSUME ShellInv, guiInbox # <<>>, guiInbox' = Tail(guiInbox), UNCHANGED <<bridge, guiDaemon>>,
           guiWindow' \in Shown, guiCalls' \in Seq(Ops), guiWindow'.mounted = guiWindow.mounted,
           Has(guiCalls, AskState) => Has(guiCalls', AskState),
           Has(guiCalls, AskFound) => Has(guiCalls', AskFound),
           Has(guiCalls, AskPair) => Has(guiCalls', AskPair),
           guiWindow'.socket = "connected" => guiWindow.socket = "connected" \/ Head(guiInbox) \in UpMsgs,
           guiWindow'.socket = "connected" =>
              \/ Has(guiCalls', AskState)
              \/ /\ guiWindow.socket = "connected" /\ Head(guiInbox) \notin ConnMsgs
                 /\ guiWindow'.app = IF Head(guiInbox) \in StateMsgs THEN Head(guiInbox)[2] ELSE guiWindow.app,
           Bridge!Known(guiWindow)' =>
              \/ Has(guiCalls', AskFound)
              \/ /\ Bridge!Known(guiWindow)
                 /\ guiWindow'.found = IF Head(guiInbox) \in FoundMsgs THEN Head(guiInbox)[2] ELSE guiWindow.found,
           Bridge!Known(guiWindow)' =>
              \/ Has(guiCalls', AskPair)
              \/ /\ Bridge!Known(guiWindow) /\ Head(guiInbox) \notin ListMsgs
                 /\ Head(guiInbox) \notin BackMsgs
                 /\ guiWindow'.paired = IF Head(guiInbox) \in PairMsgs THEN Head(guiInbox)[2] ELSE guiWindow.paired
    PROVE  ShellInv'
<1> DEFINE m == Head(guiInbox)
<1>0. /\ ShellTypes /\ Wired /\ guiInbox \in Seq(ShellMails)
      /\ guiWindow.socket = "connected" => StateCopied
      /\ Bridge!Known(guiWindow) => FoundCopied /\ PairCopied
  BY DEF ShellInv, ShellTypes
<1>1. ASSUME NEW Kind
      PROVE  /\ m \in ShellMails /\ guiInbox' \in Seq(ShellMails)
             /\ \A v : Says(guiInbox, Kind, v) =>
                   \/ Says(guiInbox', Kind, v)
                   \/ NoneIn(guiInbox', Kind) /\ m \in Kind /\ m[2] = v
             /\ NoneIn(guiInbox, Kind) => NoneIn(guiInbox', Kind) /\ m \notin Kind
             /\ Has(guiInbox, Kind) => m \in Kind \/ Has(guiInbox', Kind)
             /\ Has(guiInbox', Kind) => Has(guiInbox, Kind)
  BY <1>0, FirstHeard
<1>2. guiInbox' \in Seq(ShellMails) BY <1>1
<1>3. ShellTypes' BY <1>0, <1>2 DEF ShellTypes, Socks, Daemons, Ops, ShellMails, Shown
<1>4. Has(guiInbox, UpMsgs) => bridge = "connected" BY <1>0 DEF Wired
<1>5. m \in UpMsgs => Has(guiInbox, UpMsgs)
  <2>1. 1 \in DOMAIN guiInbox /\ guiInbox[1] = m
    BY <1>0, LenProperties, EmptySeq, HeadTailProperties
  <2> QED BY <2>1 DEF Has
<1> HIDE DEF m
<1>6. Wired'
  <2>1. guiWindow'.mounted BY <1>0 DEF Wired
  <2>2. Has(guiInbox', UpMsgs) => bridge = "connected" BY <1>1, <1>4
  <2>3. guiWindow'.socket = "connected" => bridge = "connected" BY <1>0, <1>4, <1>5 DEF Wired, m
  <2> QED BY <2>1, <2>2, <2>3 DEF Wired, UpMsgs
<1>7. ASSUME guiWindow'.socket = "connected"  PROVE StateCopied'
  <2> SUFFICES ASSUME ~Has(guiCalls', AskState), ~Has(guiInbox', ConnMsgs)
               PROVE  \/ Says(guiInbox', StateMsgs, guiDaemon.state)
                      \/ NoneIn(guiInbox', StateMsgs) /\ guiWindow'.app = guiDaemon.state
    BY DEF StateCopied, AskState, ConnMsgs, StateMsgs, Bridge!States, Socks
  <2>1. /\ guiWindow.socket = "connected" /\ m \notin ConnMsgs
        /\ guiWindow'.app = IF m \in StateMsgs THEN m[2] ELSE guiWindow.app
    BY <1>7 DEF m
  <2>2. ~Has(guiCalls, AskState) /\ ~Has(guiInbox, ConnMsgs) BY <1>1, <2>1
  <2>3. \/ Says(guiInbox, StateMsgs, guiDaemon.state)
        \/ NoneIn(guiInbox, StateMsgs) /\ guiWindow.app = guiDaemon.state
    BY <1>0, <2>1, <2>2 DEF StateCopied
  <2> QED BY <1>1, <2>1, <2>3
<1>8. ASSUME Bridge!Known(guiWindow)'  PROVE FoundCopied'
  <2> SUFFICES ASSUME ~Has(guiCalls', AskFound)
               PROVE  \/ Says(guiInbox', FoundMsgs, guiDaemon.found)
                      \/ NoneIn(guiInbox', FoundMsgs) /\ guiWindow'.found = guiDaemon.found
    BY DEF FoundCopied, AskFound, FoundMsgs
  <2>1. /\ Bridge!Known(guiWindow)
        /\ guiWindow'.found = IF m \in FoundMsgs THEN m[2] ELSE guiWindow.found
    BY <1>8 DEF m
  <2>2. \/ Says(guiInbox, FoundMsgs, guiDaemon.found)
        \/ NoneIn(guiInbox, FoundMsgs) /\ guiWindow.found = guiDaemon.found
    BY <1>0, <2>1 DEF FoundCopied
  <2> QED BY <1>1, <2>1, <2>2
<1>9. ASSUME Bridge!Known(guiWindow)'  PROVE PairCopied'
  <2> SUFFICES ASSUME ~Has(guiCalls', AskPair), ~Has(guiInbox', ListMsgs), ~Has(guiInbox', BackMsgs),
                      guiDaemon.conn # "closing"
               PROVE  \/ Says(guiInbox', PairMsgs, guiDaemon.trusted)
                      \/ NoneIn(guiInbox', PairMsgs) /\ guiWindow'.paired = guiDaemon.trusted
    BY DEF PairCopied, AskPair, ListMsgs, BackMsgs, PairMsgs
  <2>1. /\ Bridge!Known(guiWindow) /\ m \notin ListMsgs /\ m \notin BackMsgs
        /\ guiWindow'.paired = IF m \in PairMsgs THEN m[2] ELSE guiWindow.paired
    BY <1>9 DEF m
  <2>2. ~Has(guiCalls, AskPair) /\ ~Has(guiInbox, ListMsgs) /\ ~Has(guiInbox, BackMsgs)
    BY <1>1, <2>1
  <2>3. \/ Says(guiInbox, PairMsgs, guiDaemon.trusted)
        \/ NoneIn(guiInbox, PairMsgs) /\ guiWindow.paired = guiDaemon.trusted
    BY <1>0, <2>1, <2>2 DEF PairCopied
  <2> QED BY <1>1, <2>1, <2>3
<1> QED BY <1>3, <1>6, <1>7, <1>8, <1>9 DEF ShellInv

(* What a message is, by its name. *)
LEMMA MailIs ==
    ASSUME NEW op, NEW v, <<op, v>> \in ShellMails
    PROVE  /\ <<op, v>> \in StateMsgs <=> op \in {"state.changed", "daemon.status"}
           /\ <<op, v>> \in FoundMsgs <=> op \in {"device.found", "device.lost", "devices.discovered"}
           /\ <<op, v>> \in PairMsgs <=> op \in {"devices.paired", "pair.unpair", "settings.unpair"}
                                        \/ (op = "pairing.result" /\ v = TRUE)
           /\ <<op, v>> \in ConnMsgs <=> op = "getConnectionState"
           /\ <<op, v>> \in ListMsgs <=> op = "devices.discovered"
           /\ <<op, v>> \in BackMsgs <=> op = "state.changed" /\ v = "DISCOVERING"
           /\ <<op, v>> \in UpMsgs <=> op \in {"socket", "getConnectionState"} /\ v = "connected"
           /\ op \in {"state.changed", "daemon.status"} => v \in Bridge!States
           /\ op \in {"device.found", "device.lost", "devices.discovered"} => v \in BOOLEAN
           /\ op \in {"devices.paired", "pairing.result"} => v \in BOOLEAN
           /\ op \in {"socket", "getConnectionState"} => v \in Socks
           /\ op \in {"pairing.code", "pair.request"} => v \in Nat
           /\ op \in {"pair.unpair", "settings.unpair", "pair.reject"} => v = FALSE
<1>1. /\ op \in {"state.changed", "daemon.status"} => v \in Bridge!States
      /\ op \in {"device.found", "device.lost", "devices.discovered"} => v \in BOOLEAN
      /\ op \in {"devices.paired", "pairing.result"} => v \in BOOLEAN
      /\ op \in {"socket", "getConnectionState"} => v \in Socks
      /\ op \in {"pairing.code", "pair.request"} => v \in Nat
  BY DEF ShellMails, StateMsgs, FoundMsgs
<1>2. op \in {"pair.unpair", "settings.unpair", "pair.reject"} => v = FALSE
  BY DEF ShellMails, StateMsgs, FoundMsgs
<1>3. /\ <<op, v>> \in StateMsgs <=> op \in {"state.changed", "daemon.status"}
      /\ <<op, v>> \in FoundMsgs <=> op \in {"device.found", "device.lost", "devices.discovered"}
      /\ <<op, v>> \in ConnMsgs <=> op = "getConnectionState"
      /\ <<op, v>> \in ListMsgs <=> op = "devices.discovered"
  BY <1>1 DEF StateMsgs, FoundMsgs, ConnMsgs, ListMsgs
<1>4. /\ <<op, v>> \in BackMsgs <=> op = "state.changed" /\ v = "DISCOVERING"
      /\ <<op, v>> \in UpMsgs <=> op \in {"socket", "getConnectionState"} /\ v = "connected"
  BY DEF BackMsgs, UpMsgs
<1>5. <<op, v>> \in PairMsgs <=> op \in {"devices.paired", "pair.unpair", "settings.unpair"}
                               \/ (op = "pairing.result" /\ v = TRUE)
  <2>1. op = "devices.paired" => v = TRUE \/ v = FALSE BY <1>1
  <2> QED BY <1>2, <2>1 DEF PairMsgs
<1> QED BY <1>1, <1>2, <1>3, <1>4, <1>5
LEMMA ShowsIs ==
    ASSUME guiWindow \in Shown, guiCalls \in Seq(Ops), NEW w \in Shown, NEW more \in Seq(Ops),
           Bridge!Changed(w, more) \/ Bridge!Shows(w, more)
    PROVE  /\ guiWindow' \in Shown /\ guiWindow'.mounted = w.mounted /\ guiWindow'.socket = w.socket
           /\ guiWindow'.app = w.app /\ guiWindow'.found = w.found /\ guiWindow'.paired = w.paired
           /\ guiCalls' \in Seq(Ops)
           /\ \A Kind : Has(guiCalls, Kind) \/ Has(more, Kind) => Has(guiCalls', Kind)
           /\ Bridge!Known(w) /\ (~Bridge!Known(guiWindow) \/ Bridge!Shows(w, more)) =>
                 Has(guiCalls', AskFound) /\ Has(guiCalls', AskPair)
<1> DEFINE new == [w EXCEPT !.hasBeen = @ \/ Bridge!InSession(w)]
           again == IF Bridge!Known(w) THEN <<"devices.discovered">> ELSE <<>>
           joined == guiCalls \o more
<1>1. /\ new \in Shown /\ new.mounted = w.mounted /\ new.socket = w.socket
      /\ new.app = w.app /\ new.found = w.found /\ new.paired = w.paired
  <2>1. w.hasBeen \/ Bridge!InSession(w) \in BOOLEAN BY DEF Shown, Bridge!InSession, Bridge!Known
  <2> QED BY DEF Shown
<1>2. again \in Seq(Ops) /\ (Bridge!Known(w) => Has(again, AskFound) /\ Has(again, AskPair))
  <2>1. <<"devices.discovered">> \in Seq(Ops) /\ <<>> \in Seq(Ops) BY EmptySeq DEF Ops
  <2>2. Has(<<"devices.discovered">>, AskFound) /\ Has(<<"devices.discovered">>, AskPair)
    BY OneSent DEF AskFound, AskPair
  <2> QED BY <2>1, <2>2
<1> HIDE DEF new, again
<1>3. joined \in Seq(Ops)
      /\ \A Kind : Has(guiCalls, Kind) \/ Has(more, Kind) => Has(joined, Kind)
  BY Joined
<1> HIDE DEF joined
<1>4. joined \o again \in Seq(Ops)
      /\ \A Kind : Has(joined, Kind) \/ Has(again, Kind) => Has(joined \o again, Kind)
  BY <1>2, <1>3, Joined
<1>5. CASE Bridge!Shows(w, more)
  <2>1. guiWindow' = new /\ guiCalls' = joined \o again BY <1>5 DEF Bridge!Shows, new, again, joined
  <2> QED BY <1>1, <1>2, <1>3, <1>4, <2>1
<1>6. CASE Bridge!Changed(w, more) /\ ~Bridge!Shows(w, more)
  <2>1. guiWindow' = w /\ guiCalls' = joined /\ w.socket = guiWindow.socket /\ w.app = guiWindow.app
    BY <1>6 DEF Bridge!Changed, joined
  <2>2. Bridge!Known(w) <=> Bridge!Known(guiWindow) BY <2>1 DEF Bridge!Known
  <2> QED BY <1>3, <1>6, <2>1, <2>2
<1> QED BY <1>5, <1>6

LEMMA PairOf == \A x \in ShellMails : x = <<x[1], x[2]>>
<1> TAKE x \in ShellMails
<1>1. ASSUME NEW S, NEW T, x \in S \X T  PROVE x = <<x[1], x[2]>>
  BY <1>1
<1>2. CASE x \in {<<"pairing.incoming", TRUE>>} \cup {<<"pair.failed", 0>>}
  <2>1. CASE x = <<"pairing.incoming", TRUE>> BY <2>1
  <2>2. CASE x = <<"pair.failed", 0>> BY <2>2
  <2> QED BY <1>2, <2>1, <2>2
<1>3. \/ x \in StateMsgs \/ x \in FoundMsgs \/ x \in {"socket", "getConnectionState"} \X Socks
      \/ x \in {"devices.paired", "pairing.result"} \X BOOLEAN
      \/ x \in {"pairing.code", "pair.request"} \X Nat
      \/ x \in {"pair.unpair", "settings.unpair", "pair.reject"} \X {FALSE}
      \/ x \in {"error"} \X Ops
      \/ x \in {<<"pairing.incoming", TRUE>>} \cup {<<"pair.failed", 0>>}
  BY DEF ShellMails
<1>4. (x \in StateMsgs \/ x \in FoundMsgs) => x = <<x[1], x[2]>> BY <1>1 DEF StateMsgs, FoundMsgs
<1> QED BY <1>1, <1>2, <1>3, <1>4

LEMMA ReceiveKeeps == ASSUME ShellInv, Bridge!Receive  PROVE ShellInv'
<1> DEFINE op == Head(guiInbox)[1]
           v == Head(guiInbox)[2]
           m == Head(guiInbox)
<1>0. /\ guiWindow \in Shown /\ guiCalls \in Seq(Ops) /\ guiInbox # <<>> /\ guiInbox' = Tail(guiInbox)
      /\ guiInbox \in Seq(ShellMails) /\ UNCHANGED <<bridge, guiDaemon>> /\ Bridge!Handle(op, v)
  BY DEF ShellInv, ShellTypes, Bridge!Receive
<1>1. m \in ShellMails BY <1>0, HeadTailProperties
<1>2. m = <<op, v>> BY <1>1, PairOf
<1>3. /\ m \in StateMsgs <=> op \in {"state.changed", "daemon.status"}
      /\ m \in FoundMsgs <=> op \in {"device.found", "device.lost", "devices.discovered"}
      /\ m \in PairMsgs <=> op \in {"devices.paired", "pair.unpair", "settings.unpair"}
                                        \/ (op = "pairing.result" /\ v = TRUE)
      /\ m \in ConnMsgs <=> op = "getConnectionState"
      /\ m \in ListMsgs <=> op = "devices.discovered"
      /\ m \in BackMsgs <=> op = "state.changed" /\ v = "DISCOVERING"
      /\ m \in UpMsgs <=> op \in {"socket", "getConnectionState"} /\ v = "connected"
      /\ op \in {"state.changed", "daemon.status"} => v \in Bridge!States
      /\ op \in {"device.found", "device.lost", "devices.discovered"} => v \in BOOLEAN
      /\ op \in {"devices.paired", "pairing.result"} => v \in BOOLEAN
      /\ op \in {"socket", "getConnectionState"} => v \in Socks
      /\ op \in {"pairing.code", "pair.request"} => v \in Nat
      /\ op \in {"pair.unpair", "settings.unpair", "pair.reject"} => v = FALSE
  <2>1. <<op, v>> \in ShellMails BY <1>1, <1>2
  <2> HIDE DEF op, v, m
  <2> QED BY <1>2, <2>1, MailIs
<1>4. m[1] = op /\ m[2] = v OBVIOUS
<1>h. ASSUME guiWindow' \in Shown, guiCalls' \in Seq(Ops), guiWindow'.mounted = guiWindow.mounted,
           Has(guiCalls, AskState) => Has(guiCalls', AskState),
           Has(guiCalls, AskFound) => Has(guiCalls', AskFound),
           Has(guiCalls, AskPair) => Has(guiCalls', AskPair),
           guiWindow'.socket = "connected" => guiWindow.socket = "connected" \/ m \in UpMsgs,
           guiWindow'.socket = "connected" =>
              \/ Has(guiCalls', AskState)
              \/ /\ guiWindow.socket = "connected" /\ m \notin ConnMsgs
                 /\ guiWindow'.app = IF m \in StateMsgs THEN v ELSE guiWindow.app,
           Bridge!Known(guiWindow)' =>
              \/ Has(guiCalls', AskFound)
              \/ /\ Bridge!Known(guiWindow)
                 /\ guiWindow'.found = IF m \in FoundMsgs THEN v ELSE guiWindow.found,
           Bridge!Known(guiWindow)' =>
              \/ Has(guiCalls', AskPair)
              \/ /\ Bridge!Known(guiWindow) /\ m \notin ListMsgs /\ m \notin BackMsgs
                 /\ guiWindow'.paired = IF m \in PairMsgs THEN v ELSE guiWindow.paired
      PROVE  ShellInv'
  BY <1>0, <1>h, HeardKeeps
<1> HIDE DEF op, v, m
<1>5. ASSUME NEW w, NEW more \in Seq(Ops), Bridge!Changed(w, more) \/ Bridge!Shows(w, more),
             w \in Shown, w.mounted = guiWindow.mounted, w.found = guiWindow.found,
             w.paired = guiWindow.paired, op \in {"socket", "getConnectionState", "daemon.status", "state.changed"},
             w.socket = "connected" => guiWindow.socket = "connected" \/ m \in UpMsgs,
             w.socket = "connected" =>
                Has(more, AskState) \/ (/\ guiWindow.socket = "connected" /\ m \notin ConnMsgs
                                       /\ w.app = IF m \in StateMsgs THEN v ELSE guiWindow.app),
             m \in BackMsgs => Bridge!Shows(w, more)
      PROVE  ShellInv'
  <2>1. /\ guiWindow' \in Shown /\ guiWindow'.mounted = w.mounted /\ guiWindow'.socket = w.socket
        /\ guiWindow'.app = w.app /\ guiWindow'.found = w.found /\ guiWindow'.paired = w.paired
        /\ guiCalls' \in Seq(Ops)
        /\ \A Kind : Has(guiCalls, Kind) \/ Has(more, Kind) => Has(guiCalls', Kind)
        /\ Bridge!Known(w) /\ (~Bridge!Known(guiWindow) \/ Bridge!Shows(w, more)) =>
                 Has(guiCalls', AskFound) /\ Has(guiCalls', AskPair)
    BY <1>0, <1>5, ShowsIs
  <2>2. Bridge!Known(guiWindow)' <=> Bridge!Known(w) BY <2>1 DEF Bridge!Known
  <2>3. m \notin FoundMsgs /\ m \notin PairMsgs /\ m \notin ListMsgs BY <1>3, <1>5
  <2>4. guiWindow'.socket = "connected" =>
              \/ Has(guiCalls', AskState)
              \/ /\ guiWindow.socket = "connected" /\ m \notin ConnMsgs
                 /\ guiWindow'.app = IF m \in StateMsgs THEN v ELSE guiWindow.app
    BY <1>5, <2>1
  <2> QED BY <1>h, <1>5, <2>1, <2>2, <2>3, <2>4
<1>6. ASSUME NEW w, guiWindow' = w, w \in Shown, w.mounted = guiWindow.mounted,
             w.socket = guiWindow.socket, w.app = guiWindow.app, guiCalls' \in Seq(Ops),
             \A Kind : Has(guiCalls, Kind) => Has(guiCalls', Kind),
             op \notin {"socket", "getConnectionState", "daemon.status", "state.changed"},
             w.found = IF m \in FoundMsgs THEN v ELSE guiWindow.found,
             \/ op = "devices.discovered" /\ Has(guiCalls', AskPair)
             \/ /\ op # "devices.discovered"
                /\ w.paired = IF m \in PairMsgs THEN v ELSE guiWindow.paired
      PROVE  ShellInv'
  <2>1. m \notin ConnMsgs /\ m \notin StateMsgs /\ m \notin BackMsgs
        /\ (op # "devices.discovered" => m \notin ListMsgs)
    BY <1>3, <1>6
  <2>2. Bridge!Known(guiWindow)' <=> Bridge!Known(guiWindow) BY <1>6 DEF Bridge!Known
  <2> QED BY <1>h, <1>6, <2>1, <2>2
<1>7. <<>> \in Seq(Ops) /\ <<"getConnectionState">> \in Seq(Ops) /\ <<"daemon.status">> \in Seq(Ops)
      /\ Has(<<"getConnectionState">>, AskState) /\ Has(<<"daemon.status">>, AskState)
  BY EmptySeq, OneSent DEF Ops, AskState
<1>8. CASE op = "socket"
  <2>1. CASE v = "connected"
    <3> DEFINE w == [guiWindow EXCEPT !.socket = v]
    <3>1. Bridge!Changed(w, <<"getConnectionState">>) BY <1>0, <1>8, <2>1 DEF Bridge!Handle
    <3>2. /\ w \in Shown /\ w.mounted = guiWindow.mounted /\ w.found = guiWindow.found
          /\ w.paired = guiWindow.paired
      BY <1>0, <1>3, <1>8 DEF Shown
    <3> HIDE DEF w
    <3> QED BY <1>3, <1>5, <1>7, <1>8, <2>1, <3>1, <3>2
  <2>2. CASE v # "connected"
    <3> DEFINE w == [guiWindow EXCEPT !.socket = v, !.app = "null"]
    <3>1. Bridge!Changed(w, <<>>) BY <1>0, <1>8, <2>2 DEF Bridge!Handle
    <3>2. /\ w \in Shown /\ w.mounted = guiWindow.mounted /\ w.found = guiWindow.found
          /\ w.paired = guiWindow.paired /\ w.socket = v
      BY <1>0, <1>3, <1>8 DEF Shown
    <3> HIDE DEF w
    <3> QED BY <1>3, <1>5, <1>7, <1>8, <2>2, <3>1, <3>2
  <2> QED BY <2>1, <2>2
<1>9. CASE op = "getConnectionState"
  <2> DEFINE w == [guiWindow EXCEPT !.socket = v]
             more == IF v = "connected" THEN <<"daemon.status">> ELSE <<>>
  <2>1. Bridge!Changed(w, more) BY <1>0, <1>9 DEF Bridge!Handle
  <2>2. /\ w \in Shown /\ w.mounted = guiWindow.mounted /\ w.found = guiWindow.found
        /\ w.paired = guiWindow.paired /\ w.socket = v
    BY <1>0, <1>3, <1>9 DEF Shown
  <2>3. more \in Seq(Ops) /\ (v = "connected" => Has(more, AskState)) BY <1>7
  <2> HIDE DEF w, more
  <2> QED BY <1>3, <1>5, <1>9, <2>1, <2>2, <2>3
<1>10. CASE op \in {"daemon.status", "state.changed"}
  <2> DEFINE w == [guiWindow EXCEPT !.app = v]
  <2>1. /\ Bridge!Changed(w, <<>>) \/ Bridge!Shows(w, <<>>)
        /\ op = "state.changed" /\ v = "DISCOVERING" => Bridge!Shows(w, <<>>)
    BY <1>0, <1>10 DEF Bridge!Handle
  <2>2. /\ w \in Shown /\ w.mounted = guiWindow.mounted /\ w.found = guiWindow.found
        /\ w.paired = guiWindow.paired /\ w.socket = guiWindow.socket /\ w.app = v
    BY <1>0, <1>3, <1>10 DEF Shown
  <2> HIDE DEF w
  <2>3. m \in StateMsgs /\ m \notin ConnMsgs BY <1>3, <1>10
  <2> QED BY <1>3, <1>5, <1>7, <1>10, <2>1, <2>2, <2>3
<1>11. CASE op \in {"device.found", "device.lost"}
  <2> DEFINE w == [guiWindow EXCEPT !.found = v]
  <2>1. guiWindow' = w /\ guiCalls' = guiCalls BY <1>0, <1>11 DEF Bridge!Handle, Bridge!Keeps
  <2>2. /\ w \in Shown /\ w.mounted = guiWindow.mounted /\ w.found = v
        /\ w.paired = guiWindow.paired /\ w.socket = guiWindow.socket /\ w.app = guiWindow.app
    BY <1>0, <1>3, <1>11 DEF Shown
  <2> HIDE DEF w
  <2> QED BY <1>0, <1>3, <1>6, <1>11, <2>1, <2>2
<1>12. CASE op = "devices.discovered"
  <2> DEFINE w == [guiWindow EXCEPT !.found = v]
             again == <<"devices.paired">>
  <2>1. guiWindow' = w /\ guiCalls' = guiCalls \o again
    <3>1. guiWindow' = w /\ guiCalls' = Append(guiCalls, "devices.paired")
      BY <1>12, <1>0 DEF Bridge!Handle, Bridge!Asks
    <3>2. "devices.paired" \in Ops BY DEF Ops
    <3>3. Append(guiCalls, "devices.paired") = guiCalls \o again BY <1>0, <3>2
    <3> QED BY <3>1, <3>3
  <2>2. /\ w \in Shown /\ w.mounted = guiWindow.mounted /\ w.found = v
        /\ w.paired = guiWindow.paired /\ w.socket = guiWindow.socket /\ w.app = guiWindow.app
    BY <1>0, <1>3, <1>12 DEF Shown
  <2>3. again \in Seq(Ops) /\ Has(again, AskPair) BY OneSent DEF Ops, AskPair
  <2> HIDE DEF w, again
  <2>4. guiCalls' \in Seq(Ops) /\ \A Kind : Has(guiCalls, Kind) \/ Has(again, Kind) => Has(guiCalls', Kind)
    BY <1>0, <2>1, <2>3, Joined
  <2> QED BY <1>3, <1>6, <1>12, <2>1, <2>2, <2>3, <2>4
<1>13. CASE op = "devices.paired"
  <2> DEFINE w == [guiWindow EXCEPT !.paired = v]
  <2>1. guiWindow' = w /\ guiCalls' = guiCalls BY <1>0, <1>13 DEF Bridge!Handle, Bridge!Keeps
  <2>2. /\ w \in Shown /\ w.mounted = guiWindow.mounted /\ w.found = guiWindow.found
        /\ w.paired = v /\ w.socket = guiWindow.socket /\ w.app = guiWindow.app
    BY <1>0, <1>3, <1>13 DEF Shown
  <2> HIDE DEF w
  <2> QED BY <1>0, <1>3, <1>6, <1>13, <2>1, <2>2
<1>14. CASE op = "pairing.result"
  <2> DEFINE w == [guiWindow EXCEPT !.paired = @ \/ v, !.code = 0, !.incoming = FALSE]
  <2>1. guiWindow' = w /\ guiCalls' = guiCalls BY <1>0, <1>14 DEF Bridge!Handle, Bridge!Keeps
  <2>2. guiWindow.paired \in BOOLEAN /\ v \in BOOLEAN BY <1>0, <1>3, <1>14 DEF Shown
  <2>3. /\ w \in Shown /\ w.mounted = guiWindow.mounted /\ w.found = guiWindow.found
        /\ w.paired = (guiWindow.paired \/ v) /\ w.socket = guiWindow.socket /\ w.app = guiWindow.app
    <3>1. (guiWindow.paired \/ v) \in BOOLEAN OBVIOUS
    <3> QED BY <1>0, <3>1 DEF Shown
  <2> HIDE DEF w
  <2>4. w.paired = IF v = TRUE THEN v ELSE guiWindow.paired BY <2>2, <2>3
  <2>5. w.paired = IF m \in PairMsgs THEN v ELSE guiWindow.paired BY <1>3, <1>14, <2>4
  <2>6. m \notin FoundMsgs BY <1>3, <1>14
  <2> QED BY <1>0, <1>6, <1>14, <2>1, <2>3, <2>5, <2>6
<1>15. CASE op \in {"pair.unpair", "settings.unpair"}
  <2>1. /\ guiCalls' = guiCalls
        /\ \/ guiWindow' = [guiWindow EXCEPT !.paired = FALSE]
           \/ guiWindow' = [guiWindow EXCEPT !.paired = FALSE, !.hasBeen = FALSE]
    BY <1>0, <1>15 DEF Bridge!Handle, Bridge!Keeps
  <2>2. /\ guiWindow' \in Shown /\ guiWindow'.mounted = guiWindow.mounted /\ guiWindow'.found = guiWindow.found
        /\ guiWindow'.paired = FALSE /\ guiWindow'.socket = guiWindow.socket /\ guiWindow'.app = guiWindow.app
    BY <1>0, <2>1 DEF Shown
  <2>3. m \in PairMsgs /\ v = FALSE /\ m \notin FoundMsgs BY <1>3, <1>15
  <2>4. guiWindow'.paired = v BY <2>2, <2>3
  <2> QED BY <1>0, <1>6, <1>15, <2>1, <2>2, <2>3, <2>4
<1>16. CASE op \in {"pairing.incoming", "pairing.code", "pair.request", "pair.reject", "error",
                    "pair.failed"}
  <2>1. /\ guiCalls' = guiCalls
        /\ \/ guiWindow' = guiWindow
           \/ guiWindow' = [guiWindow EXCEPT !.incoming = TRUE]
           \/ guiWindow' = [guiWindow EXCEPT !.incoming = FALSE]
           \/ v \in Nat /\ guiWindow' = [guiWindow EXCEPT !.code = v]
    BY <1>0, <1>3, <1>16 DEF Bridge!Handle, Bridge!Keeps
  <2>2. /\ guiWindow' \in Shown /\ guiWindow'.mounted = guiWindow.mounted /\ guiWindow'.found = guiWindow.found
        /\ guiWindow'.paired = guiWindow.paired /\ guiWindow'.socket = guiWindow.socket
        /\ guiWindow'.app = guiWindow.app
    BY <1>0, <2>1 DEF Shown
  <2>3. m \notin PairMsgs /\ m \notin FoundMsgs BY <1>3, <1>16
  <2> QED BY <1>0, <1>6, <1>16, <2>1, <2>2, <2>3
<1> QED BY <1>0, <1>8, <1>9, <1>10, <1>11, <1>12, <1>13, <1>14, <1>15, <1>16 DEF Bridge!Handle

--------------------
LEMMA ShellKeeps == ASSUME ShellInv, [Bridge!Next]_Bridge!vars  PROVE ShellInv'
<1>1. CASE \/ Bridge!PhoneDiscovered \/ Bridge!PhoneLost \/ Bridge!PhoneRequestsPair
           \/ Bridge!PhoneConfirms \/ Bridge!PhoneRejects \/ Bridge!CodeTimeout
           \/ Bridge!PhoneUnpairs \/ Bridge!Disconnected \/ Bridge!RequestTimeout
  BY <1>1, EventsKeep
<1>2. CASE Bridge!PhoneConnects BY <1>2, ConnectsKeeps
<1>3. CASE Bridge!DaemonStarted \/ Bridge!StartFails BY <1>3, StartKeeps
<1>4. CASE Bridge!Serve BY <1>4, ServeKeeps
<1>5. CASE Bridge!Receive BY <1>5, ReceiveKeeps
<1>6. CASE Bridge!Mount BY <1>6, MountKeeps
<1>7. CASE \/ Bridge!Poll \/ Bridge!RequestPairing \/ Bridge!AcceptIncoming
           \/ Bridge!RejectIncoming \/ Bridge!CancelOutgoing \/ Bridge!UnpairInSettings
  BY <1>7, UserKeeps
<1>8. CASE UNCHANGED Bridge!vars
  <2>1. UNCHANGED <<bridge, guiDaemon, guiWindow, guiCalls, guiInbox>> BY <1>8 DEF Bridge!vars
  <2>2. ShellTypes' <=> ShellTypes BY <2>1 DEF ShellTypes, Socks, Daemons, Shown, Ops, ShellMails
  <2>3. Wired' <=> Wired BY <2>1 DEF Wired, UpMsgs
  <2>4. StateCopied' <=> StateCopied
    BY <2>1 DEF StateCopied, AskState, ConnMsgs, StateMsgs, Bridge!States, Socks
  <2>5. FoundCopied' <=> FoundCopied BY <2>1 DEF FoundCopied, AskFound, FoundMsgs
  <2>6. PairCopied' <=> PairCopied BY <2>1 DEF PairCopied, AskPair, ListMsgs, BackMsgs, PairMsgs
  <2>7. Bridge!Known(guiWindow)' <=> Bridge!Known(guiWindow) BY <2>1 DEF Bridge!Known
  <2>8. guiWindow' = guiWindow BY <2>1
  <2> QED BY <2>2, <2>3, <2>4, <2>5, <2>6, <2>7, <2>8 DEF ShellInv
<1> QED BY <1>1, <1>2, <1>3, <1>4, <1>5, <1>6, <1>7, <1>8 DEF Bridge!Next

(* What is in the inbox or among the calls is coming. *)
LEMMA HasComes ==
    ASSUME NEW ops, NEW Kind
    PROVE  /\ (\A x \in Kind : x[1] \in ops) /\ Has(guiInbox, Kind) => Bridge!Coming(ops)
           /\ (\A x \in Kind : x[1] \in ops) /\ (\E v : Says(guiInbox, Kind, v)) => Bridge!Coming(ops)
           /\ Kind \subseteq ops /\ Has(guiCalls, Kind) => Bridge!Coming(ops)
BY DEF Bridge!Coming, Bridge!Range, Has, Says, LastIn

LEMMA ShellTells == ShellInv => Bridge!WindowCatchesUp
<1> SUFFICES ASSUME ShellInv, bridge = "connected", Bridge!Known(guiWindow)
             PROVE  /\ guiWindow.app # guiDaemon.state =>
                          Bridge!Coming({"state.changed", "daemon.status", "getConnectionState"})
                    /\ guiWindow.found # guiDaemon.found =>
                          Bridge!Coming({"device.found", "device.lost", "devices.discovered",
                                         "state.changed", "daemon.status"})
                    /\ guiWindow.paired # guiDaemon.trusted =>
                          \/ Bridge!Coming({"devices.discovered", "devices.paired", "state.changed",
                                            "pairing.result", "pair.unpair", "settings.unpair",
                                            "daemon.status"})
                          \/ guiDaemon.conn = "closing"
  BY DEF Bridge!WindowCatchesUp
<1>0. StateCopied /\ FoundCopied /\ PairCopied BY DEF ShellInv, Bridge!Known
<1>1. ASSUME guiWindow.app # guiDaemon.state
      PROVE  Bridge!Coming({"state.changed", "daemon.status", "getConnectionState"})
  <2> DEFINE ops == {"state.changed", "daemon.status", "getConnectionState"}
  <2>1. /\ AskState \subseteq ops /\ (\A x \in ConnMsgs : x[1] \in ops)
        /\ \A x \in StateMsgs : x[1] \in ops
    BY DEF AskState, ConnMsgs, StateMsgs
  <2> HIDE DEF ops
  <2>2. Bridge!Coming(ops) BY <1>0, <1>1, <2>1, HasComes DEF StateCopied
  <2> QED BY <2>2 DEF ops
<1>2. ASSUME guiWindow.found # guiDaemon.found
      PROVE  Bridge!Coming({"device.found", "device.lost", "devices.discovered",
                            "state.changed", "daemon.status"})
  <2> DEFINE ops == {"device.found", "device.lost", "devices.discovered",
                     "state.changed", "daemon.status"}
  <2>1. AskFound \subseteq ops /\ \A x \in FoundMsgs : x[1] \in ops BY DEF AskFound, FoundMsgs
  <2> HIDE DEF ops
  <2>2. Bridge!Coming(ops) BY <1>0, <1>2, <2>1, HasComes DEF FoundCopied
  <2> QED BY <2>2 DEF ops
<1>3. ASSUME guiWindow.paired # guiDaemon.trusted, guiDaemon.conn # "closing"
      PROVE  Bridge!Coming({"devices.discovered", "devices.paired", "state.changed",
                            "pairing.result", "pair.unpair", "settings.unpair", "daemon.status"})
  <2> DEFINE ops == {"devices.discovered", "devices.paired", "state.changed",
                     "pairing.result", "pair.unpair", "settings.unpair", "daemon.status"}
  <2>1. /\ AskPair \subseteq ops /\ (\A x \in ListMsgs : x[1] \in ops)
        /\ (\A x \in BackMsgs : x[1] \in ops) /\ \A x \in PairMsgs : x[1] \in ops
    BY DEF AskPair, ListMsgs, BackMsgs, PairMsgs
  <2> HIDE DEF ops
  <2>2. Bridge!Coming(ops) BY <1>0, <1>3, <2>1, HasComes DEF PairCopied
  <2> QED BY <2>2 DEF ops
<1> QED BY <1>1, <1>2, <1>3

(* What the window believes of the daemon's state, of the phone discovered and *)
(* of its pairing is true, or what will correct it is on its way: a message, *)
(* or a call whose answer was not made yet (WindowCatchesUp: refreshDevices *)
(* and the notifications of the stores, DaemonBridge), for every number of *)
(* connections, pairings, clicks and polls, and however many messages wait. *)
THEOREM WindowStaysTrue == Bridge!Spec => []Bridge!WindowCatchesUp
<1>1. Bridge!Init => ShellInv BY ShellInit
<1>2. ShellInv /\ [Bridge!Next]_Bridge!vars => ShellInv' BY ShellKeeps
<1>3. ShellInv => Bridge!WindowCatchesUp BY ShellTells
<1> QED BY <1>1, <1>2, <1>3, PTL DEF Bridge!Spec

--------------------
(* Codes are numbered as they are made, and one is made for a connection, two *)
(* if it was asked for before, and for each request of the user. *)
CodeOps == {"pairing.code", "pair.request"}
Fits(s, n) == s \in Seq(ShellMails) /\ \A i \in DOMAIN s : s[i][1] \in CodeOps => s[i][2] <= n
Requests(s) == {i \in DOMAIN s : s[i] = "pair.request"}

(* No code is anywhere that was not made. *)
Screens == guiDaemon.code <= guiDaemon.codes /\ guiWindow.code <= guiDaemon.codes /\ Fits(guiInbox, guiDaemon.codes)

Tallies ==
    /\ events \in 0..MaxEvents /\ guiClicks \in 0..MaxGuiClicks
    /\ guiDaemon.codes + Cardinality(Requests(guiCalls)) <= 2 * events + guiClicks

LEMMA FitsJoined ==
    ASSUME NEW s, NEW t, NEW n, Fits(s, n), Fits(t, n)
    PROVE  Fits(s \o t, n)
<1>1. s \in Seq(ShellMails) /\ t \in Seq(ShellMails) BY DEF Fits
<1>2. s \o t \in Seq(ShellMails) BY <1>1, ConcatProperties
<1>3. ASSUME NEW i \in DOMAIN (s \o t), (s \o t)[i][1] \in CodeOps PROVE (s \o t)[i][2] <= n
  <2>1. /\ Len(s) \in Nat /\ Len(t) \in Nat /\ DOMAIN s = 1..Len(s) /\ DOMAIN t = 1..Len(t)
        /\ i \in 1..(Len(s) + Len(t))
        /\ (s \o t)[i] = IF i <= Len(s) THEN s[i] ELSE t[i - Len(s)]
    BY <1>1, <1>2, <1>3, ConcatProperties, LenProperties
  <2>2. CASE i <= Len(s)
    <3>1. i \in DOMAIN s /\ (s \o t)[i] = s[i] BY <2>1, <2>2
    <3> QED BY <1>3, <3>1 DEF Fits
  <2>3. CASE ~(i <= Len(s))
    <3>1. i - Len(s) \in DOMAIN t /\ (s \o t)[i] = t[i - Len(s)] BY <2>1, <2>3
    <3> QED BY <1>3, <3>1 DEF Fits
  <2> QED BY <2>2, <2>3
<1> QED BY <1>2, <1>3 DEF Fits

LEMMA FitsMore ==
    ASSUME NEW s, NEW n \in Nat, NEW m \in Nat, n <= m, Fits(s, n)
    PROVE  Fits(s, m)
<1>1. ASSUME NEW x \in ShellMails, x[1] \in CodeOps PROVE x[2] \in Nat
  <2>1. CASE x \in CodeOps \X Nat BY <2>1
  <2>2. CASE x \in StateMsgs \cup FoundMsgs \cup {"socket", "getConnectionState"} \X Socks
                   \cup {"devices.paired", "pairing.result"} \X BOOLEAN
    BY <1>1, <2>2 DEF StateMsgs, FoundMsgs, CodeOps
  <2>3. CASE x \in {<<"pairing.incoming", TRUE>>} \cup {<<"pair.failed", 0>>} \cup {"error"} \X Ops
                   \cup {"pair.unpair", "settings.unpair", "pair.reject"} \X {FALSE}
    <3>1. x[1] \in {"pairing.incoming", "pair.failed", "error", "pair.unpair", "settings.unpair", "pair.reject"}
      <4>1. CASE x = <<"pairing.incoming", TRUE>> BY <4>1
      <4>2. CASE x = <<"pair.failed", 0>> BY <4>2
      <4>3. CASE x \in {"error"} \X Ops BY <4>3
      <4>4. CASE x \in {"pair.unpair", "settings.unpair", "pair.reject"} \X {FALSE} BY <4>4
      <4> QED BY <2>3, <4>1, <4>2, <4>3, <4>4
    <3> QED BY <1>1, <3>1 DEF CodeOps
  <2>4. \/ x \in CodeOps \X Nat
        \/ x \in StateMsgs \cup FoundMsgs \cup {"socket", "getConnectionState"} \X Socks
                \cup {"devices.paired", "pairing.result"} \X BOOLEAN
        \/ x \in {<<"pairing.incoming", TRUE>>} \cup {<<"pair.failed", 0>>} \cup {"error"} \X Ops
                \cup {"pair.unpair", "settings.unpair", "pair.reject"} \X {FALSE}
    BY DEF ShellMails, CodeOps
  <2> QED BY <2>1, <2>2, <2>3, <2>4
<1>2. ASSUME NEW i \in DOMAIN s, s[i][1] \in CodeOps PROVE s[i][2] <= m
  <2>1. s[i] \in ShellMails BY ElementOfSeq, LenProperties DEF Fits
  <2>2. s[i][2] \in Nat BY <1>1, <1>2, <2>1
  <2>3. s[i][2] <= n BY <1>2 DEF Fits
  <2> QED BY <2>2, <2>3
<1> QED BY <1>2 DEF Fits

(* Of what the daemon says, only two kinds of note carry a code. *)
LEMMA FitsNotes ==
    ASSUME NEW n \in Nat
    PROVE  /\ Fits(<<>>, n)
           /\ \A op, v : <<op, v>> \in ShellMails /\ (op \in CodeOps => v <= n) => Fits(Bridge!Note(op, v), n)
           /\ \A to \in Bridge!States : Fits(Bridge!State(to), n)
           /\ Fits(Bridge!Note("pairing.result", TRUE), n) /\ Fits(Bridge!Note("pairing.result", FALSE), n)
           /\ Fits(Bridge!Note("pairing.incoming", TRUE), n) /\ Fits(Bridge!Note("pair.failed", 0), n)
           /\ Fits(Bridge!Note("pair.reject", FALSE), n)
           /\ Fits(Bridge!Note("device.found", TRUE), n) /\ Fits(Bridge!Note("device.lost", FALSE), n)
           /\ \A v \in 0..n : Fits(Bridge!Note("pairing.code", v), n) /\ Fits(Bridge!Note("pair.request", v), n)
<1>1. Fits(<<>>, n) BY EmptySeq DEF Fits
<1>2. ASSUME NEW op, NEW v, <<op, v>> \in ShellMails, op \in CodeOps => v <= n
      PROVE  Fits(Bridge!Note(op, v), n)
  <2> DEFINE x == <<op, v>>
  <2>1. x \in ShellMails /\ x[1] = op /\ x[2] = v BY <1>2
  <2> HIDE DEF x
  <2>2. <<x>> \in Seq(ShellMails) /\ DOMAIN <<x>> = {1} /\ <<x>>[1] = x BY <2>1
  <2>3. Fits(<<x>>, n) BY <1>2, <2>1, <2>2 DEF Fits
  <2> QED BY <2>3 DEF Bridge!Note, x
<1>3. \A to \in Bridge!States : <<"state.changed", to>> \in ShellMails BY DEF ShellMails, StateMsgs
<1>4. /\ <<"device.found", TRUE>> \in ShellMails /\ <<"device.lost", FALSE>> \in ShellMails
  BY DEF ShellMails, FoundMsgs
<1>5. /\ <<"pairing.result", TRUE>> \in ShellMails /\ <<"pairing.result", FALSE>> \in ShellMails
      /\ <<"pairing.incoming", TRUE>> \in ShellMails /\ <<"pair.failed", 0>> \in ShellMails
      /\ <<"pair.reject", FALSE>> \in ShellMails
      /\ \A v \in Nat : <<"pairing.code", v>> \in ShellMails /\ <<"pair.request", v>> \in ShellMails
  BY DEF ShellMails
<1>6. \A to \in Bridge!States : Fits(Bridge!State(to), n) BY <1>2, <1>3 DEF Bridge!State, CodeOps
<1>7. /\ Fits(Bridge!Note("pairing.result", TRUE), n) /\ Fits(Bridge!Note("pairing.result", FALSE), n)
      /\ Fits(Bridge!Note("pairing.incoming", TRUE), n) /\ Fits(Bridge!Note("pair.failed", 0), n)
      /\ Fits(Bridge!Note("pair.reject", FALSE), n)
      /\ Fits(Bridge!Note("device.found", TRUE), n) /\ Fits(Bridge!Note("device.lost", FALSE), n)
  BY <1>2, <1>4, <1>5 DEF CodeOps
<1>8. ASSUME NEW v \in 0..n
      PROVE  Fits(Bridge!Note("pairing.code", v), n) /\ Fits(Bridge!Note("pair.request", v), n)
  <2>1. v \in Nat /\ v <= n OBVIOUS
  <2>2. <<"pairing.code", v>> \in ShellMails /\ <<"pair.request", v>> \in ShellMails BY <1>5, <2>1
  <2> QED BY <1>2, <2>1, <2>2
<1> QED BY <1>1, <1>2, <1>6, <1>7, <1>8

LEMMA FitsFound == ASSUME NEW n \in Nat PROVE Fits(Bridge!Found(guiDaemon), n)
  BY FitsNotes DEF Bridge!Found

LEMMA FitsTail ==
    ASSUME NEW s, NEW n, Fits(s, n), s # <<>>
    PROVE  Fits(Tail(s), n) /\ Head(s) \in ShellMails /\ (Head(s)[1] \in CodeOps => Head(s)[2] <= n)
<1>1. s \in Seq(ShellMails) BY DEF Fits
<1>2. /\ Len(s) \in Nat \ {0} /\ DOMAIN s = 1..Len(s) /\ Head(s) = s[1] /\ s[1] \in ShellMails
      /\ Tail(s) \in Seq(ShellMails) /\ Len(Tail(s)) = Len(s) - 1 /\ DOMAIN Tail(s) = 1..Len(Tail(s))
      /\ \A i \in 1..Len(Tail(s)) : Tail(s)[i] = s[i + 1]
  BY <1>1, LenProperties, EmptySeq, HeadTailProperties, ElementOfSeq
<1>3. \A i \in DOMAIN Tail(s) : i + 1 \in DOMAIN s /\ Tail(s)[i] = s[i + 1] BY <1>2
<1>4. 1 \in DOMAIN s BY <1>2
<1> QED BY <1>2, <1>3, <1>4 DEF Fits

(* Calls that the daemon has yet to answer with a code. *)
LEMMA RequestsAre ==
    ASSUME NEW s \in Seq(Ops)
    PROVE  IsFiniteSet(Requests(s)) /\ Cardinality(Requests(s)) \in Nat
<1>1. IsFiniteSet(1..Len(s)) BY FS_Interval, LenProperties
<1>2. Requests(s) \subseteq 1..Len(s) BY LenProperties DEF Requests
<1>3. IsFiniteSet(Requests(s)) BY <1>1, <1>2, FS_Subset
<1> QED BY <1>3, FS_CardinalityType

LEMMA RequestMade ==
    ASSUME NEW s \in Seq(Ops), NEW x \in Ops
    PROVE  Cardinality(Requests(Append(s, x))) <= Cardinality(Requests(s)) + 1
<1>1. /\ Len(s) \in Nat /\ DOMAIN s = 1..Len(s) /\ DOMAIN Append(s, x) = 1..(Len(s) + 1)
      /\ \A i \in 1..Len(s) : Append(s, x)[i] = s[i]
  BY AppendProperties, LenProperties
<1>2. Requests(Append(s, x)) \subseteq Requests(s) \cup {Len(s) + 1}
  <2> SUFFICES ASSUME NEW i \in Requests(Append(s, x)), i # Len(s) + 1 PROVE i \in Requests(s)
    OBVIOUS
  <2>1. i \in 1..(Len(s) + 1) /\ Append(s, x)[i] = "pair.request" BY <1>1 DEF Requests
  <2>2. i \in 1..Len(s) BY <1>1, <2>1
  <2> QED BY <1>1, <2>1, <2>2 DEF Requests
<1>3. IsFiniteSet(Requests(s)) /\ Cardinality(Requests(s)) \in Nat BY RequestsAre
<1>4. /\ IsFiniteSet(Requests(s) \cup {Len(s) + 1})
      /\ Cardinality(Requests(s) \cup {Len(s) + 1}) <= Cardinality(Requests(s)) + 1
      /\ Cardinality(Requests(s) \cup {Len(s) + 1}) \in Nat
  <2>1. LET T == Requests(s) \cup {Len(s) + 1}
        IN  IsFiniteSet(T)
            /\ Cardinality(T) = IF Len(s) + 1 \in Requests(s) THEN Cardinality(Requests(s))
                                ELSE Cardinality(Requests(s)) + 1
    BY <1>3, FS_AddElement
  <2> QED BY <1>3, <2>1
<1>5. Cardinality(Requests(Append(s, x))) <= Cardinality(Requests(s) \cup {Len(s) + 1})
      /\ Cardinality(Requests(Append(s, x))) \in Nat
  BY <1>2, <1>4, FS_Subset, FS_CardinalityType
<1> QED BY <1>3, <1>4, <1>5

LEMMA OthersMade ==
    ASSUME NEW s \in Seq(Ops), NEW t \in Seq(Ops \ {"pair.request"})
    PROVE  Requests(s \o t) = Requests(s)
<1>1. /\ Len(s) \in Nat /\ DOMAIN s = 1..Len(s) /\ Len(t) \in Nat /\ DOMAIN t = 1..Len(t)
      /\ t \in Seq(Ops)
  BY LenProperties
<1>2. /\ DOMAIN (s \o t) = 1..(Len(s) + Len(t))
      /\ \A i \in 1..(Len(s) + Len(t)) : (s \o t)[i] = IF i <= Len(s) THEN s[i] ELSE t[i - Len(s)]
  BY <1>1, ConcatProperties, LenProperties
<1>3. \A i \in DOMAIN t : t[i] # "pair.request" BY ElementOfSeq, <1>1
<1>4. ASSUME NEW i \in Requests(s \o t) PROVE i \in Requests(s)
  <2>1. i \in 1..(Len(s) + Len(t)) /\ (s \o t)[i] = "pair.request" BY <1>2 DEF Requests
  <2>2. i <= Len(s)
    <3> SUFFICES ASSUME ~(i <= Len(s)) PROVE FALSE
      OBVIOUS
    <3>1. i - Len(s) \in DOMAIN t BY <1>1, <2>1
    <3> QED BY <1>2, <1>3, <2>1, <3>1
  <2> QED BY <1>1, <1>2, <2>1, <2>2 DEF Requests
<1>5. ASSUME NEW i \in Requests(s) PROVE i \in Requests(s \o t)
  <2>1. i \in 1..Len(s) /\ s[i] = "pair.request" BY <1>1 DEF Requests
  <2> QED BY <1>1, <1>2, <2>1 DEF Requests
<1> QED BY <1>4, <1>5

LEMMA RequestServed ==
    ASSUME NEW s \in Seq(Ops), s # <<>>
    PROVE  Cardinality(Requests(Tail(s))) + (IF Head(s) = "pair.request" THEN 1 ELSE 0) <= Cardinality(Requests(s))
<1>1. /\ Len(s) \in Nat \ {0} /\ DOMAIN s = 1..Len(s) /\ Head(s) = s[1]
      /\ Tail(s) \in Seq(Ops) /\ Len(Tail(s)) = Len(s) - 1 /\ DOMAIN Tail(s) = 1..Len(Tail(s))
      /\ \A i \in 1..Len(Tail(s)) : Tail(s)[i] = s[i + 1]
  BY LenProperties, EmptySeq, HeadTailProperties
<1> DEFINE S == Requests(Tail(s))
           T == Requests(s) \ {1}
           f == [i \in S |-> i + 1]
<1>2. IsFiniteSet(Requests(s)) /\ Cardinality(Requests(s)) \in Nat BY RequestsAre
<1>3. /\ IsFiniteSet(T) /\ Cardinality(T) \in Nat
      /\ Cardinality(T) = IF 1 \in Requests(s) THEN Cardinality(Requests(s)) - 1 ELSE Cardinality(Requests(s))
  BY <1>2, FS_RemoveElement, FS_CardinalityType
<1>4. f \in Injection(S, T)
  <2>1. ASSUME NEW i \in S PROVE i \in Nat /\ i + 1 \in T
    <3>1. i \in 1..Len(Tail(s)) /\ Tail(s)[i] = "pair.request" BY <1>1 DEF Requests
    <3>2. i + 1 \in 1..Len(s) /\ i + 1 # 1 /\ s[i + 1] = "pair.request" BY <1>1, <3>1
    <3> QED BY <1>1, <3>1, <3>2 DEF Requests
  <2>2. f \in [S -> T] BY <2>1
  <2>3. \A i, j \in S : f[i] = f[j] => i = j
    <3> SUFFICES ASSUME NEW i \in S, NEW j \in S, f[i] = f[j] PROVE i = j
      OBVIOUS
    <3>1. i \in Nat /\ j \in Nat /\ i + 1 = j + 1 BY <2>1
    <3> QED BY <3>1
  <2> HIDE DEF f
  <2> QED BY <2>2, <2>3 DEF Injection, IsInjective
<1>5. Cardinality(S) <= Cardinality(T) /\ Cardinality(S) \in Nat
  <2> HIDE DEF S, T, f
  <2>1. IsFiniteSet(S) /\ Cardinality(S) <= Cardinality(T) BY <1>3, <1>4, FS_Injection
  <2> QED BY <2>1, FS_CardinalityType
<1>6. Head(s) = "pair.request" => 1 \in Requests(s) BY <1>1 DEF Requests
<1> HIDE DEF S, T
<1>7. Cardinality(S) + (IF Head(s) = "pair.request" THEN 1 ELSE 0) <= Cardinality(Requests(s))
  BY <1>2, <1>3, <1>5, <1>6
<1> QED BY <1>7 DEF S

LEMMA ScreensNext ==
    ASSUME guiDaemon'.code <= guiDaemon'.codes, guiWindow'.code <= guiDaemon'.codes, Fits(guiInbox', guiDaemon'.codes)
    PROVE  Screens'
BY DEF Screens, Fits, CodeOps, ShellMails, StateMsgs, FoundMsgs, Socks, Ops, Bridge!States

LEMMA CountsNext ==
    ASSUME events' \in 0..MaxEvents, guiClicks' \in 0..MaxGuiClicks,
           guiDaemon'.codes + Cardinality(Requests(guiCalls')) <= 2 * events' + guiClicks'
    PROVE  Tallies'
BY DEF Tallies, Requests

(* The daemon speaks, and the codes it has made by then are no fewer. *)
LEMMA SpeaksScreens ==
    ASSUME ShellInv, Screens, NEW d \in Daemons, NEW notes,
           Bridge!Sends(d, notes) \/ Bridge!Answer(d, notes),
           guiDaemon.codes <= d.codes, d.code <= d.codes, Fits(notes, d.codes), guiWindow' = guiWindow
    PROVE  Screens'
<1>1. /\ guiDaemon' = d /\ guiDaemon \in Daemons /\ guiDaemon.codes \in Nat /\ d.codes \in Nat
      /\ guiWindow.code \in Nat
  BY DEF Bridge!Sends, Bridge!Answer, ShellInv, ShellTypes, Daemons, Shown
<1>2. Fits(guiInbox, guiDaemon.codes) /\ guiWindow.code <= guiDaemon.codes BY DEF Screens
<1>3. Fits(guiInbox, d.codes) BY <1>1, <1>2, FitsMore
<1>4. Fits(guiInbox \o notes, d.codes) BY <1>3, FitsJoined
<1>5. guiInbox' = guiInbox \/ guiInbox' = guiInbox \o notes BY DEF Bridge!Sends, Bridge!Answer
<1>6. guiWindow'.code <= d.codes BY <1>1, <1>2
<1>7. Fits(guiInbox', guiDaemon'.codes) BY <1>1, <1>3, <1>4, <1>5
<1> QED BY <1>1, <1>6, <1>7, ScreensNext

(* No event but a connection makes a code. *)
LEMMA EventScreens ==
    ASSUME ShellInv, Screens,
           \/ Bridge!PhoneDiscovered \/ Bridge!PhoneLost \/ Bridge!PhoneRequestsPair
           \/ Bridge!PhoneConfirms \/ Bridge!PhoneRejects \/ Bridge!CodeTimeout
           \/ Bridge!PhoneUnpairs \/ Bridge!Disconnected \/ Bridge!RequestTimeout
    PROVE  Screens' /\ guiDaemon'.codes = guiDaemon.codes
<1> DEFINE n == guiDaemon.codes
<1>1. /\ guiDaemon \in Daemons /\ n \in Nat /\ guiDaemon.code \in Nat /\ guiDaemon.code <= n /\ guiWindow' = guiWindow
  BY DEF ShellInv, ShellTypes, Daemons, Screens, Bridge!PhoneDiscovered, Bridge!PhoneLost,
     Bridge!PhoneRequestsPair, Bridge!PhoneConfirms, Bridge!PhoneRejects, Bridge!CodeTimeout,
     Bridge!PhoneUnpairs, Bridge!Disconnected, Bridge!RequestTimeout, Bridge!EventOnOpen, Bridge!Event
<1>2. ASSUME NEW d \in Daemons, NEW notes, Bridge!Sends(d, notes), d.codes = n, d.code <= n, Fits(notes, n)
      PROVE  Screens' /\ guiDaemon'.codes = guiDaemon.codes
  <2>1. guiDaemon.codes <= d.codes BY <1>1, <1>2
  <2>2. Screens' BY <1>1, <1>2, <2>1, SpeaksScreens
  <2>3. guiDaemon' = d BY <1>2 DEF Bridge!Sends
  <2> QED BY <1>2, <2>2, <2>3
<1>3. /\ Fits(<<>>, n) /\ Fits(Bridge!Found(guiDaemon), n) /\ Fits(Bridge!State("DISCOVERING"), n)
      /\ Fits(Bridge!State("CONNECTED"), n)
      /\ Fits(Bridge!Note("pairing.result", TRUE), n) /\ Fits(Bridge!Note("pairing.result", FALSE), n)
      /\ Fits(Bridge!Note("pairing.incoming", TRUE), n) /\ Fits(Bridge!Note("pair.failed", 0), n)
      /\ Fits(Bridge!Note("device.lost", FALSE), n)
  BY <1>1, FitsNotes, FitsFound DEF Bridge!States
<1>4. ASSUME NEW d \in Daemons, d.codes = n, d.code <= n, Bridge!Succeeds(d)
      PROVE  Screens' /\ guiDaemon'.codes = guiDaemon.codes
  <2> DEFINE e == [d EXCEPT !.state = "CONNECTED"]
             st == IF d.state = "CONNECTED" THEN <<>> ELSE Bridge!State("CONNECTED")
             r == Bridge!Note("pairing.result", TRUE)
  <2>1. Bridge!Sends(e, st \o r) BY <1>4 DEF Bridge!Succeeds
  <2>2. e \in Daemons /\ e.codes = n /\ e.code <= n BY <1>4 DEF Daemons, Bridge!States
  <2>3. Fits(st, n) /\ Fits(r, n) BY <1>3
  <2> HIDE DEF e, st, r, n
  <2>4. Fits(st \o r, n) BY <2>3, FitsJoined
  <2> QED BY <1>2, <2>1, <2>2, <2>4
<1>5. ASSUME NEW d \in Daemons, d.codes = n, d.code <= n, Bridge!Fails(d)
      PROVE  Screens' /\ guiDaemon'.codes = guiDaemon.codes
  <2> DEFINE e == Bridge!Back(d)
             st == Bridge!State("DISCOVERING")
             r == Bridge!Note("pairing.result", FALSE)
  <2>1. Bridge!Sends(e, st \o r) BY <1>5 DEF Bridge!Fails
  <2>2. e \in Daemons /\ e.codes = n /\ e.code <= n BY <1>5 DEF Daemons, Bridge!States, Bridge!Back
  <2>3. Fits(st, n) /\ Fits(r, n) BY <1>3
  <2> HIDE DEF e, st, r, n
  <2>4. Fits(st \o r, n) BY <2>3, FitsJoined
  <2> QED BY <1>2, <2>1, <2>2, <2>4
<1>6. /\ [guiDaemon EXCEPT !.code = 0] \in Daemons
      /\ [guiDaemon EXCEPT !.code = 0, !.trusted = TRUE] \in Daemons
      /\ [guiDaemon EXCEPT !.found = TRUE] \in Daemons /\ [guiDaemon EXCEPT !.found = FALSE] \in Daemons
      /\ [guiDaemon EXCEPT !.asked = FALSE] \in Daemons
      /\ Bridge!Unpair(guiDaemon) \in Daemons
      /\ Bridge!Back([guiDaemon EXCEPT !.conn = "none"]) \in Daemons
  BY <1>1 DEF Daemons, Bridge!Unpair, Bridge!Back, Bridge!States
<1>7. CASE Bridge!PhoneDiscovered
  <2>1. Bridge!Sends([guiDaemon EXCEPT !.found = TRUE], Bridge!Found(guiDaemon))
    BY <1>7 DEF Bridge!PhoneDiscovered
  <2>2. LET d == [guiDaemon EXCEPT !.found = TRUE] IN d.codes = n /\ d.code <= n BY <1>1 DEF Daemons
  <2> QED BY <1>2, <1>3, <1>6, <2>1, <2>2
<1>8. CASE Bridge!PhoneLost
  <2>1. Bridge!Sends([guiDaemon EXCEPT !.found = FALSE], Bridge!Note("device.lost", FALSE))
    BY <1>8 DEF Bridge!PhoneLost
  <2>2. LET d == [guiDaemon EXCEPT !.found = FALSE] IN d.codes = n /\ d.code <= n
    BY <1>1 DEF Daemons
  <2> QED BY <1>2, <1>3, <1>6, <2>1, <2>2
<1>9. CASE Bridge!PhoneRequestsPair
  <2>1. Bridge!Succeeds(guiDaemon) \/ Bridge!Sends(guiDaemon, Bridge!Note("pairing.incoming", TRUE))
    BY <1>9 DEF Bridge!PhoneRequestsPair
  <2> QED BY <1>1, <1>2, <1>3, <1>4, <2>1
<1>10. CASE Bridge!PhoneConfirms
  <2>1. Bridge!Succeeds([guiDaemon EXCEPT !.code = 0, !.trusted = TRUE])
    BY <1>10 DEF Bridge!PhoneConfirms
  <2>2. LET d == [guiDaemon EXCEPT !.code = 0, !.trusted = TRUE] IN d.codes = n /\ d.code <= n
    BY <1>1 DEF Daemons
  <2> QED BY <1>4, <1>6, <2>1, <2>2
<1>11. CASE Bridge!PhoneRejects \/ Bridge!CodeTimeout
  <2>1. Bridge!Fails([guiDaemon EXCEPT !.code = 0])
    BY <1>11 DEF Bridge!PhoneRejects, Bridge!CodeTimeout
  <2>2. LET d == [guiDaemon EXCEPT !.code = 0] IN d.codes = n /\ d.code <= n BY <1>1 DEF Daemons
  <2> QED BY <1>5, <1>6, <2>1, <2>2
<1>12. CASE Bridge!PhoneUnpairs
  <2>1. Bridge!Sends(Bridge!Unpair(guiDaemon), <<>>) BY <1>12 DEF Bridge!PhoneUnpairs
  <2>2. Bridge!Unpair(guiDaemon).codes = n /\ Bridge!Unpair(guiDaemon).code <= n
    BY <1>1 DEF Daemons, Bridge!Unpair
  <2> QED BY <1>2, <1>3, <1>6, <2>1, <2>2
<1>13. CASE Bridge!Disconnected
  <2>1. Bridge!Sends(Bridge!Back([guiDaemon EXCEPT !.conn = "none"]), Bridge!State("DISCOVERING"))
    BY <1>13 DEF Bridge!Disconnected
  <2>2. LET d == Bridge!Back([guiDaemon EXCEPT !.conn = "none"]) IN d.codes = n /\ d.code <= n
    BY <1>1 DEF Daemons, Bridge!Back
  <2> QED BY <1>2, <1>3, <1>6, <2>1, <2>2
<1>14. CASE Bridge!RequestTimeout
  <2>1. Bridge!Sends([guiDaemon EXCEPT !.asked = FALSE], Bridge!Note("pair.failed", 0))
    BY <1>14 DEF Bridge!RequestTimeout
  <2>2. LET d == [guiDaemon EXCEPT !.asked = FALSE] IN d.codes = n /\ d.code <= n
    BY <1>1 DEF Daemons
  <2> QED BY <1>2, <1>3, <1>6, <2>1, <2>2
<1> QED BY <1>7, <1>8, <1>9, <1>10, <1>11, <1>12, <1>13, <1>14

LEMMA NewCodeIs ==
    ASSUME NEW d \in Daemons
    PROVE  LET e == Bridge!NewCode(d)
           IN  e \in Daemons /\ e.codes = d.codes + 1 /\ e.code = d.codes + 1 /\ e.codes \in Nat /\ d.codes \in Nat
<1>1. d.codes \in Nat /\ d.codes + 1 \in Nat BY DEF Daemons
<1> QED BY <1>1 DEF Daemons, Bridge!NewCode

(* A connection makes one code, or two when it was asked for. *)
LEMMA ConnectScreens ==
    ASSUME ShellInv, Screens, Bridge!PhoneConnects
    PROVE  Screens' /\ guiDaemon'.codes <= guiDaemon.codes + 2 /\ guiDaemon'.codes \in Nat
<1> DEFINE opened == [guiDaemon EXCEPT !.conn = "open", !.found = TRUE, !.hook = FALSE, !.asked = FALSE]
           mid == [opened EXCEPT !.state = "PAIRING"]
           first == Bridge!NewCode(mid)
           n == guiDaemon.codes
           fd == Bridge!Found(guiDaemon)
<1>1. /\ guiDaemon \in Daemons /\ n \in Nat /\ guiDaemon.code \in Nat /\ guiDaemon.code <= n /\ guiWindow' = guiWindow
  BY DEF ShellInv, ShellTypes, Daemons, Screens, Bridge!PhoneConnects, Bridge!Event
<1>2. /\ opened \in Daemons /\ opened.codes = n /\ opened.code <= n BY <1>1 DEF Daemons
<1>3. mid \in Daemons /\ mid.codes = n
  <2> HIDE DEF opened
  <2> QED BY <1>2 DEF Daemons, Bridge!States
<1>4. /\ first \in Daemons /\ first.codes = n + 1 /\ first.code = n + 1
  <2> HIDE DEF mid, n
  <2> QED BY <1>3, NewCodeIs
<1>5. ASSUME NEW d \in Daemons, NEW notes, Bridge!Sends(d, notes), n <= d.codes, d.codes <= n + 2,
             d.code <= d.codes, Fits(notes, d.codes)
      PROVE  Screens' /\ guiDaemon'.codes <= guiDaemon.codes + 2 /\ guiDaemon'.codes \in Nat
  <2>1. Screens' BY <1>1, <1>5, SpeaksScreens
  <2>2. guiDaemon' = d /\ d.codes \in Nat BY <1>5 DEF Bridge!Sends, Daemons
  <2> QED BY <1>5, <2>1, <2>2
<1>6. CASE guiDaemon.trusted
  <2> DEFINE d == [opened EXCEPT !.state = "CONNECTED"]
             st == Bridge!State("CONNECTED")
             more == IF guiDaemon.asked THEN Bridge!Note("pair.failed", 0) ELSE <<>>
  <2>1. Bridge!Sends(d, (fd \o st) \o more) BY <1>6 DEF Bridge!PhoneConnects
  <2>2. d \in Daemons /\ d.codes = n /\ d.code <= n
    <3> HIDE DEF opened
    <3> QED BY <1>2 DEF Daemons, Bridge!States
  <2>3. Fits(fd, n) /\ Fits(st, n) /\ Fits(more, n) BY <1>1, FitsNotes, FitsFound DEF Bridge!States
  <2> HIDE DEF d, fd, st, more, n
  <2>4. Fits(fd \o st, n) BY <2>3, FitsJoined
  <2>5. Fits((fd \o st) \o more, n) BY <2>3, <2>4, FitsJoined
  <2>6. n <= d.codes /\ d.codes <= n + 2 BY <1>1, <2>2
  <2> QED BY <1>5, <2>1, <2>2, <2>5, <2>6
<1>7. CASE ~guiDaemon.trusted /\ guiDaemon.hook
  <2> DEFINE d == Bridge!NewCode(first)
             st == Bridge!State("PAIRING")
             one == Bridge!CodeNote(opened)
             two == Bridge!CodeNote(first)
             answer == IF guiDaemon.asked THEN Bridge!Note("pair.request", first.codes + 1) ELSE <<>>
  <2>1. Bridge!Sends(d, (((fd \o st) \o one) \o two) \o answer) BY <1>7 DEF Bridge!PhoneConnects
  <2>2. d \in Daemons /\ d.codes = n + 2 /\ d.code = n + 2
    <3> HIDE DEF first, n
    <3> QED BY <1>1, <1>4, NewCodeIs
  <2>3. /\ Fits(fd, n + 2) /\ Fits(st, n + 2) /\ Fits(one, n + 2) /\ Fits(two, n + 2) /\ Fits(answer, n + 2)
    <3> HIDE DEF opened, first, n
    <3>1. n + 2 \in Nat /\ opened.codes + 1 \in 0..(n + 2) /\ first.codes + 1 \in 0..(n + 2)
      BY <1>1, <1>2, <1>4
    <3> QED BY <3>1, FitsNotes, FitsFound DEF Bridge!CodeNote, Bridge!States
  <2> HIDE DEF d, fd, st, one, two, answer, n
  <2>4. Fits(fd \o st, n + 2) BY <2>3, FitsJoined
  <2>5. Fits((fd \o st) \o one, n + 2) BY <2>3, <2>4, FitsJoined
  <2>6. Fits(((fd \o st) \o one) \o two, n + 2) BY <2>3, <2>5, FitsJoined
  <2>7. Fits((((fd \o st) \o one) \o two) \o answer, n + 2) BY <2>3, <2>6, FitsJoined
  <2>8. n <= d.codes /\ d.codes <= n + 2 /\ d.code <= d.codes BY <1>1, <2>2
  <2> QED BY <1>5, <2>1, <2>2, <2>7, <2>8
<1>8. CASE ~guiDaemon.trusted /\ ~guiDaemon.hook
  <2> DEFINE st == Bridge!State("PAIRING")
             one == Bridge!CodeNote(opened)
  <2>1. Bridge!Sends(first, (fd \o st) \o one) BY <1>8 DEF Bridge!PhoneConnects
  <2>2. Fits(fd, n + 1) /\ Fits(st, n + 1) /\ Fits(one, n + 1)
    <3> HIDE DEF opened, first, n
    <3>1. n + 1 \in Nat /\ opened.codes + 1 \in 0..(n + 1) BY <1>1, <1>2
    <3> QED BY <3>1, FitsNotes, FitsFound DEF Bridge!CodeNote, Bridge!States
  <2> HIDE DEF first, fd, st, one, n
  <2>3. Fits(fd \o st, n + 1) BY <2>2, FitsJoined
  <2>4. Fits((fd \o st) \o one, n + 1) BY <2>2, <2>3, FitsJoined
  <2>5. n <= first.codes /\ first.codes <= n + 2 /\ first.code <= first.codes BY <1>1, <1>4
  <2> QED BY <1>4, <1>5, <2>1, <2>4, <2>5
<1> QED BY <1>6, <1>7, <1>8

(* Of the answers, only that to a request of the user makes one. *)
LEMMA ServeScreens ==
    ASSUME ShellInv, Screens, Bridge!Serve
    PROVE  /\ Screens' /\ guiDaemon'.codes \in Nat
           /\ guiDaemon'.codes <= guiDaemon.codes + (IF Head(guiCalls) = "pair.request" THEN 1 ELSE 0)
<1> DEFINE c == Head(guiCalls)
           n == guiDaemon.codes
           st == Bridge!State("DISCOVERING")
           result == Bridge!Note("pairing.result", FALSE)
           done == Bridge!Note("pair.reject", FALSE)
<1>1. /\ guiDaemon \in Daemons /\ n \in Nat /\ guiDaemon.code \in Nat /\ guiDaemon.code <= n /\ guiWindow' = guiWindow
      /\ guiDaemon.state \in Bridge!States /\ guiDaemon.found \in BOOLEAN /\ guiDaemon.trusted \in BOOLEAN
      /\ bridge \in Socks /\ guiCalls \in Seq(Ops) /\ guiCalls # <<>>
  BY DEF ShellInv, ShellTypes, Daemons, Screens, Bridge!Serve
<1>2. c \in Ops BY <1>1, HeadTailProperties
<1>3. ASSUME NEW d \in Daemons, NEW notes, Bridge!Answer(d, notes), d.codes = n, d.code <= n, Fits(notes, n)
      PROVE  /\ Screens' /\ guiDaemon'.codes \in Nat
             /\ guiDaemon'.codes <= guiDaemon.codes + (IF Head(guiCalls) = "pair.request" THEN 1 ELSE 0)
  <2>1. guiDaemon.codes <= d.codes BY <1>1, <1>3
  <2>2. Screens' BY <1>1, <1>3, <2>1, SpeaksScreens
  <2>3. guiDaemon' = d BY <1>3 DEF Bridge!Answer
  <2> QED BY <1>1, <1>3, <2>2, <2>3
<1>4. /\ \A v \in Socks : <<"getConnectionState", v>> \in ShellMails
      /\ \A v \in Bridge!States : <<"daemon.status", v>> \in ShellMails
      /\ \A v \in BOOLEAN : <<"devices.discovered", v>> \in ShellMails /\ <<"devices.paired", v>> \in ShellMails
  BY DEF ShellMails, StateMsgs, FoundMsgs
<1>5. /\ <<"pair.unpair", FALSE>> \in ShellMails /\ <<"settings.unpair", FALSE>> \in ShellMails
      /\ \A v \in Ops : <<"error", v>> \in ShellMails
  BY DEF ShellMails
<1> HIDE DEF c, n
<1>6. /\ \A v \in Socks : Fits(Bridge!Note("getConnectionState", v), n)
      /\ \A v \in Bridge!States : Fits(Bridge!Note("daemon.status", v), n)
      /\ \A v \in BOOLEAN : Fits(Bridge!Note("devices.discovered", v), n) /\ Fits(Bridge!Note("devices.paired", v), n)
      /\ Fits(Bridge!Note("pair.unpair", FALSE), n) /\ Fits(Bridge!Note("settings.unpair", FALSE), n)
      /\ \A v \in Ops : Fits(Bridge!Note("error", v), n)
      /\ Fits(<<>>, n) /\ Fits(Bridge!Note("pair.failed", 0), n)
      /\ Fits(st, n) /\ Fits(result, n) /\ Fits(done, n)
  BY <1>1, <1>4, <1>5, FitsNotes DEF CodeOps, Bridge!States
<1>7. Fits((st \o result) \o done, n)
  <2> HIDE DEF st, result, done
  <2>1. Fits(st \o result, n) BY <1>6, FitsJoined
  <2> QED BY <1>6, <2>1, FitsJoined
<1>8. /\ Bridge!Unpair(guiDaemon) \in Daemons /\ Bridge!Unpair(guiDaemon).codes = n /\ Bridge!Unpair(guiDaemon).code <= n
      /\ Bridge!Back(guiDaemon) \in Daemons /\ Bridge!Back(guiDaemon).codes = n /\ Bridge!Back(guiDaemon).code <= n
  BY <1>1 DEF Daemons, Bridge!Unpair, Bridge!Back, Bridge!States, n
<1>9. LET d == [guiDaemon EXCEPT !.hook = TRUE, !.asked = TRUE] IN d \in Daemons /\ d.codes = n /\ d.code <= n
  BY <1>1 DEF Daemons, n
<1>10. guiDaemon.codes = n BY DEF n
<1>11. CASE c \in {"getConnectionState", "daemon.status", "devices.discovered", "devices.paired"} \/ bridge # "connected"
  <2>1. \/ Bridge!Answer(guiDaemon, Bridge!Note("getConnectionState", bridge))
        \/ Bridge!Answer(guiDaemon, Bridge!Note("error", c))
        \/ Bridge!Answer(guiDaemon, Bridge!Note("daemon.status", guiDaemon.state))
        \/ Bridge!Answer(guiDaemon, Bridge!Note("devices.discovered", guiDaemon.found))
        \/ Bridge!Answer(guiDaemon, Bridge!Note("devices.paired", guiDaemon.trusted))
    BY <1>11 DEF Bridge!Serve, c
  <2> QED BY <1>1, <1>2, <1>3, <1>6, <1>10, <2>1
<1>12. CASE c \in {"pair.unpair", "settings.unpair", "pair.accept", "pair.reject"} /\ bridge = "connected"
  <2>1. \/ Bridge!Answer(Bridge!Unpair(guiDaemon), Bridge!Note("pair.unpair", FALSE))
        \/ Bridge!Answer(Bridge!Unpair(guiDaemon), Bridge!Note("settings.unpair", FALSE))
        \/ Bridge!Answer(guiDaemon, <<>>)
        \/ Bridge!Answer(Bridge!Back(guiDaemon), (st \o result) \o done)
    BY <1>12 DEF Bridge!Serve, c
  <2> QED BY <1>1, <1>3, <1>6, <1>7, <1>8, <1>10, <2>1
<1>13. CASE c = "pair.request" /\ bridge = "connected"
  <2>1. \/ Bridge!Answer(Bridge!NewCode(guiDaemon), Bridge!CodeNote(guiDaemon) \o Bridge!Note("pair.request", n + 1))
        \/ Bridge!Answer([guiDaemon EXCEPT !.hook = TRUE, !.asked = TRUE], <<>>)
        \/ Bridge!Answer(guiDaemon, Bridge!Note("pair.failed", 0))
    BY <1>13 DEF Bridge!Serve, c, n
  <2>2. CASE Bridge!Answer(Bridge!NewCode(guiDaemon), Bridge!CodeNote(guiDaemon) \o Bridge!Note("pair.request", n + 1))
    <3> DEFINE d == Bridge!NewCode(guiDaemon)
               one == Bridge!CodeNote(guiDaemon)
               two == Bridge!Note("pair.request", n + 1)
    <3>1. d \in Daemons /\ d.codes = n + 1 /\ d.code = n + 1 BY <1>1, <1>10, NewCodeIs
    <3>2. Fits(one, n + 1) /\ Fits(two, n + 1)
      <4>1. n + 1 \in Nat /\ n + 1 \in 0..(n + 1) BY <1>1
      <4> QED BY <1>10, <4>1, FitsNotes DEF Bridge!CodeNote
    <3> HIDE DEF d, one, two
    <3>3. Fits(one \o two, n + 1) BY <3>2, FitsJoined
    <3>4. Bridge!Answer(d, one \o two) BY <2>2 DEF d, one, two
    <3>5. guiDaemon.codes <= d.codes /\ d.code <= d.codes BY <1>1, <1>10, <3>1
    <3>6. Screens' BY <1>1, <3>1, <3>3, <3>4, <3>5, SpeaksScreens
    <3>7. guiDaemon' = d BY <3>4 DEF Bridge!Answer
    <3> QED BY <1>1, <1>10, <1>13, <3>1, <3>6, <3>7 DEF c
  <2> QED BY <1>1, <1>3, <1>6, <1>9, <1>10, <2>1, <2>2
<1> QED BY <1>2, <1>11, <1>12, <1>13 DEF Ops
(* The window asks for no code by itself, and shows none but what it hears. *)
LEMMA ReceiveScreens ==
    ASSUME ShellInv, Screens, Bridge!Receive
    PROVE  Screens' /\ guiDaemon' = guiDaemon /\ Cardinality(Requests(guiCalls')) = Cardinality(Requests(guiCalls))
<1> DEFINE op == Head(guiInbox)[1]
           v == Head(guiInbox)[2]
           n == guiDaemon.codes
           Others == Seq(Ops \ {"pair.request"})
<1>1. /\ guiWindow \in Shown /\ guiCalls \in Seq(Ops) /\ guiInbox # <<>> /\ guiInbox' = Tail(guiInbox)
      /\ UNCHANGED <<bridge, guiDaemon>> /\ Bridge!Handle(op, v) /\ guiDaemon \in Daemons
      /\ guiDaemon.code <= n /\ guiWindow.code <= n /\ Fits(guiInbox, n)
  BY DEF ShellInv, ShellTypes, Bridge!Receive, Screens
<1>2. n \in Nat /\ guiWindow.code \in Nat BY <1>1 DEF Daemons, Shown
<1>3. Fits(Tail(guiInbox), n) /\ (op \in CodeOps => v <= n) BY <1>1, FitsTail
<1>4. <<>> \in Others /\ \A x \in Ops \ {"pair.request"} : <<x>> \in Others BY EmptySeq
<1>o. /\ <<>> \in Seq(Ops) /\ <<"getConnectionState">> \in Seq(Ops) /\ <<"daemon.status">> \in Seq(Ops)
      /\ <<"devices.discovered">> \in Seq(Ops)
  <2>1. {"getConnectionState", "daemon.status", "devices.discovered"} \subseteq Ops BY DEF Ops
  <2> QED BY <2>1
<1> HIDE DEF op, v, n, Others
<1>5. ASSUME NEW w, NEW more \in {<<>>, <<"getConnectionState">>, <<"daemon.status">>},
             Bridge!Changed(w, more) \/ Bridge!Shows(w, more), w \in Shown, w.code = guiWindow.code
      PROVE  guiWindow'.code = guiWindow.code /\ \E t \in Others : guiCalls' = guiCalls \o t
  <2>1. guiWindow'.code = guiWindow.code BY <1>5 DEF Bridge!Changed, Bridge!Shows, Shown
  <2>2. \E last \in {<<>>, <<"devices.discovered">>} : guiCalls' = (guiCalls \o more) \o last
    <3>1. guiCalls' = guiCalls \o more \/ \E last \in {<<>>, <<"devices.discovered">>} : guiCalls' = (guiCalls \o more) \o last
      BY <1>5 DEF Bridge!Changed, Bridge!Shows
    <3>2. more \in Seq(Ops) BY <1>5, <1>o
    <3>3. (guiCalls \o more) \o <<>> = guiCalls \o more
      BY <1>1, <3>2, ConcatProperties, ConcatEmptySeq
    <3> QED BY <3>1, <3>3
  <2>3. PICK last \in {<<>>, <<"devices.discovered">>} : guiCalls' = (guiCalls \o more) \o last
    BY <2>2
  <2>4. more \in Others /\ last \in Others BY <1>4, <1>5, <2>3 DEF Ops
  <2>5. more \o last \in Others /\ guiCalls' = guiCalls \o (more \o last)
    <3>1. more \in Seq(Ops \ {"pair.request"}) /\ last \in Seq(Ops \ {"pair.request"})
      BY <2>4 DEF Others
    <3>2. more \o last \in Seq(Ops \ {"pair.request"}) BY <3>1, ConcatProperties
    <3>3. more \in Seq(Ops) /\ last \in Seq(Ops) BY <1>5, <1>o, <2>3
    <3>4. (guiCalls \o more) \o last = guiCalls \o (more \o last) BY <1>1, <3>3, ConcatAssociative
    <3> QED BY <2>3, <3>2, <3>4 DEF Others
  <2> QED BY <2>1, <2>5
<1>6. ASSUME guiWindow'.code = guiWindow.code \/ guiWindow'.code = 0 \/ (op \in CodeOps /\ guiWindow'.code = v),
             \E t \in Others : guiCalls' = guiCalls \o t
      PROVE  Screens' /\ guiDaemon' = guiDaemon /\ Cardinality(Requests(guiCalls')) = Cardinality(Requests(guiCalls))
  <2>1. guiDaemon' = guiDaemon /\ guiDaemon'.codes = n BY <1>1 DEF n
  <2>2. guiWindow'.code <= n BY <1>1, <1>2, <1>3, <1>6
  <2>3. Screens' BY <1>1, <1>3, <2>1, <2>2, ScreensNext
  <2>4. Requests(guiCalls') = Requests(guiCalls) BY <1>1, <1>6, OthersMade DEF Others
  <2> QED BY <2>1, <2>3, <2>4
<1>7. guiCalls \o <<>> = guiCalls BY <1>1, ConcatEmptySeq
<1>8. ASSUME UNCHANGED guiCalls, guiWindow'.code = guiWindow.code \/ guiWindow'.code = 0 \/ (op \in CodeOps /\ guiWindow'.code = v)
      PROVE  Screens' /\ guiDaemon' = guiDaemon /\ Cardinality(Requests(guiCalls')) = Cardinality(Requests(guiCalls))
  <2>1. \E t \in Others : guiCalls' = guiCalls \o t BY <1>4, <1>7, <1>8
  <2> QED BY <1>6, <1>8, <2>1
<1>9. \A x \in Socks : [guiWindow EXCEPT !.socket = x] \in Shown /\ [guiWindow EXCEPT !.socket = x].code = guiWindow.code
  BY <1>1 DEF Shown
<1>10. \A x \in Bridge!States : [guiWindow EXCEPT !.app = x] \in Shown /\ [guiWindow EXCEPT !.app = x].code = guiWindow.code
  BY <1>1 DEF Shown
<1>11. \A x \in Socks : LET w == [guiWindow EXCEPT !.socket = x, !.app = "null"] IN w \in Shown /\ w.code = guiWindow.code
  BY <1>1 DEF Shown
<1>12. /\ op \in {"socket", "getConnectionState"} => v \in Socks
       /\ op \in {"daemon.status", "state.changed"} => v \in Bridge!States
  <2>1. Head(guiInbox) \in ShellMails BY <1>1, FitsTail
  <2>2. Head(guiInbox) = <<op, v>> BY <2>1, PairOf DEF op, v
  <2>3. <<op, v>> \in ShellMails BY <2>1, <2>2
  <2> QED BY <2>3, MailIs
<1>13. CASE op \in {"socket", "getConnectionState"}
  <2> DEFINE w == [guiWindow EXCEPT !.socket = v]
             off == [guiWindow EXCEPT !.socket = v, !.app = "null"]
  <2>1. w \in Shown /\ w.code = guiWindow.code /\ off \in Shown /\ off.code = guiWindow.code
    BY <1>9, <1>11, <1>12, <1>13
  <2>2. \/ Bridge!Changed(w, <<"getConnectionState">>) \/ Bridge!Changed(off, <<>>)
        \/ Bridge!Changed(w, <<"daemon.status">>) \/ Bridge!Changed(w, <<>>)
    BY <1>1, <1>13 DEF Bridge!Handle
  <2> HIDE DEF w, off
  <2>3. guiWindow'.code = guiWindow.code /\ \E t \in Others : guiCalls' = guiCalls \o t
    BY <1>5, <2>1, <2>2
  <2> QED BY <1>6, <2>3
<1>14. CASE op \in {"daemon.status", "state.changed"}
  <2> DEFINE w == [guiWindow EXCEPT !.app = v]
  <2>1. w \in Shown /\ w.code = guiWindow.code BY <1>10, <1>12, <1>14
  <2>2. Bridge!Changed(w, <<>>) \/ Bridge!Shows(w, <<>>) BY <1>1, <1>14 DEF Bridge!Handle
  <2> HIDE DEF w
  <2>3. guiWindow'.code = guiWindow.code /\ \E t \in Others : guiCalls' = guiCalls \o t
    BY <1>5, <2>1, <2>2
  <2> QED BY <1>6, <2>3
<1>15. CASE op \in {"device.found", "device.lost"}
  <2>1. guiWindow' = [guiWindow EXCEPT !.found = v] /\ UNCHANGED guiCalls
    BY <1>1, <1>15 DEF Bridge!Handle, Bridge!Keeps
  <2>2. guiWindow'.code = guiWindow.code BY <1>1, <2>1 DEF Shown
  <2> QED BY <1>8, <2>1, <2>2
<1>16. CASE op = "devices.discovered"
  <2>1. guiWindow' = [guiWindow EXCEPT !.found = v] /\ guiCalls' = Append(guiCalls, "devices.paired")
    BY <1>1, <1>16 DEF Bridge!Handle, Bridge!Asks
  <2>2. guiWindow'.code = guiWindow.code BY <1>1, <2>1 DEF Shown
  <2>3. guiCalls' = guiCalls \o <<"devices.paired">> BY <1>1, <2>1, AppendIsConcat DEF Ops
  <2>4. <<"devices.paired">> \in Others BY <1>4 DEF Ops
  <2> QED BY <1>6, <2>2, <2>3, <2>4
<1>17. CASE op \in CodeOps
  <2>1. guiWindow' = [guiWindow EXCEPT !.code = v] /\ UNCHANGED guiCalls
    BY <1>1, <1>17 DEF Bridge!Handle, Bridge!Keeps, CodeOps
  <2>2. guiWindow'.code = v BY <1>1, <2>1 DEF Shown
  <2> QED BY <1>8, <1>17, <2>1, <2>2
<1>18. CASE op = "pairing.result"
  <2>1. UNCHANGED guiCalls /\ guiWindow'.code = 0
    BY <1>1, <1>18 DEF Bridge!Handle, Bridge!Keeps, Shown
  <2> QED BY <1>8, <2>1
<1>19. CASE op \in {"devices.paired", "pairing.incoming", "pair.unpair", "settings.unpair", "pair.reject", "error", "pair.failed"}
  <2>1. UNCHANGED guiCalls /\ guiWindow'.code = guiWindow.code
    BY <1>1, <1>19 DEF Bridge!Handle, Bridge!Keeps, Shown
  <2> QED BY <1>8, <2>1
<1>20. op \in {"socket", "getConnectionState", "daemon.status", "state.changed", "device.found", "device.lost",
               "devices.discovered", "pairing.code", "pair.request", "pairing.result", "devices.paired",
               "pairing.incoming", "pair.unpair", "settings.unpair", "pair.reject", "error", "pair.failed"}
  BY <1>1 DEF Bridge!Handle
<1> QED BY <1>13, <1>14, <1>15, <1>16, <1>17, <1>18, <1>19, <1>20 DEF CodeOps

(* The bound holds: a connection pays for two codes, a click for one. *)
LEMMA CountsKept ==
    ASSUME ShellInv, Screens, Tallies, MaxEvents \in Nat, MaxGuiClicks \in Nat, [Bridge!Next]_Bridge!vars
    PROVE  Screens' /\ Tallies'
<1>1. /\ guiCalls \in Seq(Ops) /\ guiDaemon \in Daemons /\ guiWindow \in Shown /\ guiDaemon.codes \in Nat
      /\ events \in Nat /\ guiClicks \in Nat /\ events <= MaxEvents /\ guiClicks <= MaxGuiClicks
      /\ guiDaemon.codes + Cardinality(Requests(guiCalls)) <= 2 * events + guiClicks
      /\ Cardinality(Requests(guiCalls)) \in Nat
  BY RequestsAre DEF ShellInv, ShellTypes, Tallies, Daemons
<1>2. CASE \/ Bridge!PhoneDiscovered \/ Bridge!PhoneLost \/ Bridge!PhoneRequestsPair
           \/ Bridge!PhoneConfirms \/ Bridge!PhoneRejects \/ Bridge!CodeTimeout
           \/ Bridge!PhoneUnpairs \/ Bridge!Disconnected \/ Bridge!RequestTimeout
  <2>1. Screens' /\ guiDaemon'.codes = guiDaemon.codes BY <1>2, EventScreens
  <2>2. /\ guiCalls' = guiCalls /\ guiClicks' = guiClicks
        /\ events' = events \/ (events < MaxEvents /\ events' = events + 1)
    BY <1>2 DEF Bridge!PhoneDiscovered, Bridge!PhoneLost, Bridge!PhoneRequestsPair,
      Bridge!PhoneConfirms,
       Bridge!PhoneRejects, Bridge!CodeTimeout, Bridge!PhoneUnpairs, Bridge!Disconnected,
       Bridge!RequestTimeout, Bridge!EventOnOpen, Bridge!Event
  <2>3. events' \in 0..MaxEvents /\ events <= events' /\ guiClicks' \in 0..MaxGuiClicks
    BY <1>1, <2>2
  <2>4. guiDaemon'.codes + Cardinality(Requests(guiCalls')) <= 2 * events' + guiClicks'
    BY <1>1, <2>1, <2>2, <2>3
  <2> QED BY <2>1, <2>3, <2>4, CountsNext
<1>3. CASE Bridge!PhoneConnects
  <2>1. Screens' /\ guiDaemon'.codes <= guiDaemon.codes + 2 /\ guiDaemon'.codes \in Nat
    BY <1>3, ConnectScreens
  <2>2. guiCalls' = guiCalls /\ guiClicks' = guiClicks /\ events < MaxEvents /\ events' = events + 1
    BY <1>3 DEF Bridge!PhoneConnects, Bridge!Event
  <2>3. events' \in 0..MaxEvents /\ guiClicks' \in 0..MaxGuiClicks BY <1>1, <2>2
  <2>4. guiDaemon'.codes + Cardinality(Requests(guiCalls')) <= 2 * events' + guiClicks'
    BY <1>1, <2>1, <2>2
  <2> QED BY <2>1, <2>3, <2>4, CountsNext
<1>4. CASE Bridge!Serve
  <2>1. /\ Screens' /\ guiDaemon'.codes \in Nat
        /\ guiDaemon'.codes <= guiDaemon.codes + (IF Head(guiCalls) = "pair.request" THEN 1 ELSE 0)
    BY <1>4, ServeScreens
  <2>2. guiCalls # <<>> /\ guiCalls' = Tail(guiCalls) /\ UNCHANGED <<events, guiClicks>>
    BY <1>4 DEF Bridge!Serve
  <2>3. /\ Cardinality(Requests(guiCalls')) + (IF Head(guiCalls) = "pair.request" THEN 1 ELSE 0) <= Cardinality(Requests(guiCalls))
        /\ Cardinality(Requests(guiCalls')) \in Nat
    <3>1. Tail(guiCalls) \in Seq(Ops) BY <1>1, <2>2, HeadTailProperties
    <3> QED BY <1>1, <2>2, <3>1, RequestServed, RequestsAre
  <2>4. guiDaemon'.codes + Cardinality(Requests(guiCalls')) <= 2 * events' + guiClicks'
    BY <1>1, <2>1, <2>2, <2>3
  <2> QED BY <1>1, <2>1, <2>2, <2>4, CountsNext DEF Tallies
<1>5. CASE Bridge!Receive
  <2>1. Screens' /\ guiDaemon' = guiDaemon /\ Cardinality(Requests(guiCalls')) = Cardinality(Requests(guiCalls))
    BY <1>5, ReceiveScreens
  <2>2. UNCHANGED <<events, guiClicks>> BY <1>5 DEF Bridge!Receive
  <2>3. guiDaemon'.codes + Cardinality(Requests(guiCalls')) <= 2 * events' + guiClicks'
    BY <1>1, <2>1, <2>2
  <2> QED BY <2>1, <2>2, <2>3, CountsNext DEF Tallies
<1>6. ASSUME guiDaemon' = guiDaemon, guiInbox' = guiInbox, guiWindow'.code = guiWindow.code \/ guiWindow'.code = 0
      PROVE  Screens'
  <2>1. guiDaemon.code <= guiDaemon.codes /\ guiWindow.code <= guiDaemon.codes /\ Fits(guiInbox, guiDaemon.codes)
    BY DEF Screens
  <2>2. guiWindow'.code <= guiDaemon.codes BY <1>1, <1>6, <2>1
  <2> QED BY <1>6, <2>1, <2>2, ScreensNext
<1>7. CASE Bridge!Mount \/ Bridge!Poll
  <2>1. /\ UNCHANGED <<guiDaemon, guiInbox, events, guiClicks>> /\ guiCalls' = Append(guiCalls, "getConnectionState")
        /\ guiWindow'.code = guiWindow.code
    BY <1>1, <1>7 DEF Bridge!Mount, Bridge!Poll, Shown
  <2>2. guiCalls' = guiCalls \o <<"getConnectionState">> BY <1>1, <2>1, AppendIsConcat DEF Ops
  <2>3. <<"getConnectionState">> \in Seq(Ops \ {"pair.request"}) BY DEF Ops
  <2>4. Requests(guiCalls') = Requests(guiCalls) BY <1>1, <2>2, <2>3, OthersMade
  <2>5. guiDaemon'.codes + Cardinality(Requests(guiCalls')) <= 2 * events' + guiClicks'
    BY <1>1, <2>1, <2>4
  <2> QED BY <1>6, <2>1, <2>5, CountsNext DEF Tallies
<1>8. CASE \/ Bridge!RequestPairing \/ Bridge!AcceptIncoming \/ Bridge!RejectIncoming
           \/ Bridge!CancelOutgoing \/ Bridge!UnpairInSettings
  <2>1. /\ UNCHANGED <<guiDaemon, guiInbox, events>> /\ guiClicks < MaxGuiClicks /\ guiClicks' = guiClicks + 1
        /\ guiWindow' = guiWindow \/ guiWindow' = [guiWindow EXCEPT !.code = 0]
    BY <1>8 DEF Bridge!RequestPairing, Bridge!AcceptIncoming, Bridge!RejectIncoming,
       Bridge!CancelOutgoing, Bridge!UnpairInSettings, Bridge!Click, Bridge!Asks
  <2>2. PICK x \in Ops : guiCalls' = Append(guiCalls, x)
    BY <1>8 DEF Bridge!RequestPairing, Bridge!AcceptIncoming, Bridge!RejectIncoming,
       Bridge!CancelOutgoing, Bridge!UnpairInSettings, Bridge!Click, Bridge!Asks, Ops
  <2>3. guiWindow'.code = guiWindow.code \/ guiWindow'.code = 0 BY <1>1, <2>1 DEF Shown
  <2>4. /\ Cardinality(Requests(guiCalls')) <= Cardinality(Requests(guiCalls)) + 1
        /\ Cardinality(Requests(guiCalls')) \in Nat
    <3>1. Append(guiCalls, x) \in Seq(Ops) BY <1>1, AppendProperties
    <3> QED BY <1>1, <2>2, <3>1, RequestMade, RequestsAre
  <2>5. guiDaemon'.codes + Cardinality(Requests(guiCalls')) <= 2 * events' + guiClicks'
    BY <1>1, <2>1, <2>4
  <2>6. events' \in 0..MaxEvents /\ guiClicks' \in 0..MaxGuiClicks BY <1>1, <2>1
  <2> QED BY <1>6, <2>1, <2>3, <2>5, <2>6, CountsNext
<1>9. CASE Bridge!DaemonStarted \/ Bridge!StartFails
  <2>1. PICK to \in Socks : guiInbox' = guiInbox \/ guiInbox' = guiInbox \o Bridge!Note("socket", to)
    BY <1>9 DEF Bridge!DaemonStarted, Bridge!StartFails, Socks
  <2>2. UNCHANGED <<guiDaemon, guiWindow, guiCalls, events, guiClicks>>
    BY <1>9 DEF Bridge!DaemonStarted, Bridge!StartFails
  <2>3. Fits(Bridge!Note("socket", to), guiDaemon.codes)
    <3>1. <<"socket", to>> \in ShellMails BY DEF ShellMails
    <3> QED BY <1>1, <3>1, FitsNotes DEF CodeOps
  <2>4. Fits(guiInbox', guiDaemon'.codes) BY <2>1, <2>2, <2>3, FitsJoined DEF Screens
  <2>5. Screens' BY <2>2, <2>4, ScreensNext DEF Screens
  <2>6. guiDaemon'.codes + Cardinality(Requests(guiCalls')) <= 2 * events' + guiClicks'
    BY <1>1, <2>2
  <2> QED BY <2>2, <2>5, <2>6, CountsNext DEF Tallies
<1>10. CASE UNCHANGED Bridge!vars
  <2>1. UNCHANGED <<guiDaemon, guiWindow, guiCalls, guiInbox, events, guiClicks>>
    BY <1>10 DEF Bridge!vars
  <2>2. Screens' BY <1>6, <2>1
  <2>3. guiDaemon'.codes + Cardinality(Requests(guiCalls')) <= 2 * events' + guiClicks'
    BY <1>1, <2>1
  <2> QED BY <2>1, <2>2, <2>3, CountsNext DEF Tallies
<1> QED BY <1>2, <1>3, <1>4, <1>5, <1>7, <1>8, <1>9, <1>10 DEF Bridge!Next

(* The records keep their shape, no code is shown or awaited that was not *)
(* made, and the daemon makes no more of them than its connections and the *)
(* user's requests account for (pairing-handler.ts, requestPairing). *)
THEOREM CodesAreMade == MaxEvents \in Nat /\ MaxGuiClicks \in Nat => (Bridge!Spec => []Bridge!TypeOK)
<1> SUFFICES ASSUME MaxEvents \in Nat, MaxGuiClicks \in Nat PROVE Bridge!Spec => []Bridge!TypeOK
  OBVIOUS
<1>1. Bridge!Init => ShellInv /\ Screens /\ Tallies
  <2> SUFFICES ASSUME Bridge!Init PROVE ShellInv /\ Screens /\ Tallies
    OBVIOUS
  <2>1. ShellInv BY ShellInit
  <2>2. /\ guiDaemon.code = 0 /\ guiDaemon.codes = 0 /\ guiWindow.code = 0 /\ guiCalls = <<>> /\ guiInbox = <<>>
        /\ events = 0 /\ guiClicks = 0
    BY DEF Bridge!Init, Bridge!NewWindow
  <2>3. Screens
    <3>1. Fits(<<>>, 0) BY FitsNotes
    <3> QED BY <2>2, <3>1 DEF Screens
  <2>4. Requests(<<>>) = {} /\ Cardinality(Requests(guiCalls)) = 0
    <3>1. Requests(<<>>) = {} BY DEF Requests
    <3> QED BY <2>2, <3>1, FS_EmptySet
  <2>5. Tallies BY <2>2, <2>4 DEF Tallies
  <2> QED BY <2>1, <2>3, <2>5
<1>2. ShellInv /\ Screens /\ Tallies /\ [Bridge!Next]_Bridge!vars => (ShellInv /\ Screens /\ Tallies)'
  BY ShellKeeps, CountsKept
<1>3. ShellInv /\ Screens /\ Tallies => Bridge!TypeOK
  <2> SUFFICES ASSUME ShellInv, Screens, Tallies PROVE Bridge!TypeOK
    OBVIOUS
  <2>1. /\ bridge \in Socks /\ guiDaemon \in Daemons /\ guiWindow \in Shown /\ guiCalls \in Seq(Ops)
    BY DEF ShellInv, ShellTypes
  <2>2. /\ events \in Nat /\ guiClicks \in Nat /\ events <= MaxEvents /\ guiClicks <= MaxGuiClicks
        /\ guiDaemon.codes + Cardinality(Requests(guiCalls)) <= 2 * events + guiClicks
        /\ Cardinality(Requests(guiCalls)) \in Nat /\ guiDaemon.codes \in Nat /\ guiDaemon.code \in Nat /\ guiWindow.code \in Nat
        /\ guiDaemon.code <= guiDaemon.codes /\ guiWindow.code <= guiDaemon.codes
    BY <2>1, RequestsAre DEF Tallies, Screens, Daemons, Shown
  <2>3. LET most == 0..(MaxEvents * 2 + MaxGuiClicks)
        IN  guiDaemon.codes \in most /\ guiDaemon.code \in most /\ guiWindow.code \in most
    BY <2>2
  <2> QED BY <2>1, <2>2, <2>3 DEF Bridge!TypeOK, Daemons, Shown, Socks
<1> QED BY <1>1, <1>2, <1>3, PTL DEF Bridge!Spec
====================
