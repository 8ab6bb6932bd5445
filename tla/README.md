# FossLink desktop: a TLA+ model of the daemon and its window

FossLink connects an Android phone and a desktop: messages, contacts, pictures and
files of the phone are shown, searched and sent from the desktop. The desktop side is
a daemon (`src/src`, TypeScript on one Node event loop), an Electron main process
(`src/gui/src/main`) that hosts it, and a Svelte renderer (`src/gui/src/renderer`).
The phone's side is not in this repository; the models treat it as the environment.

These modules describe the program's own logic: who is connected, which query is under
way, what is synced when, what the database ends up holding, what is sent and said of it,
and what the window makes of all this. They are translated from the TypeScript; the
documents under `src/docs` are only quoted where the code and they disagree.

Contents:

1. [The system](#1-the-system)
2. [What makes it hard](#2-what-makes-it-hard)
3. [Modules](#3-modules)
4. [Runs, bounds and fairness](#4-runs-bounds-and-fairness)
5. [What is proved](#5-what-is-proved)
6. [What the code does that its documents do not say](#6-what-the-code-does-that-its-documents-do-not-say)
7. [What is not modelled](#7-what-is-not-modelled)
8. [Plan](#8-plan)

To check: `tlc -workers 2 -config <run>.cfg <Module>.tla` with the module the run names in
`PROJECT.json`; to prove: `tlapm QueryClient_proofs.tla`, and the same for the seven other
modules that end in `_proofs`.

## 1. The system

| Part | State | Operations | Modules |
| --- | --- | --- | --- |
| WebSocket server (`network/ws-server.ts`) | `connections`, device to socket; ping and sleep timers | accept, identity, replace, ping, terminate, close | `LinkHealth`, `ConnectionLifecycle` |
| Discovery (`network/ws-discovery.ts`, `config/known-devices.ts`) | list of phones with their last sign, beacon timer, file of known devices | broadcast, listen, expire, connect request, save, forget | `Discovery`, `ConnectionLifecycle`, `Shell` |
| Pairing (`protocol/pairing-handler.ts`) | pending attempts with timers, trusted certificates on disk | request, confirm, reject, time out, unpair | `ConnectionLifecycle`, `Shell` |
| Daemon (`core/daemon.ts`, `state-machine.ts`) | application state, wired handlers, timers of reconnection, version check and file server | the callbacks of all the others, resync, unpair | `ConnectionLifecycle`, `VersionLock`, `WebdavMount`, `ContactMigration`, `Relays` |
| Query client (`sync/query-client.ts`) | active query, queue, timer | query, page, acknowledge, cancel, disconnect | `QueryLine`, `QueryClient` |
| Orchestrator (`sync/sync-orchestrator.ts`) | operation queue, flags, progress | connect, disconnect, drain, open or close a thread, pause, abort | `SyncOrchestrator` |
| Sync operations (`sync/operations/*`) | none of their own | thread list, full, quick, contacts | `MessageSync`, `Contacts` |
| Event handlers (`enhanced/event-handler.ts`, `sync/event-listener.ts`) | acknowledgements due, flagged threads | message, deletion, thread, media and watch events | `MessageSync`, `MessageStore`, `EventAcks` |
| SMS handler (`standard/sms-handler.ts`) | download queue, pending downloads, send queue | store messages, download, send, cancel | `AttachmentDownload`, `SendQueue`, `MessageStore` |
| Other handlers (`standard/*`, `packet-router.ts`) | contacts and notifications tables | vCards, notifications, battery, routing | `Contacts`, `Relays` |
| Gallery, files (`gallery/*`, `enhanced/filesystem-handler.ts`) | request tables with timers, thumbnail pool, cache | scan, thumbnail, list, read | `GalleryScan`, `ThumbnailPool`, `FileDownload` |
| WebDAV (`webdav/*`) | a running server, a conversation's attachment list | start, stop, the HTTP methods | `PhoneFiles`, `WebdavMount` |
| Export (`backup/*`) | the one run under way | start, cancel, two export loops | `Backup` |
| Database (`database/*`) | SQLite tables | synchronous statements | `MessageStore` and the modules of its users |
| IPC, command line (`ipc/*`, `src/bin/*`) | calls in flight, subscribers, pid file and socket | about a hundred methods, event forwarding | `CommandLine`, `PendingOperations` and the modules of what a method drives |
| Main process (`gui/src/main`) | the hosted daemon, batches, picked files, previews, update status | invoke, notify, draft, preview, update, mount | `Shell`, `Composer`, `LinkPreviews`, `Updater` |
| Renderer stores | reactive copies, optimistic entries | load, refresh, apply a notification | `MessageWindow`, `ConversationList`, `AttachmentStates`, `SendQueue`, `MessageRows` |
| Renderer components | selection, scroll position, drafts, popups | what the user clicks, types and scrolls | `ThreadLayout`, `Composer`, `FileDownload`, `VersionLock` |

Control flows from the socket up: the server parses a packet and hands it to the router;
the router calls one handler; the handler writes the database, settles a promise or
calls back into the daemon, which notifies the window. Requests flow down: an IPC method
calls the daemon or a handler, which sends a packet or queues one. Each process runs on one
event loop, so a handler runs to its end; what interleaves are the handlers themselves,
the timers, the continuations of `await`, and the messages between the processes.

What makes each part correct:

- *Query client*: a promise settles once, with all pages of its own answer or an
  error; nobody waits for ever; the phone's window of pages is neither leaked nor left
  open for a query nobody reads.
- *Orchestrator*: it always gets to `ready`, `ready` means done, nothing runs after a
  disconnection, an interrupted sync is resumed.
- *Connections and pairing*: state, wired socket, broadcasting, timers and the
  pairing page never contradict the table of connections and the trusted devices; a dead
  connection is dropped, a live one is not.
- *Messages*: nothing the phone has is removed, nothing is missing once things calm down,
  rows and files go together.
- *Sending*: a message gets one outcome, "sent" is true, an optimistic entry gives way to the
  real message and to nothing else.
- *Downloads, gallery, exports*: bounded pools never leak a place, every caller hears the
  outcome, a reported file is a whole file.
- *The user's choices and the phone's events*: none is forgotten between two connections.
- *The window*: a copy that is stale is about to be read again; what looks busy has
  something under way behind it; rows, badges, dates and drafts are those of the conversation.

## 2. What makes it hard

`PROJECT.json` lists each hazard at its line. In short:

- code that is suspended in a query while a handler changes the flags it reads next
  (`drainQueue`, `insertPriorityOp`, `onConnected`);
- answers and pages of something that was given up (timeout, abort, reconnect, resync
  on a live socket), which arrive while something else is under way;
- one slot for many callers (the batch callback of a scan, the pending contact migration, the
  active backup, the update status);
- a phone that reconnects before the loss of its old socket was noticed, or that vanishes
  without closing it, or while the desktop slept;
- timers that outlive their reason (pairing, reconnect, version check, WebDAV,
  download, send, retry, debounce);
- snapshots applied to a database that events have changed since;
- notifications that overtake the reply to the call they belong to, or are batched and lose what
  they were about;
- things that must survive being offline: unacknowledged events, pending operations, unsent
  messages; and things that must survive a kill between two statements.

## 3. Modules

Every action is one task of an event loop with everything it calls. Packets and notifications
stand in sequences; a promise that is awaited is an entry of its own. A module whose
subject spans processes (a store, the method it calls, the phone) has all of them, as the
hazards lie between them.

### QueryLine, QueryClient: the paged query protocol

`QueryLine` is the promise to callers: calls stand in one line, only the head is
served, it ends with its whole answer or an error, and a disconnection fails everybody.
`QueryClient` is `sync/query-client.ts` with the phone's query server and the two
channels as its environment, and implements it:
`Promised == INSTANCE QueryLine WITH line <- Line`, where `Line` is the active query
followed by the queue.

| Code | Model |
| --- | --- |
| `query`, `queryStreaming`, `dispatchQuery` | `Call`, `Dispatch` |
| `handleResultPage` | `HandleResultPage`, and `PageOfUnknownQuery` for a page of another query, which is dropped without an ACK |
| `resetInactivityTimer` and its expiry | `timer`, `Timeout` (cancel, reject, drain) |
| `abortActiveQuery` | `Abort` |
| `onDisconnected`, `setSendFunction` | `Disconnected`, `Connected` |
| `daemon.resync()` on a live socket | `Rewire`: the client forgets, the channel does not |
| the phone: window, credits, one walk for each query | `PhoneReceives`, `PhoneSendsPage`, `Window` |

A page is its number; `got` is the set of pages collected for the active query,
`receivedCount` the code's counter. `orphaned` is a history variable: the queries the
client forgot without sending a cancel.

### SyncOrchestrator: the operation queue and its loop

`drainQueue()` is an async loop. `pc` says where it is: `idle`, `await` (in a query), or
at a point where a microtask continues. Handlers run only when the loop is idle or in
`await`, so the interleavings are those of the event loop and no others.

| Code | Model |
| --- | --- |
| `onConnected`, `onDisconnected` | `Connect` (with the old connection still open when `Replaced`), `Disconnect` |
| `drainQueue` | `LoopTop`, `NextQuery`, `OpReturns`, `QueryRejected`, `OpDone` |
| `insertPriorityOp`, its 50 ms timer | `OpenThread`, `RequestThreadListResync`, `kicks`, `Kick` |
| `onThreadClosed`, `pause`, `resume`, `abortCurrent` | `CloseThread`, `Pause`, `Resume`, `AbortCurrent` |
| `runBatchMessageSync`, `queueBackgroundFullSyncs` | the operation `message_sync` with its list `todo` |
| event listener's flags | `MessageEvent`, `syncActive`, `flagged` |
| six days without a full sync | `Ages` |

It uses of the query client only what `QueryLine` promises.

### ConnectionLifecycle: connections, pairing and the daemon

Each action is one task of the event loop with every callback it runs: a phone
connects (`PhoneConnects`: `storeConnection`, the replacement of an older socket, the
daemon's `onConnection` with its paths for an unpaired, an incompatible and a paired
phone), a socket's close event (`SocketCloses`), pairing packets, the user's buttons,
timers, WebDAV and a restart. A socket is used once. `session` holds the application
state, the wired socket, the pipeline and broadcasting. `AddressBook` is what changes the file of
known devices at any time (a UDP broadcast, `devices.forget`). `lost` is a history variable:
devices that were paired and known when they last dropped. `Init` is the state after `start()`.

### LinkHealth, VersionLock: what ends a connection

`LinkHealth` is the server's table of sockets in time, in units of five seconds: the identity
that must come first, the ping timer with `alive` and `lastPongTime`, the sleep check that notices
a jump of the clock, and `forceReconnect` at the system's resume. `VersionLock` is the
comparison of versions (`compareSemver`, `checkVersionCompatibility`, three numbers
each) and the popup, whose context each disconnection clears.

### Discovery: how phones are found

The UDP service and what the daemon does with it, in units of five seconds: the beacon
(`StartBroadcasting`, `Broadcast`), the list (`AddDevice`, `CheckReachability`), the file of known
devices (`Saves`, `Removes`), and the calls to phones that left, paired or refused for their version
(`Disconnects` starts a timer, `Calls` is its callback). A start takes two steps, as connections are
accepted before the UDP socket listens (`Start`, `Listening`), and no time passes between them. A
phone may connect from any address, at any time, in place of its older connection. `devices.connect`
(`Ask`) is in progress at most once. History variables: `heard` (last sign of a phone),
`silence` (time since the desktop last sent it something), `gone` (phones that left while paired and
in the file), `removed` (phones the user took out of the file).

### MessageSync, MessageStore: what the database holds

`MessageSync` is the phone's messages against the desktop's tables. The channel is the
WebSocket in the order it was written; the phone takes its snapshot when it runs the query
and the operation gets it with the last page, so events sent between are applied first. A
message's date is the moment it came to exist, so `date <= queryTimestamp` reads
"existed at the snapshot". The pipeline has the stages of `SyncOrchestrator` with its queue as a set:

| Code | Model |
| --- | --- |
| `runBatchMessageSync` | `BatchStarts`, `AskBatch`, `BatchEnds` (with `queueBackgroundFullSyncs`) over the threads in `batch` |
| `insertPriorityOp` for an opened thread, a group message or `requestThreadListResync` | `InsertPriorityOp`: `interrupted` ends the batch for good, unless its timer comes first (`InterruptExpires`) |
| a query that times out, its `catch`, its late pages | `QueryFails`, `ReceiveLate` |
| the end of `drainQueue` | `QueueEnds` |

`missed` is history: the threads whose part of this session's batch failed or was dropped and that
have not been synced since. Left to `SyncOrchestrator`: threads closed during their priority sync, the debug
commands, replaced connections and resyncs.

`MessageStore` is one conversation at the grain of SQL statements: a handler is a program
(`Store`, `Delete`, `DeleteThread`, `SnapshotProgram`, `WipeFiles` then `WipeAllData`) of
statements that are durable one by one, and `Kill` may come between any two. What the
phone has not been told was handled comes again. `ThreadMedia` stores a row for each attachment of a
media list (`threads.media`, and `loadThreadFs` of the file server), whether its message is here or not;
`listed` is the history of those that came without.

### Contacts, ContactMigration, PendingOperations, EventAcks

`Contacts`: `contactSync` (list, merge, photos, in three steps with two awaits) beside the vCard
handler that writes the same rows; a sync of the console beside the pipeline's.
`ContactMigration`: the window's phases, the daemon's one slot `contactMigrationResolve` with its
timer, and answers that name no request. `PendingOperations`: hidden numbers and read marks,
sent at once or queued, and each synchronisation's flush and reload. `EventAcks`: three
handlers with their debounced `queueAck` and `flushAcks`, and a phone that keeps what is not
acknowledged.

### AttachmentDownload: attachments on demand

`downloadAttachment`, `processDownloadQueue` and the four ways a download ends. The
record `downloads` is the handler's own state (queue, flag, pending entries, timers) with
the requests on the wire; `processDownloadQueue` is a function of it, because
the code calls it from within `resolve`, `reject` and the timer. Answers come inline,
over a payload socket, malformed, late or never; a video goes through ffprobe, ffmpeg
and its thumbnail before its download settles, and the timer may fire meanwhile.

### Outbox, SendQueue: sending a message

`Outbox` is what the user is promised: a message is open until it gets one outcome, "sent" is
said only of what the phone sent, and a closed entry stays closed. `SendQueue` is the
renderer's store (`pending`, early statuses, ghost removal by time or by matching rows), the
daemon's queue with its two-minute timer and 500 ms flush, and the phone; it implements
`Outbox`. The date window of a match is a free choice (`cleared`, `matched`).

### GalleryScan, ThumbnailPool, FileDownload: the phone's pictures

`GalleryScan`: every writer of the one list of items (scan pages, scan reply, events,
media of a conversation, reset) and the query line a scan may wait in. A page carries one
photo. `ThumbnailPool`: the two pools, of the store and of the handler, and the cache behind
them. `FileDownload`: shared, abortable, prefetched downloads of the lightbox, read from the
phone part by part.

### PhoneFiles, WebdavMount: the phone as a drive

`PhoneFiles`: an HTTP request is a handler that asks the phone for one thing after another
(`After` is its continuation); a file is a sequence of chunks, and a chunk carries the number
of the request that wrote it, so a mixture shows. Attachments of a conversation are
read-only files that are loaded when they are first looked at. `WebdavMount`: servers that
start and stop asynchronously, one port, the ten-second timer, the settings panel and the
operating system's mount.

### Backup, CommandLine: long work and other processes

`Backup`: `pc` is the await the export is in, or the place of its loops; `Crash` leaves the folder
as it is. `CommandLine`: `xyzd` as a process with port, pid file and socket, taken in
`start()`'s order, given back in `stop()`'s, and a table of what each `xyz` command calls.

### Shell, Relays: what the window is told

`Shell`: the main process answers a call at once, replies and notifications arrive in order,
and the window computes the page it shows; `Serve` is a call's method, `Receive` a reply's or a
notification's handler. `Relays`: battery and notifications from the phone through router,
table and window, and the status line with its degradation timer.

### MessageWindow, ConversationList, AttachmentStates: copies in the window

Each store reads the database through a call that takes time, and learns that it must from
notifications that the main process batches for 100 ms and the store debounces. The
queues (`batch`, calls, notices) are variables, so a reply may be older than a notice that came
first.

### MessageRows, ThreadLayout, Composer, LinkPreviews, Updater: the panes

`MessageRows`: reactions that quote a message, hidden rows, badges, date separators, and entries
being sent; `about` is a ghost that says what a reaction was really made to. `ThreadLayout`:
rows with heights, the rendered window between two pads, messages being sent below them, the
two effects that scroll, frames and scroll events that come later. `Composer`: which pane holds which draft, and the main process's table of
picked files. `LinkPreviews`: fetches with a limit, the cache, and the preview of what is
being typed. `Updater`: one status for checks, downloads and installation.

### Composition

The modules meet at narrow points, each stated on the side that is relied upon:
`SyncOrchestrator` and `GalleryScan` rely on `EveryCallSettles` and the line of `QueryClient`;
`MessageSync` on the order of phases of `SyncOrchestrator`; everything with a wire on the
connect and disconnect callbacks of `ConnectionLifecycle`, which `LinkHealth` in turn feeds
with closed sockets; the window's modules on the handlers' notifications.

`MCWindow`, `MCServices` and `MCDesktop` instantiate modules that share no variable. `part`
says which one of them moves in a behaviour, and the rest stay in one initial state: the
union of their state spaces, not the product, which for independent parts would show
nothing more. Their constants are assumed to be what the parts ask for (`PartConstants`,
evaluated on every run), so what is proved of them holds for any values. Some modules come twice, with constants that make different things
interesting (`Dates` and `Badges`, `Fetcher` and `Line`, `Files` and `Attached`).

## 4. Runs, bounds and fairness

| Run | Shows | Bounds and why they do |
| --- | --- | --- |
| `query_client` | answers are complete, everyone who waits is awaited (nobody forgotten, first page's ten minutes), the window is kept (no walk for nobody, credits conserved), `QueryLine` implemented, every call settles | three calls, of two pages, one page and two pages; window 1: a stall needs one lost credit, an overlap two calls, a queue behind an overlap three |
| `query_stream_gap` | *violated*: a streaming call that was queued gets its pages | window 2 |
| `sync_pipeline` | the queue is sound (never stranded, `ready` means connected, one background sync each), the mark is earned; it gets ready, the batch finishes, flagged threads are resynced | two threads, two sessions, one request, one event, failing queries |
| `sync_hostile` | nothing runs after a disconnection | the same with closed threads, debug commands, replaced connections and resyncs |
| `sync_batch_lost` | *violated*: an interrupted batch resumes | one session suffices |
| `connection_one_phone` | the session is sound (whole, trusted is not pairing), calling is right (alone means calling, phones paired and known when they dropped are called, only the absent are); pairing ends | one phone, three sockets (one with an old version), two pairing attempts: a stale timer needs two attempts, a replacement two sockets |
| `message_sync` | nothing removed that the phone has; nothing missing and every message arrives, but for threads whose part of the batch was lost | one thread, two messages, one broken connection or failed query, one thread opened or list asked for: one message to be in a snapshot, one to be outside; an interrupt is one request, and two breaks (tried apart) show nothing else; that a lost thread costs no other one anything is left to the proof |
| `attachment_download` | one request at a time, the queue is served, owners settle | three calls, a picture and a video, one break: one in flight, one queued, one joined |
| `send_queue` | nothing is silently lost, the outbox's promise is kept, every send settles | two sends (a message and its retry, or two messages), of a text and a picture, one reconnection |
| `window` | what the database has and a pane lacks is on its way; what a pane shows is true; what looks busy is | see below |
| `services` | nothing that must yet be done is forgotten; what is reported done is done; a cancelled export copies no more | see below |
| `desktop` | the window's picture catches up; the list of phones is what was heard, and phones that left are called; what waits is ended; sockets, daemons and file servers end when they should; a user who stays on all photos sees some | see below |

Bounds of the parts (`Max...` constants bound counters in the guards, so that a bound is never
an event; the others are sizes of sets):

| Part | Bounds |
| --- | --- |
| `MessageWindow` | two threads, three messages; two each of news, clicks, notices outstanding and loads: a load that is overtaken needs two |
| `ConversationList` | two threads, two messages, two clicks |
| `AttachmentStates` | one attachment in each of two conversations, one retry, two calls and two troubles: a call outlives its conversation and meets another |
| `MessageRows` | `Dates`: four rows of one text over four moments, two being sent, a gap of two moments and days of three; `Badges`: five rows, two texts quoted by one beginning, one reaction, one being sent |
| `ThreadLayout` | four rows of height 1 or 3 in a view of 2 with a buffer of 1; two changes (a message, a page, one being sent), two clicks |
| `Composer` | three files against limits of two and of total size two, three clicks, one pick outstanding |
| `LinkPreviews` | three calls against a limit of one fetch; for the line being typed one call and three edits |
| `Backup` | two conversations of one name, one with two attachments; two media files of one path; two runs, two views |
| `PhoneFiles` | `Files`: two files, two chunks, two requests, one lost connection; `Attached`: one file and one attachment |
| `Contacts` | two people, two changes, two syncs, one request for vCards |
| `ContactMigration`, `EventAcks`, `PendingOperations` | four calls; two events and two cuts; three choices and two faults |
| `MessageStore` | two messages, three events, one kill |
| `Shell`, `Updater`, `VersionLock`, `Relays` | a bound each on what the phone does, what the user clicks and what is on its way, between two and five |
| `LinkHealth` | two sockets of one phone, one sleep of 25 units, longer than every threshold |
| `Discovery` | two phones, two addresses, lost after two units; two turns of the phones and the user after whatever files an earlier run left, one start: an entry can expire, a timer can ring twice, and two phones can meet |
| `CommandLine` | three daemons, one after the other or at once; commands of every kind, one at a time |
| `WebdavMount` | three servers |
| `GalleryScan` | two photos (one of the camera, one screenshot), two queries in line, two messages on their way, two troubles |
| `ThumbnailPool`, `FileDownload` | a pool of one with three requests; two files in two parts, two calls |

`CHECK_DEADLOCK FALSE` stands where a behaviour may stop for good: every call made and
settled, all sessions used, all messages created, all bounds reached.
`MCSymmetry` is used in `window` and `services`, which have no liveness property: the two
threads, and the two files or people, appear in no constant that tells them apart.

Fairness, and why the code has it:

- `QueryClient`: weak fairness of the timer, of `HandleResultPage` and of
  `PageOfUnknownQuery`. A Node timer that is not cleared fires, and a packet that has
  arrived is dispatched. None for the phone or the link: `EveryCallSettles` holds
  without an answer, because of the inactivity timer.
- `SyncOrchestrator`: microtasks run; a query ends (what `QueryClient` guarantees);
  the 50 ms timer fires. None for connections or the user.
- `ConnectionLifecycle`: a running pairing timer fires; a socket that is closing closes.
- `MessageSync`: received packets are handled, the loop goes on, the phone answers a
  query; the last is the environment's part, and a broken connection replaces it.
- `AttachmentDownload`: the timer of the item in flight fires unless cleared. None for
  answers, sockets or ffmpeg.
- `SendQueue`: a call on the local IPC is answered and its reply and notifications are
  delivered, the two-minute timer and the removal timer fire. None for the phone, whose answer
  the timer replaces, or for the link.
- `GalleryScan`: messages are delivered, the five-second interval fires, and a query of a connected
  phone is answered, which is the environment's part; failures are bounded.

The other parts have safety properties only. Many of them are of the form "what is wrong is about
to be put right": a state of waiting has a cause under way. They are stronger than the
liveness property they stand for, as they need no fairness.

Each property of a passing run has a mutant: a plausible bug in one definition under
which the run fails. A property that is a conjunction over parts has one for each of its
conjuncts as far as possible. Those operators stand right before the definition they mutate and
are used nowhere else.

## 5. What is proved

`QueryClient_proofs` proves, for any set of calls, any number of pages, any window and
any set of abortable calls:

| Theorem | Statement |
| --- | --- |
| `TypeCorrect` | `Spec => []TypeOK` |
| `NobodyIsForgotten` | `Spec => []NobodyForgotten` |
| `AnswersAreComplete` | `Spec => []ResolvedIsComplete` |
| `ClientServesALine` | the safety part of the refinement: `Spec` implies `QueryLine`'s `SafeSpec` |
| `PromisesSettleOnce` | `Spec => SettledForGood` |
| `FirstPageIsAwaited` | `Spec => []FirstPageHasItsBudget` |
| `EveryoneStaysAwaited` | `Spec => []EveryoneIsAwaited`, the conjunction of the second and the sixth that the run checks |
| `WindowStaysKept` | `Spec => []WindowIsKept`: nobody is walked for in vain, no credit of the window is lost |

The assumption is the module's own on its constants (page counts are positive, `None` is no
query, and so on).

The argument. `LineInv` collects the types, split into Boolean flags and data as the
two are proved by different backends, the coupling of `active`, `queue` and `timer`, and
`LineOK`: the line has no duplicates and is exactly the set of waiting calls. Every
step of the client is then one of five moves of the line (`LineStep`: stay, append or refuse,
answer the head, fail the head, fail all), which gives `NobodyForgotten`, the refinement and
`SettledForGood` at once.

Completeness needs to know what is in the channel. `receivedCount` counts pages and
nothing in the code compares page numbers, so completeness rests on the phone and the link:
`Delivery` says that the pages of the active query in the channel are in order
(`Ordered`), ahead of what was counted (`Ahead`), without a gap (`NoGap`), that the phone has
sent at least what was counted (`Counted`), that a call not yet dispatched has no page
anywhere (`Untouched`), that a dead link is empty (`DeadLink`), and so that `got` is
`1..receivedCount` (`GotPrefix`). Without `Untouched`, a call that becomes active could find
old pages of its own; without `DeadLink`, a reconnection could.

The window needs `Oversight` besides. A query is sent once and before the phone works for it
(`SentOnce`), the phone has not heard of a call that was not dispatched (`Unspoken`), and whoever
the phone works for, or will once the packets under way are read, is in progress, orphaned by a
resync, or has its cancellation behind it (`Overseen`); `Pending` is the case in between, a query that
travels with no cancellation behind it. `CreditsConserved` is then an equation between counters and
numbers of packets in two sequences, kept by lemmas on what appending and taking the head do to such
a number (`CountAppend`, `CountTail`).

`AttachmentDownload_proofs` proves, for any callers, attachments and breaks:

| Theorem | Statement |
| --- | --- |
| `OneAtATime` | `Spec => []OneRequestAtATime` |
| `NoLostWakeUp` | `Spec => []QueueIsServed` |
| `TypeCorrect` | `Spec => []TypeOK`: with the types, no more requests, payload sockets or ffmpeg processes for an attachment than calls |

Its invariant `Inv` is the type of the handler's state (`Downloads`, which says nothing of
what is on the wire but that counts are natural numbers) with the two properties themselves. All the ways a
download ends clear the same three things (`ClearedIsNone`) and then look at the queue
(`ProcessKeepsOne`), so each action is one of three cases: a settled download, a longer queue, or
nothing of the handler's touched. That the timer's `has(pendingKey)` check suffices without looking
at whose entry it is follows from `OneOpen`: the only timer is the entry's own.

The bounds of `TypeOK` are not obvious, as late answers are served like others and the timer lets the next
request out while the work of the last one goes on. `Account` keeps the books: a caller is in the queue once, for
what it asked (`Consistent`), and what an attachment has on the wire, in sockets and in ffmpeg
processes of all stages together is at most the number of its callers whose item has left the queue
(`Covered`). A request goes out only with an item, which makes one more caller `Heard`; an answer turns
a request into a socket or a process, a payload that ends turns a socket into a process, and a process passes
on to the next stage or ends.

The same module holds four parts of the window's side, for any constants that fit:

| Theorem | Statement |
| --- | --- |
| `SpinnersAreCaused` | `AttachmentStates`: `AttachmentConstants => (Spec => [](TypeOK /\ SpinnersHaveACause))` |
| `PreviewsStaySound` | `LinkPreviews`: `LinkConstants => (Spec => [](TypeOK /\ PreviewsAreSound))` |
| `RelaysStayTrue` | `Relays`: `RelayConstants => (Spec => [](TypeOK /\ RelaysAreTrue))` |
| `WindowStaysTrue` | `Shell`: `Spec => []WindowCatchesUp` |
| `CodesAreMade` | `Shell`: `Spec => []TypeOK`, if events and clicks are bounded by numbers |

*Spinners*: the property with its types is inductive. *Previews*: the fetcher's queue holds the calls that
wait, each once, and its counter is the number of those that fetch. *Relays*: of the packets of a kind only the last counts (`LastIn`):
it tells what the phone has, or there is none and the copy is right. *Shell*: of each copy, the same of the last message that sets
it, or an answer is asked for that will come behind what is on its way (`StateCopied`, `FoundCopied`, `PairCopied`);
the numbers of `TypeOK` hold as each code made and each request waiting has its event or click
(`Tallies`).

`MessageSync_proofs` proves, for any messages, threads, failing queries, breaks, opened threads and interrupts:

| Theorem | Statement |
| --- | --- |
| `TypeCorrect` | `Spec => []TypeOK` |
| `NoneRemovedWrongly` | `Spec => OnlyDeletedIsRemoved` |
| `SettledIsComplete` | `Spec => []NothingMissing` |

Neither property is inductive: both depend on what is on the wire. `Types` says that an answer is on
the wire once, exactly when the phone has sent the last page of the query in progress. `Truth` says
that what is on its way may be acted upon whenever it arrives: a deletion names what the phone no
longer has (`DeletedIsGone`), all the desktop will have of a deleted thread by the time its deletion
is read is gone too, what precedes it on the wire included (`ThreadIsGone`), and the snapshot of a full
sync has everything that existed then and still exists (`SnapshotIsTrue`). From these
follows `RemovedIsGone`, the first property. `Noted` says where a message of a fully synced thread is
that the desktop lacks: announced on the wire, to be asked for (before the batch has its threads, among
those it still has to do, or in the queue), in the answer of a quick sync, or in a thread of `missed` (`MissingIsNoted`). For that answer to have it, the
desktop must have what the quick sync's date leaves out (`CoveredIsHere`); for the next full
sync, what is younger than its snapshot must be announced (`YoungerIsAnnounced`). A settled
pipeline has only the last of these places, hence the second property.

The same module proves of `MessageStore`, for any finite set of messages (`StoreConstants`) and any
number of events and kills:

| Theorem | Statement |
| --- | --- |
| `RowsStayWhole` | `StoreConstants => (Spec => []RowsAreWhole)` |
| `StoreTypesHold` | `StoreConstants => (Spec => []TypeOK)` |

A process may be killed between any two statements, so the invariant is about the
statements that are left. Each has its predecessor before it (`UnderWay`: an attachment follows its
message, the rows of a conversation go after their attachments), and a reason (`Grounded`): what is
written is wanted, or is on its way to be deleted; the flag "synchronised" comes last. `IsSettled` says
that no full synchronisation to come will complete a message; a settled message without its
attachment has its event to come, or the statement for it is left and its event is still kept
(`Owed`), as acknowledgements leave only between programs. A row without its message is of a media list (`listed`). An event that deletes the conversation
stands before those of the messages that came later (`Foretold`). The rows of a snapshot and the
statements for all messages are sequences given by their index (`RowsOf`, `ForEach`): of a
concatenation by recursion nothing could be proved.

It also proves of `Contacts`, one of the pipeline's operations, for any people and any number of
synchronisations, vCard requests and changes on the phone:

| Theorem | Statement |
| --- | --- |
| `PhotosStayBehind` | `Spec => []PhotoIsNotAhead` |
| `SyncedStaysSame` | `Spec => []SyncedIsSame` |
| `PeopleTypesHold` | `ContactConstants => (Spec => []TypeOK)` |

`PeopleInv` says what answers may find when they arrive. A synchronisation has one list or one photo query
on its way, in one of the two directions (`Travels`). A photo that a person has now is no older than any the
phone has told of (`Numbers`), so a row whose hash is the present photo's has that photo on disk, and
is rightly left out of the photo query (`NotNeeded`). A synchronisation whose list is the phone's
present one has it on the way, or has the people under their names with each photo there or on the way,
and everything that travels then is present too (`Present`): so a vCard or the answer to another
synchronisation that comes between brings nothing older. After a change on the phone nothing is claimed.

`SyncOrchestrator_proofs` proves, for any conversations and any number of sessions, requests and events:

| Theorem | Statement |
| --- | --- |
| `TypeCorrect` | `Spec => []TypeOK`, for every value of the Boolean constants |
| `SilentWhenAway` | `Spec => []DisconnectedIsQuiet`, for every value of the Boolean constants |
| `InterruptsResume` | `~ThreadsClose /\ ~Aborts => (Spec => []NeverStranded)` |
| `ReadyIsConnected` | `~Resyncs => (Spec => []ReadyMeansConnected)` |
| `OneBackgroundSync` | `~Replaced /\ ~Resyncs => (Spec => []OneBackgroundSyncEach)` |
| `SoundQueue` | `~ThreadsClose /\ ~Aborts /\ ~Replaced /\ ~Resyncs => (Spec => []QueueIsSound)`, the three before together |
| `EarnedMark` | `~Replaced /\ ~Resyncs => (Spec => MarkIsEarned)` |

`Silent` adds to the second that a loop which has not noticed the disconnection has its abort flag up,
so that it ends without queueing; `AbortHasTimer`, to the fourth, that whoever asks the running
operation to abort has set a timer. The hypotheses are what `sync_pipeline` assumes; section 6
says what happens without them. They are not needed for convenience: after a replaced connection or
a resync an operation of the older session goes on beside the new one, and queues and
marks for it.

`TypeOK` says which operations a queue may hold, and so depends on what `queue.filter()` leaves
when a thread is opened. `Filtered` builds that sequence from the places that are kept, the n-th of them
being the one with n kept places up to it (`Rank`). That there is exactly one, and that order is
kept, follows from cardinalities (`RankIsPlace`, `FilterKeepsOrder`): no induction over the queue,
which is out of this prover's reach, is needed.

One background sync each is not inductive: nothing in the code looks for a duplicate before it queues one.
It holds because there is one batch. `OnlyOneBatch` says that a batch that is queued stands before every count
verification and excludes background syncs in the queue (`Ahead`), that a batch that runs excludes
batches and background syncs, and that a verification that runs excludes a batch; opening a thread and
inserting priority operations are `Tame`, they preserve all of it. The mark is earned as every operation,
queued or running, is of this session (`OfThisSession`), and a disconnection empties the queue.

`ConnectionLifecycle_proofs` proves, for any number of phones, connections and pairing attempts:

| Theorem | Statement |
| --- | --- |
| `TypeCorrect` | `Spec => []TypeOK`: with the types, one entry per phone in the server's table and none of a closed socket |
| `CallsGoToTheAbsent` | `Spec => []CallingIsRight` |
| `TrustEndsPairing` | `Spec => []TrustedIsNotPairing` |
| `OnePhoneHasItsSession` | `OnePhone => (Spec => []SessionIsSound)` |

Only a connection and a closing socket change the table; a restart empties it, and every other action
at most closes sockets (`OthersSameTable`), so the proofs look at these apart from the rest
(`NextIs`). A replaced connection leaves the table before its close event arrives (`Deleted`), which then
finds nothing to delete: that a table has one entry per phone is what makes the lookup by socket and the
lookup by device the same. `OnePhone` says that there is one device, as section 6 shows the code
to fail with two: the first one's session ends with the second one's.
`SessionIsWhole` is then inductive with `TrustedIsNotPairing`, which keeps a pairing's timeout or
rejection from moving the state of a session that stands.

The same module proves of `PhoneFiles`, for any files, sizes and requests (`FileConstants`: no path is both a
file of the phone and an attachment, and an attachment has a chunk):

| Theorem | Statement |
| --- | --- |
| `FilesTruth` | `FileConstants => (Spec => []LastAnswerIsTrue)` |
| `FilesTyped` | `FileConstants => (Spec => []TypeOK)` |

Of a request that runs alone, `LastIsTrue` says where it stands: one message of it is on its way, which asks
for its next step (`Asking`), or the answer to that, behind those to requests that ended by timeout (`Answering`); what
it has written or read so far is the first pieces of the body (`Before`); and if it succeeded, its claim is true
(`Claims`). Answers are told apart by request and step, so a late one matches nothing.

`SendQueue_proofs` proves, for any number of messages, contents and connections:

| Theorem | Statement |
| --- | --- |
| `TypeCorrect` | `Spec => []TypeOK` |
| `NothingIsLost` | `Spec => []NothingSilentlyLost` |
| `KeepsItsPromise` | `Spec => OutboxIsKept`: the refinement of `Outbox`, and `GoneStaysGone` |

Its invariant is `Types`, a `Course` for each message, `RowsAreSent` (the rows of the
conversation are messages the phone has sent) and the second property. `Course` says that a status is on
one stage of its way only: the daemon's queue, the notification, the status kept for the reply, the
entry. Without that an entry could be told "sent" and then "failed", and `Outbox` takes no outcome back.
It also says that "sent" is under way only for what the phone has sent, that the daemon has nothing of a
message whose call is not answered or was refused (`Unheard`), and that a timer that removes an
entry is set for one that was sent. Under the mapping `Stages` each action is then a `Submit`, a `Deliver`,
a `Report`, a `Close` or a stutter. `GoneStaysGone` follows from the code's queue having no duplicates,
as a flush sends the entries of the queue once each.

The same module proves of `ConversationList`, for any conversations, messages and clicks, `ListStaysHeard`
(`ListConstants => (Spec => [](TypeOK /\ StaleIsNoticed))`) and `FlashingEnds` (`ListConstants => (Spec => []FlashEnds)`).
`Noticed`: the list's copy is fresh, or a batch, a notification, a timer or a call is under way that has it read. `Quiet`: in a window that has the focus, flashing stops by a call
that no call behind it starts again (`Stops`).

`Desktop_proofs` proves all that the run `desktop` checks except liveness, of `MCDesktop` as a whole:

| Theorem | Statement |
| --- | --- |
| `DesktopTypes` | `Spec => []TypeOK` |
| `CopiesStayTrue` | `Spec => []CopiesCatchUp` |
| `WaitsHaveAnEnd` | `Spec => []WaitsEnd` |
| `ServersStaySound` | `Spec => ServersAreSound`, its action property included |

The argument. `part` never changes and the others stay as they are (`OwnSteps`), so a behaviour is one
of a single part (`PartRuns`), and each statement holds if it holds of each part under
`PartConstants`. The proofs on `Relays` and `Shell` are taken from `AttachmentDownload_proofs`,
instantiated as `Heard`; that its definitions are those `MCDesktop` has is proved one by one
(`StatusSame`, `BridgeSame`), as the prover does not see it. The others stand in the module:

| Theorem | Part and statement |
| --- | --- |
| `DeadLeave`, `SleepersAreLeft`, `LinkTypesHold` | `LinkHealth`: `[]DeadAreDropped`, `SleepersAreNotPinged`, `[]TypeOK` |
| `ListStaysTrue`, `NobodyStaysAlone`, `FindTypesHold` | `Discovery`: `[]ListIsTrue`, `[]NobodyIsLeftAlone`, `[]TypeOK` |
| `UpdatesStaySound` | `Updater`: `[](TypeOK /\ UpdatesAreSound)` |
| `LockHolds`, `LockTypesHold` | `VersionLock`: `[]LockIsTrue`, `[]TypeOK` |
| `DaemonsStayApart` | `CommandLine`: `[](TypeOK /\ OneDaemonServes /\ CommandsAreHonest)` |
| `ServersFollowPhone` | `WebdavMount`: `[](TypeOK /\ ServedWithPhone)` |
| `ScansStayLive` | `GalleryScan`: `[](TypeOK /\ ScanningEnds)` |
| `PoolsStayServed` | `ThumbnailPool`: `[](TypeOK /\ PoolsAreServed)` |
| `SpinnersStayLive` | `FileDownload`: `[](TypeOK /\ SpinnersAreLive)` |

*Sockets*: the invariant bounds the time a phone has been gone by the time to the next ping (`Bound`): the
first ping after it has gone takes its socket off the list of those that answered, the second terminates it.
*Discovery*: the age of an entry plus the time to the next check is at most one unit more than
the limit (`SignsListed`), which is what makes the list true between checks. Silence plus the time to
the next broadcast is at most one unit while the beacon runs (`Lit`), and silence plus the time to the
next call is at most the timer's interval and one unit for a phone that left (`Called`); a
phone that is connected has neither a timer nor a place in `gone`.

*Updates* (`UpdateInv`): the last notification under way carries the status. *Versions* (`LockInv`): what
the window will have seen when it has heard everything (`Latest`) warns exactly as the last connection was
refused, though each disconnection clears the context, as the refusal is noted beside it (`Noted`).
*Processes* (`ProcessInv`): the phase of a daemon says whether it holds the port, the pid file and the socket, and the
calls that a command no longer waits for were run. *Servers* (`MountInv`): they share a port, so one listens at most, and it has its
timer while the phone is away unless it began alone. *Scans* (`ScanInv`): a store that scans has its query in line or
its reply on the wire (`UnderWay`); a batch is that of a scan in line; without a connection the line is empty.
*Pools* (`PoolInv`): the handler's counter is the number of requests at the phone and its queue those that wait, each
once (`Counted`); none waits while a place is free (`Crowded`). *Downloads* (`FullInv`): what stands in the map is the
download of its file, under way and not cancelled, and each spinner has such a download.

`Services_proofs` does the same for `MCServices`:

| Theorem | Statement |
| --- | --- |
| `ServiceTypes` | `Spec => []TypeOK` |
| `NothingStaysForgotten` | `Spec => []NothingIsForgotten` |
| `CopiesStayTrue` | `Spec => CopiesAreTrue`, its action property included |

`PhoneFiles`, without and with attachments, comes from `ConnectionLifecycle_proofs` (`Disk` and `Shelf`), `MessageStore` and
`Contacts` from `MessageSync_proofs` (`Kept`). In the module stand, besides the types of each:

| Theorem | Part and statement |
| --- | --- |
| `EventsStayAcked` | `EventAcks`: `[]EventsAreAcked` |
| `ChoicesAreKept` | `PendingOperations`: `[]NoChoiceIsForgotten` |
| `WaitersAreHeard` | `ContactMigration`: `[]WaiterIsHeard` |
| `ExportsAreHonest`, `CancelIsHeeded`, `RunningStaysLive` | `Backup`: `[]SummaryIsHonest`, `CancelStopsCopies`, `[]RunningIsLive` |

The assumptions are that versions are triples of numbers (`VersionConstants`), and of exports
(`BackupConstants`) that the phone lists finitely many conversations and files, that `None` is no slot, that no
attachment has the file name of its conversation's text (the code builds it from date and
part), and that no media file is empty, as a partial one would look whole; of the others
that bounds are numbers, that servers, calls and releases are numbered in the order they are made, and
that `None` (`Nothing`) is none of the values it stands beside. TLC evaluates all of them.

*Events* (`EventInv`). The phone forgets what it reads an acknowledgement of, so an acknowledgement on
the wire or in the pending set may name applied events only (`AckedIsApplied`), and an event it keeps
is on the wire, will be sent on a subscription that travels (`AllTravel`, `Subscribes`), or is in a
pending set with its timer set. *Choices* (`ChoiceInv`, `OneSync`). A row leaves the table when the
phone's answer to it is read; that this answer was to the row the list of the synchronisation has next holds as
there is one message of the synchronisation on its way at most, and of the kind it waits for.
A flush sends the rows in the order of their making: that a finite set of them has one ascending
listing (`HasAscending`) comes from the smallest set without one, and so from the well-foundedness of
strict inclusion on finite sets that the library proves, since induction is out of reach. *Migration*
(`MigrationInv`): one timer, that of the slot.

*Exports* (`ExportInv`). `FolderOK` says of everything in the folder, by whatever earlier exports, that
attachments and media stand under names of their own; `Progress`, that while there was no error all that lies
behind the export is whole. It needs `Named`: two conversations of one name get two directories. That
`disambiguate` finds a free name is the pigeonhole principle (`NameIsNew`): fewer
conversations have names than there are. An export that was cancelled and told so does nothing to
attachments and media but may still write a text (`AbortedWritesText`), hence the second theorem.
For the third, `TalkInv` adds `StartsGoOn`: a reply that says "started" is followed, in the slot or behind it on
the way to the window, by that export or its last notification. A reply that overtook
the notification of its own export's end would leave the window running for good.

Model-checked only. First, liveness, which is out of this prover's reach (`EveryCallSettles`,
`PipelineSettles`, `PairingEnds`, `EveryMessageArrives`, `OwnersSettle`, `EverySendSettles`,
`NeverLeftEmpty`, and the fairness within `PromiseSpec`). Then `SessionIsWhole` for more than one
phone, which is false. And of `MCWindow`, `PaneIsTrue` and what `TypeOK` and `NewsIsNoticed` say of
`MessageWindow`, `MessageRows`, `ThreadLayout` and `Composer`: their lists are sorted, filtered and summed
(`SetToSortSeq`, `SelectSeq`, folds), which the prover does not see through. All other conjuncts of `MCWindow`'s
properties, and so all of `SignsHaveACause`, are proved part by part
(`ConversationList` in `SendQueue_proofs`, `AttachmentStates` and `LinkPreviews` in `AttachmentDownload_proofs`).

## 6. What the code does that its documents do not say

Two runs end in a violation; each is a finding in `PROJECT.json` with its source line and
the line it contradicts:

1. A streaming query that must queue loses its page callback (`query_stream_gap`).
2. Opening a thread during the message batch ends the batch for good (`sync_batch_lost`).

Others are stated in the modules but belong to no run; TLC finds each violated within
the bounds of section 4 when it is put into a configuration of its module:

| Statement | What happens instead |
| --- | --- |
| `ConnectionLifecycle.StopsBroadcasting` (two phones: `MCTwoPhones`) | a second phone that leaves takes the first one's session down |
| `ConnectionLifecycle.ReconnectOnlyToPaired` | a phone unpaired while away is still called |
| `MessageSync.ListedThreads` (two conversations, one message in each) | a thread born while the list is under way loses its row (`PROTOCOL_1_3_REVISIONS.md:163`) |
| `AttachmentDownload.WaitersAreHeld` | a caller that joins a download is forgotten by its timer |
| `ThumbnailPool.UrlsLeadToFiles` | the main process remembers a path that the cache has evicted |
| `ConversationList.MarkedIsOnScreen` | a conversation that was left for the gallery or the compose view is marked read |
| `PhoneFiles.MediaIsServed` | an attachment that was never downloaded is served empty |
| `Shell.CodeIsShown` | a code notified before the window listens is lost |
| `Composer.DraftsAreOwn` | text and files stay when another conversation is opened |
| `WebdavMount.AloneIsTimed` | a server started while the phone is away has no timer |
| `MessageRows.ReactionIsShown` | a reaction made here is not drawn before its row comes back |
| `ThreadLayout.FollowersSeeTheEnd` | another conversation, of as many rows as the one in which the user had scrolled up, does not go to its end ("Auto-scroll to bottom on load", `MessageThread.svelte:638`) |
| `ThreadLayout.RowsOnScreen` | opening A, B and A again before B is loaded leaves a blank pane |
| `Relays.BatteryIsShown` | after a reconnection at the same charge no battery is shown |
| `CommandLine.CommandsAreServed` | `xyz sync` and `xyz storage` call methods that are not registered |

Other behaviour met on the way:

*Orchestrator.* A thread opened during a sync waits while the batch goes on, once the
50 ms timer has reset `aborted` before the loop reads it (`sync-orchestrator.ts:410`).
`onThreadClosed` sets `aborted` without a timer, so the loop can stop with operations queued:
with `ThreadsClose` TRUE, `PipelineSettles` fails. After a replaced connection the old batch
continues on the new one. The progress counter can pass its total. A resync without a
phone runs through to `ready`, each query failing at once. The batch has the same filter on
first sync as later, whatever `PROTOCOL_1_3_REVISIONS.md` says of "all threads".
`SyncOrchestrator.resync()` has no caller. The document's "no query timeouts" are ten minutes
and thirty seconds in the code.

*Connections.* The timer of a pairing attempt whose connection dropped ends the
next attempt of the same device early. Cancelling on the pairing page unpairs but leaves the
pending attempt, so a confirmation that is under way still pairs. Each `pair.request`
leaves a connection callback behind, and two draw two codes; `devices.connect` is answered by
the first connection of any phone, and saves the address that was typed for it. Resync wires the first connection of the table, paired or not.
The states SYNCING, READY and ERROR are never entered. A connection made right after a wake is
ended by the sleep check. A phone whose version is refused is disconnected at once, so "update
companion" can hardly reach it, and its popup stays when it has been upgraded. A phone that is
connected drops out of the list of discovered devices after two minutes without a datagram. The
beacon stays on beside a phone that connected before the UDP socket listened. The timer that calls a
phone keeps the address it had when it was started, so a phone that has moved is called at the old
one. A phone that is saved as known only while it is away (`onDeviceFound` from a datagram) gets no
timer until it has connected and dropped again; one that is forgotten while away is called all the same.

*Messages.* A thread whose query fails in the batch, or that an interrupted batch drops, lacks what is new
until it is opened or the next connection, though the state is `ready`. Attachments have no foreign key:
a media list stores rows of messages that are not here, and these stay when their conversation is deleted.
A deletion that is applied while an older snapshot is under way is undone
by it: the message stays until the thread's next full sync. Likewise a deleted thread's row
comes back with an older list. The listener's "new thread" branch never runs, because the handler
before it has created the row. Full and list syncs remove rows but no files; a download that
ends after the deletion leaves a file without a row; a kill between the two wipes of an
unpairing leaves the old rows.

*Downloads.* Two calls for one attachment behind another both queue; the second asks for
what the first got, its answer matches no undownloaded row, and it fails by timeout with
the file on disk (`Enqueue` twice, `Unmatched`, `Timeout`). A downloaded file removed from disk can be
asked for again but never matched, so that call always times out. Two payload sockets of one
attachment write the same file, and the one that fails unlinks what the other completed. A call
made while a video is transcoded gets the path of the original, which is removed at the end. In the
window, the same visible range asks for nothing again, a late failure of a duplicate call
overwrites "ready", and `retryPendingDownloads` calls twice.

*Sending.* The flush sends again what is unanswered; a new message overtakes the gaps of the
flush; a cancel before the reply reaches only the window; early statuses of unknown sends are
kept for good; a failed message that has the text of a sent one within the date window is
taken for it; the compose view offers no action for a failed message; opening the thread drops
entries that are pending; unpairing leaves the daemon's queue.

*Gallery.* Scans share one list of seen paths and one callback, so one's end prunes what the other
has seen; a scan pruned a photo announced meanwhile; scans longer than five seconds can follow one
another without end; a conversation's media mix with the pages of a scan; two requests may each
start a download of one photo. `reset` zeroes the count of requests that are still out. The cache's
index is emptied at each disconnection, which leaves files it does not know. Thumbnails that
failed with the connection stay failed. A video that failed goes on loading in the lightbox, and a
download that ends opens it again.

*WebDAV.* A GET that fails halfway ends with the text of the error in the body; COPY onto itself
loses all but a chunk; COPY of a directory makes an empty one; locks lock nothing; a
conversation's attachment list is never read again. Two starts that overlap lose the first
server; a stop while it binds does so too. In the embedded daemon nobody is told that the server
has stopped.

*Export.* A window closed while the export starts cannot cancel it. A cancel within the
attachments still writes the conversation, and one during the last item ends as `complete`; a
cancelled run asks nothing, although BACKUP_FEATURE.md speaks of a dialog to delete
it. Files of one name in two folders are flattened onto one path.

*Contacts and choices.* A photo removed on the phone stays; a photo that came as a vCard is fetched
again. An answer to an earlier scan ends a later migration as complete. An older queued choice can
overtake a newer one; a refused one blocks the queue; a wipe drops what is queued; a choice made
while the application quits is lost. `read.list` marks with the desktop's time.

*Window.* A batched deletion names no conversation, so the message stays on the screen; a deleted
conversation stays selected. Paging stops early. `isThreadDataUnchanged` compares length and three
rows. A batch over several conversations neither notifies nor marks. A start of the daemon that
fails leaves "Starting..." for good, an error of pairing is not cleared by a later
success, and "accept" does nothing. Files beyond the limit of a message are dropped but never
given back; leaving the pane leaks them too. Only the wait for a page's head is timed: three
endless pages end all previews. "Installing" may be overwritten by a check, and the installer's
download has no timeout. Notifications dismissed while away stay. A charge that is remembered is
that of the phone before.

*Scrolling and reactions.* `PaneIsTrue` excepts two openings: a conversation of as many rows as the effect
counted last, after its user had scrolled up, does not go to its end; one that is left and opened
again before another was loaded stays where it was. A scroll between a change and its frame is taken back. A removal takes the first badge of
its emoji, whosever it is; a reaction to a repeated text goes to the latest; a reaction whose target is
not loaded is shown as a message.

*Processes.* A second signal leaves the pid file and the socket; a reused process number keeps the daemon
from starting; a command whose daemon stops may wait out its time; some handlers wait longer than
their client; `xyz logs` reads a file that the logger does not write.

## 7. What is not modelled

`PROJECT.json` lists every part with its status. Left out for good: packet text, TLS,
certificates and the verification code's digest (pure functions and libraries), SQL text, search and
migrations, the layout of exported documents, WebDAV's XML, Electron's windows, tray and menus,
markup and styles, translations, settings that are a stored value and nothing more.
Left out of the modelled parts: message contents beyond what a property needs; clocks except in
`LinkHealth`, `Discovery` and `MessageRows` (elsewhere a date is an order of events, so messages
of one millisecond and backdated ones are outside, as is the fallback to `Date.now()` for an answer
without a timestamp, `full-thread-sync.ts:59`); a failing write of an export's `index.html`
(`thread-export.ts:352`); the wipe of the contacts on unpairing and resync; two attachments with one identifier; parsing
errors of packets; the estimates of row heights in `ThreadLayout`, which takes them for true.

The phone is external: it answers in order, acknowledges nothing by itself, keeps to its
window, and may stop at any time. So are the library's updater, the web pages of previews and the
operating system's mount: modelled as what the code has to expect of them. On events the sources disagree:
`PROTOCOL_1_3_REVISIONS.md:132` calls them fire-and-forget, while the desktop acknowledges each
(`event-handler.ts:215-248`). `MessageSync` lets an event of a lost connection be lost, as the document has it;
`EventAcks` and `MessageStore` take the phone to keep what was not acknowledged, which is
what acknowledgements are for. What is proved of these two rests on that.

## 8. Plan

Done: the inventory; all modules of section 3; the proofs of section 5.

Next, proofs: the panes of `MCWindow` that section 5 names as checked only.

Then, in the models: contact events of the listener, and the renderer's contacts store.
