---------- MODULE AttachmentDownload ----------
(* Attachments fetched on demand (SmsHandler): one request at a time to the *)
(* phone, a queue behind it, a timer on the one in flight, callers that join *)
(* a download under way, and answers that come inline, through a payload *)
(* socket, malformed, late or never. A video is probed, transcoded and given *)
(* a thumbnail before its download settles. *)
(*                                                                            *)
(* Every attachment has its row, and no two share a unique_identifier. An *)
(* answer without a matching row leaves a stray file and is otherwise a *)
(* dropped message. requestAttachment's own "not connected" branch cannot *)
(* run: the queue has looked at the connection in the same step. *)
EXTENDS Naturals, Sequences, FiniteSets

CONSTANTS
    Callers,        \* calls of downloadAttachment: GUI, WebDAV, thread export
    Attachments,
    Videos,
    MaxBreaks,      \* bound on broken connections
    None

ASSUME AttachmentAssumption ==
    /\ Videos \subseteq Attachments
    /\ MaxBreaks \in Nat
    /\ IsFiniteSet(Callers)
    /\ None \notin Callers \cup Attachments

VARIABLES
    connected, breaks,
    row,            \* local_path of each attachment, None until downloaded
    disk,           \* files that exist, as <<attachment, path>>
    calls,          \* the promise of each caller
    downloads,      \* queue, inFlight, pending, timers, and requests on the wire
    sockets,        \* payload sockets open for each attachment
    videos          \* ffmpeg processes of each video, by stage

vars == <<connected, breaks, row, disk, calls, downloads, sockets, videos>>

Paths == {"original", "mp4"}
Stages == {"probe", "transcode"} \cup Paths    \* a path: its thumbnail is being made
Item(a, c) == [attachment |-> a, caller |-> c]
Pending == [owner : Callers, joined : SUBSET Callers]
NoPending == [owner |-> None, joined |-> {}]
Call(s, a, p) == [state |-> s, attachment |-> a, path |-> p]

TypeOK ==
    /\ connected \in BOOLEAN /\ breaks \in 0..MaxBreaks
    /\ row \in [Attachments -> Paths \cup {None}]
    /\ disk \subseteq Attachments \X Paths
    /\ \A c \in Callers :
           \/ calls[c] = Call("idle", None, None)
           \/ \E a \in Attachments, s \in {"waiting", "rejected"} : calls[c] = Call(s, a, None)
           \/ \E a \in Attachments, p \in Paths : calls[c] = Call("resolved", a, p)
    /\ downloads.queue \in Seq([attachment : Attachments, caller : Callers])
    /\ downloads.inFlight \in BOOLEAN
    /\ downloads.pending \in [Attachments -> Pending \cup {NoPending}]
    /\ downloads.timers \subseteq [attachment : Attachments, caller : Callers]
    /\ downloads.asked \in [Attachments -> 0..Cardinality(Callers)]
    /\ sockets \in [Attachments -> 0..Cardinality(Callers)]
    /\ videos \in [Videos \X Stages -> 0..Cardinality(Callers)]

Init ==
    /\ connected = FALSE /\ breaks = 0
    /\ row = [a \in Attachments |-> None]
    /\ disk = {}
    /\ calls = [c \in Callers |-> Call("idle", None, None)]
    /\ downloads = [queue |-> <<>>, inFlight |-> FALSE,
                    pending |-> [a \in Attachments |-> NoPending],
                    timers |-> {}, asked |-> [a \in Attachments |-> 0]]
    /\ sockets = [a \in Attachments |-> 0]
    /\ videos = [v \in Videos \X Stages |-> 0]

--------------------
(* The queue *)

InFlight(d, item) ==
    [d EXCEPT !.inFlight = TRUE,
              !.pending[item.attachment] = [owner |-> item.caller, joined |-> {}],
              !.timers = @ \cup {item},
              !.asked[item.attachment] = @ + 1]

\* Mutation of the next definition.
ProcessWhileBusy(d, online) ==
    IF d.queue = <<>> \/ ~online THEN d
    ELSE InFlight([d EXCEPT !.queue = Tail(@)], Head(d.queue))

processDownloadQueue(d, online) ==
    IF d.inFlight \/ d.queue = <<>> \/ ~online THEN d
    ELSE InFlight([d EXCEPT !.queue = Tail(@)], Head(d.queue))

Waiters(p) == {p.owner} \cup p.joined

(* pending.resolve or pending.reject: everyone who waits, the timer, and the *)
(* next item of the queue. *)
Settled(d, a) ==
    processDownloadQueue(
        [d EXCEPT !.pending[a] = NoPending, !.inFlight = FALSE,
                  !.timers = @ \ {Item(a, d.pending[a].owner)}], connected)

HasPending(d, a) == d.pending[a] # NoPending

Settle(d, a, outcome) ==
    IF HasPending(d, a)
    THEN /\ downloads' = Settled(d, a)
         /\ calls' = [c \in Callers |->
                         IF c \in Waiters(d.pending[a]) THEN outcome ELSE calls[c]]
    ELSE downloads' = d /\ UNCHANGED calls

Reject(d, a) == Settle(d, a, Call("rejected", a, None))
notify(d, a, path) == Settle(d, a, Call("resolved", a, path))

--------------------
(* downloadAttachment *)

\* Mutation of the next definition.
AnyFile(a) == \E p \in Paths : <<a, p>> \in disk

(* Downloaded, and the file still exists. *)
Cached(a) == <<a, row[a]>> \in disk

\* Mutation of the next definition.
EnqueueOnly(c, a) ==
    /\ ~Cached(a) /\ ~HasPending(downloads, a)
    /\ downloads' = [downloads EXCEPT !.queue = Append(@, Item(a, c))]
    /\ calls' = [calls EXCEPT ![c] = Call("waiting", a, None)]

Enqueue(c, a) ==
    /\ ~Cached(a) /\ ~HasPending(downloads, a)
    /\ downloads' = processDownloadQueue(
                        [downloads EXCEPT !.queue = Append(@, Item(a, c))], connected)
    /\ calls' = [calls EXCEPT ![c] = Call("waiting", a, None)]

Join(c, a) ==
    /\ ~Cached(a) /\ HasPending(downloads, a)
    /\ downloads' = [downloads EXCEPT !.pending[a].joined = @ \cup {c}]
    /\ calls' = [calls EXCEPT ![c] = Call("waiting", a, None)]

FromDisk(c, a) ==
    /\ Cached(a)
    /\ calls' = [calls EXCEPT ![c] = Call("resolved", a, row[a])]
    /\ UNCHANGED downloads

downloadAttachment(c, a) ==
    /\ calls[c].state = "idle"
    /\ FromDisk(c, a) \/ Join(c, a) \/ Enqueue(c, a)
    /\ UNCHANGED <<connected, breaks, row, disk, sockets, videos>>

(* The timer rejects the item it was set for, not those who joined it. With *)
(* no entry under its key it does nothing. *)
Timeout(item) ==
    LET a == item.attachment IN
    /\ item \in downloads.timers
    /\ HasPending(downloads, a)
    /\ downloads' = processDownloadQueue(
           [downloads EXCEPT !.pending[a] = NoPending, !.inFlight = FALSE,
                             !.timers = @ \ {item}], connected)
    /\ calls' = [calls EXCEPT ![item.caller] = Call("rejected", a, None)]
    /\ UNCHANGED <<connected, breaks, row, disk, sockets, videos>>

--------------------
(* Answers of the phone *)

Answered(a) == [downloads EXCEPT !.asked[a] = @ - 1]

(* The answer is matched among the rows not yet downloaded: after a download, *)
(* no answer for it is. *)
Unmatched(a) ==
    /\ row[a] # None
    /\ downloads' = Answered(a)
    /\ UNCHANGED <<calls, row, disk, sockets, videos>>

Started(v, stage) == videos' = [videos EXCEPT ![<<v, stage>>] = @ + 1]

handleInlineAttachment(a) ==
    /\ row[a] = None
    /\ row' = [row EXCEPT ![a] = "original"]
    /\ disk' = disk \cup {<<a, "original">>}
    /\ IF a \in Videos
       THEN Started(a, "probe") /\ downloads' = Answered(a) /\ UNCHANGED calls
       ELSE notify(Answered(a), a, "original") /\ UNCHANGED videos
    /\ UNCHANGED sockets

rejectPendingByFilename(a) ==
    /\ row[a] = None
    /\ Reject(Answered(a), a)
    /\ UNCHANGED <<row, disk, sockets, videos>>

OpenPayload(a) ==
    /\ row[a] = None
    /\ sockets' = [sockets EXCEPT ![a] = @ + 1]
    /\ disk' = disk \cup {<<a, "original">>}
    /\ downloads' = Answered(a)
    /\ UNCHANGED <<calls, row, videos>>

handleAttachmentFile(a) ==
    /\ downloads.asked[a] > 0
    /\ \/ Unmatched(a)
       \/ handleInlineAttachment(a)
       \/ rejectPendingByFilename(a)
       \/ OpenPayload(a)
    /\ UNCHANGED <<connected, breaks>>

(* The end of the payload: the file is not written anew, so a file another *)
(* socket has unlinked stays away. *)
PayloadEnds(a) ==
    /\ sockets[a] > 0
    /\ sockets' = [sockets EXCEPT ![a] = @ - 1]
    /\ row' = [row EXCEPT ![a] = "original"]
    /\ IF a \in Videos
       THEN Started(a, "probe") /\ UNCHANGED <<downloads, calls>>
       ELSE notify(downloads, a, "original") /\ UNCHANGED videos
    /\ UNCHANGED <<connected, breaks, disk>>

PayloadFails(a) ==
    /\ sockets[a] > 0
    /\ sockets' = [sockets EXCEPT ![a] = @ - 1]
    /\ disk' = disk \ {<<a, "original">>}
    /\ Reject(downloads, a)
    /\ UNCHANGED <<connected, breaks, row, videos>>

--------------------
(* Videos *)

Passed(v, from, to) == [videos EXCEPT ![<<v, from>>] = @ - 1, ![<<v, to>>] = @ + 1]
Running(v, stage) == videos[v, stage] > 0

(* A native video is used as it is, one already transcoded as it was. *)
needsTranscode(v) ==
    /\ Running(v, "probe")
    /\ videos' \in {Passed(v, "probe", s) :
                       s \in {"original", IF <<v, "mp4">> \in disk THEN "mp4" ELSE "transcode"}}
    /\ UNCHANGED <<connected, breaks, row, disk, calls, downloads, sockets>>

transcodeToMp4(v) ==
    /\ Running(v, "transcode")
    /\ \/ /\ videos' = Passed(v, "transcode", "mp4")
          /\ row' = [row EXCEPT ![v] = "mp4"]
          /\ disk' = (disk \ {<<v, "original">>}) \cup {<<v, "mp4">>}
       \/ /\ videos' = Passed(v, "transcode", "original")
          /\ disk' = disk \ {<<v, "mp4">>}
          /\ UNCHANGED row
    /\ UNCHANGED <<connected, breaks, calls, downloads, sockets>>

(* The thumbnail is made, fails, or was there before. *)
generateVideoThumbnail(v, p) ==
    /\ Running(v, p)
    /\ videos' = [videos EXCEPT ![<<v, p>>] = @ - 1]
    /\ notify(downloads, v, p)
    /\ UNCHANGED <<connected, breaks, row, disk, sockets>>

--------------------
(* The connection; files removed by others *)

\* Mutation of the next definition.
ConnectOnly ==
    /\ ~connected
    /\ connected' = TRUE
    /\ UNCHANGED <<breaks, row, disk, calls, downloads, sockets, videos>>

(* onConnection of a paired, compatible phone; resumeDownloads(). *)
Connect ==
    /\ ~connected
    /\ connected' = TRUE
    /\ downloads' = processDownloadQueue(downloads, TRUE)
    /\ UNCHANGED <<breaks, row, disk, calls, sockets, videos>>

(* Nothing tells SmsHandler; what was on the wire is gone. *)
Disconnect ==
    /\ connected /\ breaks < MaxBreaks
    /\ connected' = FALSE /\ breaks' = breaks + 1
    /\ downloads' = [downloads EXCEPT !.asked = [a \in Attachments |-> 0]]
    /\ UNCHANGED <<row, disk, calls, sockets, videos>>

FileRemoved(a) ==
    /\ <<a, row[a]>> \in disk
    /\ disk' = disk \ {<<a, row[a]>>}
    /\ UNCHANGED <<connected, breaks, row, calls, downloads, sockets, videos>>

Next ==
    \/ \E c \in Callers, a \in Attachments : downloadAttachment(c, a)
    \/ \E a \in Attachments, c \in Callers : Timeout(Item(a, c))
    \/ \E a \in Attachments :
           handleAttachmentFile(a) \/ PayloadEnds(a) \/ PayloadFails(a) \/ FileRemoved(a)
    \/ \E v \in Videos :
           needsTranscode(v) \/ transcodeToMp4(v) \/ \E p \in Paths : generateVideoThumbnail(v, p)
    \/ Connect \/ Disconnect

(* The timer of the item in flight fires unless it is cleared first. *)
Spec == Init /\ [][Next]_vars
        /\ \A a \in Attachments, c \in Callers : WF_vars(Timeout(Item(a, c)))

--------------------
(* Properties *)

Open(d) == {a \in Attachments : HasPending(d, a)}
OneOpen(d) ==
    /\ d.inFlight <=> Open(d) # {}
    /\ \A a, b \in Open(d) : a = b
    /\ d.timers = {Item(a, d.pending[a].owner) : a \in Open(d)}

(* The flag that holds the queue back is set exactly while one download is *)
(* pending, and that download has its timer: an answer, an error or a timeout *)
(* in any order neither lets a second request out nor leaves the flag set *)
(* with nothing to clear it. *)
OneRequestAtATime == OneOpen(downloads)

(* No lost wake-up: while the phone is connected, a queue that is not empty *)
(* waits behind a request in flight. *)
QueueIsServed ==
    connected /\ downloads.queue # <<>> => downloads.inFlight

Owners(d) == {d.pending[a].owner : a \in Open(d)}
Queued(d) == {d.queue[i].caller : i \in DOMAIN d.queue}

(* A call that queued its own request comes to an end, unless the phone goes *)
(* away. *)
OwnersSettle ==
    \A c \in Callers :
        calls[c].state = "waiting" /\ c \in Queued(downloads) \cup Owners(downloads)
            ~> calls[c].state # "waiting" \/ ~connected

(* A call that waits is known to the queue or to the download under way *)
(* ("Return a new promise that piggybacks on the existing one"): the code *)
(* forgets those who joined when the timer rejects the first. *)
\* The code does not keep this: see README.md, section 6.
WaitersAreHeld ==
    \A c \in Callers :
        calls[c].state = "waiting" =>
            c \in Queued(downloads) \/
            \E a \in Attachments :
                HasPending(downloads, a) /\ c \in Waiters(downloads.pending[a])
====================
