---------- MODULE GalleryScan ----------
(* Browsing the phone's photos: the gallery store and its view in the *)
(* renderer, the gallery.scan and threads.media methods, the gallery handler *)
(* with its one slot for a batch callback, the query client's line and the *)
(* phone's events. A scan, the events and the media of a conversation all *)
(* write the one list of items, and every scan shares one set of the paths it *)
(* has seen. The query client is what QueryClient says of it: one query at a *)
(* time, and a streaming query that has to wait loses its page callback. *)
(*                                                                            *)
(* A page carries one photo. Modes other than the camera's (screenshots, *)
(* folders, all) are one: "all". *)
EXTENDS Naturals, Sequences, FiniteSets

CONSTANTS
    Photos,         \* paths on the phone
    Camera,         \* those under DCIM
    Media,          \* the media of a conversation
    MaxLine,        \* bound on the queries of the client
    MaxWire,        \* bound on what is on its way to the renderer
    MaxTrouble,     \* bound on failures, foreign queries and changes on the phone
    SlowScans,      \* a scan may take longer than the 5 s between two retries
    None

\* Of the constants; assumed where they are given values.
ScanAssumption ==
    /\ Camera \subseteq Photos
    /\ Photos \cap Media = {}
    /\ SlowScans \in BOOLEAN
    /\ MaxLine \in Nat /\ MaxWire \in Nat /\ MaxTrouble \in Nat

VARIABLES
    gui,        \* the store: items, scanState, viewMode, scanAllPaths, watchedFolder; is it mounted
    line,       \* queries of the client; the first is active
    rest,       \* photos the phone has yet to send for the first
    batching,   \* onScanBatch is set
    wire,       \* replies and notifications on their way to the renderer
    phone,      \* photos on the phone
    link,       \* the connection; does the phone watch DCIM
    trouble

vars == <<gui, line, rest, batching, wire, phone, link, trouble>>
daemon == <<line, rest, batching>>

Modes == {"dcim", "all", "thread_media"}
ScanStates == {"idle", "scanning", "ready", "error"}
Kinds == {"dcim", "all", "media", "other"}
Replies == [type : {"scanned", "scanFailed", "media", "mediaFailed"}]
Notifications == [type : {"batch", "added", "deleted"}, path : Photos]

TypeOK ==
    /\ gui.open \in BOOLEAN /\ gui.mode \in Modes /\ gui.scanState \in ScanStates
    /\ gui.items \subseteq Photos \cup Media
    /\ gui.scanned \in (SUBSET Photos) \cup {None}
    /\ gui.watching \in BOOLEAN
    /\ line \in Seq([kind : Kinds, heard : BOOLEAN]) /\ Len(line) <= MaxLine
    /\ rest \subseteq phone \cup Photos
    /\ batching \in BOOLEAN
    /\ batching => \E i \in DOMAIN line : line[i].kind \in {"dcim", "all"}
    /\ wire \in Seq(Replies \cup Notifications)
    /\ phone \subseteq Photos
    /\ link \in [up : BOOLEAN, watching : BOOLEAN]
    /\ trouble \in 0..MaxTrouble

Init ==
    /\ gui = [open |-> FALSE, mode |-> "dcim", scanState |-> "idle", items |-> {},
              scanned |-> None, watching |-> FALSE]
    /\ line = <<>> /\ rest = {} /\ batching = FALSE /\ wire = <<>>
    /\ phone \in SUBSET Photos
    /\ link = [up |-> TRUE, watching |-> FALSE]
    /\ trouble = 0

IsScan(kind) == kind \in {"dcim", "all"}
Troubled == trouble < MaxTrouble /\ trouble' = trouble + 1

--------------------
(* The daemon *)

\* What the phone walks for a query.
Scope(kind) == CASE kind = "dcim" -> phone \cap Camera [] kind = "all" -> phone [] OTHER -> {}

ScanReply(ok) == <<[type |-> IF ok THEN "scanned" ELSE "scanFailed"]>>
MediaReply(ok) == <<[type |-> IF ok THEN "media" ELSE "mediaFailed"]>>
Reply(kind, ok) == IF IsScan(kind) THEN ScanReply(ok) ELSE IF kind = "media" THEN MediaReply(ok) ELSE <<>>

\* The numbers of a set from the least to the greatest.
InOrder(S) ==
    CHOOSE s \in [1..Cardinality(S) -> S] : \A i, j \in DOMAIN s : i < j => s[i] < s[j]

\* A query is made: refused without a connection, active at once, or in the line
\* without its page callback. gallery.scan sets onScanBatch first, and clears it
\* when its own scan has ended.
Ask(kind) ==
    IF ~link.up
    THEN /\ wire' = wire \o Reply(kind, FALSE)
         /\ batching' = (batching /\ ~IsScan(kind))
         /\ UNCHANGED <<line, rest>>
    ELSE /\ line' = Append(line, [kind |-> kind, heard |-> line = <<>>])
         /\ rest' = IF line = <<>> THEN Scope(kind) ELSE rest
         /\ batching' = (batching \/ IsScan(kind))
         /\ UNCHANGED wire

\* Mutation of the next definition.
EndedUncleared(ok, notes) ==
    /\ wire' = wire \o notes \o Reply(Head(line).kind, ok)
    /\ line' = Tail(line)
    /\ rest' = IF Len(line) > 1 THEN Scope(line[2].kind) ELSE {}
    /\ batching' = (batching /\ ~(ok /\ IsScan(Head(line).kind)))
\* The first query ends: its caller is answered and the next one is sent.
Ended(ok, notes) ==
    /\ wire' = wire \o notes \o Reply(Head(line).kind, ok)
    /\ line' = Tail(line)
    /\ rest' = IF Len(line) > 1 THEN Scope(line[2].kind) ELSE {}
    /\ batching' = (batching /\ ~IsScan(Head(line).kind))

\* A page of the first query; the last one completes it.
Page ==
    /\ line # <<>> /\ Len(wire) < MaxWire
    /\ \/ /\ rest = {}
          /\ Ended(TRUE, <<>>)
       \/ \E p \in rest :
            LET notes == IF Head(line).heard /\ batching THEN <<[type |-> "batch", path |-> p]>> ELSE <<>>
            IN  IF rest = {p} THEN Ended(TRUE, notes)
                ELSE /\ rest' = rest \ {p}
                     /\ wire' = wire \o notes
                     /\ UNCHANGED <<line, batching>>
    /\ UNCHANGED <<gui, phone, link, trouble>>

\* The first query times out, or the phone answers with an error.
QueryFails ==
    /\ line # <<>> /\ Troubled
    /\ Ended(FALSE, <<>>)
    /\ UNCHANGED <<gui, phone, link>>

\* Another component's query.
OtherQuery ==
    /\ link.up /\ Len(line) < MaxLine /\ Troubled
    /\ Ask("other")
    /\ UNCHANGED <<gui, phone, link>>

\* unwireHandlers(): every query is refused.
Disconnect ==
    /\ link.up /\ Troubled
    /\ LET told == InOrder({i \in DOMAIN line : line[i].kind # "other"})
       IN  wire' = wire \o [k \in DOMAIN told |-> Reply(line[told[k]].kind, FALSE)[1]]
    /\ line' = <<>> /\ rest' = {} /\ batching' = FALSE
    /\ link' = [up |-> FALSE, watching |-> FALSE]
    /\ UNCHANGED <<gui, phone>>

Connect ==
    /\ ~link.up
    /\ link' = [link EXCEPT !.up = TRUE]
    /\ UNCHANGED <<gui, daemon, wire, phone, trouble>>

\* A photo appears; the phone tells of it (gallery.media_event, fs.watch_event).
PhoneAdds(p) ==
    /\ p \notin phone /\ Troubled
    /\ phone' = phone \cup {p}
    /\ wire' = IF link.up THEN Append(wire, [type |-> "added", path |-> p]) ELSE wire
    /\ UNCHANGED <<gui, daemon, link>>

\* A photo is deleted; only a watched folder tells.
PhoneDeletes(p) ==
    /\ p \in phone /\ Troubled
    /\ phone' = phone \ {p}
    /\ wire' = IF link.watching /\ p \in Camera THEN Append(wire, [type |-> "deleted", path |-> p]) ELSE wire
    /\ UNCHANGED <<gui, daemon, link>>

--------------------
(* The renderer *)

\* The view watches the camera's folder once a scan is ready.
Watches(g) == g.open /\ IF g.scanState = "ready" THEN g.mode = "dcim" ELSE g.watching

\* watchFolder(), unwatchFolder(): the request is lost without a connection, and is not
\* repeated.
Rendered(g) ==
    LET w == Watches(g)
    IN  /\ gui' = [g EXCEPT !.watching = w]
        /\ link' = [link EXCEPT !.watching = IF w = gui.watching THEN @ ELSE link.up /\ w]

\* scanGallery() up to its await.
ScanGallery(g) ==
    /\ Len(line) < MaxLine /\ Len(wire) < MaxWire
    /\ Rendered([g EXCEPT !.scanState = "scanning", !.scanned = {}])
    /\ Ask(IF g.mode = "dcim" THEN "dcim" ELSE "all")

\* onMount(): the gallery's button leaves a conversation's media first.
Open ==
    /\ ~gui.open
    /\ gui.mode # "thread_media"
    /\ ScanGallery([gui EXCEPT !.open = TRUE])
    /\ UNCHANGED <<phone, trouble>>

\* A conversation is selected, or the gallery closed.
Close ==
    /\ gui.open
    /\ Rendered([gui EXCEPT !.open = FALSE])
    /\ UNCHANGED <<daemon, wire, phone, trouble>>

SetViewMode(v) ==
    /\ gui.open /\ gui.mode # "thread_media"
    /\ v # gui.mode /\ v # "thread_media"
    /\ ScanGallery([gui EXCEPT !.mode = v])
    /\ UNCHANGED <<phone, trouble>>

\* loadThreadMedia(), from a conversation, and the view it opens.
LoadThreadMedia ==
    /\ ~gui.open
    /\ Len(line) < MaxLine /\ Len(wire) < MaxWire
    /\ Rendered([gui EXCEPT !.open = TRUE, !.mode = "thread_media", !.scanState = "scanning", !.items = {}])
    /\ Ask("media")
    /\ UNCHANGED <<phone, trouble>>

\* exitThreadMedia(): back to the camera's photos, with a fresh scan.
ExitThreadMedia ==
    /\ gui.mode = "thread_media"
    /\ ScanGallery([gui EXCEPT !.mode = "dcim", !.items = {}, !.scanState = "idle", !.open = FALSE])
    /\ UNCHANGED <<phone, trouble>>

Scanning == \E i \in DOMAIN line : IsScan(line[i].kind)
NeedsRetry(g) == g.scanState = "error" \/ (g.scanState = "ready" /\ g.items = {})

\* Mutation of the next definition.
RetryErrorsOnly ==
    /\ gui.open /\ gui.mode # "thread_media" /\ link.up
    /\ gui.scanState = "error"
    /\ SlowScans \/ ~Scanning
    /\ ScanGallery(gui)
    /\ UNCHANGED <<phone, trouble>>
\* The view's 5 s interval.
Retry ==
    /\ gui.open /\ gui.mode # "thread_media" /\ link.up
    /\ NeedsRetry(gui)
    /\ SlowScans \/ ~Scanning
    /\ ScanGallery(gui)
    /\ UNCHANGED <<phone, trouble>>

\* resetGallery(), when the phone is unpaired: the view is closed first.
ResetGallery ==
    /\ ~link.up
    /\ Rendered([gui EXCEPT !.open = FALSE, !.items = {}, !.scanState = "idle"])
    /\ UNCHANGED <<daemon, wire, phone, trouble>>

\* handleGalleryScanBatch(), while the view is mounted.
ScanBatch(p) ==
    IF ~gui.open THEN gui
    ELSE [gui EXCEPT !.items = @ \cup {p},
                     !.scanned = IF @ = None THEN None ELSE @ \cup {p},
                     !.scanState = IF @ = "scanning" THEN "ready" ELSE @]

\* Mutation of the next definition.
ScanCompleteUnlessPruned ==
    [gui EXCEPT !.items = IF gui.scanned \in {None, {}} THEN @ ELSE @ \cap gui.scanned,
                !.scanned = None,
                !.scanState = IF gui.scanned \in {None, {}} THEN @ ELSE "ready"]
\* The end of scanGallery(): what the scans have not seen is removed.
ScanComplete ==
    [gui EXCEPT !.items = IF gui.scanned \in {None, {}} THEN @ ELSE @ \cap gui.scanned,
                !.scanned = None,
                !.scanState = "ready"]

\* The rest of loadThreadMedia(): whatever the view shows by now.
MediaLoaded(ok) ==
    IF ok THEN [gui EXCEPT !.items = Media, !.scanState = "ready"] ELSE [gui EXCEPT !.scanState = "error"]

\* The two subscriptions of the mounted view.
Announced(m) ==
    IF ~gui.open THEN gui
    ELSE [gui EXCEPT !.items = IF m.type = "added" THEN @ \cup {m.path} ELSE @ \ {m.path}]

Received(m) ==
    CASE m.type = "batch"       -> ScanBatch(m.path)
      [] m.type = "scanned"     -> ScanComplete
      [] m.type = "scanFailed"  -> [gui EXCEPT !.scanned = None, !.scanState = "error"]
      [] m.type \in {"media", "mediaFailed"} -> MediaLoaded(m.type = "media")
      [] m.type \in {"added", "deleted"} -> Announced(m)

Receive ==
    /\ wire # <<>>
    /\ wire' = Tail(wire)
    /\ Rendered(Received(Head(wire)))
    /\ UNCHANGED <<daemon, phone, trouble>>

--------------------

Next ==
    \/ Page \/ QueryFails \/ OtherQuery \/ Disconnect \/ Connect
    \/ \E p \in Photos : PhoneAdds(p) \/ PhoneDeletes(p)
    \/ Open \/ Close \/ \E v \in Modes : SetViewMode(v)
    \/ LoadThreadMedia \/ ExitThreadMedia \/ Retry \/ ResetGallery
    \/ Receive

\* The phone answers or the query times out, messages are delivered, the interval fires.
Fairness == WF_vars(Page) /\ WF_vars(Receive) /\ WF_vars(Retry)

Spec == Init /\ [][Next]_vars /\ Fairness

--------------------
(* Properties *)

OnTheWay(types) == \E i \in DOMAIN wire : wire[i].type \in types
InLine(kinds) == \E i \in DOMAIN line : line[i].kind \in kinds

\* While the gallery says "scanning", something under way will end it: a scan or the
\* media of a conversation, at the daemon or on its way back, whatever other scans,
\* failures, disconnections and changes of the view have come between.
ScanningEnds ==
    gui.scanState = "scanning" =>
        \/ InLine({"dcim", "all", "media"})
        \/ OnTheWay({"scanned", "scanFailed", "media", "mediaFailed"})

\* A user who stays on all photos of a connected phone that has some is shown some, though
\* scans fail, wait behind other queries and lose their pages: the view scans again until
\* one is heard.
Browsing == gui.open /\ gui.mode = "all" /\ link.up /\ phone # {}
NeverLeftEmpty == <>[]Browsing => <>[](gui.items # {})
====================
