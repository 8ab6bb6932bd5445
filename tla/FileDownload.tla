---------- MODULE FileDownload ----------
(* A photo or video in full: the gallery store's shared and abortable *)
(* downloads, the lightbox that asks for, cancels and prefetches them, the *)
(* daemon's gallery.download, which reads the file from the phone one part *)
(* after another, the request table of the file system handler, and the *)
(* cache. *)
(*                                                                            *)
(* Aborting is the renderer's affair only: the daemon's read goes on, and its *)
(* result is thrown away. A call has an identity; identities are used again. *)
(* A file is its position in the gallery's list. *)
EXTENDS Naturals

CONSTANTS
    Files,          \* positions, 1..n
    Videos,
    Calls,          \* identities of calls
    Parts,          \* parts (1 MiB) of a file
    None

Fates == {"made", "asked", "lost", "stored", "error"}
Records == [file : Files, aborted : BOOLEAN, reopens : BOOLEAN, parts : 0..Parts, at : Fates]

\* Of the constants; assumed where they are given values.
DownloadAssumption ==
    /\ Files \subseteq Nat \ {0} /\ Videos \subseteq Files /\ Calls \subseteq Nat /\ Parts \in Nat \ {0}
    /\ None \notin Nat /\ None \notin Records

VARIABLES
    shown,      \* downloadStates
    current,    \* the call in downloadPromises and downloadAbortControllers
    call,       \* each call: its file, is it aborted, does a click wait for it, parts read, fate
    box,        \* the lightbox: the file it is open at, and is that shown in full
    cached,     \* parts of the file on disk; 0 when it is not in the index
    up          \* the connection

vars == <<shown, current, call, box, cached, up>>

Closed == [file |-> None, full |-> FALSE]

TypeOK ==
    /\ shown \in [Files -> {"idle", "downloading", "ready"}]
    /\ current \in [Files -> Calls \cup {None}]
    /\ call \in [Calls -> {None} \cup Records]
    /\ box \in [file : Files, full : BOOLEAN] \cup {Closed}
    /\ cached \in [Files -> 0..Parts]
    /\ up \in BOOLEAN
    /\ \A f \in Files : current[f] # None =>
            call[current[f]] # None /\ call[current[f]].file = f /\ ~call[current[f]].aborted

Init ==
    /\ shown = [f \in Files |-> "idle"]
    /\ current = [f \in Files |-> None]
    /\ call = [c \in Calls |-> None]
    /\ box = Closed
    /\ cached = [f \in Files |-> 0]
    /\ up = TRUE

Active == {c \in Calls : call[c] # None}
renderer == <<shown, current, box>>

--------------------
(* The renderer *)

\* requestFullFile(): nothing for a file that is here, a download in flight is shared.
\* A waiter that reopens is the click on a video.
RequestFullFile(f, reopens, calls, states, latest) ==
    CASE states[f] = "ready" -> call' = calls /\ shown' = states /\ current' = latest
      [] states[f] # "ready" /\ latest[f] # None ->
            /\ call' = [calls EXCEPT ![latest[f]].reopens = @ \/ reopens]
            /\ shown' = states /\ current' = latest
      [] OTHER ->
            \E c \in Calls \ Active :
                /\ \A b \in Calls : b < c => b \in Active
                /\ call' = [calls EXCEPT ![c] = [file |-> f, aborted |-> FALSE, reopens |-> reopens,
                                                 parts |-> 0, at |-> "made"]]
                /\ current' = [latest EXCEPT ![f] = c]
                /\ shown' = [states EXCEPT ![f] = "downloading"]

\* handleItemClick(): the lightbox opens at once, with what there is.
Click(f) ==
    /\ box = Closed
    /\ box' = [file |-> f, full |-> shown[f] = "ready"]
    /\ RequestFullFile(f, f \in Videos, call, shown, current)
    /\ UNCHANGED <<cached, up>>

\* closeLightbox() cancels nothing.
CloseLightbox ==
    /\ box # Closed
    /\ box' = Closed
    /\ UNCHANGED <<shown, current, call, cached, up>>

\* cancelOtherDownloads(): aborted, removed from the maps, and no longer downloading.
CancelOtherDownloads(keep) ==
    LET others == {g \in Files \ {keep} : current[g] # None}
    IN  [calls |-> [c \in Calls |-> IF \E g \in others : current[g] = c
                                    THEN [call[c] EXCEPT !.aborted = TRUE] ELSE call[c]],
         latest |-> [g \in Files |-> IF g \in others THEN None ELSE current[g]],
         states |-> [g \in Files |-> IF g \in others /\ shown[g] = "downloading" THEN "idle" ELSE shown[g]]]

\* navigateLightbox() to a neighbour, in full if it is here.
NavigateLightbox(f) ==
    /\ box # Closed /\ f \in {box.file - 1, box.file + 1}
    /\ box' = [file |-> f, full |-> shown[f] = "ready"]

\* navigateAndLoad()
Navigate(f) ==
    LET rest == CancelOtherDownloads(f)
    IN  /\ NavigateLightbox(f)
        /\ RequestFullFile(f, FALSE, rest.calls, rest.states, rest.latest)
        /\ UNCHANGED <<cached, up>>

\* prefetchAhead(), run again whenever a state it has read changes.
PrefetchAhead ==
    /\ box # Closed /\ shown[box.file] # "downloading"
    /\ box.file + 1 \in Files \ Videos
    /\ shown[box.file + 1] = "idle"
    /\ RequestFullFile(box.file + 1, FALSE, call, shown, current)
    /\ UNCHANGED <<box, cached, up>>

\* openGalleryLightbox() for the click's waiter, updateLightboxSrc() for the others.
Upgraded(f, reopens) == IF reopens \/ box.file = f THEN [file |-> f, full |-> TRUE] ELSE box

\* Mutation of the next definition.
RepliedToAll(c) ==
    LET f == call[c].file
    IN  /\ call[c].at \in {"stored", "error"}
        /\ shown' = [shown EXCEPT ![f] = IF call[c].at = "stored" THEN "ready"
                                         ELSE IF call[c].aborted THEN @ ELSE "downloading"]
        /\ current' = [current EXCEPT ![f] = None]
        /\ call' = [call EXCEPT ![c] = None]
        /\ UNCHANGED <<box, cached, up>>
\* The reply: an aborted download changes no state, but removes the file's entries in
\* both maps, whosever they are by now. The click's waiter opens the lightbox again.
Replied(c) ==
    LET f == call[c].file
        done == call[c].at = "stored" /\ ~call[c].aborted
    IN  /\ call[c].at \in {"stored", "error"}
        /\ shown' = IF call[c].aborted THEN shown
                    ELSE [shown EXCEPT ![f] = IF done THEN "ready" ELSE "idle"]
        /\ current' = [current EXCEPT ![f] = None]
        /\ call' = [call EXCEPT ![c] = None]
        /\ box' = IF done THEN Upgraded(f, call[c].reopens) ELSE box
        /\ UNCHANGED <<cached, up>>

\* resetGallery(), scanGallery() with no items: the maps keep what is in flight. An
\* unpaired phone also closes the lightbox.
ResetDownloads ==
    /\ shown' = [f \in Files |-> "idle"]
    /\ box' \in {box, Closed}
    /\ UNCHANGED <<current, call, cached, up>>

--------------------
(* The daemon *)

GetFullFilePath(f) == cached[f] # 0
StoreFullFile(f, parts) == cached' = [cached EXCEPT ![f] = parts]

\* sendRequest() of the file system handler fails at once without a connection.
Sent == IF up THEN "asked" ELSE "error"

\* downloadGalleryFile() up to its first await.
DownloadGalleryFile(c) ==
    /\ call[c].at = "made"
    /\ call' = [call EXCEPT ![c].at = IF GetFullFilePath(call[c].file) THEN "stored" ELSE Sent]
    /\ UNCHANGED <<renderer, cached, up>>

\* The phone's answer: the part is appended; the last one completes the file, any other
\* is followed by the next request.
PartRead(c) ==
    LET parts == call[c].parts + 1
        eof == parts = Parts
    IN  /\ call[c].at = "asked" /\ up
        /\ call' = [call EXCEPT ![c].parts = IF eof THEN 0 ELSE parts,
                                ![c].at = IF eof THEN "stored" ELSE "asked"]
        /\ IF eof THEN StoreFullFile(call[c].file, parts) ELSE UNCHANGED cached
        /\ UNCHANGED <<renderer, up>>

\* The phone's error, or the request's 30 s timer.
ReadFails(c) ==
    /\ call[c].at \in {"asked", "lost"}
    /\ call' = [call EXCEPT ![c].at = "error", ![c].parts = 0]
    /\ UNCHANGED <<renderer, cached, up>>

\* clearSendFunction(): requests wait for their timers; the cache's index is forgotten.
Disconnect ==
    /\ up
    /\ up' = FALSE
    /\ call' = [c \in Calls |-> IF c \in Active /\ call[c].at = "asked" THEN [call[c] EXCEPT !.at = "lost"] ELSE call[c]]
    /\ cached' = [f \in Files |-> 0]
    /\ UNCHANGED renderer

Connect ==
    /\ ~up
    /\ up' = TRUE
    /\ UNCHANGED <<renderer, call, cached>>

--------------------

Next ==
    \/ \E f \in Files : Click(f) \/ Navigate(f)
    \/ CloseLightbox \/ PrefetchAhead \/ ResetDownloads
    \/ \E c \in Active : Replied(c) \/ DownloadGalleryFile(c) \/ PartRead(c) \/ ReadFails(c)
    \/ Disconnect \/ Connect

Spec == Init /\ [][Next]_vars

--------------------
(* Properties *)

\* A spinner stands for a download that will set the state: never for one that was cancelled,
\* whose reply says nothing, however requests, cancels and replies of one file overlap. And
\* a file is served from the cache only with all its parts.
SpinnersAreLive ==
    \A f \in Files :
        /\ shown[f] = "downloading" => \E c \in Active : call[c].file = f /\ ~call[c].aborted
        /\ cached[f] \in {0, Parts}
====================
