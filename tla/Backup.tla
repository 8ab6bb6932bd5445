---------- MODULE Backup ----------
(* Export of conversations or media to a folder: the handlers that start and *)
(* cancel the one backup that may run, the two export loops, and the window *)
(* that shows the progress.  The main process runs to its next await before *)
(* anything else of it runs: pc is the await the export is in, or the place *)
(* of its loops it has reached ("head", "atts"). *)
EXTENDS Integers, Sequences, FiniteSets

CONSTANTS
    Threads, Base, Atts,    \* conversations, the name of each, its attachments in order
    Media, Path, Size,      \* media files, the target path of each, its size
    None,
    MaxRuns, MaxViews       \* bounds on the exports started and the windows opened

VARIABLES
    folder,     \* what the target folder holds: <<directory, file>> -> <<content, whole>>
    slot,       \* activeBackup: the id of the export that runs and its abort signal
    run,        \* the export that runs, or the last one
    calls,      \* calls of the window on their way to the main process
    inbox,      \* replies and notifications on their way to the window
    view, views \* the window, and how many were opened

vars == <<folder, slot, run, calls, inbox, view, views>>

Names == {Base[t] : t \in Threads} \X (1..Cardinality(Threads))
Range(s) == {s[i] : i \in DOMAIN s}
Copies == (Names \X UNION {Range(Atts[t]) : t \in Threads})
          \union ({<<"media", 0>>} \X {Path[m] : m \in Media})
Keys == Copies \union (Names \X {"text"})
Awaits == {"list", "contacts", "messages", "sizes", "download"}
Ended == {"complete", "cancelled", "error"}
Holds(k) == k \in DOMAIN folder
Put(k, c) == [x \in DOMAIN folder \union {k} |-> IF x = k THEN c ELSE folder[x]]

\* What is asked of the constants: a phone lists finitely many of each, no attachment is named
\* like the text of its conversation, and no media file is empty.
BackupConstants ==
    /\ IsFiniteSet(Threads) /\ IsFiniteSet(Media)
    /\ \A t \in Threads : Atts[t] \in Seq((UNION {Range(Atts[u]) : u \in Threads}) \ {"text"})
    /\ \A m \in Media : Size[m] \in Nat \ {0}
    /\ MaxRuns \in Nat /\ None \notin Nat \union [id : Nat, aborted : BOOLEAN]

TypeOK ==
    /\ DOMAIN folder \subseteq Keys
    /\ \A k \in DOMAIN folder : folder[k][2] \in BOOLEAN
    /\ slot \in [id : 1..MaxRuns, aborted : BOOLEAN] \union {None}
    /\ run.pc \in Awaits \union Ended \union {"head", "atts"} /\ run.id \in 0..MaxRuns
    /\ (slot = None) <=> (run.pc \in Ended)
    /\ view.phase \in {"closed", "configure", "confirm", "running", "complete", "error"}
    /\ view.id \in 1..MaxRuns \union {None}

NoRun == [id |-> 0, pc |-> "complete", media |-> FALSE, with |-> FALSE, order |-> <<>>, at |-> 1,
          left |-> <<>>, sized |-> {}, names |-> <<>>, errors |-> {0}]
Closed == [phase |-> "closed", id |-> None]

Init ==
    /\ folder = <<>> /\ slot = None /\ run = NoRun
    /\ calls = <<>> /\ inbox = <<>> /\ view = Closed /\ views = 0

--------------------
(* The export *)
Aborted == slot.aborted
Orders(S) == {s \in [1..Cardinality(S) -> S] : \A i, j \in DOMAIN s : i # j => s[i] # s[j]}
Item == run.order[run.at]
AttKey == <<run.names[Item], Head(run.left)>>
MediaKey == <<<<"media", 0>>, Path[Item]>>

\* disambiguate(): the first free of "name", "name (2)", "name (3)", ...
Disambiguate(t) ==
    LET used == {run.names[u] : u \in DOMAIN run.names}
        n == CHOOSE i \in 1..Cardinality(Threads) :
                <<Base[t], i>> \notin used /\ \A j \in 1..(i - 1) : <<Base[t], j>> \in used
    IN <<Base[t], n>>

FinishUntold(what) ==
    /\ run' = [run EXCEPT !.pc = what]
    /\ slot' = None
    /\ inbox' = IF what = "cancelled" THEN inbox
                ELSE Append(inbox, [op |-> what, view |-> 0, id |-> run.id])
    /\ UNCHANGED <<folder, calls, view, views>>

\* The end of the export: its notification leaves, and the slot is free again.
Finish(what) ==
    /\ run' = [run EXCEPT !.pc = what]
    /\ slot' = None
    /\ inbox' = Append(inbox, [op |-> what, view |-> 0, id |-> run.id])
    /\ UNCHANGED <<folder, calls, view, views>>

Goto(r) == run' = r /\ UNCHANGED <<slot, calls, inbox, view, views>>
Moves(r) == Goto(r) /\ UNCHANGED folder
Next1 == [run EXCEPT !.pc = "head", !.at = @ + 1]

ListAnswers(order) ==
    /\ run.pc = "list"
    /\ order \in Orders(IF run.media THEN Media ELSE Threads)
    /\ IF Aborted THEN Finish("cancelled")
       ELSE Moves([run EXCEPT !.order = order, !.pc = IF run.media THEN "head" ELSE "contacts"])

ListFails == run.pc = "list" /\ Finish(IF Aborted THEN "cancelled" ELSE "error")

\* The names of the contacts come from the phone or, when the query fails, from the database.
ContactsSettle ==
    /\ run.pc = "contacts"
    /\ IF Aborted THEN Finish("cancelled") ELSE Moves([run EXCEPT !.pc = "head"])

\* The head of either loop.
LoopEnds == run.pc = "head" /\ run.at > Len(run.order) /\ Finish("complete")
LoopStops == run.pc = "head" /\ run.at <= Len(run.order) /\ Aborted /\ Finish("cancelled")
LoopHead == run.pc = "head" /\ run.at <= Len(run.order) /\ ~Aborted

AskMessages ==
    /\ LoopHead /\ ~run.media
    /\ LET t == Item IN
       Moves([run EXCEPT !.pc = "messages",
                         !.names = [u \in DOMAIN @ \union {t} |-> IF u = t THEN Disambiguate(t) ELSE @[u]]])

\* A conversation: its attachments, those whose file is there asked for their size first.
MessagesAnswer ==
    /\ run.pc = "messages"
    /\ IF Aborted THEN Finish("cancelled")
       ELSE LET atts == IF run.with THEN Atts[Item] ELSE <<>>
                old == {x \in Range(atts) : Holds(<<run.names[Item], x>>)}
            IN Moves([run EXCEPT !.left = atts, !.sized = {},
                                 !.pc = IF old = {} THEN "atts" ELSE "sizes"])

MessagesFail == run.pc = "messages" /\ Moves([Next1 EXCEPT !.errors = @ \union {Item}])

SizesSettle(ok) ==
    /\ run.pc = "sizes"
    /\ Moves([run EXCEPT !.pc = "atts",
                         !.sized = IF ok THEN {x \in Range(run.left) : Holds(<<run.names[Item], x>>)}
                                   ELSE {}])

AttsLeft == run.pc = "atts" /\ run.left # <<>>
AttsStop == AttsLeft /\ Aborted /\ Finish("cancelled")
SameSize == Head(run.left) \in run.sized /\ Holds(AttKey) /\ folder[AttKey][2]
SkipAttachment == AttsLeft /\ ~Aborted /\ SameSize /\ Moves([run EXCEPT !.left = Tail(@)])
FetchAttachment == AttsLeft /\ ~Aborted /\ ~SameSize /\ Moves([run EXCEPT !.pc = "download"])

NextAtt == [run EXCEPT !.pc = "atts", !.left = Tail(@)]
AttError == [NextAtt EXCEPT !.errors = @ \union {Head(run.left)}]

\* The abort of a download that has ended is thrown where its errors are caught: it counts as one.
AttachmentDownloaded ==
    /\ run.pc = "download" /\ ~run.media
    /\ IF Aborted THEN Moves(AttError)
       ELSE Goto(NextAtt) /\ folder' = Put(AttKey, <<Head(run.left), TRUE>>)

AttachmentFails ==
    /\ run.pc = "download" /\ ~run.media
    /\ Goto(AttError)
    /\ \/ UNCHANGED folder
       \/ ~Aborted /\ folder' = Put(AttKey, <<Head(run.left), FALSE>>)

WriteConversation ==
    /\ run.pc = "atts" /\ run.left = <<>>
    /\ Goto(Next1)
    /\ folder' = Put(<<run.names[Item], "text">>, <<Item, TRUE>>)

WriteFails ==
    /\ run.pc = "atts" /\ run.left = <<>>
    /\ Goto([Next1 EXCEPT !.errors = @ \union {Item}])
    /\ folder' = Put(<<run.names[Item], "text">>, <<Item, FALSE>>)

\* A media file: skipped when a file of its size is there.
FileSize(k) == IF folder[k][2] THEN Size[folder[k][1]] ELSE 0
HasSize == Holds(MediaKey) /\ FileSize(MediaKey) = Size[Item]
SkipFile == LoopHead /\ run.media /\ HasSize /\ Moves(Next1)
FetchFile == LoopHead /\ run.media /\ ~HasSize /\ Moves([run EXCEPT !.pc = "download"])

\* Mutation of the next definition.
FileCopied ==
    /\ run.pc = "download" /\ run.media
    /\ Goto(Next1) /\ folder' = Put(MediaKey, <<Item, TRUE>>)

FileDownloaded ==
    /\ run.pc = "download" /\ run.media
    /\ IF Aborted THEN Finish("cancelled")
       ELSE Goto(Next1) /\ folder' = Put(MediaKey, <<Item, TRUE>>)

FileFails ==
    /\ run.pc = "download" /\ run.media
    /\ Goto([Next1 EXCEPT !.errors = @ \union {Item}])
    /\ \/ UNCHANGED folder
       \/ ~Aborted /\ folder' = Put(MediaKey, <<Item, FALSE>>)

ExportStep ==
    \/ \E order \in Orders(Threads) \union Orders(Media) : ListAnswers(order)
    \/ ListFails \/ ContactsSettle \/ LoopEnds \/ LoopStops
    \/ AskMessages \/ MessagesAnswer \/ MessagesFail \/ (\E ok \in BOOLEAN : SizesSettle(ok))
    \/ AttsStop \/ SkipAttachment \/ FetchAttachment \/ AttachmentDownloaded \/ AttachmentFails
    \/ WriteConversation \/ WriteFails
    \/ SkipFile \/ FetchFile \/ FileDownloaded \/ FileFails

--------------------
(* The handlers, which run while the export awaits *)
Serve(op) == run.pc \in Awaits \union Ended /\ calls # <<>> /\ Head(calls).op = op /\ calls' = Tail(calls)
Reply(r, id) == inbox' = Append(inbox, [op |-> r, view |-> Head(calls).view, id |-> id])

CheckFolder ==
    /\ Serve("check")
    /\ \/ Reply("unwritable", None)
       \/ Reply(IF folder = <<>> THEN "empty" ELSE "used", None)
    /\ UNCHANGED <<folder, slot, run, view, views>>

\* backup.threads_start and backup.media_start
Start(media, with) ==
    /\ Serve("start")
    /\ slot = None /\ run.id < MaxRuns
    /\ run.id > 0 => media = run.media        \* one kind of export per folder
    /\ slot' = [id |-> run.id + 1, aborted |-> FALSE]
    /\ run' = [NoRun EXCEPT !.id = run.id + 1, !.pc = "list", !.media = media, !.with = with,
                            !.errors = {}]
    /\ Reply("started", run.id + 1)
    /\ UNCHANGED <<folder, view, views>>

\* Another backup runs, or the folder cannot be prepared.
StartRefused == Serve("start") /\ Reply("refused", None) /\ UNCHANGED <<folder, slot, run, view, views>>

Cancel ==
    /\ Serve("cancel")
    /\ slot' = IF slot # None /\ slot.id = Head(calls).id THEN [slot EXCEPT !.aborted = TRUE] ELSE slot
    /\ UNCHANGED <<folder, run, inbox, view, views>>

\* The process ends, at worst in the middle of a copy.
Crash ==
    /\ run.pc \in Awaits
    /\ slot' = None /\ run' = [run EXCEPT !.pc = "error"]
    /\ calls' = <<>> /\ inbox' = <<>> /\ view' = Closed
    /\ LET cut == run.pc = "download" /\ ~Aborted IN
       \/ UNCHANGED folder
       \/ cut /\ run.media /\ folder' = Put(MediaKey, <<Item, FALSE>>)
       \/ cut /\ ~run.media /\ folder' = Put(AttKey, <<Head(run.left), FALSE>>)
    /\ UNCHANGED views

--------------------
(* The window.  One that was left goes on with what it awaits. *)
Call(op, v, id) == calls' = Append(calls, [op |-> op, view |-> v, id |-> id])
WindowOnly == UNCHANGED <<folder, slot, run, inbox, views>>

Open ==
    /\ view.phase = "closed" /\ views < MaxViews
    /\ views' = views + 1 /\ view' = [phase |-> "configure", id |-> None]
    /\ UNCHANGED <<folder, slot, run, calls, inbox>>

\* The picker is modal, and the folder is checked before the button can be clicked again.
ClickExport == view.phase = "configure" /\ calls = <<>> /\ inbox = <<>> /\ Call("check", views, None) /\ UNCHANGED view /\ WindowOnly
ConfirmYes == view.phase = "confirm" /\ Call("start", views, None) /\ view' = [view EXCEPT !.phase = "running"] /\ WindowOnly
ConfirmNo == view.phase = "confirm" /\ view' = [view EXCEPT !.phase = "configure"] /\ UNCHANGED calls /\ WindowOnly
ClickCancel == view.phase = "running" /\ view.id # None /\ calls = <<>> /\ Call("cancel", views, view.id) /\ UNCHANGED view /\ WindowOnly
Close == view.phase \notin {"closed", "running"} /\ view' = Closed /\ UNCHANGED calls /\ WindowOnly

\* A reply; what the handler of a window that is gone assigns is seen by nobody.
HandleReply ==
    /\ inbox # <<>> /\ Head(inbox).view # 0
    /\ inbox' = Tail(inbox)
    /\ LET m == Head(inbox)
           Show(v) == view' = IF m.view = views /\ view.phase # "closed" THEN v ELSE view
       IN \/ m.op = "unwritable" /\ Show([view EXCEPT !.phase = "error"]) /\ UNCHANGED calls
          \/ m.op = "used" /\ Show([view EXCEPT !.phase = "confirm"]) /\ UNCHANGED calls
          \/ m.op = "empty" /\ Show([view EXCEPT !.phase = "running"]) /\ Call("start", m.view, None)
          \/ m.op = "started" /\ Show([view EXCEPT !.id = m.id]) /\ UNCHANGED calls
          \/ m.op = "refused" /\ Show([view EXCEPT !.phase = "error"]) /\ UNCHANGED calls
    /\ UNCHANGED <<folder, slot, run, views>>

\* handleNotification: the window drops what is not about the export it knows.
HandleNotification ==
    /\ inbox # <<>> /\ Head(inbox).view = 0
    /\ inbox' = Tail(inbox)
    /\ view' = IF view.phase = "closed" \/ view.id # Head(inbox).id THEN view
               ELSE [view EXCEPT !.phase = IF Head(inbox).op = "error" THEN "error" ELSE "complete"]
    /\ UNCHANGED <<folder, slot, run, calls, views>>

Next ==
    \/ ExportStep
    \/ CheckFolder \/ (\E media, with \in BOOLEAN : Start(media, with)) \/ StartRefused \/ Cancel
    \/ Crash
    \/ Open \/ ClickExport \/ ConfirmYes \/ ConfirmNo \/ ClickCancel \/ Close
    \/ HandleReply \/ HandleNotification

Spec == Init /\ [][Next]_vars

--------------------
\* An export that ends without an error has all it promised in the folder: each
\* conversation in a directory of its own with, when asked for, its attachments,
\* each media path with a whole file that belongs there, whatever earlier,
\* cancelled or crashed exports left behind.
SummaryIsHonest ==
    run.pc = "complete" /\ run.errors = {} =>
        \A x \in Range(run.order) :
            IF run.media
            THEN LET k == <<<<"media", 0>>, Path[x]>> IN
                 Holds(k) /\ folder[k][2] /\ Path[folder[k][1]] = Path[x]
            ELSE /\ Holds(<<run.names[x], "text">>)
                 /\ folder[<<run.names[x], "text">>] = <<x, TRUE>>
                 /\ run.with => \A y \in Range(Atts[x]) :
                        Holds(<<run.names[x], y>>) /\ folder[<<run.names[x], y>>] = <<y, TRUE>>

\* The window that shows a running export, which locks the rest of the
\* application, waits for something: the reply to its call, the export it
\* knows, or the last notification of that export.
RunningIsLive ==
    view.phase = "running" =>
        \/ \E c \in Range(calls) : c.op = "start" /\ c.view = views
        \/ \E m \in Range(inbox) : m.op \in {"started", "refused"} /\ m.view = views
        \/ slot # None /\ slot.id = view.id
        \/ \E m \in Range(inbox) : m.view = 0 /\ m.id = view.id

\* Once an export is told to stop it copies no further attachment and no further media file.
CancelStopsCopies ==
    [][slot # None /\ slot.aborted =>
          \A k \in Copies :
                (k \in DOMAIN folder') = Holds(k) /\ (Holds(k) => folder'[k] = folder[k])]_vars
====================
