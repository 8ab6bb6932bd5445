---------- MODULE Composer ----------
(* Writing a message: the compose areas of MessageThread.svelte and *)
(* NewConversation.svelte, the panes of App.svelte that mount and unmount *)
(* them, and the table of picked files that the main process keeps *)
(* (draft:* of gui/src/main/index.ts). A conversation is named by the set of *)
(* its addresses. Files are picked over calls during which the user goes on. *)
EXTENDS Integers, Sequences, FiniteSets, SequencesExt

CONSTANTS
    Addresses,
    Drafts,         \* the picked files, 1..n, in the order they are picked
    Size,           \* [Drafts -> Nat]: as prepared for sending
    MaxTotal,       \* MAX_TOTAL_SIZE
    MaxCount,       \* MAX_ATTACHMENT_COUNT
    MaxClicks,      \* bound on what the user does
    MaxPicks,       \* bound on calls that pick files under way
    None

\* Of the constants; assumed where they are given values.
ComposerConstants ==
    /\ Drafts = 1..Cardinality(Drafts) /\ Size \in [Drafts -> Nat]
    /\ {MaxTotal, MaxCount, MaxClicks, MaxPicks} \subseteq Nat

Conversations == (SUBSET Addresses) \ {{}}
NewOne == {}        \* the compose view, which has no conversation yet
Window == 0         \* who asks for the files: a component, 1.., or the window

VARIABLES
    known,          \* the conversations of the list
    view,           \* App and the store: [sel, composing, extra]
    pane,           \* the mounted compose area and its state
    main,           \* draftAttachments of the main process
    picks,          \* calls that pick files: [to, drafts, registered, at]
    ghosts,         \* messages shown as being sent: [to, drafts]
    picked,         \* how many files were picked
    clicks

vars == <<known, view, pane, main, picks, ghosts, picked, clicks>>

Blank(n, kind, at) ==
    [n |-> n, kind |-> kind, at |-> at, text |-> FALSE, drafts |-> <<>>, warned |-> FALSE,
     recipients |-> {}, locked |-> FALSE, sent |-> FALSE]

Init ==
    /\ known \in {{}} \cup {{c} : c \in Conversations}
    /\ view = [sel |-> None, composing |-> FALSE, extra |-> FALSE]
    /\ pane = Blank(0, None, None)
    /\ main = {} /\ picks = {} /\ ghosts = {} /\ picked = 0 /\ clicks = 0

Of(ds) == {ds[i].draft : i \in DOMAIN ds}
Total(ds) == FoldSeq(LAMBDA x, n : n + Size[x.draft], 0, ds)

--------------------
(* What is mounted. Leaving a component forgets its state; going from one *)
(* conversation to another keeps the component, and what is typed, and drops *)
(* the files. *)

Kind(v) == IF v.extra THEN None
           ELSE IF v.composing THEN "new"
           ELSE IF v.sel # None THEN "thread"
           ELSE None

At(v) == IF Kind(v) = "thread" THEN v.sel ELSE IF Kind(v) = "new" THEN NewOne ELSE None

\* A mutation of the next definition.
ShowsKept(v) ==
    IF Kind(v) # pane.kind
    THEN /\ pane' = Blank(IF Kind(v) = None THEN pane.n ELSE pane.n + 1, Kind(v), At(v))
         /\ main' = main
    ELSE IF At(v) # pane.at
    THEN /\ pane' = [pane EXCEPT !.at = At(v)]
         /\ main' = main \ Of(pane.drafts)
    ELSE UNCHANGED <<pane, main>>
Shows(v) ==
    IF Kind(v) # pane.kind
    THEN /\ pane' = Blank(IF Kind(v) = None THEN pane.n ELSE pane.n + 1, Kind(v), At(v))
         /\ main' = main
    ELSE IF At(v) # pane.at
    THEN /\ pane' = [pane EXCEPT !.at = At(v), !.drafts = <<>>,
                                 !.warned = @ /\ pane.drafts = <<>>]
         /\ main' = main \ Of(pane.drafts)
    ELSE UNCHANGED <<pane, main>>

\* selectConversation(), and the effect that closes the other panels.
Selected(t) == [sel |-> t, composing |-> FALSE, extra |-> view.extra /\ t = view.sel]

Goes(v) == view' = v /\ Shows(v)

Click == clicks < MaxClicks /\ clicks' = clicks + 1

SelectConversation(t) ==
    /\ Click /\ t \in known
    /\ Goes(Selected(t))
    /\ UNCHANGED <<known, picks, ghosts, picked>>

\* The button closes the other panels, the keyboard shortcut does not.
StartCompose(extra) ==
    /\ Click /\ extra \in {FALSE, view.extra}
    /\ Goes([sel |-> None, composing |-> TRUE, extra |-> extra])
    /\ UNCHANGED <<known, picks, ghosts, picked>>

\* A panel of its own; the media of the open conversation leave it selected.
OpenPanel(media) ==
    /\ Click
    /\ media => pane.kind = "thread"
    /\ Goes(IF media THEN [view EXCEPT !.extra = TRUE]
                     ELSE [sel |-> None, composing |-> FALSE, extra |-> TRUE])
    /\ UNCHANGED <<known, picks, ghosts, picked>>

ClosePanel ==
    /\ view.extra
    /\ Goes([view EXCEPT !.extra = FALSE])
    /\ UNCHANGED <<known, picks, ghosts, picked, clicks>>

ExitCompose ==      \* Escape
    /\ Click /\ view.composing
    /\ Goes([view EXCEPT !.composing = FALSE])
    /\ UNCHANGED <<known, picks, ghosts, picked>>

Matched(k) == pane.recipients # {} /\ pane.recipients \in k
ShowsCompose ==
    \/ pane.kind = "thread"
    \/ /\ pane.kind = "new" /\ pane.recipients # {} /\ ~Matched(known)
       /\ Cardinality(pane.recipients) = 1 \/ pane.locked

--------------------
(* Picking files. *)

\* The answer goes to the component that asked, or, for files dropped beside the
\* compose area, to the one that is mounted by then.
Pick(to, n) ==
    /\ picked + n <= Cardinality(Drafts) /\ Cardinality(picks) < MaxPicks
    /\ picked' = picked + n
    /\ picks' = picks \cup {[to |-> to, drafts |-> [i \in 1..n |-> picked + i],
                             registered |-> FALSE, at |-> pane.at]}
    /\ UNCHANGED <<known, view, pane, main, ghosts, clicks>>

HandleAttach(n) == ShowsCompose /\ Pick(pane.n, n)      \* a dialog
HandleDrop(n) == ShowsCompose /\ Pick(pane.n, n)
HandlePaste == pane.kind = "thread" /\ Pick(pane.n, 1)  \* one image after the other
HandleWindowDrop(n) == (view.composing \/ view.sel # None) /\ Pick(Window, n)

\* The main process looks at each file and shrinks it; one may fail.
Register(p, lost) ==
    /\ ~p.registered
    /\ LET ds == SelectSeq(p.drafts, LAMBDA d : d \notin lost)
       IN  /\ main' = main \cup ToSet(ds)
           /\ picks' = (picks \ {p}) \cup {[p EXCEPT !.drafts = ds, !.registered = TRUE]}
    /\ UNCHANGED <<known, view, pane, ghosts, picked, clicks>>

AddDrafts(ds) ==
    LET room == MaxCount - Len(pane.drafts)
    IN  IF Len(ds) > room
        THEN [pane EXCEPT !.drafts = @ \o SubSeq(ds, 1, room), !.warned = TRUE]
        ELSE [pane EXCEPT !.drafts = @ \o ds,
                          !.warned = Total(pane.drafts \o ds) > MaxTotal]

Picked(p) ==
    /\ p.registered
    /\ picks' = picks \ {p}
    /\ LET ds == [i \in DOMAIN p.drafts |-> [draft |-> p.drafts[i], for |-> p.at]]
       IN  pane' = IF pane.kind # None /\ p.to \in {Window, pane.n} /\ ds # <<>>
                   THEN AddDrafts(ds) ELSE pane
    /\ UNCHANGED <<known, view, main, ghosts, picked, clicks>>

RemoveDraft(d) ==
    /\ d \in Of(pane.drafts)
    /\ LET left == SelectSeq(pane.drafts, LAMBDA x : x.draft # d)
       IN  pane' = [pane EXCEPT !.drafts = left, !.warned = @ /\ Total(left) > MaxTotal]
    /\ main' = main \ {d}
    /\ UNCHANGED <<known, view, picks, ghosts, picked, clicks>>

--------------------
(* Writing and sending. *)

Type ==
    /\ ShowsCompose /\ ~pane.text
    /\ pane' = [pane EXCEPT !.text = TRUE]
    /\ UNCHANGED <<known, view, main, picks, ghosts, picked, clicks>>

CanSend == ShowsCompose /\ (pane.text \/ pane.drafts # <<>>)

\* queueSendMessage() shows the message as being sent.
Queued(new) ==
    /\ ghosts' = ghosts \cup {[to |-> pane.at, drafts |-> Of(pane.drafts)]}
    /\ pane' = [pane EXCEPT !.text = FALSE, !.drafts = <<>>, !.warned = FALSE, !.sent = new]
    /\ UNCHANGED <<known, view, main, picks, picked, clicks>>

SendInThread == pane.kind = "thread" /\ CanSend /\ view.sel \in known /\ Queued(FALSE)
SendNew == pane.kind = "new" /\ CanSend /\ Queued(TRUE)

\* The message is there, or was cancelled: the ghost goes, and its files.
RemoveGhost(g) ==
    /\ ghosts' = ghosts \ {g}
    /\ main' = main \ g.drafts
    /\ UNCHANGED <<known, view, pane, picks, picked, clicks>>

\* The effects of NewConversation: a group that exists, or the conversation
\* that a message was sent to, is opened once the list has it.
Found(k, p) == /\ p.kind = "new" /\ p.recipients \in k
               /\ p.sent \/ Cardinality(p.recipients) >= 2
Followed(k, p) ==
    IF Found(k, p)
    THEN /\ view' = Selected(p.recipients)
         /\ ghosts' = IF p.sent THEN {g \in ghosts : g.to # NewOne} ELSE ghosts
         /\ pane' = Blank(p.n + 1, "thread", p.recipients)
    ELSE pane' = p /\ UNCHANGED <<view, ghosts>>

AddressSelect(x) ==
    /\ Click /\ pane.kind = "new" /\ x \notin pane.recipients
    /\ Followed(known, [pane EXCEPT !.recipients = @ \cup {x}])
    /\ UNCHANGED <<known, main, picks, picked>>

RemoveRecipient(x) ==
    /\ Click /\ pane.kind = "new" /\ x \in pane.recipients
    /\ Followed(known, [pane EXCEPT !.recipients = @ \ {x},
                                    !.locked = @ /\ pane.recipients # {x}])
    /\ UNCHANGED <<known, main, picks, picked>>

LockCompose ==
    /\ pane.kind = "new" /\ Cardinality(pane.recipients) >= 2 /\ ~Matched(known) /\ ~pane.locked
    /\ pane' = [pane EXCEPT !.locked = TRUE]
    /\ UNCHANGED <<known, view, main, picks, ghosts, picked, clicks>>

\* refreshConversations(): a conversation is new, or gone.
ListRefreshed(k) ==
    /\ Click /\ Cardinality((k \ known) \cup (known \ k)) = 1
    /\ known' = k
    /\ Followed(k, pane)
    /\ UNCHANGED <<main, picks, picked>>

Next ==
    \/ \E t \in known : SelectConversation(t)
    \/ \E e \in BOOLEAN : StartCompose(e) \/ OpenPanel(e)
    \/ ClosePanel \/ ExitCompose
    \/ \E n \in 1..2 : HandleAttach(n) \/ HandleDrop(n) \/ HandleWindowDrop(n)
    \/ HandlePaste
    \/ \E p \in picks, lost \in SUBSET Drafts : lost \subseteq ToSet(p.drafts) /\ Register(p, lost)
    \/ \E p \in picks : Picked(p)
    \/ \E d \in Drafts : RemoveDraft(d)
    \/ Type \/ SendInThread \/ SendNew
    \/ \E g \in ghosts : RemoveGhost(g)
    \/ \E x \in Addresses : AddressSelect(x) \/ RemoveRecipient(x)
    \/ LockCompose
    \/ \E k \in SUBSET Conversations : ListRefreshed(k)

Spec == Init /\ [][Next]_vars

--------------------
TypeOK ==
    /\ known \subseteq Conversations /\ main \subseteq Drafts
    /\ pane.kind \in {"thread", "new", None} /\ pane.kind = Kind(view) /\ pane.at = At(view)
    /\ Len(pane.drafts) <= MaxCount
    /\ picked \in 0..Cardinality(Drafts) /\ clicks \in 0..MaxClicks

\* A file that the composer or a message under way shows is one the main
\* process can serve, whatever was switched, removed, sent or dropped meanwhile;
\* no file is in two places; and files too large to send never stand in the
\* composer without the warning.
DraftsAreSound ==
    /\ Of(pane.drafts) \subseteq main
    /\ \A g \in ghosts : g.drafts \subseteq main \ Of(pane.drafts)
    /\ Len(pane.drafts) = Cardinality(Of(pane.drafts))
    /\ Total(pane.drafts) > MaxTotal => pane.warned

\* "clear drafts on thread switch" (MessageThread.svelte:461): the files in the
\* composer were picked for the conversation that is open.
\* The code does not keep this: see README.md, section 6.
DraftsAreOwn ==
    pane.kind = "thread" => \A i \in DOMAIN pane.drafts : pane.drafts[i].for = pane.at
====================
