---------- MODULE ConversationList ----------
(* The list of conversations of the desktop window: the copy it keeps of the *)
(* database, what marks a conversation read, and what flashes the taskbar *)
(* (stores/conversations.svelte.ts, the notification handlers of *)
(* stores/messages.svelte.ts, and the main process between them and the *)
(* daemon). A date is the number of messages there were by then. *)
EXTENDS Integers, Sequences, SequencesExt, FiniteSets

CONSTANTS
    Threads, None,
    MaxNews,        \* bound on messages and on conversations read on the phone
    MaxClicks       \* bound on what the user does

\* Of the constants; assumed where they are given values.
ListConstants == None \notin Threads /\ {MaxNews, MaxClicks} \subseteq Nat

VARIABLES
    rows,           \* the database: [Threads -> [date, unread, readAt]]
    batch,          \* main process: [armed, threads, newest] of sms.messages
    inbox,          \* notifications under way to the window, in order
    calls,          \* calls and messages under way to the main process, in order
    replies,        \* answers to sms.conversations under way to the window
    list,           \* conversations.raw
    timer,          \* the list's 100 ms refresh timer is running
    sel,            \* conversations.selectedThreadId
    shown,          \* messages.threadId
    focus, bottom,  \* document.hasFocus(), scrollState.isAtBottom
    attention,      \* the store: pendingReadOnFocus, isFlashing, lastNotifiedDate
    flash,          \* the taskbar flashes
    clock, news, clicks

daemonVars == <<rows, batch, clock, news>>
paneVars == <<sel, shown, focus, bottom, clicks>>
vars == <<rows, batch, inbox, calls, replies, list, timer, sel, shown, focus, bottom,
          attention, flash, clock, news, clicks>>

AnyThread == "any thread"
Notice(kind, t, newest) == [kind |-> kind, thread |-> t, newest |-> newest]
ListCall == [kind |-> "list"]
MarkCall(t) == [kind |-> "mark", thread |-> t]
FlashCall(on) == [kind |-> "flash", on |-> on]

Row == [date : 0..MaxNews, unread : BOOLEAN, readAt : -1..MaxNews]

Init ==
    /\ rows = [t \in Threads |-> [date |-> 0, unread |-> FALSE, readAt |-> -1]]
    /\ list = rows
    /\ batch = [armed |-> FALSE, threads |-> {}, newest |-> 0]
    /\ inbox = <<>> /\ calls = <<>> /\ replies = <<>> /\ timer = FALSE
    /\ sel = None /\ shown = None /\ focus \in BOOLEAN /\ bottom = TRUE
    /\ attention = [read |-> FALSE, flashing |-> FALSE, notified |-> 0]
    /\ flash = FALSE
    /\ clock = 0 /\ news = 0 /\ clicks = 0

HasUnread(row) == row.unread /\ row.readAt < row.date

--------------------
(* The phone, the daemon and the main process. *)

News == news < MaxNews /\ news' = news + 1

Arrives(t, incoming) ==
    /\ News /\ clock' = clock + 1
    /\ rows' = [rows EXCEPT ![t].date = clock + 1, ![t].unread = @ \/ incoming]
    /\ batch' = [armed |-> TRUE, threads |-> batch.threads \cup {t}, newest |-> clock + 1]
    /\ UNCHANGED <<inbox, calls, replies, list, timer, attention, flash, paneVars>>

ReadOnPhone(t) ==   \* the notification is not batched
    /\ News
    /\ rows' = [rows EXCEPT ![t].readAt = clock]
    /\ inbox' = Append(inbox, Notice("read", t, 0))
    /\ UNCHANGED <<batch, clock, calls, replies, list, timer, attention, flash, paneVars>>

FlushSmsBatch ==
    /\ batch.armed
    /\ batch' = [armed |-> FALSE, threads |-> {}, newest |-> 0]
    /\ inbox' = Append(inbox, Notice("messages",
                   IF Cardinality(batch.threads) = 1 THEN CHOOSE t \in batch.threads : TRUE
                                                     ELSE AnyThread, batch.newest))
    /\ UNCHANGED <<rows, clock, news, calls, replies, list, timer, attention, flash, paneVars>>

ServeCall ==        \* sms.conversations, sms.mark_thread_read, window:flash
    /\ calls # <<>> /\ calls' = Tail(calls)
    /\ LET c == Head(calls) IN
       \/ /\ c.kind = "list" /\ replies' = Append(replies, rows)
          /\ UNCHANGED <<rows, flash>>
       \/ /\ c.kind = "mark" /\ rows' = [rows EXCEPT ![c.thread].readAt = clock]
          /\ UNCHANGED <<replies, flash>>
       \/ /\ c.kind = "flash" /\ flash' = c.on
          /\ UNCHANGED <<rows, replies>>
    /\ UNCHANGED <<batch, clock, news, inbox, list, timer, attention, paneVars>>

--------------------
(* The window. *)

\* Mutation of the next definition.
RefreshUnlessLoading ==
    timer' = (timer \/ (ListCall \notin ToSet(calls) /\ replies = <<>>))

RefreshConversations == timer' = TRUE

RefreshTimer ==
    /\ timer /\ timer' = FALSE
    /\ calls' = Append(calls, ListCall)
    /\ UNCHANGED <<daemonVars, inbox, replies, list, attention, flash, paneVars>>

ListReply ==
    /\ replies # <<>> /\ replies' = Tail(replies) /\ list' = Head(replies)
    /\ UNCHANGED <<daemonVars, inbox, calls, timer, attention, flash, paneVars>>

\* markThreadRead: the list at once, the database by a call nobody waits for.
Marked(l, t) == [l EXCEPT ![t].readAt = clock]
MarkThreadRead(t, more) ==
    list' = Marked(list, t) /\ calls' = Append(calls, MarkCall(t)) \o more

\* sms.messages. The thread is judged by the list, which is not refreshed yet.
HandleMessages(n) ==
    LET known == n.thread \in Threads
        unread == known /\ HasUnread(list[n.thread])
        here == known /\ n.thread = shown
        notify == ~focus /\ n.newest > attention.notified /\ unread
        ring == IF notify THEN <<FlashCall(TRUE)>> ELSE <<>>
    IN  /\ RefreshConversations
        /\ IF here /\ unread /\ focus /\ bottom THEN MarkThreadRead(n.thread, ring)
           ELSE calls' = calls \o ring /\ UNCHANGED list
        /\ attention' = [read |-> attention.read \/ (here /\ unread /\ ~(focus /\ bottom)),
                         flashing |-> attention.flashing \/ notify,
                         notified |-> IF notify THEN n.newest ELSE attention.notified]

HandleRead ==       \* the taskbar stops, "isFlashing" stays
    /\ RefreshConversations
    /\ calls' = Append(calls, FlashCall(FALSE))
    /\ UNCHANGED <<list, attention>>

HandleNotification ==
    /\ inbox # <<>> /\ inbox' = Tail(inbox)
    /\ \/ Head(inbox).kind = "messages" /\ HandleMessages(Head(inbox))
       \/ Head(inbox).kind = "read" /\ HandleRead
    /\ UNCHANGED <<daemonVars, replies, flash, paneVars>>

--------------------
(* The user. *)

Click == clicks < MaxClicks /\ clicks' = clicks + 1

\* Mutation of the next definition.
FocusUnsent ==
    /\ flash' = FALSE
    /\ attention' = [attention EXCEPT !.read = @ /\ ~bottom, !.flashing = FALSE]
    /\ UNCHANGED <<list, calls>>

\* The main process stops the flashing on focus, and so does handleFocus.
Focused ==
    LET stop == IF attention.flashing THEN <<FlashCall(FALSE)>> ELSE <<>> IN
    /\ flash' = FALSE
    /\ attention' = [attention EXCEPT !.read = @ /\ ~bottom, !.flashing = FALSE]
    /\ IF attention.read /\ shown # None /\ bottom THEN MarkThreadRead(shown, stop)
       ELSE calls' = calls \o stop /\ UNCHANGED list

Focus ==
    /\ Click /\ ~focus /\ focus' = TRUE /\ Focused
    /\ UNCHANGED <<daemonVars, inbox, replies, timer, sel, shown, bottom>>

Blur ==
    /\ Click /\ focus /\ focus' = FALSE
    /\ UNCHANGED <<daemonVars, inbox, calls, replies, list, timer, sel, shown, bottom, attention, flash>>

Scroll ==
    /\ Click /\ sel # None /\ bottom' = ~bottom
    /\ UNCHANGED <<daemonVars, inbox, calls, replies, list, timer, sel, shown, focus, attention, flash>>

SelectConversation(t) ==
    /\ Click /\ focus /\ sel # t
    /\ sel' = t /\ shown' = t /\ bottom' = TRUE
    /\ MarkThreadRead(t, <<>>)
    /\ UNCHANGED <<daemonVars, inbox, replies, timer, focus, attention, flash>>

StartCompose ==     \* the pane goes, the store keeps its thread
    /\ Click /\ focus /\ sel # None /\ sel' = None
    /\ UNCHANGED <<daemonVars, inbox, calls, replies, list, timer, shown, focus, bottom, attention, flash>>

OpenExtraPanel ==   \* loadThread(null)
    /\ Click /\ focus /\ sel # None /\ sel' = None /\ shown' = None
    /\ UNCHANGED <<daemonVars, inbox, calls, replies, list, timer, focus, bottom, attention, flash>>

Next ==
    \/ \E t \in Threads, incoming \in BOOLEAN : Arrives(t, incoming)
    \/ \E t \in Threads : ReadOnPhone(t) \/ SelectConversation(t)
    \/ FlushSmsBatch \/ ServeCall \/ RefreshTimer \/ ListReply \/ HandleNotification
    \/ Focus \/ Blur \/ Scroll \/ StartCompose \/ OpenExtraPanel

Spec == Init /\ [][Next]_vars

--------------------
Call == {ListCall} \cup {MarkCall(t) : t \in Threads} \cup {FlashCall(b) : b \in BOOLEAN}

TypeOK ==
    /\ {rows, list} \subseteq [Threads -> Row] /\ ToSet(replies) \subseteq [Threads -> Row]
    /\ batch \in [armed : BOOLEAN, threads : SUBSET Threads, newest : 0..MaxNews]
    /\ ToSet(inbox) \subseteq [kind : {"messages", "read"},
                               thread : Threads \cup {AnyThread}, newest : 0..MaxNews]
    /\ ToSet(calls) \subseteq Call
    /\ {timer, focus, bottom, flash} \subseteq BOOLEAN
    /\ {sel, shown} \subseteq Threads \cup {None}
    /\ attention \in [read : BOOLEAN, flashing : BOOLEAN, notified : 0..MaxNews]
    /\ clock \in 0..MaxNews /\ news \in 0..MaxNews /\ clicks \in 0..MaxClicks

Fresh(l) == \A t \in Threads : l[t].date = rows[t].date /\ l[t].unread = rows[t].unread

\* Whenever the list lacks a message the database has, something that will make
\* it read the database again is under way: a batch, a notification, the timer,
\* a call, or the answer with that message. Debouncing may drop none of them.
StaleIsNoticed ==
    \/ Fresh(list) \/ batch.armed \/ timer
    \/ \E n \in ToSet(inbox) : n.kind = "messages"
    \/ ListCall \in ToSet(calls)
    \/ \E l \in ToSet(replies) : Fresh(l)

FlashCalls == {k \in DOMAIN calls : calls[k].kind = "flash"}

\* While the window has the focus the taskbar flashes only until a call already
\* on its way stops it, even if the call that started it arrives after the focus
\* ("Stop on focus regain, never re-trigger until next new incoming").
FlashEnds ==
    focus /\ (flash \/ FlashCalls # {}) =>
        \E last \in FlashCalls : ~calls[last].on /\ \A k \in FlashCalls : k <= last

\* "If we're actively viewing this thread, mark it as read": the program marks a
\* conversation read only if it is on the screen of a window with the focus.
\* The code does not keep this: see README.md, section 6.
MarkedIsOnScreen ==
    [][\A t \in Threads : list'[t].readAt # list[t].readAt /\ calls' # calls =>
            sel' = t /\ focus']_vars
====================
