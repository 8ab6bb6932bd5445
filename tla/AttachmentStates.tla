---------- MODULE AttachmentStates ----------
(* What the desktop window knows of the attachments in the open conversation *)
(* (stores/attachments.svelte.ts, the visible-range effect of *)
(* MessageThread.svelte). A state is not a promise: calls to the daemon, *)
(* retry timers and notifications outlive the conversation they were for, and *)
(* each writes the state when it ends. One attachment per conversation. *)
EXTENDS Integers, FiniteSets

CONSTANTS
    Attachments,    \* each names its conversation, too
    Rows,           \* [Attachments -> Nat]: how many messages its conversation shows
    MaxRetries,     \* 3 in the code
    MaxClicks,      \* bound on switches of conversation
    MaxTrouble,     \* bound on failed downloads and lost connections
    MaxCalls,       \* bound on equal calls or timers at a time
    None

Connected == "connected"

\* Of the constants; assumed where they are given values.
AttachmentConstants ==
    /\ {None, Connected} \cap Attachments = {} /\ Rows \in [Attachments -> Nat]
    /\ {MaxRetries, MaxClicks, MaxTrouble, MaxCalls} \subseteq Nat

VARIABLES
    stored,         \* attachments the daemon has on disk
    sel,            \* the open conversation
    flagged,        \* "downloaded" in the rows on screen
    range,          \* lastAttCheckRange
    states,         \* [Attachments -> [state, retries]]
    calls,          \* [Attachments \X retries -> Nat]: sms.get_attachment under way
    timers,         \* [Attachments \X retries -> Nat]: retry timers
    notices,        \* sms.attachment_downloaded and device.connected under way
    up,             \* the phone is connected
    clicks, trouble

vars == <<stored, sel, flagged, range, states, calls, timers, notices, up, clicks, trouble>>

Retries == 0..MaxRetries
Entry(s, n) == [state |-> s, retries |-> n]
Idle == Entry("idle", 0)

Init ==
    /\ stored = {} /\ sel = None /\ flagged = {} /\ range = 0
    /\ states = [a \in Attachments |-> Idle]
    /\ calls = [x \in Attachments \X Retries |-> 0] /\ timers = calls
    /\ notices = {} /\ up \in BOOLEAN
    /\ clicks = 0 /\ trouble = 0

Plus(f, x) == [f EXCEPT ![x] = @ + 1]
Minus(f, x) == [f EXCEPT ![x] = @ - 1]
Click == clicks < MaxClicks /\ clicks' = clicks + 1
Trouble == trouble < MaxTrouble /\ trouble' = trouble + 1

--------------------
(* The window. *)

Select(a) ==        \* clearAttachmentStates; calls and timers go on
    /\ Click /\ sel # a
    /\ sel' = a
    /\ states' = [b \in Attachments |-> Idle]
    /\ flagged' = {}
    /\ UNCHANGED <<stored, range, calls, timers, notices, up, trouble>>

\* The rows arrive, and again at every refresh: MessageWindow.
Loaded ==
    /\ sel # None /\ flagged' = stored \cap {sel}
    /\ UNCHANGED <<stored, sel, range, states, calls, timers, notices, up, clicks, trouble>>

RequestDownload(a) ==
    IF a \in flagged
    THEN /\ states' = IF states[a].state = "ready" THEN states
                      ELSE [states EXCEPT ![a] = Entry("ready", 0)]
         /\ UNCHANGED calls
    ELSE IF states[a].state \in {"downloading", "ready"} THEN UNCHANGED <<states, calls>>
    ELSE /\ states' = [states EXCEPT ![a].state = "downloading"]
         /\ calls' = Plus(calls, <<a, states[a].retries>>)

\* Every row of a short conversation is visible: the range is their number.
VisibleRange ==
    /\ sel # None /\ range # Rows[sel] /\ range' = Rows[sel]
    /\ calls[<<sel, states[sel].retries>>] < MaxCalls
    /\ RequestDownload(sel)
    /\ UNCHANGED <<stored, sel, flagged, timers, notices, up, clicks, trouble>>

Scroll ==           \* another range, and another chance to ask
    /\ Click /\ sel # None /\ range' = 0
    /\ UNCHANGED <<stored, sel, flagged, states, calls, timers, notices, up, trouble>>

--------------------
(* doDownload. *)

Succeeds(a, n) ==
    /\ calls[<<a, n>>] > 0 /\ a \in stored
    /\ calls' = Minus(calls, <<a, n>>)
    /\ states' = [states EXCEPT ![a] = Entry("ready", n)]
    /\ flagged' = IF sel = a THEN flagged \cup {a} ELSE flagged
    /\ UNCHANGED <<stored, sel, range, timers, notices, up, clicks, trouble>>

\* Mutation of the next definition.
FailedAsDisconnected(a, n) ==
    states' = [states EXCEPT ![a] = Entry("downloading", n)] /\ UNCHANGED timers

\* Mutation of the next definition.
FailedUncapped(a, n) ==
    /\ states' = [states EXCEPT ![a] = Entry("downloading", n + 1)]
    /\ timers' = Plus(timers, <<a, n>>)

Failed(a, n) ==
    IF n < MaxRetries
    THEN /\ states' = [states EXCEPT ![a] = Entry("downloading", n + 1)]
         /\ timers' = Plus(timers, <<a, n + 1>>)
    ELSE /\ states' = [states EXCEPT ![a] = Entry("error", n)]
         /\ UNCHANGED timers

Fails(a, n) ==      \* a timeout, or the phone's refusal
    /\ Trouble /\ calls[<<a, n>>] > 0
    /\ calls' = Minus(calls, <<a, n>>)
    /\ Failed(a, n)
    /\ UNCHANGED <<stored, sel, flagged, range, notices, up, clicks>>

NotConnected(a, n) ==   \* it stays "downloading" until the phone is back
    /\ ~up /\ calls[<<a, n>>] > 0
    /\ calls' = Minus(calls, <<a, n>>)
    /\ states' = [states EXCEPT ![a] = Entry("downloading", n)]
    /\ UNCHANGED <<stored, sel, flagged, range, timers, notices, up, clicks, trouble>>

RetryTimer(a, n) ==     \* "only retry if still in downloading state"
    /\ timers[<<a, n>>] > 0 /\ calls[<<a, n>>] < MaxCalls
    /\ timers' = Minus(timers, <<a, n>>)
    /\ calls' = IF states[a].state = "downloading" THEN Plus(calls, <<a, n>>) ELSE calls
    /\ UNCHANGED <<stored, sel, flagged, range, states, notices, up, clicks, trouble>>

--------------------
(* Notifications, in any order with the answers. *)

RetryPendingDownloads ==    \* on device.connected
    /\ Connected \in notices /\ notices' = notices \ {Connected}
    /\ \A x \in DOMAIN calls : calls[x] < MaxCalls
    /\ calls' = [x \in DOMAIN calls |->
                    IF states[x[1]] = Entry("downloading", x[2]) THEN calls[x] + 1 ELSE calls[x]]
    /\ UNCHANGED <<stored, sel, flagged, range, states, timers, up, clicks, trouble>>

NotifyAttachmentReady(a) ==
    /\ a \in notices /\ notices' = notices \ {a}
    /\ flagged' = IF sel = a THEN flagged \cup {a} ELSE flagged
    /\ states' = IF states[a].state = "ready" THEN states
                 ELSE [states EXCEPT ![a].state = "ready"]
    /\ UNCHANGED <<stored, sel, range, calls, timers, up, clicks, trouble>>

--------------------
(* The daemon: AttachmentDownload. *)

Download(a) ==
    /\ up /\ a \notin stored /\ \E n \in Retries : calls[<<a, n>>] > 0
    /\ stored' = stored \cup {a} /\ notices' = notices \cup {a}
    /\ UNCHANGED <<sel, flagged, range, states, calls, timers, up, clicks, trouble>>

Disconnect ==
    /\ Trouble /\ up /\ up' = FALSE
    /\ UNCHANGED <<stored, sel, flagged, range, states, calls, timers, notices, clicks>>

Connect ==
    /\ ~up /\ up' = TRUE /\ notices' = notices \cup {Connected}
    /\ UNCHANGED <<stored, sel, flagged, range, states, calls, timers, clicks, trouble>>

--------------------
Next ==
    \/ \E a \in Attachments : Select(a) \/ NotifyAttachmentReady(a) \/ Download(a)
    \/ \E a \in Attachments, n \in Retries :
           Succeeds(a, n) \/ Fails(a, n) \/ NotConnected(a, n) \/ RetryTimer(a, n)
    \/ Loaded \/ VisibleRange \/ Scroll \/ RetryPendingDownloads \/ Disconnect \/ Connect

Spec == Init /\ [][Next]_vars

--------------------
TypeOK ==
    /\ {stored, flagged} \subseteq SUBSET Attachments /\ sel \in Attachments \cup {None}
    /\ range \in Nat /\ {up} \subseteq BOOLEAN
    /\ states \in [Attachments -> [state : {"idle", "downloading", "ready", "error"},
                                   retries : Retries]]
    /\ {calls, timers} \subseteq [Attachments \X Retries -> Nat]
    /\ notices \subseteq Attachments \cup {Connected}
    /\ clicks \in 0..MaxClicks /\ trouble \in 0..MaxTrouble

\* A spinner is live: while an attachment is "downloading", a call or a retry
\* timer is under way for it, or the phone is away and its return will ask again
\* (doDownload leaves the state alone when the phone is not connected).
SpinnersHaveACause ==
    \A a \in Attachments : states[a].state = "downloading" =>
        \/ \E n \in Retries : calls[<<a, n>>] > 0 \/ timers[<<a, n>>] > 0
        \/ ~up \/ Connected \in notices

====================
