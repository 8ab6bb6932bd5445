---------- MODULE Relays ----------
(* What the phone tells and the daemon passes on: the battery and the phone's *)
(* notifications, by way of the message router; and the status line of the *)
(* window, which shows the battery and, with some patience, the connection. *)
(* Packets and notifications arrive in the order they were sent. *)
EXTENDS Integers, Sequences

CONSTANTS
    Levels,     \* <<charge, charging>>
    Notes,      \* identifiers of notifications on the phone
    MaxTells, MaxTurns, MaxInbox    \* bounds: what the phone tells, how often it comes, what is on its way

VARIABLES
    phone,      \* [level, notes]: its battery, and the notifications it shows
    up, asked,  \* it is connected; it was asked for its battery
    wire,       \* packets on their way to the daemon
    daemon,     \* [state, level]: batteryCharge and batteryCharging are kept for good
    rows,       \* the table of notifications
    session,    \* history: notifications the phone told of over this connection
    inbox,      \* on its way to the window
    window,     \* [mounted, state, level, shown, timer]
    tells, turns

vars == <<phone, up, asked, wire, daemon, rows, session, inbox, window, tells, turns>>

Unknown == <<-1, FALSE>>
Good == {"CONNECTED", "SYNCING", "READY"}
States == Good \union {"DISCOVERING", "null"}

\* Of the constants; assumed where they are given values. A packet has a charge.
RelayConstants == Unknown \notin Levels /\ {MaxTells, MaxTurns, MaxInbox} \subseteq Nat

TypeOK ==
    /\ phone \in [level : Levels, notes : SUBSET Notes]
    /\ up \in BOOLEAN /\ asked \in BOOLEAN /\ (asked => up) /\ (wire # <<>> => up)
    /\ daemon \in [state : States, level : Levels \union {Unknown}]
    /\ rows \subseteq Notes /\ session \subseteq Notes
    /\ window \in [mounted : BOOLEAN, state : States, level : Levels \union {Unknown},
                   shown : States, timer : {"none", "armed", "spent"}]
    /\ up <=> daemon.state \in Good
    /\ tells \in 0..MaxTells /\ turns \in 0..MaxTurns

Init ==
    /\ phone \in [level : Levels, notes : {{}}]
    /\ up = FALSE /\ asked = FALSE /\ wire = <<>>
    /\ daemon = [state |-> "DISCOVERING", level |-> Unknown]
    /\ rows = {} /\ session = {} /\ inbox = <<>>
    /\ window = [mounted |-> FALSE, state |-> "null", level |-> Unknown, shown |-> "null", timer |-> "none"]
    /\ tells = 0 /\ turns = 0

--------------------
(* The phone *)
Sends(op, v) == wire' = IF up THEN Append(wire, <<op, v>>) ELSE wire
Tells == tells < MaxTells /\ tells' = tells + 1 /\ UNCHANGED <<up, daemon, rows, inbox, window, turns>>
Told(n) == session' = IF up THEN session \union {n} ELSE session

BatteryChanges ==
    \E l \in Levels \ {phone.level} :
        /\ Tells
        /\ phone' = [phone EXCEPT !.level = l]
        /\ Sends("battery", l)
        /\ UNCHANGED <<asked, session>>

BatteryAnswered ==
    /\ asked
    /\ asked' = FALSE
    /\ Sends("battery", phone.level)
    /\ UNCHANGED <<phone, up, daemon, rows, session, inbox, window, tells, turns>>

Posts(n) ==
    /\ Tells
    /\ phone' = [phone EXCEPT !.notes = @ \union {n}]
    /\ Sends("notification", n) /\ Told(n)
    /\ UNCHANGED asked

Cancels(n) ==
    /\ n \in phone.notes /\ Tells
    /\ phone' = [phone EXCEPT !.notes = @ \ {n}]
    /\ Sends("cancel", n) /\ Told(n)
    /\ UNCHANGED asked

--------------------
(* The daemon *)
Emits(op, v) == inbox' = IF window.mounted THEN Append(inbox, <<op, v>>) ELSE inbox

Moves(to) == daemon' = [daemon EXCEPT !.state = to] /\ Emits("state", to)

\* onConnection: the battery is asked for at once.
Connects ==
    /\ ~up /\ turns < MaxTurns /\ Len(inbox) < MaxInbox
    /\ turns' = turns + 1
    /\ up' = TRUE /\ asked' = TRUE /\ session' = {}
    /\ Moves("CONNECTED")
    /\ UNCHANGED <<phone, wire, rows, window, tells>>

Disconnects ==
    /\ up /\ Len(inbox) < MaxInbox
    /\ up' = FALSE /\ asked' = FALSE /\ wire' = <<>>
    /\ Moves("DISCOVERING")
    /\ UNCHANGED <<phone, rows, session, window, tells, turns>>

\* The orchestrator's syncs
Syncs ==
    /\ up /\ Len(inbox) < MaxInbox /\ turns < MaxTurns
    /\ turns' = turns + 1
    /\ Moves(IF daemon.state = "SYNCING" THEN "READY" ELSE "SYNCING")
    /\ UNCHANGED <<phone, up, asked, wire, rows, session, window, tells>>

\* The callbacks are for what differs from the level remembered, of whichever connection.
\* A mutation of the next definition.
BatteryCharge(l) ==
    IF l[1] # daemon.level[1]
    THEN daemon' = [daemon EXCEPT !.level = l] /\ Emits("battery", l)
    ELSE UNCHANGED <<daemon, inbox>>

Battery(l) ==
    IF l # daemon.level
    THEN daemon' = [daemon EXCEPT !.level = l] /\ Emits("battery", l)
    ELSE UNCHANGED <<daemon, inbox>>

Notification(op, n) == rows' = IF op = "cancel" THEN rows \ {n} ELSE rows \union {n}

\* route(): by type, whoever sends. The window has no use for notifications.
Route ==
    /\ wire # <<>>
    /\ wire' = Tail(wire)
    /\ LET p == Head(wire) IN
       IF p[1] = "battery" THEN Battery(p[2]) /\ UNCHANGED rows
       ELSE Notification(p[1], p[2]) /\ UNCHANGED <<daemon, inbox>>
    /\ UNCHANGED <<phone, up, asked, session, window, tells, turns>>

--------------------
(* The window *)
\* Effect of the status line when the state changes. "initialSyncDone" changes nothing of it:
\* READY is shown as CONNECTED with it and without it.
\* A mutation of the next definition.
DisplayKeepingTimer(w) ==
    IF w.state \in Good
    THEN [w EXCEPT !.shown = IF w.state = "SYNCING" THEN "SYNCING" ELSE "CONNECTED",
                   !.timer = IF @ = "armed" THEN "spent" ELSE @]
    ELSE IF w.shown \in Good THEN [w EXCEPT !.timer = IF @ = "none" THEN "armed" ELSE @]
    ELSE [w EXCEPT !.shown = w.state]

Display(w) ==
    IF w.state \in Good
    THEN [w EXCEPT !.shown = IF w.state = "SYNCING" THEN "SYNCING" ELSE "CONNECTED", !.timer = "none"]
    ELSE IF w.shown \in Good THEN [w EXCEPT !.timer = IF @ = "none" THEN "armed" ELSE @]
    ELSE [w EXCEPT !.shown = w.state]

\* The first snapshot: the battery the daemon remembers, if it ever knew one
Mount ==
    /\ ~window.mounted
    /\ window' = [window EXCEPT !.mounted = TRUE]
    /\ inbox' = <<<<"state", daemon.state>>, <<"battery", daemon.level>>>>
    /\ UNCHANGED <<phone, up, asked, wire, daemon, rows, session, tells, turns>>

Receive ==
    /\ inbox # <<>>
    /\ inbox' = Tail(inbox)
    /\ LET m == Head(inbox) IN
       window' = IF m[1] = "battery" THEN [window EXCEPT !.level = IF m[2] = Unknown THEN @ ELSE m[2]]
                 ELSE Display([window EXCEPT !.state = m[2],
                                             !.level = IF m[2] = "DISCOVERING" THEN Unknown ELSE @])
    /\ UNCHANGED <<phone, up, asked, wire, daemon, rows, session, tells, turns>>

\* 15 s of a state that is not good
Degrade ==
    /\ window.timer = "armed"
    /\ window' = [window EXCEPT !.timer = "none", !.shown = window.state]
    /\ UNCHANGED <<phone, up, asked, wire, daemon, rows, session, inbox, tells, turns>>

Next ==
    \/ BatteryChanges \/ BatteryAnswered
    \/ \E n \in Notes : Posts(n) \/ Cancels(n)
    \/ Connects \/ Disconnects \/ Syncs \/ Route
    \/ Mount \/ Receive \/ Degrade

Spec == Init /\ [][Next]_vars

--------------------
Settled == up /\ ~asked /\ wire = <<>> /\ inbox = <<>> /\ window.mounted

\* Once everything told has arrived, the daemon has the phone's battery, the
\* window shows that or none, and the table has just those of the notifications
\* told of in this session that the phone still shows.
TellsArrive ==
    Settled =>
        /\ daemon.level = phone.level
        /\ window.level \in {Unknown, phone.level}
        /\ rows \cap session = phone.notes \cap session

\* The status line owes what it shows to the state, or to a grace period that ends.
StatusIsBacked ==
    \/ window.shown = window.state
    \/ window.shown = "CONNECTED" /\ window.state = "READY"
    \/ window.shown \in Good /\ window.state \notin Good /\ window.timer = "armed"

RelaysAreTrue == TellsArrive /\ StatusIsBacked

\* "Updated via daemon IPC notifications when the phone sends battery packets":
\* once the phone's answer has come, its battery is on the status line.
\* The code does not keep this: see README.md, section 6.
BatteryIsShown == Settled => window.level = phone.level
====================
