---------- MODULE WebdavMount ----------
(* The life of the file server (WebDAV): the daemon starts one on request and *)
(* stops it on request or ten seconds after the phone has gone (daemon.ts), *)
(* the settings panel and the gallery start and stop it, and the main process *)
(* has the operating system mount it. All servers listen on the same port. *)
EXTENDS Integers, FiniteSets

CONSTANTS
    Servers,        \* servers that are created, 1..n, in order
    MaxClicks,      \* bound on what the user does
    MaxTurns        \* bound on the phone's coming and going

\* Of the constants; assumed where they are given values.
WebdavConstants ==
    /\ IsFiniteSet(Servers) /\ Servers = 1..Cardinality(Servers)
    /\ {MaxClicks, MaxTurns} \subseteq Nat

VARIABLES
    up,             \* the phone is connected
    timer,          \* webdavDisconnectTimer
    created,        \* how many servers there were
    server,         \* [Servers -> what it does]
    current,        \* webdavServer of the daemon; 0 is none
    starter,        \* [Servers -> who waits for it to listen]
    stopping,       \* stopWebdav() waits for the current server to close
    panel,          \* the settings panel: [open, running, loading]
    gallery,        \* the gallery's "Show in Explorer" is under way
    mounted,        \* activeWebdavPort: the system was told to mount the port
    alone,          \* servers that began to listen while the phone was away
    clicks, turns

vars == <<up, timer, created, server, current, starter, stopping, panel, gallery, mounted,
          alone, clicks, turns>>

States == {"none", "binding", "running", "closing", "gone"}
Closed == [open |-> FALSE, running |-> FALSE, loading |-> FALSE]

Init ==
    /\ up \in BOOLEAN /\ timer = FALSE
    /\ created = 0 /\ server = [s \in Servers |-> "none"] /\ current = 0
    /\ starter = [s \in Servers |-> "nobody"] /\ stopping = FALSE
    /\ panel = Closed /\ gallery = FALSE /\ mounted = FALSE
    /\ alone = {} /\ clicks = 0 /\ turns = 0

\* A server that is closing still says so; its port is free.
IsRunning == current # 0 /\ server[current] \in {"running", "closing"}
Listening == {s \in Servers : server[s] = "running"}

--------------------
(* The phone. *)

Turn == turns < MaxTurns /\ turns' = turns + 1

\* A mutation of the next definition.
ConnectsUntimed == timer' = timer
StopsTimer == timer' = FALSE

Connection ==
    /\ Turn /\ ~up
    /\ up' = TRUE
    /\ StopsTimer
    /\ alone' = {}
    /\ UNCHANGED <<created, server, current, starter, stopping, panel, gallery, mounted, clicks>>

Disconnection ==
    /\ Turn /\ up
    /\ up' = FALSE
    /\ timer' = (timer \/ IsRunning)
    /\ UNCHANGED <<created, server, current, starter, stopping, panel, gallery, mounted, alone,
                   clicks>>

\* The notification webdav.stopped goes to the clients of the socket, and there
\* is none when the daemon runs inside the application.
DisconnectTimer ==
    /\ timer
    /\ timer' = FALSE
    /\ IF IsRunning
       THEN server' = [server EXCEPT ![current] = "closing"] /\ current' = 0
       ELSE UNCHANGED <<server, current>>
    /\ UNCHANGED <<up, created, starter, stopping, panel, gallery, mounted, alone, clicks,
                   turns>>

--------------------
(* The daemon. *)

OpenWebdav == mounted' = TRUE
CloseWebdav == mounted' = FALSE

Told(who, ok) ==
    /\ panel' = IF who = "panel" /\ panel.open
                THEN [panel EXCEPT !.running = @ \/ ok, !.loading = FALSE] ELSE panel
    /\ gallery' = (gallery /\ who # "gallery")
    /\ IF ok THEN OpenWebdav ELSE UNCHANGED mounted

StartWebdav(who) ==
    IF IsRunning
    THEN Told(who, TRUE) /\ UNCHANGED <<created, server, current, starter>>
    ELSE /\ created < Cardinality(Servers)
         /\ created' = created + 1 /\ current' = created + 1
         /\ server' = [server EXCEPT ![created + 1] = "binding"]
         /\ starter' = [starter EXCEPT ![created + 1] = who]
         /\ panel' = IF who = "panel" THEN [panel EXCEPT !.loading = TRUE] ELSE panel
         /\ gallery' = (gallery \/ who = "gallery")
         /\ UNCHANGED mounted

\* The port is taken or not.
Bound(s) ==
    /\ server[s] = "binding"
    /\ server' = [server EXCEPT ![s] = IF Listening = {} THEN "running" ELSE "gone"]
    /\ Told(starter[s], Listening = {})
    /\ alone' = IF up THEN alone ELSE alone \cup {s}
    /\ UNCHANGED <<up, timer, created, current, starter, stopping, clicks, turns>>

\* A server that does not listen yet is forgotten, and will.
StopWebdav ==
    IF current # 0 /\ server[current] = "running"
    THEN /\ server' = [server EXCEPT ![current] = "closing"]
         /\ stopping' = TRUE
         /\ panel' = [panel EXCEPT !.loading = TRUE]
         /\ UNCHANGED current
    ELSE /\ current' = 0
         /\ panel' = [panel EXCEPT !.running = FALSE]
         /\ UNCHANGED <<server, stopping>>

Close(s) ==         \* the last connection has ended
    /\ server[s] = "closing"
    /\ server' = [server EXCEPT ![s] = "gone"]
    /\ IF s = current
       THEN /\ current' = 0 /\ stopping' = FALSE
            /\ panel' = [panel EXCEPT !.running = FALSE, !.loading = FALSE]
       ELSE UNCHANGED <<current, stopping, panel>>
    /\ UNCHANGED <<up, timer, created, starter, gallery, mounted, alone, clicks, turns>>

--------------------
(* The window. *)

Click == clicks < MaxClicks /\ clicks' = clicks + 1

OpenSettings ==     \* webdav.status
    /\ Click /\ ~panel.open
    /\ panel' = [open |-> TRUE, running |-> IsRunning, loading |-> FALSE]
    /\ UNCHANGED <<up, timer, created, server, current, starter, stopping, gallery, mounted,
                   alone, turns>>

CloseSettings ==
    /\ panel.open
    /\ panel' = Closed
    /\ UNCHANGED <<up, timer, created, server, current, starter, stopping, gallery, mounted,
                   alone, clicks, turns>>

Mount ==
    /\ Click /\ panel.open /\ ~panel.running /\ ~panel.loading
    /\ StartWebdav("panel")
    /\ UNCHANGED <<up, timer, stopping, alone, turns>>

Unmount ==
    /\ Click /\ panel.open /\ panel.running /\ ~panel.loading /\ ~stopping
    /\ StopWebdav
    /\ CloseWebdav
    /\ UNCHANGED <<up, timer, created, starter, gallery, alone, turns>>

ShowInExplorer ==
    /\ Click /\ ~panel.open /\ ~gallery
    /\ StartWebdav("gallery")
    /\ UNCHANGED <<up, timer, stopping, alone, turns>>

Next ==
    \/ Connection \/ Disconnection \/ DisconnectTimer
    \/ \E s \in Servers : Bound(s) \/ Close(s)
    \/ OpenSettings \/ CloseSettings \/ Mount \/ Unmount \/ ShowInExplorer

Spec == Init /\ [][Next]_vars

--------------------
TypeOK ==
    /\ server \in [Servers -> States] /\ current \in Servers \cup {0}
    /\ created \in 0..Cardinality(Servers)
    /\ panel \in [open : BOOLEAN, running : BOOLEAN, loading : BOOLEAN]
    /\ Cardinality(Listening) <= 1

\* The timer that stops the server runs only while the phone is away: a phone
\* that came back in time keeps its files, whoever started the server. And the
\* server that outlives the connection has a timer, if it listened before.
ServedWithPhone ==
    /\ timer => ~up
    /\ ~up /\ current \in Listening \ alone => timer

\* "Stop WebDAV server if phone doesn't reconnect within 10s" (daemon.ts:552):
\* a server that outlives the connection has a timer.
\* The code does not keep this: see README.md, section 6.
AloneIsTimed == Listening # {} /\ ~up => timer
====================
