---------- MODULE Shell ----------
(* What the window knows of the daemon it runs beside: whether it is there, *)
(* its state, the phone it has discovered, whether that phone is paired, and *)
(* the pairing under way; and from these, which page it shows.  The daemon is *)
(* the main process: it answers a call at once, and its replies and *)
(* notifications reach the window in the order they were sent.  One phone. *)
EXTENDS Integers, Sequences

CONSTANTS
    MaxEvents, MaxClicks, MaxPolls, \* bounds: of the phone, of the user, of the poll
    MaxWay                          \* bound: what may be on its way when something new happens

VARIABLES
    bridge,     \* DaemonBridge: "connecting", "connected", or "disconnected" for good
    daemon,     \* the daemon's state, see TypeOK
    window,     \* the stores of the window
    calls,      \* calls on their way to the main process
    inbox,      \* replies and notifications on their way to the window
    events, clicks, polls

vars == <<bridge, daemon, window, calls, inbox, events, clicks, polls>>

States == {"DISCOVERING", "PAIRING", "CONNECTED"}
Range(s) == {s[i] : i \in DOMAIN s}

TypeOK ==
    /\ bridge \in {"connecting", "connected", "disconnected"}
    /\ daemon \in [state : States, trusted : BOOLEAN, conn : {"none", "open", "closing"},
                   code : 0..MaxEvents * 2 + MaxClicks, codes : 0..MaxEvents * 2 + MaxClicks,
                   found : BOOLEAN, hook : BOOLEAN, asked : BOOLEAN]
    /\ window \in [mounted : BOOLEAN, socket : {"disconnected", "connecting", "connected"},
                   app : States \union {"null"}, found : BOOLEAN, paired : BOOLEAN,
                   incoming : BOOLEAN, code : 0..MaxEvents * 2 + MaxClicks, hasBeen : BOOLEAN]
    /\ daemon.code <= daemon.codes

NewWindow == [mounted |-> FALSE, socket |-> "disconnected", app |-> "null", found |-> FALSE,
              paired |-> FALSE, incoming |-> FALSE, code |-> 0, hasBeen |-> FALSE]

Init ==
    /\ bridge = "connecting"
    /\ \E trusted \in BOOLEAN :
          daemon = [state |-> "DISCOVERING", trusted |-> trusted, conn |-> "none", code |-> 0,
                    codes |-> 0, found |-> FALSE, hook |-> FALSE, asked |-> FALSE]
    /\ window = NewWindow /\ calls = <<>> /\ inbox = <<>>
    /\ events = 0 /\ clicks = 0 /\ polls = 0

--------------------
(* The daemon *)
Note(op, v) == <<<<op, v>>>>
State(to) == Note("state.changed", to)

\* Notifications are wired when the daemon has started; a window that is not there gets none.
Sends(d, notes) ==
    /\ daemon' = d
    /\ inbox' = IF bridge = "connected" /\ window.mounted THEN inbox \o notes ELSE inbox

Quiet == Len(calls) + Len(inbox) <= MaxWay
Event == Quiet /\ bridge # "disconnected" /\ events < MaxEvents /\ events' = events + 1 /\ UNCHANGED <<bridge, window, calls, clicks, polls>>
EventOnOpen == Event /\ daemon.conn = "open"

\* By way of DISCONNECTED: two notifications, of which the second counts.
Back(d) == [d EXCEPT !.state = "DISCOVERING"]

Found(d) == IF d.found THEN <<>> ELSE Note("device.found", TRUE)

PhoneDiscovered == Event /\ Sends([daemon EXCEPT !.found = TRUE], Found(daemon))
PhoneLost == Event /\ daemon.found /\ Sends([daemon EXCEPT !.found = FALSE], Note("device.lost", FALSE))

\* requestPairing()
NewCode(d) == [d EXCEPT !.code = d.codes + 1, !.codes = @ + 1]
CodeNote(d) == Note("pairing.code", d.codes + 1)

\* The connection callbacks: the daemon's, and the one that a pair.request has left.
PhoneConnects ==
    /\ Event
    /\ daemon.conn = "none"
    /\ LET there == [daemon EXCEPT !.conn = "open", !.found = TRUE, !.hook = FALSE, !.asked = FALSE]
           first == NewCode([there EXCEPT !.state = "PAIRING"])
           answer == IF daemon.asked THEN Note("pair.request", first.codes + 1) ELSE <<>>
       IN IF daemon.trusted
          THEN Sends([there EXCEPT !.state = "CONNECTED"],
                     Found(daemon) \o State("CONNECTED")
                       \o (IF daemon.asked THEN Note("pair.failed", 0) ELSE <<>>))
          ELSE IF daemon.hook
          THEN Sends(NewCode(first),
                     Found(daemon) \o State("PAIRING") \o CodeNote(there) \o CodeNote(first) \o answer)
          ELSE Sends(first, Found(daemon) \o State("PAIRING") \o CodeNote(there))

\* onPairingResult: the state moves first, the window hears of the result next.
Succeeds(d) ==
    Sends([d EXCEPT !.state = "CONNECTED"],
          (IF d.state = "CONNECTED" THEN <<>> ELSE State("CONNECTED")) \o Note("pairing.result", TRUE))
Fails(d) == Sends(Back(d), State("DISCOVERING") \o Note("pairing.result", FALSE))

PhoneRequestsPair == EventOnOpen /\ (IF daemon.trusted THEN Succeeds(daemon) ELSE Sends(daemon, Note("pairing.incoming", TRUE)))
PhoneConfirms == EventOnOpen /\ daemon.code # 0 /\ Succeeds([daemon EXCEPT !.code = 0, !.trusted = TRUE])
PhoneRejects == EventOnOpen /\ daemon.code # 0 /\ Fails([daemon EXCEPT !.code = 0])
CodeTimeout == Event /\ daemon.code # 0 /\ Fails([daemon EXCEPT !.code = 0])

Unpair(d) == [d EXCEPT !.trusted = FALSE, !.conn = IF @ = "open" THEN "closing" ELSE @]
PhoneUnpairs == EventOnOpen /\ Sends(Unpair(daemon), <<>>)

\* A mutation of the next definition.
DisconnectedUntold ==
    /\ daemon.conn # "none" /\ Quiet
    /\ Sends(Back([daemon EXCEPT !.conn = "none"]), <<>>)
    /\ UNCHANGED <<bridge, window, calls, clicks, polls, events>>

Disconnected ==
    /\ daemon.conn # "none" /\ Quiet
    /\ Sends(Back([daemon EXCEPT !.conn = "none"]), State("DISCOVERING"))
    /\ UNCHANGED <<bridge, window, calls, clicks, polls, events>>

\* pair.request gives up after 10 s; its callback stays.
RequestTimeout ==
    /\ daemon.asked
    /\ Sends([daemon EXCEPT !.asked = FALSE], Note("pair.failed", 0))
    /\ UNCHANGED <<bridge, window, calls, clicks, polls, events>>

DaemonStarted ==
    /\ bridge = "connecting"
    /\ bridge' = "connected"
    /\ inbox' = IF window.mounted THEN inbox \o Note("socket", "connected") ELSE inbox
    /\ UNCHANGED <<daemon, window, calls, events, clicks, polls>>

StartFails ==
    /\ bridge = "connecting"
    /\ bridge' = "disconnected"
    /\ inbox' = IF window.mounted THEN inbox \o Note("socket", "disconnected") ELSE inbox
    /\ UNCHANGED <<daemon, window, calls, events, clicks, polls>>

--------------------
(* A call: without a daemon every one but the first fails *)
Answer(d, notes) == daemon' = d /\ inbox' = inbox \o notes

Serve ==
    /\ calls # <<>>
    /\ calls' = Tail(calls)
    /\ LET c == Head(calls) IN
       IF c = "getConnectionState" THEN Answer(daemon, Note(c, bridge))
       ELSE IF bridge # "connected" THEN Answer(daemon, Note("error", c))
       ELSE \/ c = "daemon.status" /\ Answer(daemon, Note(c, daemon.state))
            \/ c = "devices.discovered" /\ Answer(daemon, Note(c, daemon.found))
            \/ c = "devices.paired" /\ Answer(daemon, Note(c, daemon.trusted))
            \/ c \in {"pair.unpair", "settings.unpair"} /\ Answer(Unpair(daemon), Note(c, FALSE))
            \/ c = "pair.accept" /\ Answer(daemon, <<>>)
            \/ c = "pair.reject" /\ Answer(Back(daemon), State("DISCOVERING") \o Note("pairing.result", FALSE) \o Note(c, FALSE))
            \/ /\ c = "pair.request"
               /\ IF daemon.conn # "none" /\ ~daemon.trusted
                  THEN Answer(NewCode(daemon), CodeNote(daemon) \o Note(c, daemon.codes + 1))
                  ELSE IF daemon.conn = "none" /\ daemon.found
                  THEN Answer([daemon EXCEPT !.hook = TRUE, !.asked = TRUE], <<>>)
                  ELSE Answer(daemon, Note("pair.failed", 0))
    /\ UNCHANGED <<bridge, window, events, clicks, polls>>

--------------------
(* The window *)
Known(w) == w.socket = "connected" /\ w.app # "null"
InSession(w) == Known(w) /\ w.app = "CONNECTED"

\* The effects: a session is remembered, and every change of state refreshes the devices.
\* A mutation of the next definition.
RefreshInSession(w, more) ==
    /\ window' = [w EXCEPT !.hasBeen = @ \/ InSession(w)]
    /\ calls' = calls \o more \o (IF InSession(w) THEN <<"devices.discovered">> ELSE <<>>)

Shows(w, more) ==
    /\ window' = [w EXCEPT !.hasBeen = @ \/ InSession(w)]
    /\ calls' = calls \o more \o (IF Known(w) THEN <<"devices.discovered">> ELSE <<>>)

Keeps(w) == window' = w /\ UNCHANGED calls
Asks(w, op) == window' = w /\ calls' = Append(calls, op)

Changed(w, more) == IF <<w.socket, w.app>> = <<window.socket, window.app>> THEN window' = w /\ calls' = calls \o more ELSE Shows(w, more)

Handle(op, v) ==
    \/ op = "socket" /\ (IF v = "connected" THEN Changed([window EXCEPT !.socket = v], <<"getConnectionState">>)
                           ELSE Changed([window EXCEPT !.socket = v, !.app = "null"], <<>>))
    \/ op = "getConnectionState" /\ Changed([window EXCEPT !.socket = v], IF v = "connected" THEN <<"daemon.status">> ELSE <<>>)
    \/ op = "daemon.status" /\ Changed([window EXCEPT !.app = v], <<>>)
    \/ op = "state.changed" /\ (IF v = "DISCOVERING" THEN Shows([window EXCEPT !.app = v], <<>>)
                                  ELSE Changed([window EXCEPT !.app = v], <<>>))
    \/ op \in {"device.found", "device.lost"} /\ Keeps([window EXCEPT !.found = v])
    \/ op = "devices.discovered" /\ Asks([window EXCEPT !.found = v], "devices.paired")
    \/ op = "devices.paired" /\ Keeps([window EXCEPT !.paired = v])
    \/ op = "pairing.incoming" /\ Keeps([window EXCEPT !.incoming = TRUE])
    \/ op \in {"pairing.code", "pair.request"} /\ Keeps([window EXCEPT !.code = v])
    \/ op = "pairing.result" /\ Keeps([window EXCEPT !.paired = @ \/ v, !.code = 0, !.incoming = FALSE])
    \/ op = "pair.unpair" /\ Keeps([window EXCEPT !.paired = FALSE])
    \/ op = "settings.unpair" /\ Keeps([window EXCEPT !.paired = FALSE, !.hasBeen = FALSE])
    \/ op = "pair.reject" /\ Keeps([window EXCEPT !.incoming = FALSE])
    \/ op \in {"error", "pair.failed"} /\ Keeps(window)

Receive ==
    /\ inbox # <<>>
    /\ inbox' = Tail(inbox)
    /\ Handle(Head(inbox)[1], Head(inbox)[2])
    /\ UNCHANGED <<bridge, daemon, events, clicks, polls>>

Mount ==
    /\ ~window.mounted
    /\ window' = [window EXCEPT !.mounted = TRUE]
    /\ calls' = Append(calls, "getConnectionState")
    /\ UNCHANGED <<bridge, daemon, inbox, events, clicks, polls>>

\* Every second until the window has a state; it stops for good when it has.
Poll ==
    /\ window.mounted /\ ~Known(window) /\ polls < MaxPolls /\ Quiet
    /\ calls' = Append(calls, "getConnectionState")
    /\ polls' = polls + 1
    /\ UNCHANGED <<bridge, daemon, window, inbox, events, clicks>>

\* showConversations, and the page that has the code and the request
Conversations == InSession(window) \/ window.hasBeen \/ window.paired
PairingPage == ~Conversations /\ Known(window)

Click(op, w) ==
    /\ window.mounted /\ clicks < MaxClicks /\ Quiet
    /\ clicks' = clicks + 1
    /\ Asks(w, op)
    /\ UNCHANGED <<bridge, daemon, inbox, events, polls>>

RequestPairing == PairingPage /\ ~window.incoming /\ window.code = 0 /\ window.found /\ Click("pair.request", window)
AcceptIncoming == PairingPage /\ window.incoming /\ Click("pair.accept", window)
RejectIncoming == PairingPage /\ window.incoming /\ Click("pair.reject", window)
CancelOutgoing == PairingPage /\ ~window.incoming /\ window.code # 0 /\ Click("pair.unpair", [window EXCEPT !.code = 0])
UnpairInSettings == window.paired /\ Click("settings.unpair", window)

Next ==
    \/ PhoneDiscovered \/ PhoneLost \/ PhoneConnects \/ PhoneRequestsPair \/ PhoneConfirms
    \/ PhoneRejects \/ CodeTimeout \/ PhoneUnpairs \/ Disconnected \/ RequestTimeout
    \/ DaemonStarted \/ StartFails \/ Serve
    \/ Receive \/ Mount \/ Poll
    \/ RequestPairing \/ AcceptIncoming \/ RejectIncoming \/ CancelOutgoing \/ UnpairInSettings

Spec == Init /\ [][Next]_vars

--------------------
Coming(ops) == (\E m \in Range(inbox) : m[1] \in ops) \/ Range(calls) \cap ops # {}

\* What the window believes of the daemon is true, or the correction is on its
\* way: whatever was sent before anybody listened, whatever snapshot and
\* notification crossed, a stale state, device list or pairing list does not
\* stay. Until it has a first state the window polls.
WindowCatchesUp ==
    bridge = "connected" /\ Known(window) =>
        /\ window.app # daemon.state => Coming({"state.changed", "daemon.status", "getConnectionState"})
        /\ window.found # daemon.found =>
              Coming({"device.found", "device.lost", "devices.discovered", "state.changed", "daemon.status"})
        /\ window.paired # daemon.trusted =>
              \/ Coming({"devices.discovered", "devices.paired", "state.changed", "pairing.result",
                         "pair.unpair", "settings.unpair", "daemon.status"})
              \/ daemon.conn = "closing"

\* "Pairing via kdeconnect.pair (verification code displayed on both sides)":
\* once nothing is on its way, the code the phone was sent is on the screen.
\* The code does not keep this: see README.md, section 6.
CodeIsShown ==
    bridge = "connected" /\ Known(window) /\ inbox = <<>> /\ calls = <<>> /\ daemon.conn = "open" /\ daemon.code # 0 =>
        PairingPage /\ ~window.incoming /\ window.code = daemon.code
====================
