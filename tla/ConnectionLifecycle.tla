---------- MODULE ConnectionLifecycle ----------
(* The life of a phone's connection on the desktop: the WebSocket server's *)
(* table of connections, pairing, and the callbacks of daemon.ts that keep *)
(* the application state, the protocol handlers, UDP broadcasting and the *)
(* reconnect timers in step with it. *)
(*                                                                            *)
(* Each action is one task of the event loop: a WebSocket event, a timer or *)
(* an IPC request, with every callback it runs before the loop goes on. *)
(* Sockets stand for successive TLS connections; a pairing attempt (a code *)
(* shown to the user, with its timer) is numbered in order of creation, and *)
(* two attempts never draw the same code. *)
EXTENDS Integers, Sequences, FiniteSets, SequencesExt

CONSTANTS
    Devices,        \* phones
    Sockets,        \* the connections phones may open, each used once
    DeviceOf,       \* the phone that opens the socket
    Compatible,     \* sockets whose identity carries a compatible version
    MaxAttempts,    \* bound on the pairing attempts of a behaviour
    None            \* no socket, no device

ASSUME ConnectionAssumption ==
    /\ DeviceOf \in [Sockets -> Devices]
    /\ Compatible \subseteq Sockets
    /\ MaxAttempts \in Nat
    /\ None \notin Sockets \cup Devices

VARIABLES
    socket,         \* per socket: "unused", "open", "closing" or "closed"
    connections,    \* the server's Map, as the sequence of its sockets
    session,        \* application state, wiring, broadcasting: see TypeOK
    attempts,       \* the socket each pairing attempt was made on
    armed,          \* attempts whose timeout is running
    pending,        \* per device: the attempt in pendingPairings, or 0
    trusted,        \* devices with a file in trustedDevicesDir
    known,          \* devices in known-devices.json
    versionInfo,    \* devices in versionCheckInfo
    reconnect,      \* devices with a reconnect timer (15 s)
    recheck,        \* devices with a version check timer (25 s)
    waiting,        \* devices some pair.request left an onConnection callback for
    incoming,       \* the request the pairing page shows, or None
    webdav,         \* the WebDAV server is running
    lost            \* history: devices that were paired and known when they last dropped

pairing == <<attempts, armed, pending, trusted>>
vars == <<socket, connections, session, pairing, known, versionInfo, reconnect,
          recheck, waiting, incoming, webdav, lost>>

--------------------
(* The state machine. SYNCING, READY and ERROR are never asked for by the *)
(* code at this commit; the table lists them all the same. *)

TransitionMap ==
    [INIT         |-> {"DISCONNECTED", "ERROR"},
     DISCONNECTED |-> {"DISCOVERING", "ERROR"},
     DISCOVERING  |-> {"PAIRING", "CONNECTED", "DISCONNECTED", "ERROR"},
     PAIRING      |-> {"CONNECTED", "DISCONNECTED", "ERROR"},
     CONNECTED    |-> {"SYNCING", "DISCONNECTED", "ERROR"},
     SYNCING      |-> {"READY", "CONNECTED", "DISCONNECTED", "ERROR"},
     READY        |-> {"SYNCING", "DISCONNECTED", "ERROR"},
     ERROR        |-> {"DISCONNECTED", "INIT"}]

(* Every caller but start() asks canTransition() first. *)
MoveTo(x, to) == IF to \in TransitionMap[x.state] THEN [x EXCEPT !.state = to] ELSE x

BackToDiscovering(x) == MoveTo(MoveTo(x, "DISCONNECTED"), "DISCOVERING")

\* Mutation of the next definition.
KeepWiring(x) == [x EXCEPT !.pipeline = FALSE]

(* cleanupConnection: the orchestrator and the handlers' send functions. *)
Cleanup(x) == [x EXCEPT !.wired = None, !.pipeline = FALSE]

\* Mutation of the next definition.
LeaveShutdown(x, s) == [x EXCEPT !.wired = s, !.pipeline = TRUE, !.broadcasting = FALSE]

(* What both ways into a session do once the version check has passed: wire, *)
(* start the sync, keep WebDAV up, stop broadcasting. *)
Established(x, s) ==
    [x EXCEPT !.wired = s, !.pipeline = TRUE, !.webdavTimer = FALSE, !.broadcasting = FALSE]

Current == ToSet(connections)
ConnectedDevices == {DeviceOf[s] : s \in Current}
ConnectionOf(d) == CHOOSE s \in Current : DeviceOf[s] = d

(* ws.close(): the close event comes later, and messages may still come *)
(* before it. *)
Closed(ss, S) == [s \in Sockets |-> IF s \in S /\ ss[s] = "open" THEN "closing" ELSE ss[s]]

--------------------
(* Pairing *)

(* requestPairing: a new code and a new timer each time; an older attempt of *)
(* the device is overwritten, its timer left running. *)
RequestPairing(s, times) ==
    LET n == Len(attempts) + times IN
    /\ n <= MaxAttempts
    /\ attempts' = attempts \o [i \in 1..times |-> s]
    /\ armed' = armed \cup (Len(attempts) + 1)..n
    /\ pending' = [pending EXCEPT ![DeviceOf[s]] = n]

\* Mutation of the next definition.
ClearTimeoutOnly(d) == armed' = armed \ {pending[d]} /\ UNCHANGED pending

ClearPending(d) ==
    /\ armed' = armed \ {pending[d]}
    /\ pending' = [pending EXCEPT ![d] = 0]

(* onPairingResult(d, true). The connections of the handlers of an earlier *)
(* session are replaced without a cleanup. *)
PairingSucceeded(d) ==
    LET s == ConnectionOf(d)
        connected == MoveTo(session, "CONNECTED")
    IN
    /\ incoming' = None
    /\ known' = known \cup {d}
    /\ IF s \in Compatible
       THEN /\ session' = Established(connected, s)
            /\ UNCHANGED <<versionInfo, socket>>
       ELSE /\ session' = connected
            /\ versionInfo' = versionInfo \cup {d}
            /\ socket' = Closed(socket, {s})

\* Mutation of the next definition.
StraightToDiscovering ==
    /\ incoming' = None
    /\ session' = MoveTo(session, "DISCOVERING")
    /\ UNCHANGED <<known, versionInfo, socket>>

(* onPairingResult(d, false). DISCOVERING cannot be reached from every state *)
(* in one move. *)
PairingFailed ==
    /\ incoming' = None
    /\ session' = BackToDiscovering(session)
    /\ UNCHANGED <<known, versionInfo, socket>>

(* The phone wants to pair. If the desktop already trusts it the answer is *)
(* immediate; else the pairing page shows the request. *)
PairRequest(s) ==
    /\ s \in Current
    /\ IF DeviceOf[s] \in trusted
       THEN PairingSucceeded(DeviceOf[s])
       ELSE /\ incoming' = DeviceOf[s]
            /\ UNCHANGED <<session, known, versionInfo, socket>>
    /\ UNCHANGED <<connections, pairing, reconnect, recheck, waiting, webdav, lost>>

(* The phone confirms a code it was shown on some connection, maybe an old *)
(* one. *)
PairConfirm(s, a) ==
    LET d == DeviceOf[s] IN
    /\ s \in Current
    /\ DeviceOf[attempts[a]] = d
    /\ pending[d] # 0
    /\ ClearPending(d)
    /\ IF a = pending[d]
       THEN trusted' = trusted \cup {d} /\ PairingSucceeded(d)
       ELSE UNCHANGED trusted /\ PairingFailed
    /\ UNCHANGED <<attempts, connections, reconnect, recheck, waiting, webdav, lost>>

PairReject(s) ==
    /\ s \in Current
    /\ pending[DeviceOf[s]] # 0
    /\ ClearPending(DeviceOf[s])
    /\ PairingFailed
    /\ UNCHANGED <<attempts, trusted, connections, reconnect, recheck, waiting, webdav, lost>>

(* The timeout asks only whether the device has an attempt, not which. *)
PairingTimeout(a) ==
    LET d == DeviceOf[attempts[a]] IN
    /\ a \in armed
    /\ armed' = armed \ {a}
    /\ IF pending[d] # 0
       THEN pending' = [pending EXCEPT ![d] = 0] /\ PairingFailed
       ELSE UNCHANGED <<pending, incoming, session, known, versionInfo, socket>>
    /\ UNCHANGED <<attempts, trusted, connections, reconnect, recheck, waiting, webdav, lost>>

(* removeTrustedDevice and onUnpaired: a pending attempt and a reconnect *)
(* timer survive. *)
Unpaired(d) ==
    /\ trusted' = trusted \ {d}
    /\ versionInfo' = versionInfo \ {d}
    /\ recheck' = recheck \ {d}
    /\ session' = Cleanup(session)
    /\ socket' = Closed(socket, {s \in Current : DeviceOf[s] = d})
    /\ UNCHANGED <<attempts, armed, pending, connections, reconnect, waiting, incoming, webdav, lost>>

PhoneUnpairs(s) == s \in Current /\ Unpaired(DeviceOf[s]) /\ UNCHANGED known

(* pair.unpair: "unpair" in the settings, and "cancel" on the pairing page. *)
UserUnpairs(d) ==
    /\ d \in trusted \/ pending[d] # 0
    /\ Unpaired(d)
    /\ known' = known \ {d}

(* pair.request on a connected device; on another one it sends a connect *)
(* request and leaves a callback that stays registered for good. *)
UserRequestsPairing(d) ==
    /\ IF d \in ConnectedDevices
       THEN d \notin trusted /\ RequestPairing(ConnectionOf(d), 1) /\ UNCHANGED waiting
       ELSE /\ d \notin waiting
            /\ waiting' = waiting \cup {d}
            /\ UNCHANGED <<attempts, armed, pending>>
    /\ UNCHANGED <<socket, connections, session, trusted, known, versionInfo, reconnect,
                   recheck, incoming, webdav, lost>>

UserRejects ==
    /\ incoming # None
    /\ PairingFailed
    /\ UNCHANGED <<pairing, connections, reconnect, recheck, waiting, webdav, lost>>

--------------------
(* Connections *)

(* addDevice() fires onDeviceFound for a device not in the discovery list, *)
(* which saves a trusted one as known; the list forgets devices on its own. *)
(* A devices.connect that waits saves whoever connects. *)
MaybeKnown(d) == known' \in {known, known \cup {d}}

(* Map.delete(): the entry of the device whose connection this is. *)
Deleted(s) == RemoveAt(connections, CHOOSE i \in DOMAIN connections : connections[i] = s)

(* An older connection of the same device leaves the table. *)
Replaced(s) == {t \in Current : DeviceOf[t] = DeviceOf[s]}

\* Mutation of the next definition.
StoreBeside(s) == connections' = Append(connections, s)

Store(s) ==
    connections' = Append(IF Replaced(s) = {} THEN connections
                          ELSE Deleted(ConnectionOf(DeviceOf[s])), s)

\* Mutation of the next definition.
ClearOneTimer(d) == reconnect' = reconnect \ {d} /\ UNCHANGED recheck

ClearTimers(d) == reconnect' = reconnect \ {d} /\ recheck' = recheck \ {d}

(* storeConnection and the connection callbacks: the daemon's, then the one *)
(* a pair.request may have left. *)
PhoneConnects(s) ==
    LET d == DeviceOf[s] IN
    /\ socket[s] = "unused"
    /\ Store(s)
    /\ ClearTimers(d)
    /\ MaybeKnown(d)
    /\ LET opened == [Closed(socket, Replaced(s)) EXCEPT ![s] = "open"] IN
       \/ /\ d \in trusted
          /\ s \in Compatible
          /\ session' = Established(Cleanup(MoveTo(session, "CONNECTED")), s)
          /\ versionInfo' = versionInfo \ {d}
          /\ socket' = opened
          /\ UNCHANGED <<attempts, armed, pending>>
       \/ /\ d \in trusted
          /\ s \notin Compatible
          /\ session' = MoveTo(session, "CONNECTED")
          /\ versionInfo' = versionInfo \cup {d}
          /\ socket' = Closed(opened, {s})
          /\ UNCHANGED <<attempts, armed, pending>>
       \/ /\ d \notin trusted
          /\ session' = MoveTo(session, "PAIRING")
          /\ RequestPairing(s, IF d \in waiting THEN 2 ELSE 1)
          /\ socket' = opened
          /\ UNCHANGED versionInfo
    /\ UNCHANGED <<trusted, waiting, incoming, webdav, lost>>

(* The timers start only for a known device, and do nothing when they tick *)
(* but ask the phone to connect. *)
StartReconnectTimer(d) ==
    /\ reconnect' = reconnect \cup ({d} \cap known \cap trusted)
    /\ UNCHANGED recheck

\* Mutation of the next definition.
VersionTimerForStrangers(d) ==
    /\ recheck' = recheck \cup (({d} \cap known) \ trusted)
    /\ UNCHANGED reconnect

StartVersionCheckTimer(d) ==
    /\ recheck' = recheck \cup ({d} \cap known)
    /\ UNCHANGED reconnect

(* handleDisconnection and onDisconnection. *)
Disconnection(s) ==
    LET d == DeviceOf[s] IN
    /\ connections' = Deleted(s)
    /\ session' = BackToDiscovering(
                      [Cleanup(session) EXCEPT !.broadcasting = TRUE,
                                               !.webdavTimer = @ \/ webdav])
    /\ lost' = IF d \in known \cap trusted THEN lost \cup {d} ELSE lost \ {d}
    /\ IF d \in versionInfo THEN StartVersionCheckTimer(d) ELSE StartReconnectTimer(d)

(* The close event: the phone hung up, the ping timer terminated the socket, *)
(* or a close of ours has completed. A replaced socket is in no table. *)
SocketCloses(s) ==
    /\ socket[s] \in {"open", "closing"}
    /\ socket' = [socket EXCEPT ![s] = "closed"]
    /\ IF s \in Current
       THEN Disconnection(s)
       ELSE UNCHANGED <<connections, session, reconnect, recheck, lost>>
    /\ UNCHANGED <<pairing, known, versionInfo, waiting, incoming, webdav>>

--------------------
(* Requests of the user interface, and the process itself *)

(* A UDP broadcast of a paired phone, connected or not: onDeviceFound saves *)
(* it as known and starts no timer. *)
DeviceFound(d) ==
    /\ d \in trusted \ known
    /\ known' = known \cup {d}

(* devices.forget: a timer that runs goes on with the address it has. *)
ForgetDevice(d) ==
    /\ d \in known
    /\ known' = known \ {d}

AddressBook ==
    /\ \E d \in Devices : DeviceFound(d) \/ ForgetDevice(d)
    /\ UNCHANGED <<socket, connections, session, pairing, versionInfo, reconnect, recheck,
                   waiting, incoming, webdav, lost>>

(* resync(): wires whatever connection is first in the table. *)
Resync ==
    /\ session' = [session EXCEPT !.wired = IF connections = <<>> THEN None ELSE Head(connections),
                                  !.pipeline = TRUE]
    /\ UNCHANGED <<socket, connections, pairing, known, versionInfo, reconnect, recheck,
                   waiting, incoming, webdav, lost>>

StartWebdav == ~webdav /\ webdav' = TRUE /\ UNCHANGED session
StopWebdav  == webdav /\ webdav' = FALSE /\ UNCHANGED session
WebdavTimeout ==
    /\ session.webdavTimer
    /\ session' = [session EXCEPT !.webdavTimer = FALSE]
    /\ webdav' = FALSE
Webdav ==
    /\ StartWebdav \/ StopWebdav \/ WebdavTimeout
    /\ UNCHANGED <<socket, connections, pairing, known, versionInfo, reconnect, recheck,
                   waiting, incoming, lost>>

Fresh == [state |-> "DISCOVERING", wired |-> None, pipeline |-> FALSE,
          broadcasting |-> TRUE, webdavTimer |-> FALSE]

(* The daemon stops or dies and starts again: what is in files stays, and so *)
(* does the page the user interface shows. *)
Restart ==
    /\ socket' = [s \in Sockets |-> IF socket[s] = "unused" THEN "unused" ELSE "closed"]
    /\ connections' = <<>>
    /\ session' = Fresh
    /\ armed' = {}
    /\ pending' = [d \in Devices |-> 0]
    /\ versionInfo' = {} /\ reconnect' = {} /\ recheck' = {}
    /\ waiting' = {} /\ webdav' = FALSE /\ lost' = {}
    /\ UNCHANGED <<attempts, trusted, known, incoming>>

--------------------
Init ==
    /\ socket = [s \in Sockets |-> "unused"]
    /\ connections = <<>>
    /\ session = Fresh
    /\ attempts = <<>> /\ armed = {} /\ pending = [d \in Devices |-> 0]
    /\ trusted \in SUBSET Devices
    /\ known \in SUBSET Devices
    /\ versionInfo = {} /\ reconnect = {} /\ recheck = {} /\ waiting = {}
    /\ incoming = None
    /\ webdav = FALSE
    /\ lost = {}

Next ==
    \/ \E s \in Sockets : PhoneConnects(s) \/ SocketCloses(s)
    \/ \E s \in Sockets : PairRequest(s) \/ PairReject(s) \/ PhoneUnpairs(s)
    \/ \E s \in Sockets, a \in DOMAIN attempts : PairConfirm(s, a)
    \/ \E a \in DOMAIN attempts : PairingTimeout(a)
    \/ \E d \in Devices : UserUnpairs(d) \/ UserRequestsPairing(d)
    \/ UserRejects
    \/ AddressBook
    \/ Resync
    \/ Webdav
    \/ Restart

(* A running timer fires, and a closing socket gets closed. *)
Spec ==
    /\ Init /\ [][Next]_vars
    /\ \A a \in 1..MaxAttempts : WF_vars(a \in DOMAIN attempts /\ PairingTimeout(a))
    /\ \A s \in Sockets : WF_vars(socket[s] = "closing" /\ SocketCloses(s))

--------------------
(* Properties *)

TypeOK ==
    /\ socket \in [Sockets -> {"unused", "open", "closing", "closed"}]
    /\ connections \in Seq(Sockets)
    /\ session \in [state : {"DISCONNECTED", "DISCOVERING", "PAIRING", "CONNECTED"},
                    wired : Sockets \cup {None}, pipeline : BOOLEAN,
                    broadcasting : BOOLEAN, webdavTimer : BOOLEAN]
    /\ attempts \in Seq(Sockets) /\ Len(attempts) <= MaxAttempts
    /\ armed \subseteq DOMAIN attempts
    /\ pending \in [Devices -> 0..MaxAttempts]
    /\ trusted \subseteq Devices /\ known \subseteq Devices /\ versionInfo \subseteq Devices
    /\ reconnect \subseteq Devices /\ recheck \subseteq Devices /\ waiting \subseteq Devices
    /\ incoming \in Devices \cup {None}
    /\ webdav \in BOOLEAN
    /\ lost \subseteq Devices
    \* the table holds one connection per device, and none that is closed
    /\ \A i, j \in DOMAIN connections :
           i # j => DeviceOf[connections[i]] # DeviceOf[connections[j]]
    /\ \A s \in Current : socket[s] \in {"open", "closing"}

(* With nobody connected the desktop can be found: it broadcasts, shows *)
(* itself as discovering and has no handler wired to a dead socket (daemon.ts *)
(* onDisconnection, whatever replaced, rejected or closed the connection). *)
AloneMeansCalling ==
    connections = <<>> =>
        session.broadcasting /\ session.wired = None /\ session.state = "DISCOVERING"

(* A trusted, compatible phone on an open connection has the whole session: *)
(* the state says connected, the handlers use this very socket, the sync *)
(* pipeline runs, broadcasting is off and no WebDAV shutdown is due. Stated *)
(* for a single phone; StopsBroadcasting is what a second one breaks. *)
SessionIsWhole ==
    \A s \in Current :
        socket[s] = "open" /\ s \in Compatible /\ DeviceOf[s] \in trusted =>
            session = [state |-> "CONNECTED", wired |-> s, pipeline |-> TRUE,
                       broadcasting |-> FALSE, webdavTimer |-> FALSE]

(* A phone that was paired and known when it dropped is asked to come back *)
(* for as long as it is away and paired, whatever becomes of the list of *)
(* known devices meanwhile (startReconnectTimer, startVersionCheckTimer look *)
(* at that list once). One that becomes known only while away is not called. *)
LostPhoneIsCalled ==
    \A d \in lost \cap trusted :
        d \notin ConnectedDevices => d \in reconnect \cup recheck

(* Nobody who is connected is still being asked to connect, and an absent *)
(* phone is asked by one timer only. *)
CallsOnlyTheAbsent ==
    /\ (reconnect \cup recheck) \cap ConnectedDevices = {}
    /\ reconnect \cap recheck = {}

(* A trusted device has no pairing in progress, in the handler or on the *)
(* pairing page: a late timeout or a click on "reject" cannot take down the *)
(* session of a phone that has been paired meanwhile. *)
TrustedIsNotPairing ==
    /\ \A d \in trusted : pending[d] = 0
    /\ incoming \notin trusted

(* A trusted phone has a whole session, and no pairing that could end it. *)
SessionIsSound == SessionIsWhole /\ TrustedIsNotPairing

(* Calls go out while, and only while, somebody is missing. *)
CallingIsRight == AloneMeansCalling /\ LostPhoneIsCalled /\ CallsOnlyTheAbsent

(* The pairing screen goes away by itself: the state cannot stay PAIRING *)
(* after the code's two minutes, however the attempt ended (code used, wrong, *)
(* rejected, cancelled, connection lost, code drawn again). *)
PairingEnds == session.state = "PAIRING" ~> session.state # "PAIRING"

(* "Stops broadcasting when a phone is connected (no need to advertise)" *)
(* (docs/PROTOCOL_ARCHITECTURE.md:28): for a trusted and compatible phone on *)
(* an open connection. *)
\* The code does not keep this: see README.md, section 6.
StopsBroadcasting ==
    (\E s \in Current : socket[s] = "open" /\ s \in Compatible /\ DeviceOf[s] \in trusted)
        => ~session.broadcasting

(* "Start a reconnect timer for a known paired device" (daemon.ts:1453): what *)
(* is being called every 15 seconds is paired. *)
\* The code does not keep this: see README.md, section 6.
ReconnectOnlyToPaired == reconnect \subseteq trusted
====================
