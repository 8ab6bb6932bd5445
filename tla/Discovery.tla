---------- MODULE Discovery ----------
(* How the desktop and its phones find each other: the UDP service with its *)
(* beacon, the list of the phones it heard of, the addresses it keeps in a *)
(* file, and the calls to phones that left.  Time runs in units of five *)
(* seconds.  Datagrams may be lost, late, or come from an address that the *)
(* phone has left; a phone connects whenever it likes. *)
EXTENDS Integers

CONSTANTS
    Phones, Addresses, None,
    Lost,               \* deviceLostTimeout
    MaxTurns, MaxStarts \* bounds: what phones and the user do, and starts of the daemon

VARIABLES
    server,     \* the UDP service: "off", "starting" (the socket is being bound), "listening"
    beacon,     \* time to the next broadcast, or None: broadcastTimer
    checkIn,    \* time to the next check of the list
    devices,    \* the list: phone -> its entry, or None
    link,       \* phone -> remote address of its connection, or None
    trusted,    \* phones that are paired
    refused,    \* phones whose version did not fit: versionCheckInfo
    known,      \* the file of known devices: phone -> address, or None
    retry,      \* phone -> the timer that calls it, with the address it has from the file, or None
    ask,        \* devices.connect in progress: its address and the time that is left, or None
    heard,      \* history: phone -> last sign of it since the start, or None
    removed,    \* history: phones the user removed from the file and that were not saved since
    gone,       \* history: phones that left, paired and in the file, and did not come back
    silence,    \* history: phone -> time since the desktop last sent it something
    turns, starts

vars == <<server, beacon, checkIn, devices, link, trusted, refused, known, retry, ask, heard,
          removed, gone, silence, turns, starts>>

BroadcastInterval == 1      \* 5 s
CheckInterval == 1          \* 5 s
ReconnectInterval == 3      \* 15 s
RecheckInterval == 5        \* 25 s
AskTimeout == 2             \* 10 s
Longest == RecheckInterval + BroadcastInterval + 1  \* no silence needs to be counted further
Sign(a) == [address |-> a, age |-> 0]
Due(t) == t # None /\ t.left = 0
Running == server = "listening"
Linked == {p \in Phones : link[p] # None}
Timers ==
    [address : Addresses, every : {ReconnectInterval, RecheckInterval}, left : 0..RecheckInterval]
Entries == [address : Addresses, age : 0..(Lost + 2)]

DiscoveryConstants ==
    /\ Lost \in Nat /\ MaxTurns \in Nat /\ MaxStarts \in Nat
    /\ None \notin Addresses \union Entries \union Timers \union Nat

TypeOK ==
    /\ server \in {"off", "starting", "listening"}
    /\ beacon \in {None} \union 0..BroadcastInterval /\ checkIn \in 0..CheckInterval
    /\ devices \in [Phones -> {None} \union Entries] /\ link \in [Phones -> {None} \union Addresses]
    /\ trusted \subseteq Phones /\ refused \subseteq Phones /\ removed \subseteq Phones
    /\ gone \subseteq Phones
    /\ known \in [Phones -> {None} \union Addresses]
    /\ retry \in [Phones -> {None} \union Timers]
    /\ ask \in {None} \union [address : Addresses, left : 0..AskTimeout]
    /\ heard \in [Phones -> {None} \union Entries]
    /\ silence \in [Phones -> 0..Longest]
    /\ turns \in 0..MaxTurns /\ starts \in 0..MaxStarts

\* The files are what an earlier run left.
Init ==
    /\ server = "off" /\ beacon = None /\ checkIn = CheckInterval
    /\ devices = [p \in Phones |-> None] /\ link = [p \in Phones |-> None]
    /\ trusted \in SUBSET Phones /\ refused = {} /\ gone = {}
    /\ known \in [Phones -> {None} \union Addresses]
    /\ \A p \in Phones : p \in trusted <=> known[p] # None
    /\ retry = [p \in Phones |-> None] /\ ask = None
    /\ heard = [p \in Phones |-> None] /\ removed = {}
    /\ silence = [p \in Phones |-> 0] /\ turns = 0 /\ starts = 0

Turn == turns < MaxTurns /\ turns' = turns + 1
rest == <<checkIn, gone, starts>>

--------------------
(* The service *)
Silenced(S) == silence' = [p \in Phones |-> IF p \in S THEN 0 ELSE silence[p]]

\* A mutation of the next definition.
StartBroadcastingAlone ==
    IF Linked = {} THEN beacon' = BroadcastInterval /\ Silenced(Phones)
    ELSE UNCHANGED <<beacon, silence>>

\* A broadcast goes out at once. Before the socket listens, the call has no effect.
StartBroadcasting ==
    IF beacon = None /\ Running
    THEN beacon' = BroadcastInterval /\ Silenced(Phones)
    ELSE UNCHANGED <<beacon, silence>>

StopBroadcasting == beacon' = None

\* saveKnownDevice(): the entry of the phone is replaced.
Saves(p, a) == known' = [known EXCEPT ![p] = a] /\ removed' = removed \ {p}

\* removeKnownDevice()
Removes(p) == known' = [known EXCEPT ![p] = None] /\ removed' = removed \union {p}

\* A mutation of the next definition.
AddDeviceOnce(p, a) ==
    /\ devices' = IF devices[p] = None THEN [devices EXCEPT ![p] = Sign(a)] ELSE devices
    /\ heard' = [heard EXCEPT ![p] = Sign(a)]

\* A sign of a phone, from a datagram or a connection.
AddDevice(p, a) ==
    /\ devices' = [devices EXCEPT ![p] = Sign(a)]
    /\ heard' = [heard EXCEPT ![p] = Sign(a)]

\* onDeviceFound: a trusted phone that is new in the list is saved.
Found(p, a) ==
    IF devices[p] = None /\ p \in trusted THEN Saves(p, a) ELSE UNCHANGED <<known, removed>>

\* The daemon starts: the server for connections, then the UDP socket, and a connect request to
\* every trusted phone in the file.
Start ==
    /\ server = "off" /\ starts < MaxStarts /\ starts' = starts + 1
    /\ server' = "starting"
    /\ Silenced({p \in trusted : known[p] # None})
    /\ UNCHANGED <<beacon, checkIn, devices, link, trusted, refused, known, retry, ask, heard,
                   removed, gone, turns>>

Listening ==
    /\ server = "starting" /\ server' = "listening"
    /\ beacon' = BroadcastInterval /\ Silenced(Phones) /\ checkIn' = CheckInterval
    /\ UNCHANGED <<devices, link, trusted, refused, known, retry, ask, heard, removed, gone,
                   turns, starts>>

\* The daemon stops, or dies: what is left are the files.
Stop ==
    /\ server # "off" /\ server' = "off"
    /\ beacon' = None /\ devices' = [p \in Phones |-> None] /\ link' = [p \in Phones |-> None]
    /\ refused' = {} /\ retry' = [p \in Phones |-> None] /\ ask' = None
    /\ heard' = [p \in Phones |-> None] /\ gone' = {}
    /\ UNCHANGED <<trusted, known, removed, silence, turns, checkIn, starts>>

\* The timer of the beacon.
Broadcast ==
    /\ beacon = 0 /\ beacon' = BroadcastInterval /\ Silenced(Phones)
    /\ UNCHANGED <<server, devices, link, trusted, refused, known, retry, ask, heard, removed,
                   turns, rest>>

\* A mutation of the next definition.
CheckReachabilityEarly ==
    /\ Running /\ checkIn = 0 /\ checkIn' = CheckInterval
    /\ devices' = [p \in Phones |->
                     IF devices[p] # None /\ devices[p].age >= Lost THEN None ELSE devices[p]]
    /\ UNCHANGED <<server, beacon, link, trusted, refused, known, retry, ask, heard, removed,
                   gone, silence, turns, starts>>

\* A phone that is connected falls silent all the same, and goes like any other.
CheckReachability ==
    /\ Running /\ checkIn = 0 /\ checkIn' = CheckInterval
    /\ devices' = [p \in Phones |->
                     IF devices[p] # None /\ devices[p].age > Lost THEN None ELSE devices[p]]
    /\ UNCHANGED <<server, beacon, link, trusted, refused, known, retry, ask, heard, removed,
                   gone, silence, turns, starts>>

\* handleIncomingPacket: what a phone broadcasts.
Hears(p, a) ==
    /\ Running /\ Turn
    /\ AddDevice(p, a) /\ Found(p, a)
    /\ UNCHANGED <<server, beacon, link, trusted, refused, retry, ask, silence, rest>>

--------------------
(* Connections *)
\* What devices.connect saves: whoever connects first, at the address the user gave.
Answered(p, a) ==
    IF ask = None THEN Found(p, a) ELSE Saves(p, ask.address)

\* A connection, maybe in place of an older one of the phone. A trusted phone whose version does
\* not fit is refused: its connection is closed.
Connects(p, a, fits) ==
    /\ server # "off" /\ Turn
    /\ link' = [link EXCEPT ![p] = a]
    /\ AddDevice(p, a) /\ Answered(p, a) /\ ask' = None
    /\ retry' = [retry EXCEPT ![p] = None] /\ gone' = gone \ {p}
    /\ IF p \in trusted /\ fits THEN StopBroadcasting ELSE UNCHANGED beacon
    /\ refused' = IF p \notin trusted THEN refused
                  ELSE IF fits THEN refused \ {p} ELSE refused \union {p}
    /\ UNCHANGED <<server, checkIn, trusted, silence, starts>>

\* A mutation of the next definition.
PairsUnsaved(p, fits) ==
    /\ p \in Linked \ trusted /\ Turn
    /\ trusted' = trusted \union {p}
    /\ IF fits THEN StopBroadcasting /\ UNCHANGED refused
       ELSE refused' = refused \union {p} /\ UNCHANGED beacon
    /\ UNCHANGED <<server, devices, link, known, removed, retry, ask, heard, silence, rest>>

\* onPairingResult with success.
Pairs(p, fits) ==
    /\ p \in Linked \ trusted /\ Turn
    /\ trusted' = trusted \union {p} /\ Saves(p, link[p])
    /\ IF fits THEN StopBroadcasting /\ UNCHANGED refused
       ELSE refused' = refused \union {p} /\ UNCHANGED beacon
    /\ UNCHANGED <<server, devices, link, retry, ask, heard, silence, rest>>

\* Started for a phone in the file, unless it is running; the address stays the one it had then.
Timer(p, n) ==
    IF retry[p] # None THEN retry[p] ELSE [address |-> known[p], every |-> n, left |-> n]

Gone(p) == gone \union {q \in {p} \intersect trusted : known[q] # None}

\* A mutation of the next definition.
DisconnectsUntimed(p) ==
    /\ p \in Linked
    /\ link' = [link EXCEPT ![p] = None]
    /\ StartBroadcasting
    /\ UNCHANGED <<server, devices, trusted, refused, known, ask, heard, removed, retry, turns,
                   checkIn, starts>>
    /\ gone' = Gone(p)

\* The connection in the table is closed: the beacon runs again, and the phone is called.
Disconnects(p) ==
    /\ p \in Linked
    /\ link' = [link EXCEPT ![p] = None]
    /\ StartBroadcasting
    /\ IF known[p] = None THEN UNCHANGED retry
       ELSE IF p \in refused THEN retry' = [retry EXCEPT ![p] = Timer(p, RecheckInterval)]
       ELSE IF p \in trusted THEN retry' = [retry EXCEPT ![p] = Timer(p, ReconnectInterval)]
       ELSE UNCHANGED retry
    /\ gone' = Gone(p)
    /\ UNCHANGED <<server, devices, trusted, refused, known, ask, heard, removed, turns, checkIn,
                   starts>>

\* The timers of a phone that left.
Calls(p) ==
    /\ Due(retry[p])
    /\ retry' = [retry EXCEPT ![p] = IF p \in Linked THEN None
                                     ELSE [@ EXCEPT !.left = retry[p].every]]
    /\ Silenced({p} \ Linked)
    /\ UNCHANGED <<server, beacon, devices, link, trusted, refused, known, ask, heard, removed,
                   turns, rest>>

\* By the phone, or by the user, who removes it from the file too. Its connection is closed; the
\* timer that calls it goes on, the one that checks its version does not.
Unpairs(p, user) ==
    /\ p \in trusted /\ Turn
    /\ trusted' = trusted \ {p} /\ refused' = refused \ {p}
    /\ retry' = [retry EXCEPT ![p] = IF @ # None /\ @.every = RecheckInterval THEN None ELSE @]
    /\ IF user THEN Removes(p) ELSE UNCHANGED <<known, removed>>
    /\ UNCHANGED <<server, beacon, devices, link, ask, heard, silence, rest>>

--------------------
(* The user *)
\* devices.connect: a connect request, and up to ten seconds for a connection to come.
Ask(a) ==
    /\ server # "off" /\ ask = None /\ Turn
    /\ ask' = [address |-> a, left |-> AskTimeout]
    /\ UNCHANGED <<server, beacon, devices, link, trusted, refused, known, retry, heard, removed,
                   silence, rest>>

AskTimesOut ==
    /\ Due(ask) /\ ask' = None
    /\ UNCHANGED <<server, beacon, devices, link, trusted, refused, known, retry, heard, removed,
                   silence, turns, rest>>

\* devices.forget
Forgets(p) ==
    /\ server # "off" /\ known[p] # None /\ Turn
    /\ Removes(p)
    /\ UNCHANGED <<server, beacon, devices, link, trusted, refused, retry, ask, heard, silence,
                   rest>>

--------------------
(* Time *)
Older(e) == IF e = None THEN None ELSE [e EXCEPT !.age = IF @ > Lost THEN Lost + 2 ELSE @ + 1]

\* Five seconds pass when no timer is due.
Tick ==
    /\ Running /\ beacon # 0 /\ checkIn # 0 /\ ~Due(ask) /\ \A p \in Phones : ~Due(retry[p])
    /\ beacon' = IF beacon = None THEN None ELSE beacon - 1
    /\ checkIn' = checkIn - 1
    /\ ask' = IF ask = None THEN None ELSE [ask EXCEPT !.left = @ - 1]
    /\ retry' = [p \in Phones |->
                   IF retry[p] = None THEN None ELSE [retry[p] EXCEPT !.left = @ - 1]]
    /\ devices' = [p \in Phones |-> Older(devices[p])]
    /\ heard' = [p \in Phones |-> Older(heard[p])]
    /\ silence' = [p \in Phones |-> IF silence[p] < Longest THEN silence[p] + 1 ELSE Longest]
    /\ UNCHANGED <<server, link, trusted, refused, known, removed, gone, turns, starts>>

Next ==
    \/ Start \/ Listening \/ Stop \/ Broadcast \/ CheckReachability \/ AskTimesOut \/ Tick
    \/ \E p \in Phones :
          \/ Disconnects(p) \/ Calls(p) \/ Forgets(p)
          \/ \E a \in Addresses : Hears(p, a)
          \/ \E a \in Addresses, fits \in BOOLEAN : Connects(p, a, fits)
          \/ \E fits \in BOOLEAN : Pairs(p, fits)
          \/ \E user \in BOOLEAN : Unpairs(p, user)
    \/ \E a \in Addresses : Ask(a)

Spec == Init /\ [][Next]_vars

--------------------
\* The list is what was heard: a phone that gave a sign in the last two minutes is in it, with the
\* address of that sign, and one that gave none is gone at the next check.
ListIsTrue ==
    \A p \in Phones :
       /\ devices[p] # None => devices[p] = heard[p] /\ devices[p].age <= Lost + CheckInterval
       /\ heard[p] # None /\ heard[p].age <= Lost => devices[p] # None

\* Who is looked for can find the desktop: with no phone connected a broadcast is never further
\* away than its interval, also when phones came before the socket listened; a trusted phone that
\* is listed is in the file, unless the user took it out; and if it was in the file when it left,
\* it is sent something at least every 30 seconds, whoever else is connected.
NobodyIsLeftAlone ==
    /\ Running /\ Linked = {} => beacon # None /\ \A p \in Phones : silence[p] <= BroadcastInterval
    /\ \A p \in Phones : p \in trusted /\ devices[p] # None => known[p] # None \/ p \in removed
    /\ Running => \A p \in gone \intersect trusted :
                     silence[p] <= RecheckInterval + BroadcastInterval
====================
