---------- MODULE ConnectionLifecycle_proofs ----------
(* What ConnectionLifecycle promises, for any number of phones, connections *)
(* and pairing attempts: calls go out while and only while somebody is *)
(* missing, a trusted phone is in no pairing, and, with a single phone, its *)
(* session is whole. The last part is about PhoneFiles, the phone's files over *)
(* WebDAV: Dav is that module. *)
EXTENDS ConnectionLifecycle, SequenceTheorems, TLAPS

CONSTANTS Paths, Media, Chunks, MaxRequests, MaxCuts  \* PhoneFiles

VARIABLES phone, up, out, back, cuts, reqs, tfs, sized

Dav == INSTANCE PhoneFiles

(* The table of connections: one entry per phone. *)
Entries(q) == {q[i] : i \in DOMAIN q}
OneEach(q) == \A i, j \in DOMAIN q : i # j => DeviceOf[q[i]] # DeviceOf[q[j]]
Table(q) == q \in Seq(Sockets) /\ OneEach(q)

LEMMA CurrentIs == Current = Entries(connections)
BY DEF Current, Entries, ToSet

(* What RemoveAt of SequencesExt leaves. *)
LEMMA RemoveAtProperties ==
    ASSUME NEW S, NEW q \in Seq(S), NEW k \in 1..Len(q)
    PROVE  /\ RemoveAt(q, k) \in Seq(S)
           /\ Len(RemoveAt(q, k)) = Len(q) - 1
           /\ \A i \in 1..(k - 1) : RemoveAt(q, k)[i] = q[i]
           /\ \A i \in k..(Len(q) - 1) : RemoveAt(q, k)[i] = q[i + 1]
<1> DEFINE a == SubSeq(q, 1, k - 1)
           b == SubSeq(q, k + 1, Len(q))
<1>1. Len(q) \in Nat /\ k \in Int /\ k - 1 \in Int /\ k + 1 \in Int OBVIOUS
<1>2. a \in Seq(S) /\ Len(a) = k - 1 /\ \A i \in 1..(k - 1) : a[i] = q[i]
  <2>1. \A i \in 1..(k - 1) : q[i] \in S OBVIOUS
  <2>2. /\ a \in Seq(S)
        /\ Len(a) = IF 1 <= k - 1 THEN (k - 1) - 1 + 1 ELSE 0
        /\ \A i \in 1..((k - 1) - 1 + 1) : a[i] = q[1 + i - 1]
    BY <1>1, <2>1, SubSeqProperties
  <2> QED BY <2>2, <1>1
<1>3. b \in Seq(S) /\ Len(b) = Len(q) - k /\ \A i \in 1..(Len(q) - k) : b[i] = q[k + i]
  <2>1. \A i \in (k + 1)..Len(q) : q[i] \in S OBVIOUS
  <2>2. /\ b \in Seq(S)
        /\ Len(b) = IF k + 1 <= Len(q) THEN Len(q) - (k + 1) + 1 ELSE 0
        /\ \A i \in 1..(Len(q) - (k + 1) + 1) : b[i] = q[(k + 1) + i - 1]
    BY <1>1, <2>1, SubSeqProperties
  <2> QED BY <2>2, <1>1
<1>4. RemoveAt(q, k) = a \o b BY DEF RemoveAt
<1> HIDE DEF a, b
<1>5. /\ a \o b \in Seq(S)
      /\ Len(a \o b) = Len(a) + Len(b)
      /\ \A i \in 1..(Len(a) + Len(b)) : (a \o b)[i] = IF i <= Len(a) THEN a[i] ELSE b[i - Len(a)]
  BY <1>2, <1>3, ConcatProperties
<1>6. \A i \in 1..(k - 1) : (a \o b)[i] = q[i] BY <1>1, <1>2, <1>3, <1>5
<1>7. ASSUME NEW i \in k..(Len(q) - 1) PROVE (a \o b)[i] = q[i + 1]
  <2>1. i \in 1..(Len(a) + Len(b)) /\ ~(i <= Len(a)) BY <1>1, <1>2, <1>3
  <2>2. i - Len(a) \in 1..(Len(q) - k) /\ k + (i - Len(a)) = i + 1 BY <1>1, <1>2
  <2> QED BY <2>1, <2>2, <1>3, <1>5
<1> QED BY <1>1, <1>2, <1>3, <1>4, <1>5, <1>6, <1>7

(* Map.delete() takes out the one entry and leaves the others. *)
LEMMA RemoveEntry ==
    ASSUME NEW q, Table(q), NEW k \in DOMAIN q
    PROVE  Table(RemoveAt(q, k)) /\ Entries(RemoveAt(q, k)) = Entries(q) \ {q[k]}
<1> DEFINE r == RemoveAt(q, k)
<1>1. q \in Seq(Sockets) /\ DOMAIN q = 1..Len(q) /\ Len(q) \in Nat /\ k \in 1..Len(q) BY DEF Table
<1>2. /\ r \in Seq(Sockets) /\ Len(r) = Len(q) - 1
      /\ \A i \in 1..(k - 1) : r[i] = q[i]
      /\ \A i \in k..(Len(q) - 1) : r[i] = q[i + 1]
  BY <1>1, RemoveAtProperties
<1> HIDE DEF r
<1>3. DOMAIN r = 1..(Len(q) - 1) BY <1>1, <1>2
<1> DEFINE at(n) == IF n < k THEN n ELSE n + 1
<1>4. \A i \in DOMAIN r : at(i) \in DOMAIN q \ {k} /\ r[i] = q[at(i)] BY <1>1, <1>2, <1>3
<1>5. \A i, j \in DOMAIN r : i # j => at(i) # at(j) BY <1>1, <1>3
<1>6. \A i \in DOMAIN q \ {k} : \E j \in DOMAIN r : at(j) = i
  <2> SUFFICES ASSUME NEW i \in DOMAIN q \ {k} PROVE \E j \in DOMAIN r : at(j) = i OBVIOUS
  <2>1. CASE i < k BY <2>1, <1>1, <1>3
  <2>2. CASE i > k
    <3>1. i - 1 \in DOMAIN r /\ at(i - 1) = i BY <2>2, <1>1, <1>3
    <3> QED BY <3>1
  <2> QED BY <2>1, <2>2, <1>1
<1> HIDE DEF at
<1>7. OneEach(r) BY <1>4, <1>5 DEF OneEach, Table
<1>8. Entries(r) \subseteq Entries(q) \ {q[k]}
  <2>1. \A n \in DOMAIN q \ {k} : q[n] # q[k] BY DEF OneEach, Table
  <2> QED BY <1>4, <2>1 DEF Entries
<1>9. Entries(q) \ {q[k]} \subseteq Entries(r) BY <1>4, <1>6 DEF Entries
<1> QED BY <1>2, <1>7, <1>8, <1>9 DEF Table, r

LEMMA DeleteEntry ==
    ASSUME Table(connections), NEW s \in Current
    PROVE  Table(Deleted(s)) /\ Entries(Deleted(s)) = Current \ {s}
<1> DEFINE k == CHOOSE i \in DOMAIN connections : connections[i] = s
<1>1. k \in DOMAIN connections /\ connections[k] = s BY CurrentIs DEF Entries
<1>2. Deleted(s) = RemoveAt(connections, k) BY DEF Deleted
<1> HIDE DEF k
<1> QED BY <1>1, <1>2, CurrentIs, RemoveEntry

(* Map.set() of a phone without an entry. *)
LEMMA AddEntry ==
    ASSUME NEW q, Table(q), NEW s \in Sockets,
           \A t \in Entries(q) : DeviceOf[t] # DeviceOf[s]
    PROVE  Table(Append(q, s)) /\ Entries(Append(q, s)) = Entries(q) \cup {s}
<1>1. q \in Seq(Sockets) /\ DOMAIN q = 1..Len(q) /\ Len(q) \in Nat BY DEF Table
<1>2. /\ Append(q, s) \in Seq(Sockets)
      /\ DOMAIN Append(q, s) = 1..(Len(q) + 1)
      /\ \A i \in 1..Len(q) : Append(q, s)[i] = q[i]
      /\ Append(q, s)[Len(q) + 1] = s
  BY <1>1
<1>3. OneEach(Append(q, s)) BY <1>1, <1>2 DEF OneEach, Table, Entries
<1>4. Entries(Append(q, s)) = Entries(q) \cup {s} BY <1>1, <1>2 DEF Entries
<1> QED BY <1>2, <1>3, <1>4 DEF Table

--------------------
(* Types *)

(* DISCONNECTED is passed through within one task and never stays. *)
Sessions ==
    [state : {"DISCOVERING", "PAIRING", "CONNECTED"}, wired : Sockets \cup {None},
     pipeline : BOOLEAN, broadcasting : BOOLEAN, webdavTimer : BOOLEAN]

Tables ==
    /\ Table(connections)
    /\ socket \in [Sockets -> {"unused", "open", "closing", "closed"}]
    /\ \A s \in Current : socket[s] \in {"open", "closing"}

Attempting ==
    /\ attempts \in Seq(Sockets) /\ Len(attempts) <= MaxAttempts
    /\ armed \subseteq DOMAIN attempts
    /\ pending \in [Devices -> 0..MaxAttempts]

Lists ==
    /\ trusted \subseteq Devices /\ known \subseteq Devices /\ versionInfo \subseteq Devices
    /\ reconnect \subseteq Devices /\ recheck \subseteq Devices /\ waiting \subseteq Devices
    /\ incoming \in Devices \cup {None}
    /\ webdav \in BOOLEAN
    /\ lost \subseteq Devices

Types == session \in Sessions /\ Tables /\ Attempting /\ Lists

LEMMA TypesImplyTypeOK == ASSUME Types PROVE TypeOK
<1>1. connections \in Seq(Sockets) /\ OneEach(connections) BY DEF Types, Tables, Table
<1>2. session \in [state : {"DISCONNECTED", "DISCOVERING", "PAIRING", "CONNECTED"},
                   wired : Sockets \cup {None}, pipeline : BOOLEAN,
                   broadcasting : BOOLEAN, webdavTimer : BOOLEAN]
  BY DEF Types, Sessions
<1> QED BY <1>1, <1>2 DEF TypeOK, Types, Tables, Attempting, Lists, OneEach

LEMMA CurrentAreSockets ==
    ASSUME Tables
    PROVE  /\ Current \subseteq Sockets
           /\ \A s, t \in Current : DeviceOf[s] = DeviceOf[t] => s = t
           /\ connections = <<>> <=> Current = {}
<1>1. connections \in Seq(Sockets) /\ OneEach(connections) BY DEF Tables, Table
<1>2. Current \subseteq Sockets BY <1>1, CurrentIs DEF Entries
<1>3. \A s, t \in Current : DeviceOf[s] = DeviceOf[t] => s = t
  BY <1>1, CurrentIs DEF Entries, OneEach
<1>4. connections = <<>> => Current = {} BY CurrentIs DEF Entries
<1>5. connections # <<>> => connections[1] \in Current
  <2>1. ASSUME connections # <<>> PROVE 1 \in DOMAIN connections BY <1>1, <2>1
  <2> QED BY <2>1, CurrentIs DEF Entries
<1> QED BY <1>2, <1>3, <1>4, <1>5

LEMMA TheConnection ==
    ASSUME Tables, NEW s \in Current
    PROVE  ConnectionOf(DeviceOf[s]) = s
BY CurrentAreSockets DEF ConnectionOf

(* How the session moves. *)
LEMMA Moves ==
    ASSUME NEW x \in Sessions
    PROVE  /\ MoveTo(x, "CONNECTED") = [x EXCEPT !.state = "CONNECTED"]
           /\ BackToDiscovering(x) = [x EXCEPT !.state = "DISCOVERING"]
           /\ \E st \in {"PAIRING", "CONNECTED"} : MoveTo(x, "PAIRING") = [x EXCEPT !.state = st]
<1>1. x.state \in {"DISCOVERING", "PAIRING", "CONNECTED"} BY DEF Sessions
<1>2. /\ TransitionMap["DISCOVERING"] = {"PAIRING", "CONNECTED", "DISCONNECTED", "ERROR"}
      /\ TransitionMap["PAIRING"] = {"CONNECTED", "DISCONNECTED", "ERROR"}
      /\ TransitionMap["CONNECTED"] = {"SYNCING", "DISCONNECTED", "ERROR"}
      /\ TransitionMap["DISCONNECTED"] = {"DISCOVERING", "ERROR"}
  BY DEF TransitionMap
<1>3. MoveTo(x, "CONNECTED") = [x EXCEPT !.state = "CONNECTED"] BY <1>1, <1>2 DEF MoveTo, Sessions
<1>4. MoveTo(x, "DISCONNECTED") = [x EXCEPT !.state = "DISCONNECTED"] BY <1>1, <1>2 DEF MoveTo
<1>5. BackToDiscovering(x) = [x EXCEPT !.state = "DISCOVERING"]
  <2> DEFINE y == [x EXCEPT !.state = "DISCONNECTED"]
  <2>1. y.state = "DISCONNECTED" /\ [y EXCEPT !.state = "DISCOVERING"] = [x EXCEPT !.state = "DISCOVERING"]
    BY DEF Sessions
  <2>2. MoveTo(y, "DISCOVERING") = [y EXCEPT !.state = "DISCOVERING"] BY <2>1, <1>2 DEF MoveTo
  <2> QED BY <2>1, <2>2, <1>4 DEF BackToDiscovering
<1>6. CASE x.state = "DISCOVERING"
  <2>1. MoveTo(x, "PAIRING") = [x EXCEPT !.state = "PAIRING"] BY <1>6, <1>2 DEF MoveTo
  <2> QED BY <2>1, <1>3, <1>5
<1>7. CASE x.state = "PAIRING"
  <2>1. MoveTo(x, "PAIRING") = [x EXCEPT !.state = "PAIRING"] BY <1>7, <1>2 DEF MoveTo, Sessions
  <2> QED BY <2>1, <1>3, <1>5
<1>8. CASE x.state = "CONNECTED"
  <2>1. MoveTo(x, "PAIRING") = [x EXCEPT !.state = "CONNECTED"] BY <1>8, <1>2 DEF MoveTo, Sessions
  <2> QED BY <2>1, <1>3, <1>5
<1> QED BY <1>1, <1>6, <1>7, <1>8

LEMMA SessionValues ==
    ASSUME NEW x \in Sessions
    PROVE  /\ \A s \in Sockets : Established(x, s) \in Sessions
           /\ Cleanup(x) \in Sessions
           /\ BackToDiscovering(x) \in Sessions
           /\ MoveTo(x, "CONNECTED") \in Sessions /\ MoveTo(x, "PAIRING") \in Sessions
<1>1. /\ \A s \in Sockets : Established(x, s) \in Sessions
      /\ Cleanup(x) \in Sessions
  BY DEF Established, Cleanup, Sessions
<1>2. \A st \in {"DISCOVERING", "PAIRING", "CONNECTED"} : [x EXCEPT !.state = st] \in Sessions
  BY DEF Sessions
<1> QED BY <1>1, <1>2, Moves

LEMMA SucceededSession ==
    ASSUME Types, NEW s \in Current, PairingSucceeded(DeviceOf[s])
    PROVE  session' \in {MoveTo(session, "CONNECTED"), Established(MoveTo(session, "CONNECTED"), s)}
BY TheConnection DEF Types, PairingSucceeded

LEMMA SessionStep == ASSUME Types, Next PROVE session' \in Sessions
<1> USE SessionValues DEF Types
<1>0. Current \subseteq Sockets /\ session \in Sessions BY CurrentAreSockets
<1>1. ASSUME NEW s \in Sockets, PhoneConnects(s) PROVE session' \in Sessions
  <2>1. MoveTo(session, "CONNECTED") \in Sessions /\ MoveTo(session, "PAIRING") \in Sessions BY <1>0
  <2>2. Established(Cleanup(MoveTo(session, "CONNECTED")), s) \in Sessions BY <2>1
  <2> QED BY <1>1, <2>1, <2>2 DEF PhoneConnects
<1>2. ASSUME NEW s \in Sockets, SocketCloses(s) PROVE session' \in Sessions
  <2>1. [Cleanup(session) EXCEPT !.broadcasting = TRUE, !.webdavTimer = @ \/ webdav] \in Sessions
    BY <1>0 DEF Sessions, Cleanup
  <2> QED BY <1>0, <1>2, <2>1 DEF SocketCloses, Disconnection
<1>3. ASSUME NEW s \in Current, PairingSucceeded(DeviceOf[s]) PROVE session' \in Sessions
  <2>1. MoveTo(session, "CONNECTED") \in Sessions BY <1>0
  <2> QED BY <1>0, <1>3, <2>1, SucceededSession
<1>4. ASSUME PairingFailed PROVE session' \in Sessions
  BY <1>0, <1>4 DEF PairingFailed
<1>5. ASSUME NEW s \in Sockets, PairRequest(s) PROVE session' \in Sessions
  BY <1>0, <1>3, <1>5 DEF PairRequest
<1>6. ASSUME NEW s \in Sockets, NEW a, PairConfirm(s, a) PROVE session' \in Sessions
  BY <1>3, <1>4, <1>6 DEF PairConfirm
<1>7. ASSUME NEW s \in Sockets, PairReject(s) PROVE session' \in Sessions
  BY <1>4, <1>7 DEF PairReject
<1>8. ASSUME NEW a, PairingTimeout(a) PROVE session' \in Sessions
  BY <1>0, <1>4, <1>8 DEF PairingTimeout
<1>9. ASSUME NEW d, Unpaired(d) PROVE session' \in Sessions
  BY <1>0, <1>9 DEF Unpaired
<1>10. ASSUME Resync PROVE session' \in Sessions
  <2>1. connections # <<>> => Head(connections) \in Sockets BY DEF Tables, Table
  <2> QED BY <1>0, <1>10, <2>1 DEF Resync, Sessions
<1>11. ASSUME Webdav PROVE session' \in Sessions
  BY <1>0, <1>11 DEF Webdav, StartWebdav, StopWebdav, WebdavTimeout, Sessions
<1>12. ASSUME Restart PROVE session' \in Sessions
  BY <1>12 DEF Restart, Fresh, Sessions
<1> QED BY <1>0, <1>1, <1>2, <1>4, <1>5, <1>6, <1>7, <1>8, <1>9, <1>10, <1>11, <1>12
        DEF Next, PhoneUnpairs, UserUnpairs, UserRejects, UserRequestsPairing, AddressBook

--------------------
(* Every action but a connection, a closed socket and a restart leaves the *)
(* table alone, and at most closes sockets of ours. *)
Others ==
    \/ \E s \in Sockets : PairRequest(s) \/ PairReject(s) \/ PhoneUnpairs(s)
    \/ \E s \in Sockets, a \in DOMAIN attempts : PairConfirm(s, a)
    \/ \E a \in DOMAIN attempts : PairingTimeout(a)
    \/ \E d \in Devices : UserUnpairs(d) \/ UserRequestsPairing(d)
    \/ UserRejects
    \/ Resync
    \/ AddressBook
    \/ Webdav

LEMMA NextIs ==
    Next <=> \/ \E s \in Sockets : PhoneConnects(s) \/ SocketCloses(s)
             \/ Others
             \/ Restart
BY DEF Next, Others

SameTable ==
    /\ connections' = connections
    /\ \E S \in SUBSET Sockets : socket' = Closed(socket, S)

LEMMA OthersSameTable == ASSUME Types, Others PROVE SameTable
<1> USE DEF Types
<1>0. Current \subseteq Sockets BY CurrentAreSockets
<1>1. Closed(socket, {}) = socket BY DEF Closed, Tables
<1>2. ASSUME NEW s \in Current, PairingSucceeded(DeviceOf[s])
      PROVE  \E S \in SUBSET Sockets : socket' = Closed(socket, S)
  <2>1. socket' = Closed(socket, {}) \/ socket' = Closed(socket, {s})
    BY <1>1, <1>2, TheConnection DEF PairingSucceeded
  <2> QED BY <2>1, <1>0
<1>3. ASSUME NEW s \in Sockets, PairRequest(s) PROVE SameTable
  BY <1>1, <1>2, <1>3 DEF PairRequest, SameTable
<1>4. ASSUME NEW s \in Sockets, NEW a, PairConfirm(s, a) PROVE SameTable
  BY <1>1, <1>2, <1>4 DEF PairConfirm, SameTable, PairingFailed
<1>5. ASSUME NEW d, Unpaired(d) PROVE SameTable
  <2>1. {s \in Current : DeviceOf[s] = d} \in SUBSET Sockets BY <1>0
  <2> QED BY <1>5, <2>1 DEF Unpaired, SameTable
<1>6. ASSUME connections' = connections, socket' = socket PROVE SameTable
  BY <1>1, <1>6 DEF SameTable
<1> QED BY <1>3, <1>4, <1>5, <1>6
        DEF Others, PairReject, PairingTimeout, PairingFailed, UserRejects, Resync, AddressBook, Webdav,
            PhoneUnpairs, UserUnpairs, UserRequestsPairing

LEMMA ConnectsTable ==
    ASSUME Tables, NEW s \in Sockets, PhoneConnects(s)
    PROVE  /\ Table(connections')
           /\ Current' = (Current \ Replaced(s)) \cup {s}
<1>1. CASE Replaced(s) = {}
  <2>1. connections' = Append(connections, s) BY <1>1 DEF PhoneConnects, Store
  <2>2. \A t \in Entries(connections) : DeviceOf[t] # DeviceOf[s] BY <1>1, CurrentIs DEF Replaced
  <2>3. Table(connections') /\ Entries(connections') = Entries(connections) \cup {s}
    BY <2>1, <2>2, AddEntry DEF Tables
  <2> QED BY <1>1, <2>3, CurrentIs DEF Current, ToSet, Entries
<1>2. CASE Replaced(s) # {}
  <2>1. PICK t \in Current : DeviceOf[t] = DeviceOf[s] BY <1>2 DEF Replaced
  <2>2. ConnectionOf(DeviceOf[s]) = t /\ Replaced(s) = {t}
    BY <2>1, TheConnection, CurrentAreSockets DEF Replaced
  <2>3. connections' = Append(Deleted(t), s) BY <1>2, <2>2 DEF PhoneConnects, Store
  <2>4. Table(Deleted(t)) /\ Entries(Deleted(t)) = Current \ {t} BY DeleteEntry DEF Tables
  <2>5. \A u \in Entries(Deleted(t)) : DeviceOf[u] # DeviceOf[s] BY <2>2, <2>4 DEF Replaced
  <2>6. Table(connections') /\ Entries(connections') = (Current \ {t}) \cup {s}
    BY <2>3, <2>4, <2>5, AddEntry
  <2> QED BY <2>2, <2>6 DEF Current, ToSet, Entries
<1> QED BY <1>1, <1>2

LEMMA DisconnectionTable ==
    ASSUME Tables, NEW s \in Current, Disconnection(s)
    PROVE  Table(connections') /\ Current' = Current \ {s}
<1>1. Table(connections') /\ Entries(connections') = Current \ {s}
  BY DeleteEntry DEF Disconnection, Tables
<1> QED BY <1>1 DEF Current, ToSet, Entries

LEMMA SameCurrent == connections' = connections => Current' = Current
BY DEF Current

LEMMA TablesStep == ASSUME Types, Next PROVE Tables'
<1> USE DEF Types
<1>0. Current \subseteq Sockets BY CurrentAreSockets
<1>1. ASSUME NEW s \in Sockets, PhoneConnects(s) PROVE Tables'
  <2>1. Table(connections)' /\ Current' = (Current \ Replaced(s)) \cup {s}
    BY <1>1, ConnectsTable DEF Table, OneEach
  <2> DEFINE opened == [Closed(socket, Replaced(s)) EXCEPT ![s] = "open"]
  <2>2. socket' = opened \/ socket' = Closed(opened, {s}) BY <1>1 DEF PhoneConnects
  <2>3. /\ opened \in [Sockets -> {"unused", "open", "closing", "closed"}]
        /\ Closed(opened, {s}) \in [Sockets -> {"unused", "open", "closing", "closed"}]
    BY DEF Closed, Tables
  <2>4. \A t \in (Current \ Replaced(s)) \cup {s} :
            opened[t] \in {"open", "closing"} /\ Closed(opened, {s})[t] \in {"open", "closing"}
    BY <1>0 DEF Closed, Tables
  <2> QED BY <2>1, <2>2, <2>3, <2>4 DEF Tables
<1>2. ASSUME NEW s \in Sockets, SocketCloses(s), s \in Current PROVE Tables'
  <2>1. Table(connections)' /\ Current' = Current \ {s}
    BY <1>2, DisconnectionTable DEF SocketCloses, Table, OneEach
  <2> QED BY <1>0, <1>2, <2>1 DEF SocketCloses, Tables
<1>3. ASSUME NEW s \in Sockets, SocketCloses(s), s \notin Current PROVE Tables'
  <2>1. connections' = connections /\ Current' = Current BY <1>3, SameCurrent DEF SocketCloses
  <2> QED BY <1>0, <1>3, <2>1 DEF SocketCloses, Tables, Table, OneEach
<1>4. ASSUME Others PROVE Tables'
  <2>1. connections' = connections /\ Current' = Current
    BY <1>4, OthersSameTable, SameCurrent DEF SameTable
  <2>2. PICK S \in SUBSET Sockets : socket' = Closed(socket, S)
    BY <1>4, OthersSameTable DEF SameTable
  <2> QED BY <1>0, <2>1, <2>2 DEF Closed, Tables, Table, OneEach
<1>5. ASSUME Restart PROVE Tables'
  <2>1. Current' = {} BY <1>5 DEF Restart, Current, ToSet
  <2>2. Table(connections') BY <1>5 DEF Restart, Table, OneEach
  <2> QED BY <1>5, <2>1, <2>2 DEF Restart, Tables, Table, OneEach
<1> QED BY <1>1, <1>2, <1>3, <1>4, <1>5, NextIs

LEMMA RequestedAttempt ==
    ASSUME Types, NEW s \in Sockets, NEW times \in {1, 2}, RequestPairing(s, times)
    PROVE  Attempting'
<1> USE ConnectionAssumption DEF Types, Attempting
<1> DEFINE more == [i \in 1..times |-> s]
           n == Len(attempts) + times
<1>1. more \in Seq(Sockets) /\ Len(more) = times OBVIOUS
<1>2. attempts' = attempts \o more BY DEF RequestPairing
<1> HIDE DEF more
<1>3. attempts' \in Seq(Sockets) /\ Len(attempts') = n BY <1>1, <1>2, ConcatProperties
<1>4. n \in 0..MaxAttempts /\ armed' = armed \cup (Len(attempts) + 1)..n
      /\ pending' = [pending EXCEPT ![DeviceOf[s]] = n]
  BY DEF RequestPairing
<1>5. DOMAIN attempts = 1..Len(attempts) /\ DOMAIN attempts' = 1..n /\ Len(attempts) \in Nat BY <1>3
<1>6. armed' \subseteq DOMAIN attempts' BY <1>4, <1>5
<1> QED BY <1>3, <1>4, <1>6

LEMMA ClearedAttempt ==
    ASSUME Types, NEW d, ClearPending(d), attempts' = attempts
    PROVE  Attempting'
<1>1. armed' \subseteq armed BY DEF ClearPending
<1>2. pending' \in [Devices -> 0..MaxAttempts]
  <2>1. pending \in [Devices -> 0..MaxAttempts] /\ pending' = [pending EXCEPT ![d] = 0]
        /\ 0 \in 0..MaxAttempts
    BY ConnectionAssumption DEF ClearPending, Types, Attempting
  <2> QED BY <2>1
<1> QED BY <1>1, <1>2 DEF Types, Attempting

LEMMA AttemptingStep == ASSUME Types, Next PROVE Attempting'
<1>1. ASSUME UNCHANGED <<attempts, armed, pending>> PROVE Attempting'
  BY <1>1 DEF Types, Attempting
<1>2. ASSUME NEW s \in Sockets, PhoneConnects(s) PROVE Attempting'
  BY <1>1, <1>2, RequestedAttempt DEF PhoneConnects
<1>3. ASSUME NEW d, UserRequestsPairing(d) PROVE Attempting'
  <2>1. CASE d \in ConnectedDevices
    <3>1. PICK s \in Current : DeviceOf[s] = d BY <2>1 DEF ConnectedDevices
    <3>2. ConnectionOf(d) \in Sockets BY <3>1, TheConnection, CurrentAreSockets DEF Types
    <3> QED BY <1>3, <2>1, <3>2, RequestedAttempt DEF UserRequestsPairing
  <2>2. CASE d \notin ConnectedDevices BY <1>1, <1>3, <2>2 DEF UserRequestsPairing
  <2> QED BY <2>1, <2>2
<1>4. ASSUME NEW s, NEW a, PairConfirm(s, a) PROVE Attempting'
  BY <1>4, ClearedAttempt DEF PairConfirm
<1>5. ASSUME NEW s, PairReject(s) PROVE Attempting'
  BY <1>5, ClearedAttempt DEF PairReject
<1>6. ASSUME NEW a, PairingTimeout(a) PROVE Attempting'
  <2>1. attempts' = attempts /\ armed' \subseteq armed BY <1>6 DEF PairingTimeout
  <2>2. pending' \in [Devices -> 0..MaxAttempts]
    BY <1>6, ConnectionAssumption DEF PairingTimeout, Types, Attempting
  <2> QED BY <2>1, <2>2 DEF Types, Attempting
<1>7. ASSUME Restart PROVE Attempting'
  BY <1>7, ConnectionAssumption DEF Restart, Types, Attempting
<1> QED BY <1>1, <1>2, <1>3, <1>4, <1>5, <1>6, <1>7
        DEF Next, SocketCloses, PairRequest, PhoneUnpairs, UserUnpairs, Unpaired, UserRejects,
            Resync, AddressBook, Webdav, pairing

LEMMA ListsStep == ASSUME Types, Next PROVE Lists'
<1> USE ConnectionAssumption DEF Types, Lists
<1>0. Current \subseteq Sockets /\ \A s \in Sockets : DeviceOf[s] \in Devices BY CurrentAreSockets
<1>1. ASSUME NEW s \in Sockets, PhoneConnects(s) PROVE Lists'
  BY <1>0, <1>1 DEF PhoneConnects, ClearTimers, MaybeKnown
<1>2. ASSUME NEW s \in Sockets, SocketCloses(s) PROVE Lists'
  BY <1>0, <1>2
     DEF SocketCloses, Disconnection, StartVersionCheckTimer, StartReconnectTimer, pairing
<1>3. ASSUME NEW s \in Sockets, PairRequest(s) PROVE Lists'
  BY <1>0, <1>3 DEF PairRequest, PairingSucceeded, pairing
<1>4. ASSUME NEW s \in Sockets, NEW a, PairConfirm(s, a) PROVE Lists'
  BY <1>0, <1>4 DEF PairConfirm, PairingSucceeded, PairingFailed
<1>5. ASSUME NEW d, Unpaired(d), known' \subseteq known PROVE Lists'
  BY <1>5 DEF Unpaired
<1>6. ASSUME NEW d \in Devices, UserRequestsPairing(d) PROVE Lists'
  BY <1>6 DEF UserRequestsPairing, RequestPairing
<1>7. ASSUME NEW s \in Sockets, PairReject(s) PROVE Lists'
  BY <1>7 DEF PairReject, PairingFailed
<1>8. ASSUME NEW a, PairingTimeout(a) PROVE Lists'
  BY <1>8 DEF PairingTimeout, PairingFailed
<1>9. ASSUME UserRejects \/ Resync \/ AddressBook \/ Restart PROVE Lists'
  BY <1>9 DEF UserRejects, PairingFailed, Resync, AddressBook, DeviceFound, ForgetDevice, Restart, pairing
<1>10. ASSUME Webdav PROVE Lists'
  BY <1>10 DEF Webdav, StartWebdav, StopWebdav, WebdavTimeout, pairing
<1> QED BY <1>1, <1>2, <1>3, <1>4, <1>5, <1>6, <1>7, <1>8, <1>9, <1>10
        DEF Next, PhoneUnpairs, UserUnpairs

LEMMA TypesStep == Types /\ [Next]_vars => Types'
<1> SUFFICES ASSUME Types, [Next]_vars PROVE Types' OBVIOUS
<1>1. CASE Next BY <1>1, SessionStep, TablesStep, AttemptingStep, ListsStep DEF Types, Sessions
<1>2. CASE UNCHANGED vars
  <2>1. Current' = Current BY <1>2, SameCurrent DEF vars
  <2> QED BY <1>2, <2>1
          DEF vars, pairing, Types, Sessions, Tables, Table, OneEach, Attempting, Lists
<1> QED BY <1>1, <1>2

LEMMA TypesInit == Init => Types
<1> SUFFICES ASSUME Init PROVE Types OBVIOUS
<1>1. Current = {} /\ Table(connections) BY DEF Init, Current, ToSet, Table, OneEach
<1>2. session \in Sessions BY DEF Init, Fresh, Sessions
<1>3. Attempting BY ConnectionAssumption DEF Init, Attempting
<1> QED BY <1>1, <1>2, <1>3 DEF Init, Types, Tables, Lists

(* Every state has the types of TypeOK, one entry per phone in the table and *)
(* no closed connection in it included. *)
THEOREM TypeCorrect == Spec => []TypeOK
<1>1. Types => TypeOK BY TypesImplyTypeOK
<1> QED BY <1>1, TypesInit, TypesStep, PTL DEF Spec

--------------------
(* Calling *)

LEMMA OthersSameCalls ==
    ASSUME Types, Others
    PROVE  /\ lost' = lost /\ reconnect' = reconnect /\ recheck' \subseteq recheck
           /\ \A d \in trusted' \ trusted : d \in ConnectedDevices
           /\ \A d \in trusted' \cap recheck : d \in recheck' \/ d \in ConnectedDevices
<1>0. Current \subseteq Sockets /\ \A s \in Current : DeviceOf[s] \in ConnectedDevices
  BY CurrentAreSockets DEF Types, ConnectedDevices
<1>2. ASSUME NEW s \in Sockets, NEW a, PairConfirm(s, a)
      PROVE  trusted' \subseteq trusted \cup ConnectedDevices
  BY <1>0, <1>2 DEF PairConfirm
<1>3. ASSUME NEW d, Unpaired(d)
      PROVE  trusted' = trusted \ {d} /\ recheck' = recheck \ {d} /\ lost' = lost /\ reconnect' = reconnect
  BY <1>3 DEF Unpaired
<1> QED BY <1>2, <1>3
        DEF Others, PairRequest, PairConfirm, PairReject, PairingTimeout, PairingFailed, UserRejects,
            Resync, AddressBook, Webdav, StartWebdav, StopWebdav, WebdavTimeout, PhoneUnpairs, UserUnpairs,
            UserRequestsPairing, RequestPairing, pairing

LEMMA CallsStep ==
    ASSUME Types, LostPhoneIsCalled, CallsOnlyTheAbsent, Next
    PROVE  LostPhoneIsCalled' /\ CallsOnlyTheAbsent'
<1> USE DEF LostPhoneIsCalled, CallsOnlyTheAbsent
<1>0. /\ Tables /\ Current \subseteq Sockets
      /\ \A s, t \in Current : DeviceOf[s] = DeviceOf[t] => s = t
  BY CurrentAreSockets DEF Types
<1>1. ASSUME NEW s \in Sockets, PhoneConnects(s)
      PROVE  LostPhoneIsCalled' /\ CallsOnlyTheAbsent'
  <2>1. ConnectedDevices' = ConnectedDevices \cup {DeviceOf[s]}
    BY <1>0, <1>1, ConnectsTable DEF ConnectedDevices, Replaced
  <2>2. /\ lost' = lost /\ trusted' = trusted
        /\ reconnect' = reconnect \ {DeviceOf[s]} /\ recheck' = recheck \ {DeviceOf[s]}
    BY <1>1 DEF PhoneConnects, ClearTimers
  <2> QED BY <2>1, <2>2
<1>2. ASSUME NEW s \in Sockets, SocketCloses(s), s \in Current
      PROVE  LostPhoneIsCalled' /\ CallsOnlyTheAbsent'
  <2> DEFINE d == DeviceOf[s]
  <2>1. Disconnection(s) /\ UNCHANGED <<pairing, known>> BY <1>2 DEF SocketCloses
  <2>2. ConnectedDevices' = ConnectedDevices \ {d} /\ d \in ConnectedDevices
    BY <1>0, <1>2, <2>1, DisconnectionTable DEF ConnectedDevices
  <2>3. lost' \subseteq (lost \ {d}) \cup ({d} \cap known \cap trusted) /\ trusted' = trusted
    BY <2>1 DEF Disconnection, pairing
  <2>4. \/ reconnect' = reconnect \cup ({d} \cap known \cap trusted) /\ recheck' = recheck
        \/ recheck' = recheck \cup ({d} \cap known) /\ reconnect' = reconnect
    BY <2>1 DEF Disconnection, StartVersionCheckTimer, StartReconnectTimer
  <2> QED BY <2>2, <2>3, <2>4
<1>3. ASSUME NEW s \in Sockets, SocketCloses(s), s \notin Current
      PROVE  LostPhoneIsCalled' /\ CallsOnlyTheAbsent'
  <2>1. ConnectedDevices' = ConnectedDevices BY <1>3 DEF SocketCloses, ConnectedDevices, Current
  <2> QED BY <1>3, <2>1 DEF SocketCloses, pairing
<1>4. ASSUME Others PROVE LostPhoneIsCalled' /\ CallsOnlyTheAbsent'
  <2>1. ConnectedDevices' = ConnectedDevices
    BY <1>4, OthersSameTable DEF SameTable, ConnectedDevices, Current
  <2> QED BY <1>4, <2>1, OthersSameCalls
<1>5. ASSUME Restart PROVE LostPhoneIsCalled' /\ CallsOnlyTheAbsent'
  BY <1>5 DEF Restart
<1> QED BY <1>1, <1>2, <1>3, <1>4, <1>5, NextIs

(* Nobody connected: broadcasting, discovering, unwired. *)
LEMMA AloneStep ==
    ASSUME Types, AloneMeansCalling, Next
    PROVE  AloneMeansCalling'
<1> USE DEF AloneMeansCalling
<1>0. /\ Tables /\ session \in Sessions /\ Current \subseteq Sockets
      /\ connections = <<>> <=> Current = {}
  BY CurrentAreSockets DEF Types
<1> DEFINE Calling(x) == x.broadcasting /\ x.wired = None /\ x.state = "DISCOVERING"
<1>1. ASSUME NEW s \in Sockets, PhoneConnects(s) PROVE AloneMeansCalling'
  <2>1. connections' # <<>> BY <1>0, <1>1, ConnectsTable DEF Current, ToSet
  <2> QED BY <2>1
<1>2. ASSUME NEW s \in Sockets, SocketCloses(s), s \in Current PROVE AloneMeansCalling'
  <2> DEFINE x == [Cleanup(session) EXCEPT !.broadcasting = TRUE, !.webdavTimer = @ \/ webdav]
  <2>1. session' = BackToDiscovering(x) BY <1>2 DEF SocketCloses, Disconnection
  <2>2. x \in Sessions /\ x.broadcasting /\ x.wired = None BY <1>0 DEF Sessions, Cleanup
  <2>3. session' = [x EXCEPT !.state = "DISCOVERING"] BY <2>1, <2>2, Moves
  <2>4. Calling(session') BY <2>2, <2>3 DEF Sessions
  <2> QED BY <2>4
<1>3. ASSUME connections' = connections, connections # <<>> PROVE AloneMeansCalling'
  BY <1>3
<1>4. ASSUME connections' = connections, session' = session PROVE AloneMeansCalling'
  BY <1>4
<1>5. ASSUME Others, connections = <<>> PROVE AloneMeansCalling'
  <2>1. connections' = connections /\ Calling(session) /\ Current = {}
    BY <1>0, <1>5, OthersSameTable DEF SameTable
  <2>2. ASSUME PairingFailed PROVE Calling(session')
    <3>1. session' = [session EXCEPT !.state = "DISCOVERING"] BY <1>0, <2>2, Moves DEF PairingFailed
    <3> QED BY <1>0, <2>1, <3>1 DEF Sessions
  <2>3. ASSUME NEW d, Unpaired(d) PROVE Calling(session')
    BY <1>0, <2>1, <2>3 DEF Unpaired, Cleanup, Sessions
  <2>4. ASSUME Resync PROVE Calling(session')
    BY <1>0, <1>5, <2>1, <2>4 DEF Resync, Sessions
  <2>5. ASSUME Webdav PROVE Calling(session')
    BY <1>0, <2>1, <2>5 DEF Webdav, StartWebdav, StopWebdav, WebdavTimeout, Sessions
  <2>6. session' = session \/ Calling(session')
    BY <1>5, <2>1, <2>2, <2>3, <2>4, <2>5
       DEF Others, PairRequest, PairConfirm, PairReject, PairingTimeout, UserRejects,
           PhoneUnpairs, UserUnpairs, UserRequestsPairing, AddressBook
  <2> QED BY <2>1, <2>6
<1>6. ASSUME Restart PROVE AloneMeansCalling'
  BY <1>6 DEF Restart, Fresh
<1>7. ASSUME NEW s \in Sockets, SocketCloses(s), s \notin Current PROVE AloneMeansCalling'
  BY <1>4, <1>7 DEF SocketCloses
<1> QED BY <1>1, <1>2, <1>3, <1>5, <1>6, <1>7, NextIs, OthersSameTable DEF SameTable

(* With nobody connected the desktop can be found, a phone that was paired and *)
(* known when it dropped is asked to come back, by one timer, while it is away *)
(* and paired, and nobody who is connected is: daemon.ts keeps broadcasting, timers and table in step. *)
THEOREM CallsGoToTheAbsent == Spec => []CallingIsRight
<1> DEFINE Inv == Types /\ CallingIsRight
<1>1. Init => Inv
  <2>1. Init => Types BY TypesInit
  <2>2. Init => CallingIsRight
    BY DEF Init, Fresh, CallingIsRight, AloneMeansCalling, LostPhoneIsCalled, CallsOnlyTheAbsent
  <2> QED BY <2>1, <2>2
<1>2. Inv /\ [Next]_vars => Inv'
  <2> SUFFICES ASSUME Inv, [Next]_vars PROVE Inv' OBVIOUS
  <2>1. Types' BY TypesStep
  <2>2. CASE Next BY <2>1, <2>2, AloneStep, CallsStep DEF CallingIsRight
  <2>3. CASE UNCHANGED vars
    BY <2>1, <2>3 DEF vars, pairing, CallingIsRight, AloneMeansCalling, LostPhoneIsCalled,
                      CallsOnlyTheAbsent, ConnectedDevices, Current
  <2> QED BY <2>2, <2>3
<1>3. Inv => CallingIsRight OBVIOUS
<1> QED BY <1>1, <1>2, <1>3, PTL DEF Spec

--------------------
(* Sessions *)

LEMMA NotPairingStep ==
    ASSUME Types, TrustedIsNotPairing, Next
    PROVE  TrustedIsNotPairing'
<1> USE ConnectionAssumption DEF TrustedIsNotPairing
<1>0. /\ Current \subseteq Sockets /\ \A s \in Sockets : DeviceOf[s] \in Devices
      /\ pending \in [Devices -> 0..MaxAttempts] /\ trusted \subseteq Devices /\ None \notin Devices
  BY CurrentAreSockets DEF Types, Lists, Attempting
<1>1. ASSUME trusted' \subseteq trusted, incoming' \in {incoming, None},
             \A d \in trusted' : pending'[d] \in {pending[d], 0}
      PROVE  TrustedIsNotPairing'
  BY <1>0, <1>1
<1>2. ASSUME NEW s \in Sockets, DeviceOf[s] \notin trusted, NEW times, RequestPairing(s, times),
             UNCHANGED <<trusted, incoming>>
      PROVE  TrustedIsNotPairing'
  BY <1>0, <1>2 DEF RequestPairing
<1>3. ASSUME NEW s \in Sockets, PhoneConnects(s) PROVE TrustedIsNotPairing'
  <2>1. UNCHANGED <<trusted, incoming>> BY <1>3 DEF PhoneConnects
  <2>2. UNCHANGED pending \/ \E times \in {1, 2} : DeviceOf[s] \notin trusted /\ RequestPairing(s, times)
    BY <1>3 DEF PhoneConnects
  <2> QED BY <1>2, <2>1, <2>2
<1>4. ASSUME NEW s \in Sockets, SocketCloses(s) PROVE TrustedIsNotPairing'
  BY <1>1, <1>4 DEF SocketCloses, pairing
<1>5. ASSUME NEW s \in Sockets, PairRequest(s) PROVE TrustedIsNotPairing'
  BY <1>0, <1>5 DEF PairRequest, PairingSucceeded, pairing
<1>6. ASSUME NEW s \in Sockets, NEW a, PairConfirm(s, a) PROVE TrustedIsNotPairing'
  <2>1. /\ pending' = [pending EXCEPT ![DeviceOf[s]] = 0]
        /\ trusted' \subseteq trusted \cup {DeviceOf[s]} /\ incoming' = None
    BY <1>6 DEF PairConfirm, ClearPending, PairingSucceeded, PairingFailed
  <2> QED BY <1>0, <2>1
<1>7. ASSUME NEW s \in Sockets, PairReject(s) PROVE TrustedIsNotPairing'
  <2>1. /\ pending' = [pending EXCEPT ![DeviceOf[s]] = 0]
        /\ trusted' = trusted /\ incoming' = None
    BY <1>7 DEF PairReject, ClearPending, PairingFailed
  <2> QED BY <1>0, <2>1
<1>8. ASSUME NEW a, PairingTimeout(a) PROVE TrustedIsNotPairing'
  <2> DEFINE d == DeviceOf[attempts[a]]
  <2>1. /\ pending' = [pending EXCEPT ![d] = 0] \/ UNCHANGED pending
        /\ trusted' = trusted /\ incoming' \in {incoming, None}
    BY <1>8 DEF PairingTimeout, PairingFailed
  <2> QED BY <1>0, <2>1
<1>9. ASSUME NEW d \in Devices, UserUnpairs(d) PROVE TrustedIsNotPairing'
  BY <1>1, <1>9 DEF UserUnpairs, Unpaired
<1>10. ASSUME NEW s \in Sockets, PhoneUnpairs(s) PROVE TrustedIsNotPairing'
  BY <1>1, <1>10 DEF PhoneUnpairs, Unpaired
<1>11. ASSUME NEW d \in Devices, UserRequestsPairing(d) PROVE TrustedIsNotPairing'
  <2>1. CASE d \in ConnectedDevices
    <3>1. PICK s \in Current : DeviceOf[s] = d BY <2>1 DEF ConnectedDevices
    <3>2. ConnectionOf(d) = s BY <3>1, TheConnection DEF Types
    <3>3. DeviceOf[s] \notin trusted /\ RequestPairing(s, 1) /\ UNCHANGED <<trusted, incoming>>
      BY <1>11, <2>1, <3>1, <3>2 DEF UserRequestsPairing
    <3> QED BY <1>0, <1>2, <3>3
  <2>2. CASE d \notin ConnectedDevices BY <1>1, <1>11, <2>2 DEF UserRequestsPairing
  <2> QED BY <2>1, <2>2
<1>12. ASSUME UserRejects \/ Resync \/ AddressBook \/ Webdav PROVE TrustedIsNotPairing'
  BY <1>1, <1>12 DEF UserRejects, PairingFailed, Resync, AddressBook, Webdav, pairing
<1>13. ASSUME Restart PROVE TrustedIsNotPairing'
  BY <1>0, <1>13 DEF Restart
<1> QED BY <1>3, <1>4, <1>5, <1>6, <1>7, <1>8, <1>9, <1>10, <1>11, <1>12, <1>13 DEF Next

(* However many phones there are, a trusted one is in no pairing that a late *)
(* timer, a second code or a click on "reject" could end. *)
THEOREM TrustEndsPairing == Spec => []TrustedIsNotPairing
<1>1. Init => Types /\ TrustedIsNotPairing
  <2>1. Init => TrustedIsNotPairing BY ConnectionAssumption DEF Init, TrustedIsNotPairing
  <2> QED BY <2>1, TypesInit
<1>2. Types /\ TrustedIsNotPairing /\ [Next]_vars => (Types /\ TrustedIsNotPairing)'
  <2> SUFFICES ASSUME Types, TrustedIsNotPairing, [Next]_vars
               PROVE  (Types /\ TrustedIsNotPairing)'
    OBVIOUS
  <2>1. Types' BY TypesStep
  <2>2. CASE Next BY <2>1, <2>2, NotPairingStep
  <2>3. CASE UNCHANGED vars BY <2>1, <2>3 DEF vars, pairing, TrustedIsNotPairing
  <2> QED BY <2>2, <2>3
<1> QED BY <1>1, <1>2, PTL DEF Spec

OnePhone == \A d, e \in Devices : d = e

Whole(s) ==
    [state |-> "CONNECTED", wired |-> s, pipeline |-> TRUE, broadcasting |-> FALSE, webdavTimer |-> FALSE]

Deserving(s) == socket[s] = "open" /\ s \in Compatible /\ DeviceOf[s] \in trusted

LEMMA EstablishedIsWhole ==
    ASSUME NEW x \in Sessions, NEW s \in Sockets
    PROVE  /\ Established(MoveTo(x, "CONNECTED"), s) = Whole(s)
           /\ Established(Cleanup(MoveTo(x, "CONNECTED")), s) = Whole(s)
<1>1. MoveTo(x, "CONNECTED") = [x EXCEPT !.state = "CONNECTED"] BY Moves
<1> DEFINE y == [x EXCEPT !.state = "CONNECTED"]
<1>2. y \in Sessions /\ y.state = "CONNECTED" BY DEF Sessions
<1> HIDE DEF y
<1>3. /\ Cleanup(y) \in Sessions /\ Cleanup(y).state = "CONNECTED" BY <1>2 DEF Cleanup, Sessions
<1>4. ASSUME NEW z \in Sessions, z.state = "CONNECTED" PROVE Established(z, s) = Whole(s)
  <2>1. Established(z, s) \in Sessions BY SessionValues
  <2>2. /\ Established(z, s).state = "CONNECTED" /\ Established(z, s).wired = s
        /\ Established(z, s).pipeline = TRUE /\ Established(z, s).broadcasting = FALSE
        /\ Established(z, s).webdavTimer = FALSE
    BY <1>4 DEF Established, Sessions
  <2> QED BY <2>1, <2>2 DEF Sessions, Whole
<1> QED BY <1>1, <1>2, <1>3, <1>4 DEF y

LEMMA WholeStep ==
    ASSUME OnePhone, Types, TrustedIsNotPairing, SessionIsWhole, Next
    PROVE  SessionIsWhole'
<1> USE ConnectionAssumption DEF SessionIsWhole, Whole, Deserving
<1>0. /\ Tables /\ session \in Sessions /\ Current \subseteq Sockets
      /\ \A s \in Sockets : DeviceOf[s] \in Devices
      /\ \A s, t \in Current : s = t
  BY CurrentAreSockets DEF Types, OnePhone
<1>1. ASSUME NEW s \in Sockets, PhoneConnects(s) PROVE SessionIsWhole'
  <2>1. Current' = {s} BY <1>0, <1>1, ConnectsTable DEF Replaced, OnePhone
  <2>2. trusted' = trusted BY <1>1 DEF PhoneConnects
  <2>3. DeviceOf[s] \in trusted /\ s \in Compatible => session' = Whole(s)
    BY <1>0, <1>1, EstablishedIsWhole DEF PhoneConnects
  <2> QED BY <2>1, <2>2, <2>3
<1>2. ASSUME NEW s \in Sockets, SocketCloses(s), s \in Current PROVE SessionIsWhole'
  <2>1. Current' = {} BY <1>0, <1>2, DisconnectionTable DEF SocketCloses
  <2> QED BY <2>1
<1>3. ASSUME NEW s \in Sockets, SocketCloses(s), s \notin Current PROVE SessionIsWhole'
  <2>1. /\ Current' = Current /\ session' = session /\ trusted' = trusted
        /\ \A t \in Current : socket'[t] = socket[t]
    BY <1>0, <1>3 DEF SocketCloses, Current, pairing, Tables
  <2> QED BY <2>1
<1>4. ASSUME Others PROVE SessionIsWhole'
  <2>1. Current' = Current BY <1>4, OthersSameTable DEF SameTable, Current
  <2>2. PICK S \in SUBSET Sockets : socket' = Closed(socket, S)
    BY <1>4, OthersSameTable DEF SameTable
  <2>3. \A t \in Current : socket'[t] = "open" => socket[t] = "open" BY <1>0, <2>2 DEF Closed
  <2> SUFFICES ASSUME NEW s \in Current, Deserving(s)' PROVE session' = Whole(s)
    BY <2>1
  <2> DEFINE d == DeviceOf[s]
  <2>4. Devices = {d} /\ ConnectionOf(d) = s /\ socket[s] = "open" /\ s \in Compatible
    BY <1>0, <2>3, TheConnection DEF OnePhone
  <2>5. d \in trusted => session = Whole(s) /\ pending[d] = 0 /\ incoming = None
    BY <1>0, <2>4 DEF TrustedIsNotPairing, Types, Lists
  <2>6. ASSUME PairingSucceeded(d) PROVE session' = Whole(s)
    BY <1>0, <2>4, <2>6, EstablishedIsWhole DEF PairingSucceeded
  <2>7. \A t \in Current : t = s BY <1>0
  <2>8. ASSUME NEW t \in Sockets, PairRequest(t) PROVE session' = Whole(s)
    BY <2>4, <2>5, <2>6, <2>7, <2>8 DEF PairRequest, pairing
  <2>9. ASSUME NEW t \in Sockets, NEW a, PairConfirm(t, a) PROVE session' = Whole(s)
    BY <2>4, <2>5, <2>6, <2>7, <2>9 DEF PairConfirm
  <2>10. ASSUME NEW t \in Sockets, PairReject(t) PROVE session' = Whole(s)
    BY <2>5, <2>7, <2>10 DEF PairReject
  <2>11. ASSUME NEW a \in DOMAIN attempts, PairingTimeout(a) PROVE session' = Whole(s)
    <3>1. DeviceOf[attempts[a]] = d BY <1>0, <2>4 DEF Types, Attempting
    <3> QED BY <2>5, <2>11, <3>1 DEF PairingTimeout
  <2>12. ASSUME NEW e \in Devices, Unpaired(e) PROVE FALSE
    BY <2>4, <2>12 DEF Unpaired
  <2>13. ASSUME UserRejects PROVE session' = Whole(s)
    BY <2>5, <2>13 DEF UserRejects, pairing
  <2>14. ASSUME Resync PROVE session' = Whole(s)
    <3>1. connections \in Seq(Sockets) /\ connections # <<>>
      BY <1>0, CurrentAreSockets DEF Tables, Table
    <3>2. Head(connections) = s
      <4>1. 1 \in DOMAIN connections /\ Head(connections) = connections[1] BY <3>1
      <4> QED BY <2>7, <4>1, CurrentIs DEF Entries
    <3>3. d \in trusted BY <2>14 DEF Resync, pairing
    <3>4. session = Whole(s) BY <2>5, <3>3
    <3> QED BY <2>14, <3>1, <3>2, <3>4 DEF Resync
  <2>15. ASSUME AddressBook \/ Webdav PROVE session' = Whole(s)
    BY <2>5, <2>15 DEF AddressBook, Webdav, StartWebdav, StopWebdav, WebdavTimeout, pairing
  <2>16. ASSUME NEW e \in Devices, UserRequestsPairing(e) PROVE session' = Whole(s)
    BY <2>5, <2>16 DEF UserRequestsPairing
  <2> QED BY <1>0, <1>4, <2>8, <2>9, <2>10, <2>11, <2>12, <2>13, <2>14, <2>15, <2>16
          DEF Others, PhoneUnpairs, UserUnpairs
<1>5. ASSUME Restart PROVE SessionIsWhole'
  <2>1. Current' = {} BY <1>5 DEF Restart, Current, ToSet
  <2> QED BY <2>1
<1> QED BY <1>1, <1>2, <1>3, <1>4, <1>5, NextIs

(* With a single phone, which is how the desktop is used, a trusted and *)
(* compatible phone on an open connection always has the whole session, and *)
(* no pairing is left that could end it. *)
THEOREM OnePhoneHasItsSession == OnePhone => (Spec => []SessionIsSound)
<1> DEFINE Inv == Types /\ SessionIsSound
<1>1. Init => Inv
  <2>1. Init => TrustedIsNotPairing BY ConnectionAssumption DEF Init, TrustedIsNotPairing
  <2>2. Init => SessionIsWhole BY DEF Init, SessionIsWhole, Current, ToSet
  <2> QED BY <2>1, <2>2, TypesInit DEF SessionIsSound
<1>2. OnePhone /\ Inv /\ [Next]_vars => Inv'
  <2> SUFFICES ASSUME OnePhone, Inv, [Next]_vars PROVE Inv' OBVIOUS
  <2>1. Types' BY TypesStep
  <2>2. CASE Next BY <2>1, <2>2, NotPairingStep, WholeStep DEF SessionIsSound
  <2>3. CASE UNCHANGED vars
    BY <2>1, <2>3 DEF vars, pairing, SessionIsSound, TrustedIsNotPairing, SessionIsWhole, Current
  <2> QED BY <2>2, <2>3
<1>3. Inv => SessionIsSound OBVIOUS
<1> SUFFICES ASSUME OnePhone PROVE Spec => []SessionIsSound OBVIOUS
<1>4. Inv /\ [Next]_vars => Inv' BY <1>2
<1> QED BY <1>1, <1>3, <1>4, PTL DEF Spec

--------------------
(* The phone's files *)

Pieces == Nat \X Nat
Bytes == {s \in Seq(Pieces) : Len(s) <= Chunks}
Objects == {f \in [dir : BOOLEAN, data : Bytes] : f.dir => f.data = <<>>}
Disks == UNION {[S -> Objects] : S \in SUBSET Paths}
Names == Paths \union Media
Bits == {s \in Seq(Pieces) : Len(s) <= 1}
Messages ==
    {m \in [id : Nat \X Nat, ask : Dav!Asks, path : Paths, dest : Names, at : 0..Chunks,
            data : Bits, truncate : BOOLEAN] :
        m.at + Len(m.data) <= Chunks /\ (m.ask = "rename" => m.dest \in Paths)}
Replies == [ok : BOOLEAN, id : Nat \X Nat, exists : BOOLEAN, dir : BOOLEAN, size : 0..Chunks,
            data : Bits, eof : BOOLEAN]

(* What a request of each kind asks for. *)
Ways(op) ==
    CASE op = "PUT" -> {"stat", "write"}
      [] op = "MOVE" -> {"stat", "rename"}
      [] op = "DELETE" -> {"stat", "delete"}
      [] op = "PROPFIND" -> {"stat", "readdir"}
      [] op = "GET" -> {"stat", "read"}
      [] op = "COPY" -> {"stat", "read", "write", "mkdir"}
      [] op = "MKCOL" -> {"mkdir"}
Statuses == {0, 200, 201, 204, 207, 404, 405, 500}
Drafts ==
    {r \in [op : Dav!Ops, path : Names, dest : Names, body : Bytes, pc : Dav!Asks \union {"done"},
            n : Nat, at : 0..Chunks, first : BOOLEAN, eof : BOOLEAN, exists : BOOLEAN,
            size : 0..Chunks, got : Bytes, cut : BOOLEAN, status : Statuses, alone : BOOLEAN] :
        /\ r.op = "GET" => Len(r.got) = r.at
        /\ r.op \in {"MOVE", "COPY"} => r.dest # r.path}
Requests ==
    {r \in Drafts : /\ (r.status = 0) <=> (r.pc # "done")
                    /\ r.pc # "done" => r.pc \in Ways(r.op)
                    /\ r.pc = "read" => r.at < r.size}

FileTypes ==
    /\ Dav!FileConstants
    /\ phone \in Disks /\ up \in BOOLEAN /\ cuts \in 0..MaxCuts
    /\ out \in Seq(Messages) /\ back \in Seq(Replies) /\ reqs \in Seq(Requests)
    /\ \A k \in DOMAIN out : out[k].id[1] \in DOMAIN reqs
    /\ \A k \in DOMAIN back : back[k].id[1] \in DOMAIN reqs
    /\ ~up => out = <<>> /\ back = <<>>
    /\ tfs \in {"none", "loading", "loaded"} /\ sized \subseteq Media

--------------------
(* The last request, when no other was running as it began. *)
Latest == reqs[Len(reqs)]
Mine(m) == m.id[1] = Len(reqs)
OthersDone ==
    reqs # <<>> /\ Latest.alone => \A i \in DOMAIN reqs : i # Len(reqs) => reqs[i].pc = "done"
Alone == reqs # <<>> /\ Latest.alone /\ Latest.path \in Paths /\ Latest.dest \in Paths

Start(s, n) == [k \in 1..n |-> s[k]]
Grown(n, limit) == IF n < limit THEN n + 1 ELSE n
Holds(p, s) == p \in DOMAIN phone /\ phone[p] = Dav!File(s)
Source(r) == r.path \in DOMAIN phone /\ ~phone[r.path].dir /\ Len(phone[r.path].data) = r.size
Target(r) ==
    IF (r.op = "MOVE" /\ r.pc = "stat") \/ (r.op = "COPY" /\ r.pc \in {"write", "mkdir"})
    THEN r.dest ELSE r.path

(* How far a request is, when the phone has not served its message yet. *)
Early(r) == r.at = 0 /\ r.first /\ ~r.eof /\ r.got = <<>>
Copies(r) ==
    /\ Source(r) /\ (r.first => r.at = 0) /\ (r.eof => r.at + 1 >= r.size)
    /\ r.pc = "read" => ~r.eof
    /\ r.at < r.size \/ (r.size = 0 /\ r.first)
Before(r) ==
    /\ r.pc = "stat" => Early(r)
    /\ r.op = "PUT" /\ r.pc = "write" =>
          /\ r.first => r.at = 0
          /\ r.at < Len(r.body) \/ (r.body = <<>> /\ r.first)
          /\ ~r.first => Holds(r.path, Start(r.body, r.at))
    /\ r.op = "COPY" /\ r.pc \in {"read", "write"} =>
          Copies(r) /\ (~r.first => Holds(r.dest, Start(phone[r.path].data, r.at)))
    /\ r.op = "COPY" /\ r.pc = "mkdir" => r.path \in DOMAIN phone /\ phone[r.path].dir
    /\ r.op = "GET" /\ r.pc = "read" =>
          Source(r) /\ ~r.eof /\ r.got = Start(phone[r.path].data, r.at)
Matches(r, m) ==
    /\ m.id[2] = r.n /\ m.ask = r.pc /\ m.at = r.at /\ m.truncate = r.first
    /\ m.dest = r.dest /\ m.path = Target(r)
    /\ r.op = "PUT" /\ r.pc = "write" =>
          m.data = IF r.at < Len(r.body) THEN <<r.body[r.at + 1]>> ELSE <<>>
    /\ r.op = "COPY" /\ r.pc = "write" =>
          m.data = IF r.at < r.size THEN <<phone[r.path].data[r.at + 1]>> ELSE <<>>

(* And when its answer is on the way. *)
Answered(r, a) ==
    /\ r.pc = "stat" =>
          /\ Early(r)
          /\ r.op # "MOVE" =>
                /\ a.exists <=> r.path \in DOMAIN phone
                /\ a.exists => a.dir = phone[r.path].dir /\ a.size = Len(phone[r.path].data)
    /\ r.pc = "read" =>
          /\ Before(r) /\ a.data = <<phone[r.path].data[r.at + 1]>>
          /\ a.eof <=> r.at + 1 >= r.size
    /\ r.op = "PUT" /\ r.pc = "write" =>
          /\ r.at < Len(r.body) \/ (r.body = <<>> /\ r.at = 0)
          /\ Holds(r.path, Start(r.body, Grown(r.at, Len(r.body))))
    /\ r.op = "COPY" /\ r.pc = "write" =>
          Copies(r) /\ Holds(r.dest, Start(phone[r.path].data, Grown(r.at, r.size)))
    /\ r.op = "COPY" /\ r.pc = "mkdir" =>
          {r.path, r.dest} \subseteq DOMAIN phone /\ phone[r.dest] = phone[r.path]
    /\ r.pc \in {"delete", "rename"} => r.path \notin DOMAIN phone

(* What an answer to the client says of the phone's files. *)
Claims(r) ==
    /\ r.op = "PUT" /\ r.status \in {201, 204} => Holds(r.path, r.body)
    /\ r.op = "COPY" /\ r.status = 201 =>
          {r.path, r.dest} \subseteq DOMAIN phone /\ phone[r.dest] = phone[r.path]
    /\ r.op \in {"MOVE", "DELETE"} /\ r.status \in {201, 204} => r.path \notin DOMAIN phone
    /\ r.op = "GET" /\ r.status = 200 /\ ~r.cut => Holds(r.path, r.got)
Succeeded(r) == r.pc = "done" /\ r.status \in {200, 201, 204} /\ ~(r.op = "GET" /\ r.cut)

(* The message of the last request is alone on its way, or behind what *)
(* requests that are over have left; its answer comes last. *)
Asking ==
    \A k \in DOMAIN out : Mine(out[k]) =>
        /\ k = Len(out) /\ \A l \in DOMAIN back : ~Mine(back[l])
        /\ Latest.pc # "done" =>
              /\ Matches(Latest, out[k]) /\ Before(Latest)
              /\ Latest.pc # "stat" /\ Latest.op # "MKCOL" => k = 1
Answering ==
    \A k \in DOMAIN back : Mine(back[k]) =>
        /\ k = Len(back) /\ out = <<>>
        /\ Latest.pc # "done" =>
              back[k].id[2] = Latest.n /\ (back[k].ok => Answered(Latest, back[k]))
Ended == Succeeded(Latest) => out = <<>> /\ Claims(Latest)
LastIsTrue == Alone => Asking /\ Answering /\ Ended

FileInv == FileTypes /\ OthersDone /\ LastIsTrue

--------------------
(* Sequences of pieces and of messages. *)
LEMMA FileTail ==
    ASSUME NEW T, NEW s \in Seq(T), s # <<>>
    PROVE  /\ Tail(s) \in Seq(T) /\ 1 \in DOMAIN s /\ Head(s) = s[1] /\ s[1] \in T
           /\ Len(Tail(s)) = Len(s) - 1
           /\ \A k \in DOMAIN Tail(s) : k \in Nat /\ k + 1 \in DOMAIN s /\ Tail(s)[k] = s[k + 1]
<1>1. Len(s) \in Nat /\ Len(s) > 0 /\ DOMAIN s = 1..Len(s) OBVIOUS
<1>2. /\ Tail(s) \in Seq(T) /\ Len(Tail(s)) = Len(s) - 1
      /\ \A k \in 1..Len(Tail(s)) : Tail(s)[k] = s[k + 1]
  BY HeadTailProperties
<1>3. DOMAIN Tail(s) = 1..(Len(s) - 1) BY <1>1, <1>2
<1> QED BY <1>1, <1>2, <1>3

LEMMA FileAppend ==
    ASSUME NEW T, NEW s \in Seq(T), NEW x \in T
    PROVE  /\ Append(s, x) \in Seq(T) /\ Len(s) + 1 \notin DOMAIN s /\ Len(Append(s, x)) = Len(s) + 1
           /\ DOMAIN Append(s, x) = DOMAIN s \union {Len(s) + 1}
           /\ Append(s, x)[Len(s) + 1] = x
           /\ \A k \in DOMAIN s : Append(s, x)[k] = s[k]
<1>1. Len(s) \in Nat /\ DOMAIN s = 1..Len(s) OBVIOUS
<1>2. /\ Append(s, x) \in Seq(T) /\ Len(Append(s, x)) = Len(s) + 1
      /\ \A k \in 1..Len(s) : Append(s, x)[k] = s[k] /\ Append(s, x)[Len(s) + 1] = x
  BY AppendProperties
<1>3. DOMAIN Append(s, x) = 1..(Len(s) + 1) BY <1>1, <1>2
<1> QED BY <1>1, <1>2, <1>3

LEMMA NoPieces == Dav!FileConstants => <<>> \in Bytes /\ <<>> \in Bits /\ Len(<<>>) = 0
  BY DEF Bytes, Bits, Dav!FileConstants

(* A request that is over keeps where it was and that it is over. *)
LEMMA OverIs ==
    ASSUME Dav!FileConstants, NEW r \in Requests
    PROVE  /\ Dav!Over(r) \in Requests /\ Dav!Over(r).pc = "done" /\ Dav!Over(r).path = r.path
           /\ Dav!Over(r).alone = r.alone /\ Dav!Over(r).status = 207
<1> DEFINE q == Dav!Over(r)
<1>1. r \in Drafts BY DEF Requests
<1>2. /\ q.pc = "done" /\ q.path = r.path /\ q.alone = r.alone /\ q.status = 207
      /\ q.op = "PROPFIND"
  BY <1>1 DEF Dav!Over, Drafts
<1>3. q \in Drafts
  <2>1. <<>> \in Bytes /\ 0 \in 0..Chunks BY NoPieces DEF Dav!FileConstants
  <2>2. "PROPFIND" \in Dav!Ops /\ 207 \in Statuses BY DEF Dav!Ops, Statuses
  <2>3. r.path \in Names /\ r.alone \in BOOLEAN BY <1>1 DEF Drafts
  <2> QED BY <2>1, <2>2, <2>3 DEF Dav!Over, Drafts, Dav!Asks
<1> HIDE DEF q
<1>4. q \in Requests BY <1>2, <1>3 DEF Requests
<1> QED BY <1>2, <1>4 DEF q

LEMMA SetIs ==
    ASSUME FileTypes, NEW i \in 1..(Len(reqs) + 1), NEW q \in Requests, reqs' = Dav!Set(i, q)
    PROVE  /\ reqs' \in Seq(Requests) /\ DOMAIN reqs' = DOMAIN reqs \union {i} /\ reqs'[i] = q
           /\ \A k \in DOMAIN reqs : k # i =>
                 reqs'[k] = IF k \in Dav!Running THEN reqs[k] ELSE Dav!Over(reqs[k])
           /\ Len(reqs') = IF i \in DOMAIN reqs THEN Len(reqs) ELSE Len(reqs) + 1
<1>1. reqs \in Seq(Requests) /\ Len(reqs) \in Nat /\ DOMAIN reqs = 1..Len(reqs) BY DEF FileTypes
<1>2. /\ DOMAIN reqs' = DOMAIN reqs \union {i} /\ reqs'[i] = q
      /\ \A k \in DOMAIN reqs : k # i =>
            reqs'[k] = IF k \in Dav!Running THEN reqs[k] ELSE Dav!Over(reqs[k])
      /\ reqs' = [k \in DOMAIN reqs' |-> reqs'[k]]
  BY DEF Dav!Set
<1>3. PICK n \in Nat : /\ n = (IF i \in DOMAIN reqs THEN Len(reqs) ELSE Len(reqs) + 1)
                       /\ DOMAIN reqs' = 1..n
  <2>1. CASE i \in DOMAIN reqs BY <1>1, <1>2, <2>1
  <2>2. CASE i \notin DOMAIN reqs
    <3>1. i = Len(reqs) + 1 BY <1>1, <2>2
    <3> QED BY <1>1, <1>2, <2>2, <3>1
  <2> QED BY <2>1, <2>2
<1>4. \A k \in DOMAIN reqs' : reqs'[k] \in Requests
  <2> SUFFICES ASSUME NEW k \in DOMAIN reqs, k # i PROVE reqs'[k] \in Requests
    BY <1>2
  <2>1. reqs[k] \in Requests BY <1>1
  <2>2. CASE k \in Dav!Running BY <1>2, <2>1, <2>2
  <2>3. CASE k \notin Dav!Running
    <3> QED BY <1>2, <2>1, <2>3, OverIs DEF FileTypes
  <2> QED BY <2>2, <2>3
<1>5. reqs' \in [1..n -> Requests] BY <1>2, <1>3, <1>4
<1>6. reqs' \in Seq(Requests) /\ Len(reqs') = n BY <1>3, <1>5, IsASeq
<1> QED BY <1>2, <1>3, <1>6

--------------------
(* Types.  Every turn of a request is over, sends one message or looks for *)
(* the list of attachments. *)
Alike(q, r) == q.alone = r.alone /\ q.path = r.path /\ q.dest = r.dest
Turns(i, r) ==
    \E q \in Requests :
        /\ reqs' = Dav!Set(i, q) /\ Alike(q, r)
        /\ \/ out' = out
           \/ up /\ \E m \in Messages : m.id = <<i, q.n>> /\ out' = Append(out, m)
        /\ tfs' \in {"none", "loading", "loaded"}

LEMMA TurnTypes ==
    ASSUME FileTypes, NEW i \in 1..(Len(reqs) + 1), NEW r, Turns(i, r), UNCHANGED <<phone, up, cuts, sized>>,
           back' = back \/ (back # <<>> /\ back' = Tail(back))
    PROVE  FileTypes'
<1>1. PICK q \in Requests :
         /\ reqs' = Dav!Set(i, q)
         /\ \/ out' = out
            \/ up /\ \E m \in Messages : m.id = <<i, q.n>> /\ out' = Append(out, m)
         /\ tfs' \in {"none", "loading", "loaded"}
  BY DEF Turns
<1>2. reqs' \in Seq(Requests) /\ DOMAIN reqs' = DOMAIN reqs \union {i} BY <1>1, SetIs
<1>3. /\ out' \in Seq(Messages) /\ \A k \in DOMAIN out' : out'[k].id[1] \in DOMAIN reqs'
      /\ ~up => out' = out
  <2>1. CASE out' = out BY <1>2, <2>1 DEF FileTypes
  <2>2. CASE up /\ \E m \in Messages : m.id = <<i, q.n>> /\ out' = Append(out, m)
    <3>1. PICK m \in Messages : m.id = <<i, q.n>> /\ out' = Append(out, m) BY <2>2
    <3>2. m.id[1] = i BY <3>1
    <3>3. out \in Seq(Messages) /\ \A k \in DOMAIN out : out[k].id[1] \in DOMAIN reqs'
      BY <1>2 DEF FileTypes
    <3>4. out' \in Seq(Messages) BY <3>1, <3>3, FileAppend
    <3>5. \A k \in DOMAIN out' : out'[k].id[1] \in DOMAIN reqs'
      <4> SUFFICES ASSUME NEW k \in DOMAIN out' PROVE out'[k].id[1] \in DOMAIN reqs' OBVIOUS
      <4>1. (k \in DOMAIN out /\ out'[k] = out[k]) \/ out'[k] = m BY <3>1, <3>3, FileAppend
      <4> QED BY <4>1, <1>2, <3>2, <3>3
    <3> QED BY <2>2, <3>4, <3>5
  <2> QED BY <1>1, <2>1, <2>2
<1>4. back' \in Seq(Replies) /\ (~up => back' = back)
      /\ \A k \in DOMAIN back' : back'[k].id[1] \in DOMAIN reqs'
  <2>1. CASE back' = back BY <1>2, <2>1 DEF FileTypes
  <2>2. CASE back # <<>> /\ back' = Tail(back)
    <3>1. /\ back' \in Seq(Replies)
          /\ \A k \in DOMAIN back' : k + 1 \in DOMAIN back /\ back'[k] = back[k + 1]
      BY <2>2, FileTail DEF FileTypes
    <3> QED BY <1>2, <2>2, <3>1 DEF FileTypes
  <2> QED BY <2>1, <2>2
<1> QED BY <1>1, <1>2, <1>3, <1>4 DEF FileTypes

LEMMA SameTurns ==
    ASSUME NEW i, NEW q, NEW r, Turns(i, q), Alike(q, r) PROVE Turns(i, r)
  BY DEF Turns, Alike

LEMMA OverRequest ==
    ASSUME NEW r \in Drafts, NEW status \in Statuses \ {0}
    PROVE  /\ [r EXCEPT !.pc = "done", !.status = status] \in Requests
           /\ Alike([r EXCEPT !.pc = "done", !.status = status], r)
<1> DEFINE q == [r EXCEPT !.pc = "done", !.status = status]
<1>1. q \in Drafts /\ q.pc = "done" /\ q.status = status /\ Alike(q, r) BY DEF Drafts, Alike
<1> HIDE DEF q
<1>2. q \in Requests BY <1>1 DEF Requests
<1> QED BY <1>1, <1>2 DEF q

LEMMA EndTurns ==
    ASSUME FileTypes, NEW i, NEW r \in Drafts, NEW status \in Statuses \ {0}, Dav!End(i, r, status)
    PROVE  Turns(i, r)
  BY OverRequest DEF Dav!End, Turns, FileTypes

LEMMA FailTurns ==
    ASSUME FileTypes, NEW i, NEW r \in Drafts, Dav!Fail(i, r)
    PROVE  Turns(i, r)
<1>1. PICK b \in BOOLEAN : b = (r.op = "GET" /\ r.pc = "read") OBVIOUS
<1> DEFINE q == [r EXCEPT !.cut = b]
<1>2. q \in Drafts /\ Alike(q, r) BY DEF Drafts, Alike
<1>3. Dav!End(i, q, IF b THEN 200 ELSE 500) BY <1>1 DEF Dav!Fail
<1>4. (IF b THEN 200 ELSE 500) \in Statuses \ {0} BY DEF Statuses
<1> HIDE DEF q
<1> QED BY <1>2, <1>3, <1>4, EndTurns, SameTurns

(* What a request may ask for next. *)
MayAsk(r, ask) ==
    /\ r.status = 0 /\ ask \in Dav!Asks /\ ask \in Ways(r.op)
    /\ ask = "read" => r.at < r.size

LEMMA SendTurns ==
    ASSUME FileTypes, NEW i \in Nat, NEW r \in Drafts, NEW ask, MayAsk(r, ask), NEW p \in Paths,
           NEW data \in Bits, r.at + Len(data) <= Chunks, ask = "rename" => r.dest \in Paths,
           Dav!Send(i, r, ask, p, data)
    PROVE  Turns(i, r)
<1>1. CASE ~up BY <1>1, FailTurns DEF Dav!Send
<1>2. CASE up
  <2> DEFINE q == [r EXCEPT !.pc = ask, !.n = @ + 1]
             m == [id |-> <<i, r.n + 1>>, ask |-> ask, path |-> p, dest |-> r.dest,
                   at |-> r.at, data |-> data, truncate |-> r.first]
  <2>1. reqs' = Dav!Set(i, q) /\ out' = Append(out, m) /\ tfs' = tfs BY <1>2 DEF Dav!Send
  <2>2. /\ q \in Drafts /\ q.pc = ask /\ q.n = r.n + 1 /\ q.op = r.op /\ q.at = r.at
        /\ q.size = r.size /\ q.status = 0 /\ Alike(q, r)
    <3>1. r.n \in Nat /\ r.n + 1 \in Nat /\ ask \in Dav!Asks \union {"done"} /\ r.status = 0
      BY DEF Drafts, MayAsk
    <3>2. q \in Drafts BY <3>1 DEF Drafts
    <3>3. q = [[r EXCEPT !.pc = ask] EXCEPT !.n = r.n + 1] BY DEF Drafts
    <3> QED BY <3>1, <3>2, <3>3 DEF Drafts, Alike
  <2>3. /\ r.n \in Nat /\ r.dest \in Names /\ r.at \in 0..Chunks /\ r.first \in BOOLEAN
        /\ r.dest \in Names
    BY DEF Drafts
  <2>4. m \in Messages BY <2>3 DEF Messages, MayAsk
  <2>5. m.id = <<i, q.n>> BY <2>2
  <2> HIDE DEF q, m
  <2>6. ask # "done" BY DEF MayAsk, Dav!Asks
  <2>7. q \in Requests BY <2>2, <2>6 DEF Requests, MayAsk
  <2> QED BY <1>2, <2>1, <2>2, <2>4, <2>5, <2>7 DEF Turns, FileTypes
<1> QED BY <1>1, <1>2 DEF FileTypes

LEMMA AskTurns ==
    ASSUME FileTypes, NEW i \in Nat, NEW r \in Drafts, NEW ask, MayAsk(r, ask), ask # "rename",
           NEW p \in Names, NEW data \in Bits, r.at + Len(data) <= Chunks, Dav!Ask(i, r, ask, p, data)
    PROVE  Turns(i, r)
<1>1. CASE p \notin Media BY <1>1, SendTurns DEF Dav!Ask, Names
<1>2. CASE p \in Media /\ ask \notin {"stat", "readdir", "read"}
  BY <1>2, FailTurns DEF Dav!Ask, Dav!AskMedia
<1>3. CASE p \in Media /\ ask \in {"stat", "readdir", "read"}
  <2> DEFINE q == [r EXCEPT !.pc = ask]
  <2>1. reqs' = Dav!Set(i, q) /\ out' = out /\ tfs' = IF tfs = "none" THEN "loading" ELSE tfs
    BY <1>3 DEF Dav!Ask, Dav!AskMedia
  <2>2. /\ q \in Drafts /\ q.pc = ask /\ q.op = r.op /\ q.at = r.at /\ q.size = r.size
        /\ q.status = 0 /\ Alike(q, r)
    BY DEF Drafts, MayAsk, Alike
  <2> HIDE DEF q
  <2>3. q \in Requests BY <1>3, <2>2 DEF Requests, MayAsk
  <2> QED BY <2>1, <2>2, <2>3 DEF Turns, FileTypes
<1> QED BY <1>1, <1>2, <1>3

LEMMA RenameTurns ==
    ASSUME FileTypes, NEW i \in Nat, NEW r \in Drafts, r.status = 0, r.op = "MOVE", Dav!Rename(i, r)
    PROVE  Turns(i, r)
<1>1. r.path \in Names /\ r.dest \in Names /\ r.at \in 0..Chunks BY DEF Drafts
<1>2. CASE {r.path, r.dest} \intersect Media # {} BY <1>2, FailTurns DEF Dav!Rename
<1>3. CASE {r.path, r.dest} \intersect Media = {}
  <2>1. r.path \in Paths /\ r.dest \in Paths BY <1>1, <1>3 DEF Names
  <2>2. MayAsk(r, "rename") BY DEF MayAsk, Dav!Asks, Ways
  <2>3. <<>> \in Bits /\ r.at + Len(<<>>) <= Chunks
    BY <1>1, NoPieces DEF FileTypes, Dav!FileConstants
  <2>4. Dav!Send(i, r, "rename", r.path, <<>>) BY <1>3 DEF Dav!Rename
  <2> QED BY <2>1, <2>2, <2>3, <2>4, SendTurns
<1> QED BY <1>2, <1>3

LEMMA OnePiece ==
    ASSUME NEW x \in Pieces
    PROVE  <<x>> \in Bits /\ Len(<<x>>) = 1 /\ <<x>>[1] = x
  BY DEF Bits

LEMMA BitIs ==
    ASSUME NEW d \in Bits
    PROVE  d \in Seq(Pieces) /\ Len(d) \in Nat /\ Len(d) <= 1 /\ (d # <<>> => Len(d) = 1)
<1>1. d \in Seq(Pieces) /\ Len(d) <= 1 /\ Len(d) \in Nat BY DEF Bits
<1>2. Len(d) = 0 => d = <<>> BY <1>1, EmptySeq
<1>3. \A n \in Nat : n <= 1 => (n # 0 => n = 1) OBVIOUS
<1> QED BY <1>1, <1>2, <1>3

LEMMA BytesIs ==
    ASSUME Dav!FileConstants, NEW s \in Bytes
    PROVE  /\ s \in Seq(Pieces) /\ Len(s) \in 0..Chunks /\ DOMAIN s = 1..Len(s)
           /\ \A k \in 1..Len(s) : s[k] \in Pieces
  BY DEF Bytes, Dav!FileConstants

LEMMA WaysAre ==
    ASSUME NEW op \in Dav!Ops
    PROVE  /\ "read" \in Ways(op) <=> op \in {"GET", "COPY"}
           /\ "write" \in Ways(op) <=> op \in {"PUT", "COPY"}
           /\ "stat" \in Ways(op) <=> op # "MKCOL"
           /\ "mkdir" \in Ways(op) <=> op \in {"MKCOL", "COPY"}
           /\ "delete" \in Ways(op) <=> op = "DELETE"
           /\ "rename" \in Ways(op) <=> op = "MOVE"
           /\ "readdir" \in Ways(op) <=> op = "PROPFIND"
  BY DEF Dav!Ops, Ways

LEMMA CreatedIs == ASSUME NEW r PROVE Dav!Created(r) \in Statuses \ {0}
  BY DEF Dav!Created, Statuses

LEMMA PutTurns ==
    ASSUME FileTypes, NEW i \in Nat, NEW r \in Drafts, r.status = 0, r.op = "PUT", Dav!PutMore(i, r)
    PROVE  Turns(i, r)
<1>1. /\ r.path \in Names /\ r.at \in 0..Chunks /\ r.body \in Bytes /\ Dav!FileConstants
      /\ Chunks \in Nat
  BY DEF Drafts, FileTypes, Dav!FileConstants
<1>2. MayAsk(r, "write") BY DEF MayAsk, Dav!Asks, Ways
<1>3. CASE r.at < Len(r.body)
  <2>1. r.body[r.at + 1] \in Pieces /\ r.at + 1 <= Chunks BY <1>1, <1>3, BytesIs
  <2>2. <<r.body[r.at + 1]>> \in Bits /\ r.at + Len(<<r.body[r.at + 1]>>) <= Chunks
    BY <1>1, <2>1, OnePiece
  <2>3. Dav!Ask(i, r, "write", r.path, <<r.body[r.at + 1]>>) BY <1>3 DEF Dav!PutMore
  <2> QED BY <1>1, <1>2, <2>2, <2>3, AskTurns
<1>4. CASE ~(r.at < Len(r.body)) /\ r.first
  <2>1. <<>> \in Bits /\ r.at + Len(<<>>) <= Chunks BY <1>1, NoPieces
  <2>2. Dav!Ask(i, r, "write", r.path, <<>>) BY <1>4 DEF Dav!PutMore
  <2> QED BY <1>1, <1>2, <2>1, <2>2, AskTurns
<1>5. CASE ~(r.at < Len(r.body)) /\ ~r.first
  <2>1. Dav!End(i, r, Dav!Created(r)) BY <1>5 DEF Dav!PutMore
  <2> QED BY <2>1, CreatedIs, EndTurns
<1> QED BY <1>3, <1>4, <1>5

LEMMA ReadTurns ==
    ASSUME FileTypes, NEW i \in Nat, NEW r \in Drafts, r.status = 0, r.op \in {"GET", "COPY"},
           Dav!ReadMore(i, r)
    PROVE  Turns(i, r)
<1>1. r.path \in Names /\ r.dest \in Names /\ r.at \in 0..Chunks /\ Chunks \in Nat
  BY DEF Drafts, FileTypes, Dav!FileConstants
<1>2. <<>> \in Bits /\ r.at + Len(<<>>) <= Chunks BY <1>1, NoPieces DEF FileTypes
<1>3. CASE r.at < r.size /\ ~r.eof
  <2>1. MayAsk(r, "read") BY <1>3 DEF MayAsk, Dav!Asks, Ways
  <2>2. Dav!Ask(i, r, "read", r.path, <<>>) BY <1>3 DEF Dav!ReadMore
  <2> QED BY <1>1, <1>2, <2>1, <2>2, AskTurns
<1>4. CASE ~(r.at < r.size /\ ~r.eof) /\ r.op = "GET"
  <2>1. Dav!End(i, r, 200) BY <1>4 DEF Dav!ReadMore
  <2> QED BY <2>1, EndTurns DEF Statuses
<1>5. CASE ~(r.at < r.size /\ ~r.eof) /\ r.op # "GET" /\ r.first
  <2>1. MayAsk(r, "write") BY <1>5 DEF MayAsk, Dav!Asks, Ways
  <2>2. Dav!Ask(i, r, "write", r.dest, <<>>) BY <1>5 DEF Dav!ReadMore
  <2> QED BY <1>1, <1>2, <2>1, <2>2, AskTurns
<1>6. CASE ~(r.at < r.size /\ ~r.eof) /\ r.op # "GET" /\ ~r.first
  <2>1. Dav!End(i, r, 201) BY <1>6 DEF Dav!ReadMore
  <2> QED BY <2>1, EndTurns DEF Statuses
<1> QED BY <1>3, <1>4, <1>5, <1>6

(* What an answer says, the phone's or that of the attachments. *)
Says(a) ==
    /\ a.ok \in BOOLEAN /\ a.exists \in BOOLEAN /\ a.dir \in BOOLEAN /\ a.size \in 0..Chunks
    /\ a.data \in Bits /\ a.eof \in BOOLEAN

LEMMA StatTurns ==
    ASSUME FileTypes, NEW i \in Nat, NEW r \in Requests, r.pc = "stat", NEW a, Says(a),
           Dav!AfterStat(i, r, a)
    PROVE  Turns(i, r)
<1> DEFINE found == [r EXCEPT !.exists = a.exists, !.size = a.size]
<1>1. r \in Drafts /\ r.status = 0 /\ r.op # "MKCOL" BY DEF Requests, Ways
<1>2. /\ found \in Drafts /\ found.status = 0 /\ found.op = r.op /\ found.path = r.path
      /\ found.dest = r.dest /\ found.at = r.at /\ Alike(found, r)
  BY <1>1 DEF Drafts, Says, Alike
<1>3. r.path \in Names /\ r.dest \in Names /\ r.at \in 0..Chunks /\ Chunks \in Nat
  BY <1>1 DEF Drafts, FileTypes, Dav!FileConstants
<1>4. <<>> \in Bits /\ r.at + Len(<<>>) <= Chunks BY <1>3, NoPieces DEF FileTypes
<1>5. \/ r.op = "PUT" /\ Dav!PutMore(i, found)
      \/ r.op = "MOVE" /\ Dav!Rename(i, found)
      \/ Dav!End(i, r, 404) \/ Dav!End(i, r, 207) \/ Dav!End(i, r, 405)
      \/ r.op = "DELETE" /\ Dav!Ask(i, found, "delete", r.path, <<>>)
      \/ r.op = "PROPFIND" /\ Dav!Ask(i, found, "readdir", r.path, <<>>)
      \/ r.op \in {"GET", "COPY"} /\ Dav!ReadMore(i, found)
      \/ r.op = "COPY" /\ Dav!Ask(i, found, "mkdir", r.dest, <<>>)
  BY DEF Dav!AfterStat
<1> HIDE DEF found
<1>6. CASE Dav!End(i, r, 404) \/ Dav!End(i, r, 207) \/ Dav!End(i, r, 405)
  BY <1>1, <1>6, EndTurns DEF Statuses
<1>7. CASE r.op = "DELETE" /\ Dav!Ask(i, found, "delete", r.path, <<>>)
  <2>1. MayAsk(found, "delete") BY <1>2, <1>7 DEF MayAsk, Dav!Asks, Ways
  <2> QED BY <1>2, <1>3, <1>4, <1>7, <2>1, AskTurns, SameTurns
<1>8. CASE r.op = "PROPFIND" /\ Dav!Ask(i, found, "readdir", r.path, <<>>)
  <2>1. MayAsk(found, "readdir") BY <1>2, <1>8 DEF MayAsk, Dav!Asks, Ways
  <2> QED BY <1>2, <1>3, <1>4, <1>8, <2>1, AskTurns, SameTurns
<1>9. CASE r.op = "COPY" /\ Dav!Ask(i, found, "mkdir", r.dest, <<>>)
  <2>1. MayAsk(found, "mkdir") BY <1>2, <1>9 DEF MayAsk, Dav!Asks, Ways
  <2> QED BY <1>2, <1>3, <1>4, <1>9, <2>1, AskTurns, SameTurns
<1> QED BY <1>2, <1>5, <1>6, <1>7, <1>8, <1>9, PutTurns, RenameTurns, ReadTurns,
          SameTurns

LEMMA ReadAnswerTurns ==
    ASSUME FileTypes, NEW i \in Nat, NEW r \in Requests, r.pc = "read", NEW a, Says(a),
           Dav!AfterRead(i, r, a)
    PROVE  Turns(i, r)
<1> DEFINE last == [r EXCEPT !.eof = a.eof \/ a.data = <<>>]
           q == [last EXCEPT !.at = @ + Len(a.data), !.got = @ \o a.data]
<1>1. r \in Drafts /\ r.status = 0 /\ r.op \in {"GET", "COPY"} /\ r.at < r.size
  <2>1. r \in Drafts /\ r.op \in Dav!Ops BY DEF Requests, Drafts
  <2> QED BY <2>1, WaysAre DEF Requests
<1>2. /\ r.at \in 0..Chunks /\ r.size \in 0..Chunks /\ r.got \in Bytes /\ Chunks \in Nat
      /\ Dav!FileConstants /\ r.dest \in Names
  BY <1>1 DEF Drafts, FileTypes, Dav!FileConstants
<1>3. /\ last \in Drafts /\ last.status = 0 /\ last.op = r.op /\ last.at = r.at
      /\ last.got = r.got /\ last.dest = r.dest /\ Alike(last, r)
  <2>1. (a.eof \/ a.data = <<>>) \in BOOLEAN OBVIOUS
  <2> QED BY <1>1, <2>1 DEF Drafts, Alike
<1>4. r.at + Len(a.data) \in 0..Chunks
  <2>1. Len(a.data) \in Nat /\ Len(a.data) <= 1 BY BitIs DEF Says
  <2>2. \A m, n, z \in Nat : m < n /\ n <= Chunks /\ z <= 1 => m + z \in 0..Chunks BY <1>2
  <2>3. r.at \in Nat /\ r.size \in Nat /\ r.at < r.size /\ r.size <= Chunks BY <1>1, <1>2
  <2> QED BY <2>1, <2>2, <2>3
<1>5. \/ r.op = "GET" /\ Dav!ReadMore(i, q)
      \/ r.op = "COPY" /\ Dav!ReadMore(i, last)
      \/ r.op = "COPY" /\ Dav!Ask(i, last, "write", r.dest, a.data)
  BY <1>1 DEF Dav!AfterRead
<1>6. CASE r.op = "GET" /\ Dav!ReadMore(i, q)
  <2>1. Len(r.got) = r.at BY <1>1, <1>6 DEF Drafts
  <2>2. r.got \o a.data \in Seq(Pieces) /\ Len(r.got \o a.data) = Len(r.got) + Len(a.data)
    <3>1. r.got \in Seq(Pieces) /\ a.data \in Seq(Pieces) BY <1>2, BitIs, BytesIs DEF Says
    <3> QED BY <3>1, ConcatProperties
  <2>3. r.got \o a.data \in Bytes
    <3>1. Len(r.got \o a.data) <= Chunks BY <1>2, <1>4, <2>1, <2>2
    <3> QED BY <2>2, <3>1 DEF Bytes
  <2>4. q = [[last EXCEPT !.at = r.at + Len(a.data)] EXCEPT !.got = r.got \o a.data]
    BY <1>3 DEF Drafts
  <2> HIDE DEF last, q
  <2>5. q \in Drafts /\ q.status = 0 /\ q.op = r.op /\ Alike(q, r)
    BY <1>3, <1>4, <2>1, <2>2, <2>3, <2>4 DEF Drafts, Alike
  <2> QED BY <1>6, <2>5, ReadTurns, SameTurns
<1>7. CASE r.op = "COPY" /\ Dav!ReadMore(i, last) BY <1>3, <1>7, ReadTurns, SameTurns
<1>8. CASE r.op = "COPY" /\ Dav!Ask(i, last, "write", r.dest, a.data)
  <2> HIDE DEF last
  <2>1. MayAsk(last, "write") BY <1>3, <1>8 DEF MayAsk, Dav!Asks, Ways
  <2> QED BY <1>2, <1>3, <1>4, <1>8, <2>1, AskTurns, SameTurns DEF Says
<1> QED BY <1>5, <1>6, <1>7, <1>8

LEMMA WriteAnswerTurns ==
    ASSUME FileTypes, NEW i \in Nat, NEW r \in Requests, r.pc = "write", Dav!AfterWrite(i, r)
    PROVE  Turns(i, r)
<1>1. r \in Drafts /\ r.status = 0 /\ r.op \in {"PUT", "COPY"}
  <2>1. r \in Drafts /\ r.op \in Dav!Ops BY DEF Requests, Drafts
  <2> QED BY <2>1, WaysAre DEF Requests
<1>2. /\ r.at \in 0..Chunks /\ r.size \in 0..Chunks /\ r.body \in Bytes /\ Chunks \in Nat
      /\ Dav!FileConstants
  BY <1>1 DEF Drafts, FileTypes, Dav!FileConstants
<1>3. PICK n : n = Grown(r.at, IF r.op = "PUT" THEN Len(r.body) ELSE r.size) OBVIOUS
<1>4. n \in 0..Chunks BY <1>2, <1>3, BytesIs DEF Grown
<1> DEFINE q == [r EXCEPT !.first = FALSE, !.at = n]
<1>5. q \in Drafts /\ q.status = 0 /\ q.op = r.op /\ Alike(q, r) BY <1>1, <1>4 DEF Drafts, Alike
<1>6. IF r.op = "PUT" THEN Dav!PutMore(i, q) ELSE Dav!ReadMore(i, q)
  <2>1. q = [r EXCEPT !.first = FALSE,
               !.at = IF @ < (IF r.op = "PUT" THEN Len(r.body) ELSE r.size) THEN @ + 1 ELSE @]
    BY <1>1, <1>3 DEF Grown, Drafts
  <2> QED BY <2>1 DEF Dav!AfterWrite
<1> HIDE DEF q
<1> QED BY <1>1, <1>5, <1>6, PutTurns, ReadTurns, SameTurns

LEMMA AfterTurns ==
    ASSUME FileTypes, NEW i \in Nat, NEW r \in Requests, r.pc # "done", NEW a, Says(a),
           Dav!After(i, r, a)
    PROVE  Turns(i, r)
<1>1. r \in Drafts BY DEF Requests
<1>2. CASE Dav!Fail(i, r) BY <1>1, <1>2, FailTurns
<1>3. CASE Dav!End(i, r, 207) \/ Dav!End(i, r, 201) \/ Dav!End(i, r, 204) \/ Dav!End(i, r, Dav!Created(r))
  BY <1>1, <1>3, CreatedIs, EndTurns DEF Statuses
<1> QED BY <1>2, <1>3, StatTurns, ReadAnswerTurns, WriteAnswerTurns DEF Dav!After

--------------------
LEMMA InitTypes == Dav!FileConstants /\ Dav!Init => FileTypes
<1> SUFFICES ASSUME Dav!FileConstants, Dav!Init PROVE FileTypes OBVIOUS
<1>1. PICK P \in SUBSET Paths : phone = [p \in P |-> Dav!File([k \in 1..Chunks |-> <<0, k>>])]
  BY DEF Dav!Init
<1> DEFINE s == [k \in 1..Chunks |-> <<0, k>>]
<1>2. s \in [1..Chunks -> Pieces] BY DEF Pieces, Dav!FileConstants
<1>3. s \in Seq(Pieces) /\ Len(s) = Chunks BY <1>2, IsASeq DEF Dav!FileConstants
<1>4. Dav!File(s) \in Objects BY <1>3 DEF Bytes, Objects, Dav!File, Dav!FileConstants
<1>5. phone \in [P -> Objects] BY <1>1, <1>4
<1>6. phone \in Disks BY <1>5 DEF Disks
<1> QED BY <1>6 DEF Dav!Init, FileTypes, Dav!FileConstants

(* A request that is running has its turn. *)
Begun(p, d) ==
    \E r : /\ Turns(Len(reqs) + 1, r) /\ r.path = p /\ r.dest = d
           /\ r.alone => Dav!Running = {}
Turned == \E i \in Dav!Running : Turns(i, reqs[i])

(* A request as it begins, and what it asks for first. *)
Opens(r, op, p, d) ==
    /\ r \in Drafts /\ Early(r)
    /\ r.status = 0 /\ r.op = op /\ r.path = p /\ r.dest = d /\ (r.alone => Dav!Running = {})
    /\ IF op = "MKCOL" THEN Dav!Ask(Len(reqs) + 1, r, "mkdir", p, <<>>)
       ELSE Dav!Ask(Len(reqs) + 1, r, "stat", IF op = "MOVE" THEN d ELSE p, <<>>)
    /\ UNCHANGED <<phone, up, back, cuts, sized>>

LEMMA BeginIs ==
    ASSUME FileTypes, NEW op \in Dav!Ops, NEW p \in Names, NEW d \in Names,
           NEW body \in Dav!Files(Len(reqs) + 1), Dav!Begin(op, p, d, body)
    PROVE  \E r : Opens(r, op, p, d)
<1> DEFINE i == Len(reqs) + 1
           r == [op |-> op, path |-> p, dest |-> d, body |-> IF op = "PUT" THEN body ELSE <<>>,
                 pc |-> "stat", n |-> 0, at |-> 0, first |-> TRUE, eof |-> FALSE, exists |-> FALSE,
                 size |-> 0, got |-> <<>>, cut |-> FALSE, status |-> 0,
                 alone |-> Dav!Running = {}]
<1>1. Len(reqs) \in Nat /\ Dav!FileConstants /\ Chunks \in Nat BY DEF FileTypes, Dav!FileConstants
<1>2. i \in Nat BY <1>1
<1>3. body \in Bytes
  <2>1. PICK n \in 0..Chunks : body = [k \in 1..n |-> <<i, k>>] BY DEF Dav!Files
  <2>2. body \in [1..n -> Pieces] BY <1>2, <2>1 DEF Pieces
  <2>3. body \in Seq(Pieces) /\ Len(body) = n BY <1>1, <2>2, IsASeq
  <2> QED BY <1>1, <2>3 DEF Bytes
<1>4. r \in Drafts /\ r.status = 0 /\ r.op = op
  <2>1. <<>> \in Bytes /\ 0 \in 0..Chunks BY <1>1, NoPieces
  <2>2. (IF op = "PUT" THEN body ELSE <<>>) \in Bytes BY <1>3, <2>1
  <2>3. (Dav!Running = {}) \in BOOLEAN OBVIOUS
  <2>4. op \in {"MOVE", "COPY"} => d # p BY DEF Dav!Begin
  <2> QED BY <1>1, <2>1, <2>2, <2>3, <2>4 DEF Drafts, Dav!Asks, Statuses
<1>5. /\ IF op = "MKCOL" THEN Dav!Ask(i, r, "mkdir", p, <<>>)
         ELSE Dav!Ask(i, r, "stat", IF op = "MOVE" THEN d ELSE p, <<>>)
      /\ UNCHANGED <<phone, up, back, cuts, sized>>
  BY DEF Dav!Begin
<1>6. Early(r) /\ r.path = p /\ r.dest = d /\ (r.alone => Dav!Running = {}) BY DEF Early
<1> HIDE DEF r
<1> QED BY <1>4, <1>5, <1>6 DEF Opens

LEMMA BeginTypes ==
    ASSUME FileTypes, NEW op \in Dav!Ops, NEW p \in Names, NEW d \in Names,
           NEW body \in Dav!Files(Len(reqs) + 1), Dav!Begin(op, p, d, body)
    PROVE  FileTypes' /\ Begun(p, d)
<1>1. PICK r : Opens(r, op, p, d) BY BeginIs
<1>2. PICK i : i = Len(reqs) + 1 OBVIOUS
<1>3. i \in Nat /\ i \in 1..(Len(reqs) + 1) /\ Dav!FileConstants /\ Chunks \in Nat
  BY <1>2 DEF FileTypes, Dav!FileConstants
<1>4. r \in Drafts /\ r.status = 0 /\ r.op = op /\ r.at = 0 BY <1>1 DEF Opens, Early
<1>5. <<>> \in Bits /\ r.at + Len(<<>>) <= Chunks BY <1>3, <1>4, NoPieces
<1>6. Turns(i, r)
  <2>1. CASE op = "MKCOL"
    <3>1. MayAsk(r, "mkdir") BY <1>4, <2>1 DEF MayAsk, Dav!Asks, Ways
    <3> QED BY <1>1, <1>2, <1>3, <1>4, <1>5, <2>1, <3>1, AskTurns DEF Opens
  <2>2. CASE op # "MKCOL"
    <3>1. MayAsk(r, "stat") BY <1>4, <2>2, WaysAre DEF MayAsk, Dav!Asks
    <3>2. PICK t \in Names : Dav!Ask(i, r, "stat", t, <<>>) BY <1>1, <1>2, <2>2 DEF Opens
    <3> QED BY <1>3, <1>4, <1>5, <3>1, <3>2, AskTurns
  <2> QED BY <2>1, <2>2
<1>7. UNCHANGED <<phone, up, back, cuts, sized>> BY <1>1 DEF Opens
<1>8. FileTypes' BY <1>3, <1>6, <1>7, TurnTypes
<1> QED BY <1>1, <1>2, <1>6, <1>8 DEF Begun, Opens

LEMMA RunningIs ==
    ASSUME FileTypes, NEW i \in Dav!Running
    PROVE  /\ i \in DOMAIN reqs /\ i \in Nat /\ i \in 1..(Len(reqs) + 1)
           /\ reqs[i] \in Requests /\ reqs[i] \in Drafts /\ reqs[i].pc # "done"
  BY DEF FileTypes, Dav!Running, Requests

LEMMA ResponseTypes ==
    ASSUME FileTypes, Dav!HandleResponse
    PROVE  FileTypes' /\ (reqs' = reqs \/ Turned)
<1> DEFINE a == Head(back)
           i == a.id[1]
<1>1. /\ back # <<>> /\ back' = Tail(back) /\ UNCHANGED <<phone, up, cuts, sized>>
      /\ IF Dav!Awaits(i, a.id) THEN Dav!After(i, reqs[i], a) ELSE UNCHANGED <<out, reqs, tfs>>
  BY DEF Dav!HandleResponse
<1>2. back \in Seq(Replies) BY DEF FileTypes
<1>3. a = back[1] /\ a \in Replies BY <1>1, <1>2, FileTail
<1>4. Says(a) BY <1>3 DEF Replies, Says
<1> HIDE DEF a
<1>5. CASE Dav!Awaits(i, a.id)
  <2>1. i \in Dav!Running BY <1>5 DEF Dav!Awaits
  <2>2. Turns(i, reqs[i]) BY <1>1, <1>4, <1>5, <2>1, RunningIs, AfterTurns
  <2> QED BY <1>1, <2>1, <2>2, RunningIs, TurnTypes DEF Turned
<1>6. CASE ~Dav!Awaits(i, a.id)
  <2>1. UNCHANGED <<out, reqs, tfs>> BY <1>1, <1>6
  <2>2. /\ back' \in Seq(Replies)
        /\ \A k \in DOMAIN back' : k + 1 \in DOMAIN back /\ back'[k] = back[k + 1]
    BY <1>1, <1>2, FileTail
  <2> QED BY <1>1, <2>1, <2>2 DEF FileTypes
<1> QED BY <1>5, <1>6

LEMMA TimeoutTypes == ASSUME FileTypes, NEW i, Dav!Timeout(i) PROVE FileTypes' /\ Turned
<1>1. /\ i \in Dav!Running /\ Dav!Fail(i, reqs[i]) /\ UNCHANGED <<phone, up, back, cuts, sized>>
  BY DEF Dav!Timeout
<1>2. Turns(i, reqs[i]) BY <1>1, RunningIs, FailTurns
<1> QED BY <1>1, <1>2, RunningIs, TurnTypes DEF Turned

LEMMA MediaTypes ==
    ASSUME FileTypes, NEW i, Dav!MediaStat(i) \/ \E ok \in BOOLEAN : Dav!MediaRead(i, ok)
    PROVE  FileTypes' /\ Turned
<1>1. /\ i \in Dav!Running /\ UNCHANGED <<phone, up, back, cuts, sized>>
  BY DEF Dav!MediaStat, Dav!MediaRead, Dav!OnMedia
<1>2. i \in Nat /\ reqs[i] \in Requests /\ reqs[i] \in Drafts /\ reqs[i].pc # "done"
  BY <1>1, RunningIs
<1>3. Dav!FileConstants BY DEF FileTypes
<1>4. CASE Dav!MediaStat(i)
  <2>1. PICK n : n = (IF reqs[i].path \in sized THEN 1 ELSE 0) OBVIOUS
  <2>2. Says([Dav!NoAnswer EXCEPT !.size = n])
    <3>1. n \in 0..Chunks
      <4>1. n = 1 => Media # {} BY <2>1 DEF FileTypes
      <4> QED BY <1>3, <2>1, <4>1 DEF Dav!FileConstants
    <3>2. <<>> \in Bits BY <1>3, NoPieces
    <3> QED BY <3>1, <3>2 DEF Says, Dav!NoAnswer
  <2>3. Dav!AfterStat(i, reqs[i], [Dav!NoAnswer EXCEPT !.size = n]) /\ reqs[i].pc = "stat"
    BY <1>4, <2>1 DEF Dav!MediaStat
  <2>4. Turns(i, reqs[i]) BY <1>2, <2>2, <2>3, StatTurns
  <2> QED BY <1>1, <2>4, RunningIs, TurnTypes DEF Turned
<1>5. CASE \E ok \in BOOLEAN : Dav!MediaRead(i, ok)
  <2>1. PICK ok \in BOOLEAN : Dav!MediaRead(i, ok) BY <1>5
  <2> DEFINE a == [Dav!NoAnswer EXCEPT !.ok = ok, !.data = <<Dav!MediaChunk>>, !.eof = TRUE]
  <2>2. Says(a)
    <3>1. Dav!MediaChunk \in Pieces BY DEF Dav!MediaChunk, Pieces
    <3>2. <<Dav!MediaChunk>> \in Bits BY <3>1, OnePiece
    <3>3. 0 \in 0..Chunks BY <1>3 DEF Dav!FileConstants
    <3> QED BY <3>2, <3>3 DEF Says, Dav!NoAnswer
  <2>3. Dav!After(i, reqs[i], a) BY <2>1 DEF Dav!MediaRead
  <2>4. Turns(i, reqs[i]) BY <1>2, <2>2, <2>3, AfterTurns
  <2> QED BY <1>1, <2>4, RunningIs, TurnTypes DEF Turned
<1> QED BY <1>4, <1>5

LEMMA LoadTypes == ASSUME FileTypes, NEW ok \in BOOLEAN, Dav!LoadSettles(ok) PROVE FileTypes'
<1>1. /\ reqs' = [i \in DOMAIN reqs |->
                    IF ~ok /\ i \in Dav!Running /\ ~Dav!OnPhone(i)
                    THEN [reqs[i] EXCEPT !.pc = "done", !.status = 500] ELSE reqs[i]]
      /\ tfs' \in {"none", "loading", "loaded"} /\ UNCHANGED <<phone, up, out, back, cuts, sized>>
  BY DEF Dav!LoadSettles
<1>2. Len(reqs) \in Nat /\ DOMAIN reqs = 1..Len(reqs) BY DEF FileTypes
<1>3. \A i \in DOMAIN reqs : reqs'[i] \in Requests
  <2> SUFFICES ASSUME NEW i \in DOMAIN reqs PROVE reqs'[i] \in Requests OBVIOUS
  <2>1. PICK r : r = reqs[i] OBVIOUS
  <2>2. r \in Requests /\ r \in Drafts BY <2>1 DEF FileTypes, Requests
  <2>3. [r EXCEPT !.pc = "done", !.status = 500] \in Requests
    <3>1. 500 \in Statuses \ {0} BY DEF Statuses
    <3> QED BY <2>2, <3>1, OverRequest
  <2>4. reqs'[i] = [r EXCEPT !.pc = "done", !.status = 500] \/ reqs'[i] = r BY <1>1, <2>1
  <2> QED BY <2>2, <2>3, <2>4
<1>4. DOMAIN reqs' = DOMAIN reqs /\ reqs' \in [1..Len(reqs) -> Requests] BY <1>1, <1>2, <1>3
<1>5. reqs' \in Seq(Requests) BY <1>2, <1>4, IsASeq
<1> QED BY <1>1, <1>4, <1>5 DEF FileTypes

(* What the phone keeps of its files. *)
LEMMA DiskIs ==
    ASSUME NEW p \in Paths, FileTypes, p \in DOMAIN phone
    PROVE  phone[p] \in Objects /\ phone[p].dir \in BOOLEAN /\ phone[p].data \in Bytes
<1>1. PICK S \in SUBSET Paths : phone \in [S -> Objects] BY DEF FileTypes, Disks
<1>2. phone[p] \in Objects BY <1>1
<1> QED BY <1>2 DEF Objects

LEMMA WithTypes ==
    ASSUME FileTypes, NEW p \in Paths, NEW f \in Objects
    PROVE  /\ Dav!With(p, f) \in Disks /\ DOMAIN Dav!With(p, f) = DOMAIN phone \union {p}
           /\ Dav!With(p, f)[p] = f
           /\ \A q \in DOMAIN phone : q # p => Dav!With(p, f)[q] = phone[q]
<1>1. PICK S \in SUBSET Paths : phone \in [S -> Objects] BY DEF FileTypes, Disks
<1>2. Dav!With(p, f) \in [S \union {p} -> Objects] BY <1>1 DEF Dav!With
<1>3. Dav!With(p, f) \in Disks BY <1>1, <1>2 DEF Disks
<1> QED BY <1>3 DEF Dav!With

(* The data of a file after a write that does not begin it. *)
Rewritten(old, m) == SubSeq(old, 1, m.at) \o m.data \o SubSeq(old, m.at + 2, Len(old))

LEMMA RewriteTypes ==
    ASSUME FileTypes, NEW m \in Messages, NEW old \in Bytes, m.at <= Len(old)
    PROVE  Rewritten(old, m) \in Bytes
<1>1. /\ old \in Seq(Pieces) /\ Len(old) \in Nat /\ Len(old) <= Chunks /\ Chunks \in Nat
      /\ m.at \in Nat /\ m.data \in Bits /\ m.at + Len(m.data) <= Chunks
  BY BytesIs DEF FileTypes, Dav!FileConstants, Bytes, Messages
<1>2. m.data \in Seq(Pieces) /\ Len(m.data) \in Nat /\ Len(m.data) <= 1 BY <1>1, BitIs
<1> DEFINE a == SubSeq(old, 1, m.at)
           b == SubSeq(old, m.at + 2, Len(old))
<1>3. a \in Seq(Pieces) /\ Len(a) = m.at BY <1>1, SubSeqProperties
<1>4. /\ b \in Seq(Pieces)
      /\ Len(b) = IF m.at + 2 <= Len(old) THEN Len(old) - m.at - 1 ELSE 0
  <2>1. CASE m.at + 2 <= Len(old) BY <1>1, <2>1, SubSeqProperties
  <2>2. CASE ~(m.at + 2 <= Len(old))
    <3>1. m.at + 2 \in Int /\ Len(old) \in Int /\ Len(old) < m.at + 2 BY <1>1, <2>2
    <3>2. b = <<>> BY <3>1, SubSeqEmpty
    <3> HIDE DEF b
    <3> QED BY <2>2, <3>2
  <2> QED BY <2>1, <2>2
<1> DEFINE c == a \o m.data
<1> HIDE DEF a, b
<1>5. c \in Seq(Pieces) /\ Len(c) = m.at + Len(m.data) BY <1>2, <1>3, ConcatProperties
<1> HIDE DEF c
<1>6. c \o b \in Seq(Pieces) /\ Len(c \o b) = Len(c) + Len(b)
  <2>1. b \in Seq(Pieces) /\ c \in Seq(Pieces) BY <1>4, <1>5
  <2> QED BY <2>1, ConcatProperties
<1>7. Len(c \o b) <= Chunks
  <2>1. PICK n \in Nat, z \in Nat, w \in Nat : n = m.at /\ z = Len(m.data) /\ w = Len(old)
    BY <1>1, <1>2
  <2>2. n + z <= Chunks /\ w <= Chunks /\ z <= 1 BY <1>1, <1>2, <2>1
  <2>3. n + z + (IF n + 2 <= w THEN w - n - 1 ELSE 0) <= Chunks BY <1>1, <2>2
  <2> QED BY <1>4, <1>5, <1>6, <2>1, <2>3
<1> QED BY <1>6, <1>7 DEF Bytes, Rewritten, a, b, c

LEMMA AnswerTypes ==
    ASSUME FileTypes, NEW m \in Messages
    PROVE  Dav!PhoneAnswer(m) \in Replies /\ Dav!PhoneAnswer(m).id = m.id
<1>1. /\ m.path \in Paths /\ m.at \in Nat /\ m.id \in Nat \X Nat /\ m.ask \in Dav!Asks
      /\ m.truncate \in BOOLEAN /\ Dav!FileConstants
  BY DEF Messages, FileTypes
<1> DEFINE there == m.path \in DOMAIN phone
           data == IF there THEN phone[m.path].data ELSE <<>>
           dir == there /\ phone[m.path].dir
           piece == IF m.ask = "read" /\ m.at < Len(data) THEN <<data[m.at + 1]>> ELSE <<>>
           ok == CASE m.ask = "read" -> there /\ ~phone[m.path].dir
                   [] m.ask = "write" -> m.truncate \/ (there /\ ~phone[m.path].dir /\ m.at <= Len(data))
                   [] m.ask = "mkdir" -> ~there
                   [] m.ask = "readdir" -> there /\ phone[m.path].dir
                   [] m.ask \in {"delete", "rename"} -> there
                   [] OTHER -> TRUE
<1>2. data \in Bytes BY <1>1, DiskIs, NoPieces
<1>3. there \in BOOLEAN /\ dir \in BOOLEAN BY <1>1, DiskIs
<1>4. Len(data) \in 0..Chunks BY <1>1, <1>2, BytesIs
<1>5. piece \in Bits
  <2>1. CASE m.ask = "read" /\ m.at < Len(data)
    <3>1. m.at + 1 \in 1..Len(data) BY <1>1, <1>4, <2>1
    <3>2. data[m.at + 1] \in Pieces BY <1>1, <1>2, <3>1, BytesIs
    <3> QED BY <2>1, <3>2, OnePiece
  <2> QED BY <1>1, <2>1, NoPieces
<1>6. ok \in BOOLEAN
  <2>1. there => phone[m.path].dir \in BOOLEAN BY <1>1, DiskIs
  <2>2. m.truncate \in BOOLEAN /\ there \in BOOLEAN BY <1>1
  <2>3. (m.truncate \/ (there /\ ~phone[m.path].dir /\ m.at <= Len(data))) \in BOOLEAN OBVIOUS
  <2>4. (there /\ ~phone[m.path].dir) \in BOOLEAN /\ (there /\ phone[m.path].dir) \in BOOLEAN
    OBVIOUS
  <2> HIDE DEF data, there
  <2> QED BY <2>1, <2>2, <2>3, <2>4
<1>7. (m.at + 1 >= Len(data)) \in BOOLEAN OBVIOUS
<1>8. Dav!PhoneAnswer(m) =
        [ok |-> ok, id |-> m.id, exists |-> there, dir |-> dir, size |-> Len(data),
         data |-> piece, eof |-> m.at + 1 >= Len(data)]
  BY DEF Dav!PhoneAnswer
<1> HIDE DEF data, there, dir, piece, ok
<1> QED BY <1>1, <1>3, <1>4, <1>5, <1>6, <1>7, <1>8 DEF Replies

LEMMA AfterTypes ==
    ASSUME FileTypes, NEW m \in Messages, Dav!PhoneAnswer(m).ok
    PROVE  Dav!PhoneAfter(m) \in Disks
<1>1. /\ m.path \in Paths /\ m.data \in Bytes /\ Dav!FileConstants /\ phone \in Disks
  <2>1. m.data \in Bits /\ m.at \in 0..Chunks /\ m.at + Len(m.data) <= Chunks BY DEF Messages
  <2>2. Chunks \in Nat BY DEF FileTypes, Dav!FileConstants
  <2>3. m.data \in Seq(Pieces) /\ Len(m.data) \in Nat BY <2>1, BitIs
  <2>4. Len(m.data) <= Chunks BY <2>1, <2>2, <2>3
  <2> QED BY <2>3, <2>4 DEF Messages, FileTypes, Bytes
<1>2. CASE m.ask = "write"
  <2>1. PICK s \in Bytes : Dav!PhoneAfter(m) = Dav!With(m.path, Dav!File(s))
    <3>1. CASE m.truncate BY <1>1, <1>2, <3>1 DEF Dav!PhoneAfter
    <3>2. CASE ~m.truncate
      <4>1. m.path \in DOMAIN phone /\ m.at <= Len(phone[m.path].data)
        BY <1>2, <3>2 DEF Dav!PhoneAnswer
      <4>2. Rewritten(phone[m.path].data, m) \in Bytes BY <1>1, <4>1, DiskIs, RewriteTypes
      <4>3. Dav!PhoneAfter(m) = Dav!With(m.path, Dav!File(Rewritten(phone[m.path].data, m)))
        BY <1>2, <3>2 DEF Dav!PhoneAfter, Rewritten
      <4> QED BY <4>2, <4>3
    <3> QED BY <3>1, <3>2
  <2>2. Dav!File(s) \in Objects BY DEF Dav!File, Objects
  <2> QED BY <1>1, <2>1, <2>2, WithTypes
<1>3. CASE m.ask = "mkdir"
  <2>1. Dav!Dir \in Objects BY <1>1, NoPieces DEF Dav!Dir, Objects
  <2> QED BY <1>1, <1>3, <2>1, WithTypes DEF Dav!PhoneAfter
<1>4. PICK S \in SUBSET Paths : phone \in [S -> Objects] BY <1>1 DEF Disks
<1>5. CASE m.ask = "delete"
  <2>1. Dav!PhoneAfter(m) \in [S \ {m.path} -> Objects]
    BY <1>4, <1>5 DEF Dav!PhoneAfter, Dav!Without
  <2> QED BY <1>4, <2>1 DEF Disks
<1>6. CASE m.ask = "rename"
  <2>1. m.path \in DOMAIN phone BY <1>6 DEF Dav!PhoneAnswer
  <2>2. m.dest \in Paths BY <1>6 DEF Messages
  <2>3. Dav!PhoneAfter(m) = [q \in (S \ {m.path}) \union {m.dest} |->
                               IF q = m.dest THEN phone[m.path] ELSE phone[q]]
    BY <1>4, <1>6 DEF Dav!PhoneAfter
  <2>4. Dav!PhoneAfter(m) \in [(S \ {m.path}) \union {m.dest} -> Objects] BY <1>4, <2>1, <2>3
  <2>5. (S \ {m.path}) \union {m.dest} \in SUBSET Paths BY <2>2
  <2> QED BY <2>4, <2>5 DEF Disks
<1>7. CASE m.ask \notin {"write", "mkdir", "delete", "rename"} BY <1>1, <1>7 DEF Dav!PhoneAfter
<1> QED BY <1>2, <1>3, <1>5, <1>6, <1>7

LEMMA PhoneTypes == FileTypes /\ (Dav!PhoneServes \/ Dav!PhoneRefuses) => FileTypes'
<1> SUFFICES ASSUME FileTypes, Dav!PhoneServes \/ Dav!PhoneRefuses PROVE FileTypes' OBVIOUS
<1> DEFINE m == Head(out)
<1>1. out # <<>> /\ out' = Tail(out) /\ UNCHANGED <<up, cuts, reqs, tfs, sized>>
  BY DEF Dav!PhoneServes, Dav!PhoneRefuses
<1>2. /\ m = out[1] /\ m \in Messages /\ m.id[1] \in DOMAIN reqs /\ Tail(out) \in Seq(Messages)
      /\ \A k \in DOMAIN Tail(out) : k + 1 \in DOMAIN out /\ Tail(out)[k] = out[k + 1]
  BY <1>1, FileTail DEF FileTypes
<1> HIDE DEF m
<1>3. PICK a \in Replies :
        /\ a.id = m.id /\ back' = Append(back, a)
        /\ phone' = phone \/ (Dav!PhoneAnswer(m).ok /\ phone' = Dav!PhoneAfter(m))
  <2>1. Dav!PhoneAnswer(m) \in Replies /\ Dav!PhoneAnswer(m).id = m.id BY <1>2, AnswerTypes
  <2>2. CASE Dav!PhoneServes BY <2>1, <2>2 DEF Dav!PhoneServes, m
  <2>3. CASE Dav!PhoneRefuses
    <3>1. back' = Append(back, [Dav!PhoneAnswer(m) EXCEPT !.ok = FALSE]) /\ phone' = phone
      BY <2>3 DEF Dav!PhoneRefuses, m
    <3>2. /\ [Dav!PhoneAnswer(m) EXCEPT !.ok = FALSE] \in Replies
          /\ [Dav!PhoneAnswer(m) EXCEPT !.ok = FALSE].id = m.id
      BY <2>1 DEF Replies
    <3> QED BY <3>1, <3>2
  <2> QED BY <2>2, <2>3
<1>4. phone' \in Disks BY <1>2, <1>3, AfterTypes DEF FileTypes
<1>5. back' \in Seq(Replies) /\ \A k \in DOMAIN back' : back'[k].id[1] \in DOMAIN reqs
  BY <1>2, <1>3, FileAppend DEF FileTypes
<1>6. up BY <1>1 DEF FileTypes
<1> QED BY <1>1, <1>2, <1>4, <1>5, <1>6 DEF FileTypes

LEMMA NextTypes == FileTypes /\ [Dav!Next]_Dav!vars => FileTypes'
<1> SUFFICES ASSUME FileTypes, [Dav!Next]_Dav!vars PROVE FileTypes' OBVIOUS
<1>1. CASE \E op \in Dav!Ops, p, d \in Paths \union Media, body \in Dav!Files(Len(reqs) + 1) :
             (op # "PUT" => body = <<>>) /\ Dav!Begin(op, p, d, body)
  BY <1>1, BeginTypes DEF Names
<1>2. CASE Dav!HandleResponse BY <1>2, ResponseTypes
<1>3. CASE \E i \in Dav!Running :
             Dav!Timeout(i) \/ Dav!MediaStat(i) \/ (\E ok \in BOOLEAN : Dav!MediaRead(i, ok))
  BY <1>3, TimeoutTypes, MediaTypes
<1>4. CASE \E ok \in BOOLEAN : Dav!LoadSettles(ok) BY <1>4, LoadTypes
<1>5. CASE \E m \in Media : Dav!AppDownloads(m) BY <1>5 DEF Dav!AppDownloads, FileTypes
<1>6. CASE Dav!PhoneServes \/ Dav!PhoneRefuses BY <1>6, PhoneTypes
<1>7. CASE Dav!Disconnect
  <2>1. /\ up' = FALSE /\ cuts' \in 0..MaxCuts /\ out' = <<>> /\ back' = <<>>
        /\ UNCHANGED <<phone, reqs, tfs, sized>>
    BY <1>7 DEF Dav!Disconnect, FileTypes, Dav!FileConstants
  <2>2. DOMAIN out' = {} /\ DOMAIN back' = {} BY <2>1
  <2>3. out' \in Seq(Messages) /\ back' \in Seq(Replies) BY <2>1
  <2>4. phone' \in Disks /\ reqs' \in Seq(Requests) /\ Dav!FileConstants
        /\ tfs' \in {"none", "loading", "loaded"} /\ sized' \subseteq Media
    BY <2>1 DEF FileTypes
  <2> QED BY <2>1, <2>2, <2>3, <2>4 DEF FileTypes, Dav!FileConstants
<1>9. CASE Dav!Connect
  <2>1. up' \in BOOLEAN /\ up' /\ UNCHANGED <<phone, out, back, cuts, reqs, tfs, sized>>
    BY <1>9 DEF Dav!Connect
  <2> QED BY <2>1 DEF FileTypes, Dav!FileConstants
<1>8. CASE UNCHANGED Dav!vars BY <1>8 DEF Dav!vars, FileTypes, Dav!FileConstants
<1> QED BY <1>1, <1>2, <1>3, <1>4, <1>5, <1>6, <1>7, <1>8, <1>9 DEF Dav!Next

--------------------
(* A request that began alone is the last, and no other runs. *)
LEMMA TurnsOthers ==
    ASSUME FileTypes, OthersDone, NEW i \in Dav!Running, Turns(i, reqs[i])
    PROVE  OthersDone'
<1>1. PICK q \in Requests : reqs' = Dav!Set(i, q) /\ q.alone = reqs[i].alone BY DEF Turns, Alike
<1>2. i \in DOMAIN reqs /\ i \in 1..(Len(reqs) + 1) /\ reqs[i].pc # "done" BY RunningIs
<1>3. /\ DOMAIN reqs' = DOMAIN reqs /\ reqs'[i] = q /\ Len(reqs') = Len(reqs)
      /\ \A k \in DOMAIN reqs : k # i =>
            reqs'[k] = IF k \in Dav!Running THEN reqs[k] ELSE Dav!Over(reqs[k])
  BY <1>1, <1>2, SetIs
<1>4. \A k \in DOMAIN reqs : reqs[k] \in Requests BY DEF FileTypes
<1>5. Dav!FileConstants BY DEF FileTypes
<1> SUFFICES ASSUME reqs' # <<>>, Latest'.alone, NEW k \in DOMAIN reqs', k # Len(reqs')
             PROVE  reqs'[k].pc = "done"
  BY DEF OthersDone
<1>6. Len(reqs) \in DOMAIN reqs
  <2>1. Len(reqs) \in Nat /\ DOMAIN reqs = 1..Len(reqs) BY DEF FileTypes
  <2> QED BY <1>2, <2>1
<1>7. Latest.alone /\ reqs # <<>>
  <2>1. Latest' = reqs'[Len(reqs)] BY <1>3 DEF Latest
  <2>2. CASE Len(reqs) = i BY <1>1, <1>2, <1>3, <2>1, <2>2 DEF Latest
  <2>3. CASE Len(reqs) # i
    <3>1. Dav!Over(reqs[Len(reqs)]).alone = reqs[Len(reqs)].alone BY <1>4, <1>5, <1>6, OverIs
    <3> QED BY <1>2, <1>3, <1>6, <2>1, <2>3, <3>1 DEF Latest
  <2> QED BY <2>2, <2>3
<1>8. reqs[k].pc = "done" /\ k # i BY <1>2, <1>3, <1>7 DEF OthersDone
<1>9. k \notin Dav!Running BY <1>8 DEF Dav!Running
<1> QED BY <1>3, <1>4, <1>5, <1>8, <1>9, OverIs

LEMMA NextOthers == FileTypes /\ OthersDone /\ [Dav!Next]_Dav!vars => OthersDone'
<1> SUFFICES ASSUME FileTypes, OthersDone, [Dav!Next]_Dav!vars PROVE OthersDone' OBVIOUS
<1>1. CASE \E op \in Dav!Ops, p, d \in Paths \union Media, body \in Dav!Files(Len(reqs) + 1) :
             (op # "PUT" => body = <<>>) /\ Dav!Begin(op, p, d, body)
  <2>1. PICK r : Turns(Len(reqs) + 1, r) /\ (r.alone => Dav!Running = {})
    <3>1. PICK op \in Dav!Ops, p \in Names, d \in Names, body \in Dav!Files(Len(reqs) + 1) :
             Dav!Begin(op, p, d, body)
      BY <1>1 DEF Names
    <3>2. Begun(p, d) BY <3>1, BeginTypes
    <3> QED BY <3>2 DEF Begun
  <2>2. PICK q \in Requests : reqs' = Dav!Set(Len(reqs) + 1, q) /\ q.alone = r.alone
    BY <2>1 DEF Turns, Alike
  <2>3. /\ Len(reqs) \in Nat /\ DOMAIN reqs = 1..Len(reqs) /\ Dav!FileConstants
        /\ \A k \in DOMAIN reqs : reqs[k] \in Requests
    BY DEF FileTypes
  <2>4. /\ DOMAIN reqs' = DOMAIN reqs \union {Len(reqs) + 1} /\ Len(reqs') = Len(reqs) + 1
        /\ reqs'[Len(reqs) + 1] = q
        /\ \A k \in DOMAIN reqs : k # Len(reqs) + 1 =>
              reqs'[k] = IF k \in Dav!Running THEN reqs[k] ELSE Dav!Over(reqs[k])
    <3>1. Len(reqs) + 1 \in 1..(Len(reqs) + 1) /\ Len(reqs) + 1 \notin DOMAIN reqs BY <2>3
    <3> QED BY <2>2, <3>1, SetIs
  <2> SUFFICES ASSUME Latest'.alone, NEW k \in DOMAIN reqs', k # Len(reqs')
               PROVE  reqs'[k].pc = "done"
    BY DEF OthersDone
  <2>5. Dav!Running = {} BY <2>1, <2>2, <2>4 DEF Latest
  <2>6. k \in DOMAIN reqs /\ reqs'[k] = Dav!Over(reqs[k]) BY <2>3, <2>4, <2>5
  <2> QED BY <2>3, <2>6, OverIs
<1>2. CASE Dav!HandleResponse BY <1>2, ResponseTypes, TurnsOthers DEF Turned, OthersDone, Latest
<1>3. CASE \E i \in Dav!Running :
             Dav!Timeout(i) \/ Dav!MediaStat(i) \/ (\E ok \in BOOLEAN : Dav!MediaRead(i, ok))
  BY <1>3, TimeoutTypes, MediaTypes, TurnsOthers DEF Turned
<1>4. CASE \E ok \in BOOLEAN : Dav!LoadSettles(ok)
  <2>1. PICK ok \in BOOLEAN : Dav!LoadSettles(ok) BY <1>4
  <2>2. reqs' = [i \in DOMAIN reqs |->
                   IF ~ok /\ i \in Dav!Running /\ ~Dav!OnPhone(i)
                   THEN [reqs[i] EXCEPT !.pc = "done", !.status = 500] ELSE reqs[i]]
    BY <2>1 DEF Dav!LoadSettles
  <2>3. Len(reqs) \in Nat /\ DOMAIN reqs = 1..Len(reqs) /\ reqs' \in Seq(Requests)
    BY <2>1, LoadTypes DEF FileTypes
  <2>4. DOMAIN reqs' = DOMAIN reqs /\ Len(reqs') = Len(reqs)
    <3>1. DOMAIN reqs' = DOMAIN reqs BY <2>2
    <3>2. Len(reqs') \in Nat /\ DOMAIN reqs' = 1..Len(reqs') BY <2>3
    <3>3. \A m, n \in Nat : 1..m = 1..n => m = n OBVIOUS
    <3> QED BY <2>3, <3>1, <3>2, <3>3
  <2>5. \A i \in DOMAIN reqs :
           /\ reqs'[i].alone = reqs[i].alone
           /\ reqs[i].pc = "done" => reqs'[i].pc = "done"
    <3> SUFFICES ASSUME NEW i \in DOMAIN reqs
                 PROVE  /\ reqs'[i].alone = reqs[i].alone
                        /\ reqs[i].pc = "done" => reqs'[i].pc = "done"
      OBVIOUS
    <3>1. PICK r \in Drafts : r = reqs[i] BY DEF FileTypes, Requests
    <3>2. reqs'[i] = [r EXCEPT !.pc = "done", !.status = 500] \/ reqs'[i] = r BY <2>2, <3>1
    <3>4. [r EXCEPT !.pc = "done", !.status = 500].alone = r.alone BY DEF Drafts
    <3>5. [r EXCEPT !.pc = "done", !.status = 500].pc = "done" BY DEF Drafts
    <3> QED BY <3>1, <3>2, <3>4, <3>5
  <2>6. reqs' # <<>> => reqs # <<>> /\ Len(reqs) \in DOMAIN reqs
    <3>1. SUFFICES ASSUME reqs' # <<>> PROVE reqs # <<>> /\ Len(reqs) \in DOMAIN reqs OBVIOUS
    <3>2. Len(reqs) # 0 BY <2>3, <2>4, <3>1, EmptySeq
    <3> QED BY <2>3, <3>2, EmptySeq
  <2> QED BY <2>4, <2>5, <2>6 DEF OthersDone, Latest
<1>5. CASE UNCHANGED reqs BY <1>5 DEF OthersDone, Latest
<1> QED BY <1>1, <1>2, <1>3, <1>4, <1>5
     DEF Dav!Next, Dav!AppDownloads, Dav!PhoneServes, Dav!PhoneRefuses, Dav!Disconnect,
         Dav!Connect, Dav!vars

--------------------
(* What a file holds as it is written piece by piece. *)
LEMMA FrontIs ==
    ASSUME Dav!FileConstants, NEW s \in Bytes, NEW n \in Nat, n <= Len(s)
    PROVE  /\ Start(s, n) \in Seq(Pieces) /\ Len(Start(s, n)) = n
           /\ \A k \in 1..n : Start(s, n)[k] = s[k]
           /\ n = Len(s) => Start(s, n) = s
           /\ n = 0 => Start(s, n) = <<>>
<1>1. s \in Seq(Pieces) /\ Len(s) \in Nat /\ DOMAIN s = 1..Len(s) BY BytesIs
<1>2. \A k \in 1..n : s[k] \in Pieces BY <1>1
<1>3. Start(s, n) \in [1..n -> Pieces] /\ \A k \in 1..n : Start(s, n)[k] = s[k] BY <1>2 DEF Start
<1>4. Start(s, n) \in Seq(Pieces) /\ Len(Start(s, n)) = n BY <1>3, IsASeq
<1>5. n = Len(s) => Start(s, n) = s
  <2> SUFFICES ASSUME n = Len(s) PROVE Start(s, n) = s OBVIOUS
  <2>1. \A k \in 1..Len(s) : Start(s, n)[k] = s[k] BY <1>3
  <2> QED BY <1>1, <1>4, <2>1, SeqEqual
<1>6. n = 0 => Start(s, n) = <<>> BY <1>4, EmptySeq
<1> QED BY <1>3, <1>4, <1>5, <1>6

LEMMA FrontGrows ==
    ASSUME Dav!FileConstants, NEW s \in Bytes, NEW n \in Nat, n < Len(s)
    PROVE  Start(s, n) \o <<s[n + 1]>> = Start(s, n + 1)
<1>1. s \in Seq(Pieces) /\ Len(s) \in Nat /\ DOMAIN s = 1..Len(s) BY BytesIs
<1>2. s[n + 1] \in Pieces BY <1>1
<1> DEFINE d == <<s[n + 1]>>
<1>3. d \in Seq(Pieces) /\ Len(d) = 1 /\ d[1] = s[n + 1] BY <1>2
<1> HIDE DEF d
<1>4. /\ Start(s, n) \in Seq(Pieces) /\ Len(Start(s, n)) = n
      /\ \A k \in 1..n : Start(s, n)[k] = s[k]
  BY <1>1, FrontIs
<1>5. /\ Start(s, n + 1) \in Seq(Pieces) /\ Len(Start(s, n + 1)) = n + 1
      /\ \A k \in 1..(n + 1) : Start(s, n + 1)[k] = s[k]
  BY <1>1, FrontIs
<1> DEFINE f == Start(s, n)
           g == Start(s, n + 1)
           c == f \o d
<1>6. /\ f \in Seq(Pieces) /\ Len(f) = n /\ \A k \in 1..n : f[k] = s[k]
      /\ g \in Seq(Pieces) /\ Len(g) = n + 1 /\ \A k \in 1..(n + 1) : g[k] = s[k]
  BY <1>4, <1>5
<1> HIDE DEF f, g
<1>7. /\ c \in Seq(Pieces) /\ Len(c) = Len(f) + Len(d)
      /\ \A k \in 1..(Len(f) + Len(d)) : c[k] = IF k <= Len(f) THEN f[k] ELSE d[k - Len(f)]
  BY <1>3, <1>6, ConcatProperties
<1> HIDE DEF c
<1>8. \A k \in 1..(n + 1) : c[k] = g[k]
  <2> SUFFICES ASSUME NEW k \in 1..(n + 1) PROVE c[k] = g[k] OBVIOUS
  <2>1. c[k] = IF k <= n THEN f[k] ELSE d[k - n] BY <1>3, <1>6, <1>7
  <2>2. CASE k <= n
    <3>1. k \in 1..n BY <2>2
    <3> QED BY <1>6, <2>1, <2>2, <3>1
  <2>3. CASE ~(k <= n)
    <3>1. k = n + 1 /\ k - n = 1 BY <2>3
    <3> QED BY <1>3, <1>6, <2>1, <2>3, <3>1
  <2> QED BY <2>2, <2>3
<1>9. Len(c) = n + 1 /\ Len(g) = n + 1 BY <1>3, <1>6, <1>7
<1>10. c = g BY <1>6, <1>7, <1>8, <1>9, SeqEqual
<1> QED BY <1>10 DEF c, d, f, g

LEMMA WriteGrows ==
    ASSUME Dav!FileConstants, NEW s \in Bytes, NEW n \in Nat, n < Len(s),
           NEW m, m.at = n, m.data = <<s[n + 1]>>
    PROVE  Rewritten(Start(s, n), m) = Start(s, n + 1)
<1>1. Len(s) \in Nat BY BytesIs
<1> DEFINE old == Start(s, n)
<1>2. old \in Seq(Pieces) /\ Len(old) = n BY <1>1, FrontIs
<1> HIDE DEF old
<1>3. SubSeq(old, n + 2, Len(old)) = <<>> BY <1>2, SubSeqEmpty
<1>4. SubSeq(old, 1, n) = old
  <2>1. /\ SubSeq(old, 1, n) \in Seq(Pieces) /\ Len(SubSeq(old, 1, n)) = n
        /\ \A k \in 1..n : SubSeq(old, 1, n)[k] = old[k]
    BY <1>2, SubSeqProperties
  <2> QED BY <1>2, <2>1, SeqEqual
<1>5. old \o <<s[n + 1]>> = Start(s, n + 1) BY FrontGrows DEF old
<1>6. Start(s, n + 1) \in Seq(Pieces) BY <1>1, FrontIs
<1>7. Rewritten(old, m) = Start(s, n + 1) \o <<>> BY <1>3, <1>4, <1>5 DEF Rewritten
<1> QED BY <1>6, <1>7, ConcatEmptySeq DEF old

--------------------
(* The turn of the last request: it is over and what it says is true, or the *)
(* message it sends fits how far it is. *)
Goes(i) ==
    \E q \in Requests :
        /\ reqs' = Dav!Set(i, q)
        /\ \/ out' = out /\ (Succeeded(q) => Claims(q))
           \/ /\ q.pc # "done" /\ Before(q)
              /\ \E m \in Messages : m.id[1] = i /\ Matches(q, m) /\ out' = Append(out, m)

Stopped(r, status) == [r EXCEPT !.pc = "done", !.status = status]

LEMMA StoppedIs ==
    ASSUME NEW r \in Drafts, NEW status \in Statuses \ {0}
    PROVE  /\ Stopped(r, status) \in Requests /\ Stopped(r, status).pc = "done"
           /\ Stopped(r, status).status = status /\ Stopped(r, status).op = r.op
           /\ Stopped(r, status).path = r.path /\ Stopped(r, status).dest = r.dest
           /\ Stopped(r, status).body = r.body /\ Stopped(r, status).got = r.got
           /\ Stopped(r, status).cut = r.cut
<1>1. Stopped(r, status) \in Requests BY OverRequest DEF Stopped
<1> QED BY <1>1 DEF Stopped, Drafts

LEMMA EndGoes ==
    ASSUME NEW i, NEW r \in Drafts, NEW status \in Statuses \ {0}, Dav!End(i, r, status),
           Succeeded(Stopped(r, status)) => Claims(Stopped(r, status))
    PROVE  Goes(i)
  BY StoppedIs DEF Dav!End, Goes, Stopped

LEMMA FailGoes ==
    ASSUME NEW i, NEW r \in Drafts, Dav!Fail(i, r)
    PROVE  Goes(i)
<1>1. PICK b \in BOOLEAN : b = (r.op = "GET" /\ r.pc = "read") OBVIOUS
<1> DEFINE q == [r EXCEPT !.cut = b]
           status == IF b THEN 200 ELSE 500
<1>2. q \in Drafts /\ q.cut = b /\ q.op = r.op BY DEF Drafts
<1>3. Dav!End(i, q, status) BY <1>1 DEF Dav!Fail
<1>4. status \in Statuses \ {0} BY DEF Statuses
<1>5. status = 200 => b /\ r.op = "GET"
  <2>1. b => r.op = "GET" BY <1>1
  <2> QED BY <2>1
<1>6. status \in {200, 500} OBVIOUS
<1> HIDE DEF q, status
<1>7. ~Succeeded(Stopped(q, status)) BY <1>2, <1>4, <1>5, <1>6, StoppedIs DEF Succeeded
<1> QED BY <1>2, <1>3, <1>4, <1>7, EndGoes

Asked(r, ask) == [r EXCEPT !.pc = ask, !.n = @ + 1]

LEMMA AskedIs ==
    ASSUME NEW r \in Drafts, NEW ask \in Dav!Asks
    PROVE  /\ Asked(r, ask) \in Drafts /\ Asked(r, ask).pc = ask
           /\ Asked(r, ask).n = r.n + 1 /\ Asked(r, ask).status = r.status
           /\ Asked(r, ask).op = r.op /\ Asked(r, ask).path = r.path
           /\ Asked(r, ask).dest = r.dest /\ Asked(r, ask).body = r.body
           /\ Asked(r, ask).at = r.at /\ Asked(r, ask).first = r.first
           /\ Asked(r, ask).eof = r.eof /\ Asked(r, ask).size = r.size
           /\ Asked(r, ask).got = r.got /\ Asked(r, ask).alone = r.alone
<1>1. r.n \in Nat /\ r.n + 1 \in Nat /\ ask \in Dav!Asks \union {"done"} BY DEF Drafts
<1>2. Asked(r, ask) \in Drafts BY <1>1 DEF Drafts, Asked
<1>3. Asked(r, ask) = [[r EXCEPT !.pc = ask] EXCEPT !.n = r.n + 1] BY DEF Drafts, Asked
<1> QED BY <1>1, <1>2, <1>3 DEF Drafts

(* The message a request sends is the one its state calls for. *)
Suits(q, p, data) ==
    /\ p = Target(q) /\ Before(q)
    /\ q.op = "PUT" /\ q.pc = "write" =>
          data = IF q.at < Len(q.body) THEN <<q.body[q.at + 1]>> ELSE <<>>
    /\ q.op = "COPY" /\ q.pc = "write" =>
          data = IF q.at < q.size THEN <<phone[q.path].data[q.at + 1]>> ELSE <<>>

LEMMA SendGoes ==
    ASSUME NEW i \in Nat, NEW r \in Drafts, NEW ask, MayAsk(r, ask), NEW p \in Paths,
           NEW data \in Bits, r.at + Len(data) <= Chunks, r.dest \in Paths,
           Suits(Asked(r, ask), p, data), Dav!Send(i, r, ask, p, data)
    PROVE  Goes(i)
<1>1. CASE ~up BY <1>1, FailGoes DEF Dav!Send
<1>2. CASE up
  <2> DEFINE m == [id |-> <<i, r.n + 1>>, ask |-> ask, path |-> p, dest |-> r.dest,
                   at |-> r.at, data |-> data, truncate |-> r.first]
  <2>1. reqs' = Dav!Set(i, Asked(r, ask)) /\ out' = Append(out, m) BY <1>2 DEF Dav!Send, Asked
  <2>2. ask \in Dav!Asks /\ ask # "done" BY DEF MayAsk, Dav!Asks
  <2> DEFINE q == Asked(r, ask)
  <2>3. /\ q \in Drafts /\ q.pc = ask /\ q.n = r.n + 1 /\ q.op = r.op /\ q.at = r.at
        /\ q.size = r.size /\ q.status = r.status /\ q.dest = r.dest /\ q.first = r.first
    BY <2>2, AskedIs
  <2> HIDE DEF q
  <2>4. q \in Requests BY <2>2, <2>3 DEF Requests, MayAsk
  <2>5. r.n \in Nat /\ r.dest \in Names /\ r.at \in 0..Chunks /\ r.first \in BOOLEAN BY DEF Drafts
  <2>6. m \in Messages BY <2>2, <2>5 DEF Messages, MayAsk, Names
  <2>7. Suits(q, p, data) BY DEF q
  <2>8. m.id[1] = i /\ m.id[2] = q.n BY <2>3
  <2>9. Matches(q, m) BY <2>3, <2>7, <2>8 DEF Matches, Suits
  <2> HIDE DEF m
  <2> QED BY <2>1, <2>2, <2>3, <2>4, <2>6, <2>7, <2>8, <2>9 DEF Goes, Suits, q
<1> QED BY <1>1, <1>2

LEMMA AskGoes ==
    ASSUME Dav!FileConstants, NEW i \in Nat, NEW r \in Drafts, NEW ask, MayAsk(r, ask),
           NEW p \in Paths, NEW data \in Bits, r.at + Len(data) <= Chunks, r.dest \in Paths,
           Suits(Asked(r, ask), p, data), Dav!Ask(i, r, ask, p, data)
    PROVE  Goes(i)
  BY SendGoes DEF Dav!Ask, Dav!FileConstants

(* On the phone: the draft of a request whose files are the phone's. *)
OnPaths(r) == r \in Drafts /\ r.status = 0 /\ r.path \in Paths /\ r.dest \in Paths

LEMMA PutGoes ==
    ASSUME FileTypes, NEW i \in Nat, NEW r, OnPaths(r), r.op = "PUT", r.at <= Len(r.body),
           r.first => r.at = 0, ~r.first => Holds(r.path, Start(r.body, r.at)), Dav!PutMore(i, r)
    PROVE  Goes(i)
<1>1. /\ r \in Drafts /\ r.path \in Paths /\ r.dest \in Paths /\ r.at \in 0..Chunks /\ r.at \in Nat
      /\ r.body \in Bytes /\ Dav!FileConstants /\ Chunks \in Nat /\ r.first \in BOOLEAN
  BY DEF OnPaths, Drafts, FileTypes, Dav!FileConstants
<1>2. MayAsk(r, "write") BY DEF OnPaths, MayAsk, Dav!Asks, Ways
<1> DEFINE q == Asked(r, "write")
<1>3. /\ q.pc = "write" /\ q.op = "PUT" /\ q.path = r.path /\ q.body = r.body /\ q.at = r.at
      /\ q.first = r.first
  BY <1>1, <1>2, AskedIs DEF MayAsk
<1>4. Len(r.body) \in Nat /\ (Len(r.body) = 0 => r.body = <<>>) BY <1>1, BytesIs, EmptySeq
<1>5. ASSUME NEW data, data = (IF r.at < Len(r.body) THEN <<r.body[r.at + 1]>> ELSE <<>>),
             r.at < Len(r.body) \/ (r.body = <<>> /\ r.first)
      PROVE  Suits(q, r.path, data)
  <2> HIDE DEF q
  <2>1. Before(q) BY <1>3, <1>5 DEF Before
  <2>2. Target(q) = r.path BY <1>3 DEF Target
  <2> QED BY <1>3, <1>5, <2>1, <2>2 DEF Suits
<1>6. CASE r.at < Len(r.body)
  <2>1. r.body[r.at + 1] \in Pieces /\ r.at + 1 <= Chunks BY <1>1, <1>6, BytesIs
  <2>2. <<r.body[r.at + 1]>> \in Bits /\ r.at + Len(<<r.body[r.at + 1]>>) <= Chunks
    BY <1>1, <2>1, OnePiece
  <2>3. Dav!Ask(i, r, "write", r.path, <<r.body[r.at + 1]>>) BY <1>6 DEF Dav!PutMore
  <2> QED BY <1>1, <1>2, <1>5, <1>6, <2>2, <2>3, AskGoes
<1>7. CASE ~(r.at < Len(r.body)) /\ r.first
  <2>1. <<>> \in Bits /\ r.at + Len(<<>>) <= Chunks BY <1>1, NoPieces
  <2>2. Dav!Ask(i, r, "write", r.path, <<>>) BY <1>7 DEF Dav!PutMore
  <2>3. r.body = <<>> BY <1>1, <1>4, <1>7
  <2> QED BY <1>1, <1>2, <1>5, <1>7, <2>1, <2>2, <2>3, AskGoes
<1>8. CASE ~(r.at < Len(r.body)) /\ ~r.first
  <2>1. Dav!End(i, r, Dav!Created(r)) BY <1>8 DEF Dav!PutMore
  <2>2. r.at = Len(r.body) BY <1>1, <1>4, <1>8
  <2>3. Holds(r.path, r.body) BY <1>1, <1>8, <2>2, FrontIs
  <2>4. PICK status \in Statuses \ {0} : status = Dav!Created(r) BY CreatedIs
  <2>5. Claims(Stopped(r, status)) BY <1>1, <2>3, StoppedIs DEF Claims
  <2> QED BY <1>1, <2>1, <2>4, <2>5, EndGoes
<1> QED BY <1>6, <1>7, <1>8

(* A file on the phone is what its data says. *)
LEMMA SourceIs ==
    ASSUME FileTypes, NEW r, r.path \in Paths, Source(r)
    PROVE  /\ phone[r.path] = Dav!File(phone[r.path].data) /\ phone[r.path].data \in Bytes
           /\ Len(phone[r.path].data) = r.size /\ r.path \in DOMAIN phone
<1>1. phone[r.path] \in Objects /\ ~phone[r.path].dir BY DiskIs DEF Source
<1> QED BY <1>1 DEF Objects, Dav!File, Source

LEMMA CopyGoes ==
    ASSUME FileTypes, NEW i \in Nat, NEW r, OnPaths(r), r.op = "COPY", Source(r), r.at <= r.size,
           r.first => r.at = 0, r.eof => r.at >= r.size,
           ~r.first => Holds(r.dest, Start(phone[r.path].data, r.at)), Dav!ReadMore(i, r)
    PROVE  Goes(i)
<1>1. /\ r \in Drafts /\ r.path \in Paths /\ r.dest \in Paths /\ r.at \in 0..Chunks /\ r.at \in Nat
      /\ r.size \in Nat /\ Dav!FileConstants /\ Chunks \in Nat /\ r.first \in BOOLEAN
      /\ r.eof \in BOOLEAN /\ r.status = 0
  BY DEF OnPaths, Drafts, FileTypes, Dav!FileConstants
<1>2. <<>> \in Bits /\ r.at + Len(<<>>) <= Chunks BY <1>1, NoPieces
<1>3. ASSUME NEW ask \in Dav!Asks
      PROVE  /\ Asked(r, ask).pc = ask /\ Asked(r, ask).op = "COPY" /\ Asked(r, ask).path = r.path
             /\ Asked(r, ask).dest = r.dest /\ Asked(r, ask).at = r.at
             /\ Asked(r, ask).first = r.first /\ Asked(r, ask).eof = r.eof
             /\ Asked(r, ask).size = r.size
  BY <1>1, AskedIs
<1>4. CASE r.at < r.size /\ ~r.eof
  <2>1. MayAsk(r, "read") BY <1>1, <1>4 DEF MayAsk, Dav!Asks, Ways
  <2>2. Dav!Ask(i, r, "read", r.path, <<>>) BY <1>4 DEF Dav!ReadMore
  <2> DEFINE q == Asked(r, "read")
  <2>3. /\ q.pc = "read" /\ q.op = "COPY" /\ q.path = r.path /\ q.dest = r.dest /\ q.at = r.at
        /\ q.first = r.first /\ q.eof = r.eof /\ q.size = r.size
    BY <1>3 DEF Dav!Asks
  <2> HIDE DEF q
  <2>4. Copies(q) BY <1>4, <2>3 DEF Copies, Source
  <2>5. Before(q) BY <2>3, <2>4 DEF Before
  <2>6. Suits(q, r.path, <<>>) BY <2>3, <2>5 DEF Suits, Target
  <2> QED BY <1>1, <1>2, <2>1, <2>2, <2>6, AskGoes DEF q
<1>5. CASE ~(r.at < r.size /\ ~r.eof) /\ r.first
  <2>1. MayAsk(r, "write") BY <1>1 DEF MayAsk, Dav!Asks, Ways
  <2>2. Dav!Ask(i, r, "write", r.dest, <<>>) BY <1>5 DEF Dav!ReadMore
  <2> DEFINE q == Asked(r, "write")
  <2>3. /\ q.pc = "write" /\ q.op = "COPY" /\ q.path = r.path /\ q.dest = r.dest /\ q.at = r.at
        /\ q.first = r.first /\ q.eof = r.eof /\ q.size = r.size
    BY <1>3 DEF Dav!Asks
  <2> HIDE DEF q
  <2>4. r.size = 0 /\ r.at = 0 BY <1>1, <1>5
  <2>5. Copies(q) BY <1>5, <2>3, <2>4 DEF Copies, Source
  <2>6. Before(q) BY <1>5, <2>3, <2>5 DEF Before
  <2>7. Suits(q, r.dest, <<>>) BY <2>3, <2>4, <2>6 DEF Suits, Target
  <2> QED BY <1>1, <1>2, <2>1, <2>2, <2>7, AskGoes DEF q
<1>6. CASE ~(r.at < r.size /\ ~r.eof) /\ ~r.first
  <2>1. Dav!End(i, r, 201) BY <1>6 DEF Dav!ReadMore
  <2>2. r.at = r.size BY <1>1, <1>6
  <2>3. phone[r.path].data \in Bytes /\ Len(phone[r.path].data) = r.size /\ r.path \in DOMAIN phone
        /\ phone[r.path] = Dav!File(phone[r.path].data)
    BY <1>1, SourceIs
  <2>4. Start(phone[r.path].data, r.at) = phone[r.path].data BY <1>1, <2>2, <2>3, FrontIs
  <2>5. r.dest \in DOMAIN phone /\ phone[r.dest] = phone[r.path] BY <1>6, <2>3, <2>4 DEF Holds
  <2>6. 201 \in Statuses \ {0} BY DEF Statuses
  <2>7. Claims(Stopped(r, 201)) BY <1>1, <2>3, <2>5, <2>6, StoppedIs DEF Claims
  <2> QED BY <1>1, <2>1, <2>6, <2>7, EndGoes
<1> QED BY <1>4, <1>5, <1>6

LEMMA GetGoes ==
    ASSUME FileTypes, NEW i \in Nat, NEW r, OnPaths(r), r.op = "GET", Source(r), r.at <= r.size,
           r.eof => r.at >= r.size, r.got = Start(phone[r.path].data, r.at), Dav!ReadMore(i, r)
    PROVE  Goes(i)
<1>1. /\ r \in Drafts /\ r.path \in Paths /\ r.dest \in Paths /\ r.at \in 0..Chunks /\ r.at \in Nat
      /\ r.size \in Nat /\ Dav!FileConstants /\ Chunks \in Nat /\ r.first \in BOOLEAN
      /\ r.eof \in BOOLEAN /\ r.status = 0
  BY DEF OnPaths, Drafts, FileTypes, Dav!FileConstants
<1>2. <<>> \in Bits /\ r.at + Len(<<>>) <= Chunks BY <1>1, NoPieces
<1>3. CASE r.at < r.size /\ ~r.eof
  <2>1. MayAsk(r, "read") BY <1>1, <1>3 DEF MayAsk, Dav!Asks, Ways
  <2>2. Dav!Ask(i, r, "read", r.path, <<>>) BY <1>3 DEF Dav!ReadMore
  <2> DEFINE q == Asked(r, "read")
  <2>3. /\ q.pc = "read" /\ q.op = "GET" /\ q.path = r.path /\ q.at = r.at
        /\ q.eof = r.eof /\ q.size = r.size /\ q.got = r.got
    BY <1>1, AskedIs DEF Dav!Asks
  <2> HIDE DEF q
  <2>4. Before(q) BY <1>3, <2>3 DEF Before, Source
  <2>5. Suits(q, r.path, <<>>) BY <2>3, <2>4 DEF Suits, Target
  <2> QED BY <1>1, <1>2, <2>1, <2>2, <2>5, AskGoes DEF q
<1>4. CASE ~(r.at < r.size /\ ~r.eof)
  <2>1. Dav!End(i, r, 200) BY <1>4 DEF Dav!ReadMore
  <2>2. r.at = r.size BY <1>1, <1>4
  <2>3. phone[r.path].data \in Bytes /\ Len(phone[r.path].data) = r.size /\ r.path \in DOMAIN phone
        /\ phone[r.path] = Dav!File(phone[r.path].data)
    BY <1>1, SourceIs
  <2>4. r.got = phone[r.path].data BY <1>1, <2>2, <2>3, FrontIs
  <2>5. Holds(r.path, r.got) BY <2>3, <2>4 DEF Holds
  <2>6. 200 \in Statuses \ {0} BY DEF Statuses
  <2>7. Claims(Stopped(r, 200)) BY <1>1, <2>5, <2>6, StoppedIs DEF Claims
  <2> QED BY <1>1, <2>1, <2>6, <2>7, EndGoes
<1> QED BY <1>3, <1>4

LEMMA OnPathsIs ==
    ASSUME NEW r \in Requests, r.pc # "done", r.path \in Paths, r.dest \in Paths
    PROVE  OnPaths(r) /\ r \in Drafts /\ r.op \in Dav!Ops /\ r.pc \in Ways(r.op)
  BY DEF OnPaths, Requests, Drafts

LEMMA StatGoes ==
    ASSUME FileTypes, NEW i \in Nat, NEW r \in Requests, r.pc = "stat", r.path \in Paths,
           r.dest \in Paths, NEW a, Says(a), Answered(r, a), Dav!AfterStat(i, r, a)
    PROVE  Goes(i)
<1> DEFINE found == [r EXCEPT !.exists = a.exists, !.size = a.size]
<1>1. OnPaths(r) /\ r \in Drafts /\ r.op # "MKCOL" BY OnPathsIs, WaysAre
<1>2. /\ found \in Drafts /\ found.status = 0 /\ found.op = r.op /\ found.path = r.path
      /\ found.dest = r.dest /\ found.at = r.at /\ found.first = r.first /\ found.eof = r.eof
      /\ found.got = r.got /\ found.size = a.size
  BY <1>1 DEF Drafts, OnPaths, Says
<1>3. OnPaths(found) BY <1>1, <1>2 DEF OnPaths
<1>4. r.at = 0 /\ r.first /\ ~r.eof /\ r.got = <<>> BY DEF Answered, Early
<1>5. <<>> \in Bits /\ 0 + Len(<<>>) <= Chunks /\ Dav!FileConstants /\ Chunks \in Nat
  BY NoPieces DEF FileTypes, Dav!FileConstants
<1>6. r.op # "MOVE" =>
         /\ a.exists <=> r.path \in DOMAIN phone
         /\ a.exists => a.dir = phone[r.path].dir /\ a.size = Len(phone[r.path].data)
  BY DEF Answered
<1>7. \/ r.op = "PUT" /\ Dav!PutMore(i, found)
      \/ r.op = "MOVE" /\ Dav!Rename(i, found)
      \/ Dav!End(i, r, 404) \/ Dav!End(i, r, 207) \/ Dav!End(i, r, 405)
      \/ r.op = "DELETE" /\ Dav!Ask(i, found, "delete", r.path, <<>>)
      \/ r.op = "PROPFIND" /\ Dav!Ask(i, found, "readdir", r.path, <<>>)
      \/ r.op \in {"GET", "COPY"} /\ a.exists /\ ~a.dir /\ Dav!ReadMore(i, found)
      \/ r.op = "COPY" /\ a.exists /\ a.dir /\ Dav!Ask(i, found, "mkdir", r.dest, <<>>)
  BY DEF Dav!AfterStat
<1> HIDE DEF found
<1>8. ASSUME NEW ask \in Dav!Asks
      PROVE  /\ Asked(found, ask).pc = ask /\ Asked(found, ask).op = r.op
             /\ Asked(found, ask).path = r.path /\ Asked(found, ask).dest = r.dest
  BY <1>2, AskedIs
<1>9. CASE r.op = "PUT" /\ Dav!PutMore(i, found)
  <2>1. found.body \in Bytes BY <1>2 DEF Drafts
  <2>2. found.at <= Len(found.body) BY <1>2, <1>4, <1>5, <2>1, BytesIs
  <2> QED BY <1>2, <1>3, <1>4, <1>9, <2>2, PutGoes
<1>10. CASE r.op = "MOVE" /\ Dav!Rename(i, found)
  <2>1. Dav!Send(i, found, "rename", r.path, <<>>)
    BY <1>2, <1>5, <1>10 DEF Dav!Rename, Dav!FileConstants
  <2>2. MayAsk(found, "rename") BY <1>2, <1>10 DEF MayAsk, Dav!Asks, Ways
  <2> DEFINE q == Asked(found, "rename")
  <2>3. q.pc = "rename" /\ q.op = "MOVE" /\ q.path = r.path BY <1>8, <1>10 DEF Dav!Asks
  <2> HIDE DEF q
  <2>4. Suits(q, r.path, <<>>) BY <2>3 DEF Suits, Target, Before
  <2> QED BY <1>2, <1>4, <1>5, <2>1, <2>2, <2>4, SendGoes DEF q
<1>11. CASE Dav!End(i, r, 404) \/ Dav!End(i, r, 207) \/ Dav!End(i, r, 405)
  <2>1. PICK status \in {404, 207, 405} : Dav!End(i, r, status) BY <1>11
  <2>2. status \in Statuses \ {0} BY <2>1 DEF Statuses
  <2>3. ~Succeeded(Stopped(r, status)) BY <1>1, <2>1, <2>2, StoppedIs DEF Succeeded
  <2> QED BY <1>1, <2>1, <2>2, <2>3, EndGoes
<1>12. CASE r.op = "DELETE" /\ Dav!Ask(i, found, "delete", r.path, <<>>)
  <2>1. MayAsk(found, "delete") BY <1>2, <1>12 DEF MayAsk, Dav!Asks, Ways
  <2> DEFINE q == Asked(found, "delete")
  <2>2. q.pc = "delete" /\ q.op = "DELETE" /\ q.path = r.path BY <1>8, <1>12 DEF Dav!Asks
  <2> HIDE DEF q
  <2>3. Suits(q, r.path, <<>>) BY <2>2 DEF Suits, Target, Before
  <2> QED BY <1>2, <1>4, <1>5, <1>12, <2>1, <2>3, AskGoes DEF q
<1>13. CASE r.op = "PROPFIND" /\ Dav!Ask(i, found, "readdir", r.path, <<>>)
  <2>1. MayAsk(found, "readdir") BY <1>2, <1>13 DEF MayAsk, Dav!Asks, Ways
  <2> DEFINE q == Asked(found, "readdir")
  <2>2. q.pc = "readdir" /\ q.op = "PROPFIND" /\ q.path = r.path BY <1>8, <1>13 DEF Dav!Asks
  <2> HIDE DEF q
  <2>3. Suits(q, r.path, <<>>) BY <2>2 DEF Suits, Target, Before
  <2> QED BY <1>2, <1>4, <1>5, <1>13, <2>1, <2>3, AskGoes DEF q
<1>14. CASE r.op \in {"GET", "COPY"} /\ a.exists /\ ~a.dir /\ Dav!ReadMore(i, found)
  <2>1. Source(found) BY <1>2, <1>6, <1>14 DEF Source
  <2>2. found.size \in Nat /\ found.at <= found.size BY <1>2, <1>4, <1>5 DEF Drafts
  <2>3. CASE r.op = "COPY" BY <1>2, <1>3, <1>4, <1>14, <2>1, <2>2, <2>3, CopyGoes
  <2>4. CASE r.op = "GET"
    <3>1. phone[r.path].data \in Bytes BY <1>2, <2>1, SourceIs
    <3>2. Start(phone[r.path].data, 0) = <<>> BY <1>5, <3>1, BytesIs, FrontIs
    <3> QED BY <1>2, <1>3, <1>4, <1>14, <2>1, <2>2, <2>4, <3>2, GetGoes
  <2> QED BY <1>14, <2>3, <2>4
<1>15. CASE r.op = "COPY" /\ a.exists /\ a.dir /\ Dav!Ask(i, found, "mkdir", r.dest, <<>>)
  <2>1. MayAsk(found, "mkdir") BY <1>2, <1>15 DEF MayAsk, Dav!Asks, Ways
  <2> DEFINE q == Asked(found, "mkdir")
  <2>2. q.pc = "mkdir" /\ q.op = "COPY" /\ q.path = r.path /\ q.dest = r.dest
    BY <1>8, <1>15 DEF Dav!Asks
  <2> HIDE DEF q
  <2>3. Suits(q, r.dest, <<>>) BY <1>6, <1>15, <2>2 DEF Suits, Target, Before
  <2> QED BY <1>2, <1>4, <1>5, <1>15, <2>1, <2>3, AskGoes DEF q
<1> QED BY <1>7, <1>9, <1>10, <1>11, <1>12, <1>13, <1>14, <1>15

LEMMA ReadAnswerGoes ==
    ASSUME FileTypes, NEW i \in Nat, NEW r \in Requests, r.pc = "read", r.path \in Paths,
           r.dest \in Paths, NEW a, Says(a), Answered(r, a), Dav!AfterRead(i, r, a)
    PROVE  Goes(i)
<1>1. OnPaths(r) /\ r \in Drafts /\ r.op \in {"GET", "COPY"} BY OnPathsIs, WaysAre
<1>2. /\ Before(r) /\ r.at < r.size /\ r.at \in Nat /\ r.size \in Nat /\ r.size <= Chunks
      /\ Chunks \in Nat /\ Dav!FileConstants /\ r.status = 0 /\ r.first \in BOOLEAN
      /\ r.got \in Bytes
  BY <1>1 DEF Answered, Requests, Drafts, FileTypes, Dav!FileConstants, OnPaths
<1>3. Source(r) BY <1>1 DEF Answered, Before, Copies
<1>4. phone[r.path].data \in Bytes /\ Len(phone[r.path].data) = r.size BY <1>3, SourceIs
<1> DEFINE x == phone[r.path].data[r.at + 1]
<1>5. x \in Pieces
  <2>1. r.at + 1 \in 1..Len(phone[r.path].data) BY <1>2, <1>4
  <2> QED BY <1>2, <1>4, <2>1, BytesIs
<1>6. a.data = <<x>> /\ Len(a.data) = 1 /\ a.data \in Bits /\ a.data # <<>>
      /\ (a.eof <=> r.at + 1 >= r.size)
  <2>1. a.data = <<x>> /\ (a.eof <=> r.at + 1 >= r.size) BY DEF Answered
  <2> HIDE DEF x
  <2> QED BY <1>5, <2>1, OnePiece
<1> HIDE DEF x
<1> DEFINE last == [r EXCEPT !.eof = a.eof \/ a.data = <<>>]
           q == [last EXCEPT !.at = @ + Len(a.data), !.got = @ \o a.data]
<1>7. /\ last \in Drafts /\ last.status = 0 /\ last.op = r.op /\ last.at = r.at
      /\ last.got = r.got /\ last.dest = r.dest /\ last.path = r.path /\ last.first = r.first
      /\ last.size = r.size /\ last.eof = (a.eof \/ a.data = <<>>)
  <2>1. (a.eof \/ a.data = <<>>) \in BOOLEAN OBVIOUS
  <2> QED BY <1>1, <1>2, <2>1 DEF Drafts
<1>8. last.eof <=> r.at + 1 >= r.size BY <1>6, <1>7
<1>9. \/ r.op = "GET" /\ Dav!ReadMore(i, q)
      \/ r.op = "COPY" /\ Dav!Ask(i, last, "write", r.dest, a.data)
  BY <1>1, <1>6 DEF Dav!AfterRead
<1>10. CASE r.op = "GET" /\ Dav!ReadMore(i, q)
  <2>1. r.got = Start(phone[r.path].data, r.at) BY <1>2, <1>10 DEF Before
  <2>2. r.got \o a.data = Start(phone[r.path].data, r.at + 1)
    BY <1>2, <1>4, <1>6, <2>1, FrontGrows DEF x
  <2>3. /\ Start(phone[r.path].data, r.at + 1) \in Seq(Pieces)
        /\ Len(Start(phone[r.path].data, r.at + 1)) = r.at + 1
    BY <1>2, <1>4, FrontIs
  <2>4. r.at + 1 \in 0..Chunks /\ r.at + 1 <= r.size BY <1>2
  <2>5. q = [[last EXCEPT !.at = r.at + 1] EXCEPT !.got = r.got \o a.data] BY <1>6, <1>7 DEF Drafts
  <2>6. PICK g \in Bytes : g = r.got \o a.data /\ Len(g) = r.at + 1 BY <2>2, <2>3, <2>4 DEF Bytes
  <2>7. q = [[last EXCEPT !.at = r.at + 1] EXCEPT !.got = g] BY <2>5, <2>6
  <2> HIDE DEF last, q
  <2>8. /\ q \in Drafts /\ q.status = 0 /\ q.op = r.op /\ q.at = r.at + 1 /\ q.got = g
        /\ q.path = r.path /\ q.dest = r.dest /\ q.size = r.size /\ q.eof = last.eof
    BY <1>7, <2>4, <2>6, <2>7 DEF Drafts
  <2>9. OnPaths(q) /\ Source(q) BY <1>3, <2>8 DEF OnPaths, Source
  <2>10. q.eof => q.at >= q.size BY <1>8, <2>8
  <2> QED BY <1>10, <2>2, <2>4, <2>6, <2>8, <2>9, <2>10, GetGoes
<1>11. CASE r.op = "COPY" /\ Dav!Ask(i, last, "write", r.dest, a.data)
  <2> HIDE DEF last
  <2>1. MayAsk(last, "write") BY <1>7, <1>11 DEF MayAsk, Dav!Asks, Ways
  <2> DEFINE w == Asked(last, "write")
  <2>2. /\ w.pc = "write" /\ w.op = "COPY" /\ w.path = r.path /\ w.dest = r.dest /\ w.at = r.at
        /\ w.first = r.first /\ w.eof = last.eof /\ w.size = r.size
    BY <1>7, <1>11, AskedIs DEF Dav!Asks
  <2> HIDE DEF w
  <2>3. Copies(r) /\ (~r.first => Holds(r.dest, Start(phone[r.path].data, r.at)))
    BY <1>2, <1>11 DEF Before
  <2>4. Copies(w) BY <1>2, <1>3, <1>8, <2>2, <2>3 DEF Copies, Source
  <2>5. Before(w) BY <2>2, <2>3, <2>4 DEF Before
  <2>6. Suits(w, r.dest, a.data) BY <1>2, <1>6, <2>2, <2>5 DEF Suits, Target, x
  <2>7. last.at + Len(a.data) <= Chunks BY <1>2, <1>6, <1>7
  <2> QED BY <1>2, <1>6, <1>7, <1>11, <2>1, <2>6, <2>7, AskGoes DEF w
<1> QED BY <1>9, <1>10, <1>11

LEMMA WriteAnswerGoes ==
    ASSUME FileTypes, NEW i \in Nat, NEW r \in Requests, r.pc = "write", r.path \in Paths,
           r.dest \in Paths, NEW a, Answered(r, a), Dav!AfterWrite(i, r)
    PROVE  Goes(i)
<1>1. OnPaths(r) /\ r \in Drafts /\ r.op \in {"PUT", "COPY"} BY OnPathsIs, WaysAre
<1>2. /\ r.at \in 0..Chunks /\ r.size \in 0..Chunks /\ r.body \in Bytes /\ Chunks \in Nat
      /\ Dav!FileConstants /\ r.at \in Nat /\ r.size \in Nat /\ r.eof \in BOOLEAN /\ r.status = 0
      /\ r.path \in Paths /\ r.dest \in Paths
  BY <1>1 DEF Drafts, FileTypes, Dav!FileConstants, OnPaths
<1>3. PICK n : n = Grown(r.at, IF r.op = "PUT" THEN Len(r.body) ELSE r.size) OBVIOUS
<1>4. n \in 0..Chunks /\ n \in Nat BY <1>2, <1>3, BytesIs DEF Grown
<1> DEFINE q == [r EXCEPT !.first = FALSE, !.at = n]
<1>5. /\ q \in Drafts /\ q.status = 0 /\ q.op = r.op /\ q.path = r.path /\ q.dest = r.dest
      /\ q.body = r.body /\ q.size = r.size /\ q.eof = r.eof /\ q.at = n /\ ~q.first
  BY <1>1, <1>2, <1>4 DEF Drafts
<1>6. IF r.op = "PUT" THEN Dav!PutMore(i, q) ELSE Dav!ReadMore(i, q)
  <2>1. q = [r EXCEPT !.first = FALSE,
               !.at = IF @ < (IF r.op = "PUT" THEN Len(r.body) ELSE r.size) THEN @ + 1 ELSE @]
    BY <1>1, <1>3 DEF Grown, Drafts
  <2> QED BY <2>1 DEF Dav!AfterWrite
<1> HIDE DEF q
<1>7. OnPaths(q) BY <1>2, <1>5 DEF OnPaths
<1>8. CASE r.op = "PUT"
  <2>1. /\ r.at < Len(r.body) \/ (r.body = <<>> /\ r.at = 0)
        /\ Holds(r.path, Start(r.body, n))
    BY <1>3, <1>8 DEF Answered
  <2>2. n <= Len(r.body) BY <1>2, <1>3, <1>8, <2>1, BytesIs DEF Grown
  <2> QED BY <1>5, <1>6, <1>7, <1>8, <2>1, <2>2, PutGoes
<1>9. CASE r.op = "COPY"
  <2>1. Copies(r) /\ Holds(r.dest, Start(phone[r.path].data, n)) BY <1>3, <1>9 DEF Answered
  <2>2. n = Grown(r.at, r.size) BY <1>3, <1>9
  <2>3. n <= r.size BY <1>2, <2>1, <2>2 DEF Grown, Copies
  <2>4. r.eof => n >= r.size BY <1>2, <2>1, <2>2 DEF Grown, Copies
  <2>5. Source(q) BY <1>5, <2>1 DEF Copies, Source
  <2> QED BY <1>5, <1>6, <1>7, <1>9, <2>1, <2>3, <2>4, <2>5, CopyGoes
<1> QED BY <1>1, <1>8, <1>9

LEMMA AfterGoes ==
    ASSUME FileTypes, NEW i \in Nat, NEW r \in Requests, r.pc # "done", r.path \in Paths,
           r.dest \in Paths, NEW a, Says(a), a.ok => Answered(r, a), Dav!After(i, r, a)
    PROVE  Goes(i)
<1>1. OnPaths(r) /\ r \in Drafts /\ r.op \in Dav!Ops /\ r.pc \in Ways(r.op) BY OnPathsIs
<1>2. CASE Dav!Fail(i, r) BY <1>1, <1>2, FailGoes
<1>3. CASE a.ok /\ r.pc \in {"readdir", "mkdir", "delete", "rename"}
  <2>1. PICK status \in Statuses \ {0} :
           /\ Dav!End(i, r, status)
           /\ r.pc = "readdir" => status = 207
    BY <1>3, CreatedIs DEF Dav!After, Statuses
  <2>2. /\ r.pc = "mkdir" => r.op \in {"MKCOL", "COPY"}
        /\ r.pc = "delete" => r.op = "DELETE"
        /\ r.pc = "rename" => r.op = "MOVE"
    BY <1>1, WaysAre
  <2>3. CASE r.pc = "readdir"
    <3>1. ~Succeeded(Stopped(r, status)) BY <1>1, <2>1, <2>3, StoppedIs DEF Succeeded
    <3> QED BY <1>1, <2>1, <3>1, EndGoes
  <2>4. CASE r.pc = "mkdir"
    <3>1. r.op = "COPY" =>
            {r.path, r.dest} \subseteq DOMAIN phone /\ phone[r.dest] = phone[r.path]
      BY <1>3, <2>4 DEF Answered
    <3>2. Claims(Stopped(r, status)) BY <1>1, <2>1, <2>2, <2>4, <3>1, StoppedIs DEF Claims
    <3> QED BY <1>1, <2>1, <3>2, EndGoes
  <2>5. CASE r.pc \in {"delete", "rename"}
    <3>1. r.path \notin DOMAIN phone BY <1>3, <2>5 DEF Answered
    <3>2. r.op \in {"MOVE", "DELETE"} BY <2>2, <2>5
    <3>3. Claims(Stopped(r, status)) BY <1>1, <2>1, <3>1, <3>2, StoppedIs DEF Claims
    <3> QED BY <1>1, <2>1, <3>3, EndGoes
  <2> QED BY <1>3, <2>3, <2>4, <2>5
<1> QED BY <1>2, <1>3, StatGoes, ReadAnswerGoes, WriteAnswerGoes DEF Dav!After

--------------------
(* The phone does what the message of the last request says. *)
LEMMA ServedWrite ==
    ASSUME FileTypes, NEW m \in Messages, m.ask = "write", Dav!PhoneAnswer(m).ok,
           phone' = Dav!PhoneAfter(m), NEW s \in Bytes, NEW n \in Nat, m.at = n,
           n < Len(s) \/ (Len(s) = 0 /\ n = 0),
           m.data = IF n < Len(s) THEN <<s[n + 1]>> ELSE <<>>,
           m.truncate => n = 0, ~m.truncate => Holds(m.path, Start(s, n))
    PROVE  /\ m.path \in DOMAIN phone' /\ phone'[m.path] = Dav!File(Start(s, Grown(n, Len(s))))
           /\ DOMAIN phone \subseteq DOMAIN phone'
           /\ \A p \in DOMAIN phone : p # m.path => phone'[p] = phone[p]
<1>1. /\ m.path \in Paths /\ Dav!FileConstants /\ Len(s) \in Nat /\ Chunks \in Nat
      /\ m.truncate \in BOOLEAN /\ Len(s) <= Chunks
  BY BytesIs DEF Messages, FileTypes, Dav!FileConstants
<1>2. Len(s) = 0 => s = <<>> BY <1>1, EmptySeq DEF Bytes
<1> DEFINE g == Start(s, Grown(n, Len(s)))
<1>3. Grown(n, Len(s)) \in Nat /\ Grown(n, Len(s)) <= Len(s) BY <1>1 DEF Grown
<1>4. g \in Bytes
  <2>1. g \in Seq(Pieces) /\ Len(g) = Grown(n, Len(s)) BY <1>1, <1>3, FrontIs
  <2> QED BY <1>1, <1>3, <2>1 DEF Bytes
<1>5. phone' = Dav!With(m.path, Dav!File(g))
  <2>1. CASE m.truncate
    <3>1. m.data = g
      <4>1. CASE n < Len(s)
        <5>1. Start(s, 0) \o <<s[1]>> = Start(s, 1) /\ Start(s, 0) = <<>>
          BY <1>1, <2>1, <4>1, FrontGrows, FrontIs
        <5>2. s[1] \in Pieces
          <6>1. 1 \in 1..Len(s) BY <1>1, <2>1, <4>1
          <6> QED BY <1>1, <6>1, BytesIs
        <5>3. <<s[1]>> \in Seq(Pieces) BY <5>2
        <5>4. <<>> \o <<s[1]>> = <<s[1]>> BY <5>3, ConcatEmptySeq
        <5>5. Grown(n, Len(s)) = 1 BY <2>1, <4>1 DEF Grown
        <5>6. m.data = <<s[1]>> BY <2>1, <4>1
        <5> QED BY <5>1, <5>4, <5>5, <5>6
      <4>2. CASE ~(n < Len(s))
        <5>1. s = <<>> /\ Grown(n, Len(s)) = 0 BY <1>2, <2>1, <4>2 DEF Grown
        <5>2. g = <<>> BY <1>1, <5>1, FrontIs
        <5> QED BY <4>2, <5>2
      <4> QED BY <4>1, <4>2
    <3> HIDE DEF g
    <3> QED BY <2>1, <3>1 DEF Dav!PhoneAfter
  <2>2. CASE ~m.truncate
    <3>1. m.path \in DOMAIN phone /\ phone[m.path].data = Start(s, n) BY <2>2 DEF Holds, Dav!File
    <3>2. m.at <= Len(phone[m.path].data) BY <2>2 DEF Dav!PhoneAnswer
    <3>3. phone' = Dav!With(m.path, Dav!File(Rewritten(phone[m.path].data, m)))
      BY <2>2 DEF Dav!PhoneAfter, Rewritten
    <3>4. CASE n < Len(s)
      <4>1. Rewritten(Start(s, n), m) = Start(s, n + 1) BY <1>1, <3>4, WriteGrows
      <4>2. Grown(n, Len(s)) = n + 1 BY <3>4 DEF Grown
      <4> QED BY <3>1, <3>3, <4>1, <4>2
    <3>5. CASE ~(n < Len(s))
      <4>1. s = <<>> /\ n = 0 /\ Grown(n, Len(s)) = 0 BY <1>2, <3>5 DEF Grown
      <4>2. Start(s, n) = <<>> /\ g = <<>> BY <1>1, <4>1, FrontIs
      <4>3. m.data = <<>> BY <3>5
      <4>4. SubSeq(<<>>, 1, 0) = <<>> /\ SubSeq(<<>>, 2, 0) = <<>> BY SubSeqEmpty
      <4>5. <<>> \o <<>> = <<>> BY ConcatEmptySeq
      <4>6. Rewritten(<<>>, m) = <<>> BY <4>1, <4>3, <4>4, <4>5 DEF Rewritten
      <4> QED BY <3>1, <3>3, <4>2, <4>6
    <3> QED BY <3>4, <3>5
  <2> QED BY <2>1, <2>2
<1>6. Dav!File(g) \in Objects BY <1>4 DEF Objects, Dav!File
<1> HIDE DEF g
<1>7. /\ DOMAIN phone' = DOMAIN phone \union {m.path} /\ phone'[m.path] = Dav!File(g)
      /\ \A p \in DOMAIN phone : p # m.path => phone'[p] = phone[p]
  <2>1. PICK f \in Objects : f = Dav!File(g) BY <1>6
  <2>2. PICK p \in Paths : p = m.path BY <1>1
  <2>3. PICK w : w = Dav!With(p, f) OBVIOUS
  <2>4. /\ DOMAIN w = DOMAIN phone \union {p} /\ w[p] = f
        /\ \A q \in DOMAIN phone : q # p => w[q] = phone[q]
    BY <2>3, WithTypes
  <2> QED BY <1>5, <2>1, <2>2, <2>3, <2>4
<1> QED BY <1>7 DEF g

LEMMA ServedIs ==
    ASSUME FileTypes, NEW r \in Requests, r.pc # "done", r.path \in Paths, r.dest \in Paths,
           NEW m \in Messages, Matches(r, m), Before(r), NEW a, a = Dav!PhoneAnswer(m), a.ok,
           phone' = Dav!PhoneAfter(m)
    PROVE  Answered(r, a)'
<1>1. OnPaths(r) /\ r \in Drafts /\ r.op \in Dav!Ops /\ r.pc \in Ways(r.op) BY OnPathsIs
<1>2. /\ m.ask = r.pc /\ m.at = r.at /\ m.truncate = r.first /\ m.dest = r.dest
      /\ m.path = Target(r)
  BY DEF Matches
<1>3. /\ r.at \in Nat /\ r.size \in Nat /\ r.body \in Bytes /\ Dav!FileConstants
      /\ r.op \in {"MOVE", "COPY"} => r.dest # r.path
      /\ r.first \in BOOLEAN /\ Chunks \in Nat
  BY <1>1 DEF Drafts, FileTypes, Dav!FileConstants
<1>4. CASE r.pc = "stat"
  <2>1. phone' = phone /\ Early(r) BY <1>2, <1>4 DEF Dav!PhoneAfter, Before
  <2>2. ASSUME r.op # "MOVE"
        PROVE  /\ a.exists <=> r.path \in DOMAIN phone
               /\ a.exists => a.dir = phone[r.path].dir /\ a.size = Len(phone[r.path].data)
    <3>1. m.path = r.path BY <1>2, <1>4, <2>2 DEF Target
    <3>2. r.path \in DOMAIN phone => phone[r.path].dir \in BOOLEAN BY DiskIs
    <3>3. /\ a.exists = (r.path \in DOMAIN phone)
          /\ a.dir = (r.path \in DOMAIN phone /\ phone[r.path].dir)
          /\ a.size = Len(IF r.path \in DOMAIN phone THEN phone[r.path].data ELSE <<>>)
      BY <3>1 DEF Dav!PhoneAnswer
    <3> QED BY <3>2, <3>3
  <2> QED BY <1>4, <2>1, <2>2 DEF Answered, Early
<1>5. CASE r.pc = "read"
  <2>1. phone' = phone /\ m.path = r.path BY <1>2, <1>5 DEF Dav!PhoneAfter, Target
  <2>2. r.op \in {"GET", "COPY"} BY <1>1, <1>5, WaysAre
  <2>3. Source(r) BY <1>5, <2>2 DEF Before, Copies
  <2>4. r.at < r.size BY <1>5 DEF Requests
  <2>5. r.path \in DOMAIN phone /\ Len(phone[r.path].data) = r.size BY <2>3 DEF Source
  <2>6. /\ a.data = IF m.ask = "read" /\ m.at < Len(phone[r.path].data)
                    THEN <<phone[r.path].data[m.at + 1]>> ELSE <<>>
        /\ a.eof = (m.at + 1 >= Len(phone[r.path].data))
    BY <2>1, <2>5 DEF Dav!PhoneAnswer
  <2>7. a.data = <<phone[r.path].data[r.at + 1]>> /\ (a.eof <=> r.at + 1 >= r.size)
    BY <1>2, <1>5, <2>4, <2>5, <2>6
  <2>8. Before(r)' BY <2>1 DEF Before, Early, Holds, Copies, Source
  <2> QED BY <1>5, <2>1, <2>7, <2>8 DEF Answered
<1>6. CASE r.op = "PUT" /\ r.pc = "write"
  <2>1. /\ r.first => r.at = 0
        /\ r.at < Len(r.body) \/ (r.body = <<>> /\ r.first)
        /\ ~r.first => Holds(r.path, Start(r.body, r.at))
        /\ m.path = r.path
        /\ m.data = IF r.at < Len(r.body) THEN <<r.body[r.at + 1]>> ELSE <<>>
    BY <1>2, <1>6 DEF Before, Matches, Target
  <2>2. r.at < Len(r.body) \/ (Len(r.body) = 0 /\ r.at = 0) BY <2>1
  <2>3. /\ r.path \in DOMAIN phone'
        /\ phone'[r.path] = Dav!File(Start(r.body, Grown(r.at, Len(r.body))))
    BY <1>2, <1>3, <1>6, <2>1, <2>2, ServedWrite
  <2> QED BY <1>6, <2>1, <2>3 DEF Answered, Holds
<1>7. CASE r.op = "COPY" /\ r.pc = "write"
  <2>1. /\ Copies(r) /\ (~r.first => Holds(r.dest, Start(phone[r.path].data, r.at)))
        /\ m.path = r.dest
        /\ m.data = IF r.at < r.size THEN <<phone[r.path].data[r.at + 1]>> ELSE <<>>
    BY <1>2, <1>7 DEF Before, Matches, Target
  <2>2. PICK s \in Bytes : s = phone[r.path].data /\ Len(s) = r.size /\ r.path \in DOMAIN phone
    BY <2>1, SourceIs DEF Copies
  <2>3. (r.first => r.at = 0) /\ (r.at < r.size \/ (r.size = 0 /\ r.at = 0)) BY <2>1 DEF Copies
  <2>4. /\ r.dest \in DOMAIN phone' /\ phone'[r.dest] = Dav!File(Start(s, Grown(r.at, Len(s))))
        /\ DOMAIN phone \subseteq DOMAIN phone'
        /\ \A p \in DOMAIN phone : p # r.dest => phone'[p] = phone[p]
    BY <1>2, <1>3, <1>7, <2>1, <2>2, <2>3, ServedWrite
  <2>5. r.path \in DOMAIN phone' /\ phone'[r.path] = phone[r.path] BY <1>3, <1>7, <2>2, <2>4
  <2>6. Copies(r)' BY <2>1, <2>5 DEF Copies, Source
  <2>7. Holds(r.dest, Start(phone[r.path].data, Grown(r.at, r.size)))' BY <2>2, <2>4, <2>5 DEF Holds
  <2> QED BY <1>7, <2>6, <2>7 DEF Answered
<1>8. CASE r.pc = "mkdir"
  <2>1. r.op = "COPY" => r.path \in DOMAIN phone /\ phone[r.path].dir /\ m.path = r.dest
    BY <1>2, <1>8 DEF Before, Target
  <2>2. r.op = "COPY" => phone[r.path] = Dav!Dir
    <3>1. r.op = "COPY" => phone[r.path] \in Objects BY <2>1, DiskIs
    <3> QED BY <2>1, <3>1 DEF Objects, Dav!Dir
  <2>3. phone' = Dav!With(m.path, Dav!Dir) BY <1>2, <1>8 DEF Dav!PhoneAfter
  <2>4. Dav!Dir \in Objects BY <1>3, NoPieces DEF Dav!Dir, Objects
  <2>5. m.path \in Paths BY DEF Messages
  <2>6. /\ DOMAIN phone' = DOMAIN phone \union {m.path} /\ phone'[m.path] = Dav!Dir
        /\ \A p \in DOMAIN phone : p # m.path => phone'[p] = phone[p]
    <3>1. PICK f \in Objects : f = Dav!Dir BY <2>4
    <3>2. PICK p \in Paths : p = m.path BY <2>5
    <3>3. PICK w : w = Dav!With(p, f) OBVIOUS
    <3>4. /\ DOMAIN w = DOMAIN phone \union {p} /\ w[p] = f
          /\ \A q \in DOMAIN phone : q # p => w[q] = phone[q]
      BY <3>3, WithTypes
    <3> QED BY <2>3, <3>1, <3>2, <3>3, <3>4
  <2>7. r.op = "COPY" => {r.path, r.dest} \subseteq DOMAIN phone' /\ phone'[r.dest] = phone'[r.path]
    BY <1>3, <2>1, <2>2, <2>6
  <2> QED BY <1>8, <2>7 DEF Answered
<1>9. CASE r.pc = "delete"
  <2>1. phone' = Dav!Without(r.path) BY <1>2, <1>9 DEF Dav!PhoneAfter, Target
  <2>2. r.path \notin DOMAIN phone' BY <2>1 DEF Dav!Without
  <2> QED BY <1>9, <2>2 DEF Answered
<1>10. CASE r.pc = "rename"
  <2>1. r.op = "MOVE" BY <1>1, <1>10, WaysAre
  <2>2. m.path = r.path BY <1>2, <1>10, <2>1 DEF Target
  <2>3. DOMAIN phone' = (DOMAIN phone \ {r.path}) \union {r.dest}
    BY <1>2, <1>10, <2>2 DEF Dav!PhoneAfter
  <2>4. r.path \notin DOMAIN phone' BY <1>3, <2>1, <2>3
  <2> QED BY <1>10, <2>4 DEF Answered
<1>11. CASE r.pc = "readdir" BY <1>11 DEF Answered
<1>12. r.pc = "write" => r.op \in {"PUT", "COPY"} BY <1>1, WaysAre
<1>13. r.pc \in Dav!Asks BY <1>1 DEF Drafts
<1> QED BY <1>4, <1>5, <1>6, <1>7, <1>8, <1>9, <1>10, <1>11, <1>12, <1>13 DEF Dav!Asks

--------------------
(* What the server says of the last request stays true. *)
LEMMA LatestIs ==
    ASSUME FileTypes, reqs # <<>>
    PROVE  Len(reqs) \in DOMAIN reqs /\ Len(reqs) \in Nat /\ Latest \in Requests
<1>1. reqs \in Seq(Requests) BY DEF FileTypes
<1>2. Len(reqs) \in Nat /\ DOMAIN reqs = 1..Len(reqs) /\ Len(reqs) # 0 BY <1>1, EmptySeq
<1>3. Len(reqs) \in DOMAIN reqs BY <1>2
<1> QED BY <1>1, <1>2, <1>3 DEF Latest

LEMMA TurnedAlone ==
    ASSUME FileTypes, OthersDone, NEW i \in Dav!Running, Turns(i, reqs[i]), Alone'
    PROVE  Alone /\ i = Len(reqs) /\ Len(reqs') = Len(reqs) /\ Latest = reqs[i]
<1>1. PICK q \in Requests : reqs' = Dav!Set(i, q) /\ Alike(q, reqs[i]) BY DEF Turns
<1>2. i \in DOMAIN reqs /\ i \in 1..(Len(reqs) + 1) /\ reqs[i].pc # "done" BY RunningIs
<1>3. /\ DOMAIN reqs' = DOMAIN reqs /\ reqs'[i] = q /\ Len(reqs') = Len(reqs)
      /\ \A k \in DOMAIN reqs : k # i =>
            reqs'[k] = IF k \in Dav!Running THEN reqs[k] ELSE Dav!Over(reqs[k])
  BY <1>1, <1>2, SetIs
<1>4. reqs # <<>> BY <1>2
<1>5. Len(reqs) \in DOMAIN reqs /\ Latest \in Requests BY <1>4, LatestIs
<1>6. Latest' = reqs'[Len(reqs)] /\ Latest = reqs[Len(reqs)] BY <1>3 DEF Latest
<1>7. i = Len(reqs)
  <2> SUFFICES ASSUME i # Len(reqs) PROVE FALSE OBVIOUS
  <2>1. Dav!Over(Latest).alone = Latest.alone BY <1>5, OverIs DEF FileTypes
  <2>2. Latest.alone BY <1>3, <1>5, <1>6, <2>1 DEF Alone
  <2> QED BY <1>2, <1>4, <2>2 DEF OthersDone
<1> QED BY <1>1, <1>3, <1>4, <1>6, <1>7 DEF Alone, Alike

LEMMA LastGoes ==
    ASSUME FileTypes, NEW i \in DOMAIN reqs, i = Len(reqs), out = <<>>, back' = <<>>, phone' = phone,
           Goes(i)
    PROVE  LastIsTrue'
<1>1. PICK q \in Requests :
        /\ reqs' = Dav!Set(i, q)
        /\ \/ out' = out /\ (Succeeded(q) => Claims(q))
           \/ /\ q.pc # "done" /\ Before(q)
              /\ \E m \in Messages : m.id[1] = i /\ Matches(q, m) /\ out' = Append(out, m)
  BY DEF Goes
<1>2. Len(reqs) \in Nat /\ DOMAIN reqs = 1..Len(reqs) BY DEF FileTypes
<1>3. i \in 1..(Len(reqs) + 1) BY <1>2
<1>4. reqs'[i] = q /\ Len(reqs') = Len(reqs) BY <1>1, <1>3, SetIs
<1>5. Latest' = q /\ Len(reqs') = i BY <1>4 DEF Latest
<1>6. Answering' BY DEF Answering
<1>7. CASE out' = out /\ (Succeeded(q) => Claims(q))
  <2>1. out' = <<>> BY <1>7
  <2>2. Asking' BY <2>1 DEF Asking
  <2>3. Succeeded(q) => Claims(q)' BY <1>7 DEF Claims, Holds
  <2>4. Ended' BY <1>5, <2>1, <2>3 DEF Ended, Succeeded, Claims, Holds
  <2> QED BY <1>6, <2>2, <2>4 DEF LastIsTrue
<1>8. CASE /\ q.pc # "done" /\ Before(q)
           /\ \E m \in Messages : m.id[1] = i /\ Matches(q, m) /\ out' = Append(out, m)
  <2>1. PICK m \in Messages : m.id[1] = i /\ Matches(q, m) /\ out' = Append(out, m) BY <1>8
  <2>2. out' = <<m>> /\ DOMAIN out' = {1} /\ Len(out') = 1 /\ out'[1] = m BY <2>1
  <2>3. Matches(q, m)' BY <2>1 DEF Matches, Target
  <2>4. Before(q)' BY <1>8 DEF Before, Early, Holds, Copies, Source
  <2>5. Matches(Latest, out[1])' BY <1>5, <2>2, <2>3 DEF Matches, Target
  <2>6. Before(Latest)' BY <1>5, <2>4 DEF Before, Early, Holds, Copies, Source
  <2>7. Asking' BY <2>2, <2>5, <2>6 DEF Asking
  <2>8. Ended' BY <1>5, <1>8 DEF Ended, Succeeded
  <2> QED BY <1>6, <2>7, <2>8 DEF LastIsTrue
<1> QED BY <1>1, <1>7, <1>8

(* The last request is over, and did not succeed. *)
LEMMA LastStops ==
    ASSUME FileTypes, Alone, LastIsTrue, NEW i \in DOMAIN reqs, i = Len(reqs), NEW q \in Requests,
           reqs' = Dav!Set(i, q), q.pc = "done", ~Succeeded(q), out' = out, back' = back
    PROVE  LastIsTrue'
<1>1. Len(reqs) \in Nat /\ DOMAIN reqs = 1..Len(reqs) BY DEF FileTypes
<1>2. i \in 1..(Len(reqs) + 1) BY <1>1
<1>3. reqs'[i] = q /\ Len(reqs') = Len(reqs) BY <1>2, SetIs
<1>4. Latest' = q BY <1>3 DEF Latest
<1>5. Asking' BY <1>3, <1>4 DEF Asking, LastIsTrue, Mine
<1>6. Answering' BY <1>3, <1>4 DEF Answering, LastIsTrue, Mine
<1>7. Ended' BY <1>4 DEF Ended, Succeeded
<1> QED BY <1>5, <1>6, <1>7 DEF LastIsTrue

(* A failure of the last request. *)
LEMMA LastFails ==
    ASSUME FileTypes, Alone, LastIsTrue, NEW i \in DOMAIN reqs, i = Len(reqs),
           reqs[i].pc # "done", Dav!Fail(i, reqs[i]), back' = back
    PROVE  LastIsTrue'
<1>1. PICK r \in Drafts : r = reqs[i] BY DEF FileTypes, Requests
<1>2. PICK b \in BOOLEAN : b = (r.op = "GET" /\ r.pc = "read") OBVIOUS
<1> DEFINE d == [r EXCEPT !.cut = b]
           status == IF b THEN 200 ELSE 500
<1>3. d \in Drafts /\ d.cut = b /\ d.op = r.op BY DEF Drafts
<1>4. Dav!End(i, d, status) BY <1>1, <1>2 DEF Dav!Fail
<1>5. status \in Statuses \ {0} /\ status \in {200, 500} BY DEF Statuses
<1>6. status = 200 => b /\ r.op = "GET"
  <2>1. b => r.op = "GET" BY <1>2
  <2> QED BY <2>1
<1> HIDE DEF d, status
<1>7. /\ Stopped(d, status) \in Requests /\ Stopped(d, status).pc = "done"
      /\ ~Succeeded(Stopped(d, status))
  BY <1>3, <1>5, <1>6, StoppedIs DEF Succeeded
<1>8. reqs' = Dav!Set(i, Stopped(d, status)) /\ out' = out BY <1>4 DEF Dav!End, Stopped
<1> QED BY <1>7, <1>8, LastStops

LEMMA TurnedLast ==
    ASSUME FileTypes, OthersDone, Turned, Alone', NEW i \in Dav!Running
    PROVE  Alone /\ i = Len(reqs) /\ Latest = reqs[i] /\ Len(reqs') = Len(reqs)
<1>1. PICK j \in Dav!Running : Turns(j, reqs[j]) BY DEF Turned
<1>2. Alone /\ j = Len(reqs) /\ Latest = reqs[j] /\ Len(reqs') = Len(reqs) BY <1>1, TurnedAlone
<1>3. i = j BY <1>2, RunningIs DEF OthersDone, Alone
<1> QED BY <1>2, <1>3

LEMMA TimeoutTruth ==
    ASSUME FileTypes, OthersDone, LastIsTrue, NEW i, Dav!Timeout(i)
    PROVE  LastIsTrue'
<1> SUFFICES ASSUME Alone' PROVE LastIsTrue' BY DEF LastIsTrue
<1>1. i \in Dav!Running /\ Dav!Fail(i, reqs[i]) /\ back' = back BY DEF Dav!Timeout
<1>2. Turned BY TimeoutTypes
<1>3. Alone /\ i = Len(reqs) BY <1>1, <1>2, TurnedLast
<1> QED BY <1>1, <1>3, RunningIs, LastFails

LEMMA MediaTruth ==
    ASSUME FileTypes, OthersDone, NEW i, Dav!MediaStat(i) \/ \E ok \in BOOLEAN : Dav!MediaRead(i, ok)
    PROVE  ~Alone'
<1> SUFFICES ASSUME Alone' PROVE FALSE OBVIOUS
<1>1. i \in Dav!Running /\ ~Dav!OnPhone(i) BY DEF Dav!MediaStat, Dav!MediaRead, Dav!OnMedia
<1>2. Turned BY MediaTypes
<1>3. Alone /\ Latest = reqs[i] BY <1>1, <1>2, TurnedLast
<1> QED BY <1>1, <1>3 DEF Alone, Dav!OnPhone, FileTypes, Dav!FileConstants

LEMMA ResponseTruth ==
    ASSUME FileTypes, OthersDone, LastIsTrue, Dav!HandleResponse
    PROVE  LastIsTrue'
<1> SUFFICES ASSUME Alone' PROVE LastIsTrue' BY DEF LastIsTrue
<1> DEFINE a == Head(back)
           i == a.id[1]
<1>1. /\ back # <<>> /\ back' = Tail(back) /\ UNCHANGED <<phone, up, cuts, sized>>
      /\ IF Dav!Awaits(i, a.id) THEN Dav!After(i, reqs[i], a) ELSE UNCHANGED <<out, reqs, tfs>>
  BY DEF Dav!HandleResponse
<1>2. back \in Seq(Replies) BY DEF FileTypes
<1>3. /\ a = back[1] /\ a \in Replies /\ 1 \in DOMAIN back /\ Len(back') = Len(back) - 1
      /\ back' \in Seq(Replies) /\ Len(back) \in Nat
      /\ \A k \in DOMAIN back' : k \in Nat /\ k + 1 \in DOMAIN back /\ back'[k] = back[k + 1]
  BY <1>1, <1>2, FileTail
<1>4. Says(a) BY <1>3 DEF Replies, Says
<1>5. a.id = <<a.id[1], a.id[2]>> BY <1>3 DEF Replies
<1> HIDE DEF a
<1>6. CASE Dav!Awaits(i, a.id)
  <2>1. i \in Dav!Running /\ <<i, reqs[i].n>> = a.id BY <1>6 DEF Dav!Awaits
  <2>2. Dav!After(i, reqs[i], a) BY <1>1, <1>6
  <2>3. i \in Nat /\ reqs[i] \in Requests /\ reqs[i].pc # "done" /\ i \in DOMAIN reqs
    BY <2>1, RunningIs
  <2>4. Turns(i, reqs[i]) BY <1>4, <2>2, <2>3, AfterTurns
  <2>5. Alone /\ i = Len(reqs) /\ Latest = reqs[i] BY <2>1, <2>4, TurnedAlone
  <2>6. Mine(back[1]) BY <1>3, <2>5 DEF Mine
  <2>7. /\ 1 = Len(back) /\ out = <<>>
        /\ back[1].ok => Answered(Latest, back[1])
    BY <1>3, <2>3, <2>5, <2>6 DEF LastIsTrue, Answering
  <2>8. back' = <<>>
    <3>1. Len(back) = 1 BY <2>7
    <3>2. Len(back') = Len(back) - 1 /\ back' \in Seq(Replies) BY <1>3
    <3>3. Len(back') = 0 BY <3>1, <3>2
    <3> QED BY <3>2, <3>3, EmptySeq
  <2>9. a.ok => Answered(reqs[i], a) BY <1>3, <2>5, <2>7
  <2>10. reqs[i].path \in Paths /\ reqs[i].dest \in Paths BY <2>5 DEF Alone
  <2>11. Goes(i) BY <1>4, <2>2, <2>3, <2>9, <2>10, AfterGoes
  <2> QED BY <1>1, <2>3, <2>5, <2>7, <2>8, <2>11, LastGoes
<1>7. CASE ~Dav!Awaits(i, a.id)
  <2>1. reqs' = reqs /\ out' = out /\ phone' = phone BY <1>1, <1>7
  <2>2. Alone /\ Latest' = Latest /\ Len(reqs') = Len(reqs) BY <2>1 DEF Alone, Latest
  <2>3. Asking /\ Answering /\ Ended BY <2>2 DEF LastIsTrue
  <2>4. \A k \in DOMAIN back' : Mine(back[k])' <=> Mine(back[k + 1]) BY <1>3, <2>2 DEF Mine
  <2>5. \A k \in DOMAIN out : Mine(out[k])' <=> Mine(out[k]) BY <2>1, <2>2 DEF Mine
  <2>6. Asking'
    <3> SUFFICES ASSUME NEW k \in DOMAIN out, Mine(out[k])
                 PROVE  /\ k = Len(out) /\ \A l \in DOMAIN back' : ~Mine(back[l])'
                        /\ Latest.pc # "done" =>
                              /\ Matches(Latest, out[k])' /\ Before(Latest)'
                              /\ Latest.pc # "stat" /\ Latest.op # "MKCOL" => k = 1
      BY <2>1, <2>2, <2>5 DEF Asking, Mine
    <3>1. /\ k = Len(out) /\ \A l \in DOMAIN back : ~Mine(back[l])
          /\ Latest.pc # "done" =>
                /\ Matches(Latest, out[k]) /\ Before(Latest)
                /\ Latest.pc # "stat" /\ Latest.op # "MKCOL" => k = 1
      BY <2>3 DEF Asking
    <3>2. \A l \in DOMAIN back' : ~Mine(back[l])' BY <1>3, <2>4, <3>1
    <3>3. Matches(Latest, out[k]) => Matches(Latest, out[k])' BY <2>1, <2>2 DEF Matches, Target
    <3>4. Before(Latest) => Before(Latest)' BY <2>1, <2>2 DEF Before, Early, Holds, Copies, Source
    <3> QED BY <3>1, <3>2, <3>3, <3>4
  <2>7. Answering'
    <3> SUFFICES ASSUME NEW k \in DOMAIN back', NEW x, x = back[k + 1], Mine(x)
                 PROVE  /\ k = Len(back') /\ out' = <<>>
                        /\ Latest.pc # "done" =>
                              x.id[2] = Latest.n /\ (x.ok => Answered(Latest, x)')
      BY <1>3, <2>1, <2>2, <2>4 DEF Answering
    <3>1. /\ k + 1 = Len(back) /\ out = <<>>
          /\ Latest.pc # "done" => x.id[2] = Latest.n /\ (x.ok => Answered(Latest, x))
      BY <1>3, <2>3 DEF Answering
    <3>2. Answered(Latest, x) => Answered(Latest, x)'
      BY <2>1, <2>2 DEF Answered, Before, Early, Holds, Copies, Source
    <3> QED BY <1>3, <2>1, <3>1, <3>2
  <2>8. Ended' BY <2>1, <2>2, <2>3 DEF Ended, Succeeded, Claims, Holds
  <2> QED BY <2>6, <2>7, <2>8 DEF LastIsTrue
<1> QED BY <1>6, <1>7

(* The first message of a request. *)
LEMMA SendPc ==
    ASSUME FileTypes, NEW i \in Nat, NEW r \in Drafts, NEW ask, NEW p, NEW data,
           Dav!Send(i, r, ask, p, data)
    PROVE  reqs'[i].pc \in {"done", ask} /\ reqs'[i].op = r.op /\ (ask # "done" => ~Succeeded(reqs'[i]))
<1>1. PICK b \in BOOLEAN : b = (r.op = "GET" /\ r.pc = "read") OBVIOUS
<1>2. PICK q : /\ reqs' = Dav!Set(i, q)
               /\ \/ q = [[r EXCEPT !.cut = b] EXCEPT !.pc = "done", !.status = IF b THEN 200 ELSE 500]
                  \/ q = [r EXCEPT !.pc = ask, !.n = @ + 1]
  BY <1>1 DEF Dav!Send, Dav!Fail, Dav!End
<1>3. reqs'[i] = q BY <1>2 DEF Dav!Set
<1>4. q.pc \in {"done", ask} /\ q.op = r.op BY <1>2 DEF Drafts
<1>5. CASE q = [[r EXCEPT !.cut = b] EXCEPT !.pc = "done", !.status = IF b THEN 200 ELSE 500]
  <2>1. q.cut = b /\ q.status = IF b THEN 200 ELSE 500 BY <1>5 DEF Drafts
  <2>2. b => r.op = "GET" BY <1>1
  <2> QED BY <1>3, <1>4, <2>1, <2>2 DEF Succeeded
<1>6. CASE q = [r EXCEPT !.pc = ask, !.n = @ + 1]
  <2>1. q.pc = ask BY <1>6 DEF Drafts
  <2> QED BY <1>3, <1>4, <2>1 DEF Succeeded
<1> QED BY <1>2, <1>5, <1>6

LEMMA BeginTruth ==
    ASSUME FileTypes, NEW op \in Dav!Ops, NEW p \in Names, NEW d \in Names,
           NEW body \in Dav!Files(Len(reqs) + 1), Dav!Begin(op, p, d, body)
    PROVE  LastIsTrue'
<1> SUFFICES ASSUME Alone' PROVE LastIsTrue' BY DEF LastIsTrue
<1>1. PICK r : Opens(r, op, p, d) BY BeginIs
<1>2. PICK i : i = Len(reqs) + 1 OBVIOUS
<1>3. /\ i \in Nat /\ i \in 1..(Len(reqs) + 1) /\ Dav!FileConstants /\ Chunks \in Nat
      /\ i \notin DOMAIN reqs /\ \A k \in DOMAIN reqs : k # i
  BY <1>2 DEF FileTypes, Dav!FileConstants
<1>4. p \in Paths /\ d \in Paths
  <2>1. PICK t : Turns(i, t) /\ t.path = p /\ t.dest = d BY <1>2, BeginTypes DEF Begun
  <2>2. PICK q \in Requests : reqs' = Dav!Set(i, q) /\ q.path = p /\ q.dest = d
    BY <2>1 DEF Turns, Alike
  <2>3. reqs'[i] = q /\ Len(reqs') = i BY <1>2, <1>3, <2>2, SetIs
  <2> QED BY <2>2, <2>3 DEF Alone, Latest
<1>5. /\ r \in Drafts /\ r.status = 0 /\ r.op = op /\ r.at = 0 /\ r.path = p /\ r.dest = d
      /\ Early(r) /\ phone' = phone /\ back' = back
  BY <1>1 DEF Opens, Early
<1>6. <<>> \in Bits /\ r.at + Len(<<>>) <= Chunks BY <1>3, <1>5, NoPieces
<1>7. /\ Goes(i) /\ (reqs'[i].pc \in {"done", "stat"} \/ reqs'[i].op = "MKCOL")
      /\ ~Succeeded(reqs'[i])
  <2>1. CASE op = "MKCOL"
    <3>1. MayAsk(r, "mkdir") BY <1>5, <2>1 DEF MayAsk, Dav!Asks, Ways
    <3>2. Dav!Send(i, r, "mkdir", p, <<>>)
      BY <1>1, <1>2, <1>3, <1>4, <2>1 DEF Opens, Dav!Ask, Dav!FileConstants
    <3> DEFINE q == Asked(r, "mkdir")
    <3>3. q.pc = "mkdir" /\ q.op = "MKCOL" /\ q.path = p BY <1>5, <2>1, AskedIs DEF Dav!Asks
    <3> HIDE DEF q
    <3>4. Suits(q, p, <<>>) BY <3>3 DEF Suits, Target, Before
    <3>5. Goes(i) BY <1>3, <1>4, <1>5, <1>6, <3>1, <3>2, <3>4, SendGoes DEF q
    <3> QED BY <1>3, <1>5, <2>1, <3>2, <3>5, SendPc
  <2>2. CASE op # "MKCOL"
    <3>1. MayAsk(r, "stat") BY <1>5, <2>2, WaysAre DEF MayAsk, Dav!Asks
    <3>2. PICK t \in Paths : /\ t = (IF op = "MOVE" THEN d ELSE p)
                             /\ Dav!Send(i, r, "stat", t, <<>>)
      BY <1>1, <1>2, <1>3, <1>4, <2>2 DEF Opens, Dav!Ask, Dav!FileConstants
    <3> DEFINE q == Asked(r, "stat")
    <3>3. /\ q.pc = "stat" /\ q.op = op /\ q.path = p /\ q.dest = d /\ q.at = r.at
          /\ q.first = r.first /\ q.eof = r.eof /\ q.got = r.got
      BY <1>5, AskedIs DEF Dav!Asks
    <3> HIDE DEF q
    <3>4. Suits(q, t, <<>>) BY <1>5, <3>2, <3>3 DEF Suits, Target, Before, Early
    <3>5. Goes(i) BY <1>3, <1>4, <1>5, <1>6, <3>1, <3>2, <3>4, SendGoes DEF q
    <3> QED BY <1>3, <3>2, <3>5, <1>5, SendPc
  <2> QED BY <2>1, <2>2
<1>8. PICK q \in Requests :
        /\ reqs' = Dav!Set(i, q)
        /\ \/ out' = out /\ (Succeeded(q) => Claims(q))
           \/ /\ q.pc # "done" /\ Before(q)
              /\ \E m \in Messages : m.id[1] = i /\ Matches(q, m) /\ out' = Append(out, m)
  BY <1>7 DEF Goes
<1>9. reqs'[i] = q /\ Len(reqs') = i BY <1>2, <1>3, <1>8, SetIs
<1>10. Latest' = q BY <1>9 DEF Latest
<1>11. /\ out \in Seq(Messages) /\ \A k \in DOMAIN out : ~(out[k].id[1] = i)
       /\ \A k \in DOMAIN back : ~(back[k].id[1] = i)
  BY <1>3 DEF FileTypes
<1>12. \A k \in DOMAIN back' : ~Mine(back[k])' BY <1>5, <1>9, <1>11 DEF Mine
<1>13. Answering' BY <1>12 DEF Answering
<1>14. q.pc \in {"done", "stat"} \/ q.op = "MKCOL" BY <1>7, <1>9
<1>15. CASE out' = out /\ (Succeeded(q) => Claims(q))
  <2>1. \A k \in DOMAIN out' : ~Mine(out[k])' BY <1>9, <1>11, <1>15 DEF Mine
  <2>2. Asking' BY <2>1 DEF Asking
  <2>3. Ended' BY <1>7, <1>9, <1>10 DEF Ended, Succeeded
  <2> QED BY <1>13, <2>2, <2>3 DEF LastIsTrue
<1>16. CASE /\ q.pc # "done" /\ Before(q)
            /\ \E m \in Messages : m.id[1] = i /\ Matches(q, m) /\ out' = Append(out, m)
  <2>1. PICK m \in Messages : m.id[1] = i /\ Matches(q, m) /\ out' = Append(out, m) BY <1>16
  <2>2. PICK l : l = Len(out) + 1 OBVIOUS
  <2>3. /\ Len(out') = l /\ out'[l] = m /\ DOMAIN out' = DOMAIN out \union {l}
        /\ \A k \in DOMAIN out : out'[k] = out[k]
    BY <1>11, <2>1, <2>2, FileAppend
  <2>4. \A k \in DOMAIN out' : Mine(out[k])' => k = l BY <1>9, <1>11, <2>3 DEF Mine
  <2>5. Matches(q, m)' BY <1>5, <2>1 DEF Matches, Target
  <2>6. Before(q)' BY <1>5, <1>16 DEF Before, Early, Holds, Copies, Source
  <2>7. Matches(Latest, out[l])' BY <1>10, <2>3, <2>5 DEF Matches, Target
  <2>8. Before(Latest)' BY <1>10, <2>6 DEF Before, Early, Holds, Copies, Source
  <2>9. Asking' BY <1>10, <1>12, <1>14, <1>16, <2>3, <2>4, <2>7, <2>8 DEF Asking
  <2>10. Ended' BY <1>10, <1>16 DEF Ended, Succeeded
  <2> QED BY <1>13, <2>9, <2>10 DEF LastIsTrue
<1> QED BY <1>8, <1>15, <1>16

(* Nothing of what the last request says has changed. *)
LEMMA TruthStays ==
    ASSUME Alone, LastIsTrue, UNCHANGED <<phone, out, back, Latest, Len(reqs)>>
    PROVE  LastIsTrue'
<1>1. Asking /\ Answering /\ Ended BY DEF LastIsTrue
<1>2. Asking' BY <1>1 DEF Asking, Mine, Matches, Target, Before, Early, Holds, Copies, Source
<1>3. Answering'
  <2>1. PICK r : r = Latest OBVIOUS
  <2>2. ASSUME NEW k PROVE Answered(r, back[k])' <=> Answered(r, back[k])
    BY DEF Answered, Before, Early, Holds, Copies, Source
  <2>3. ASSUME NEW k PROVE Mine(back[k])' <=> Mine(back[k]) BY DEF Mine
  <2>4. ASSUME NEW k PROVE Answered(Latest, back[k])' <=> Answered(Latest, back[k])
    BY <2>1, <2>2
  <2> QED BY <1>1, <2>3, <2>4 DEF Answering
<1>4. Ended' BY <1>1 DEF Ended, Succeeded, Claims, Holds
<1> QED BY <1>2, <1>3, <1>4 DEF LastIsTrue

LEMMA LoadTruth ==
    ASSUME FileTypes, OthersDone, LastIsTrue, NEW ok \in BOOLEAN, Dav!LoadSettles(ok)
    PROVE  LastIsTrue'
<1> SUFFICES ASSUME Alone' PROVE LastIsTrue' BY DEF LastIsTrue
<1>1. /\ reqs' = [i \in DOMAIN reqs |->
                    IF ~ok /\ i \in Dav!Running /\ ~Dav!OnPhone(i)
                    THEN [reqs[i] EXCEPT !.pc = "done", !.status = 500] ELSE reqs[i]]
      /\ phone' = phone /\ out' = out /\ back' = back
  BY DEF Dav!LoadSettles
<1>2. /\ reqs \in Seq(Requests) /\ reqs' \in Seq(Requests) /\ Len(reqs) \in Nat
      /\ DOMAIN reqs = 1..Len(reqs) /\ Dav!FileConstants
  BY LoadTypes DEF FileTypes
<1>3. Len(reqs') = Len(reqs) /\ DOMAIN reqs' = DOMAIN reqs
  <2>1. DOMAIN reqs' = DOMAIN reqs BY <1>1
  <2>2. Len(reqs') \in Nat /\ DOMAIN reqs' = 1..Len(reqs') BY <1>2
  <2>3. \A m, n \in Nat : 1..m = 1..n => m = n OBVIOUS
  <2> QED BY <1>2, <2>1, <2>2, <2>3
<1>4. reqs # <<>>
  <2>1. Len(reqs') # 0 BY <1>2, EmptySeq DEF Alone
  <2> QED BY <1>2, <1>3, <2>1, EmptySeq
<1>5. PICK n : n = Len(reqs) OBVIOUS
<1>6. n \in DOMAIN reqs /\ Latest = reqs[n] /\ Latest' = reqs'[n]
  BY <1>3, <1>4, <1>5, LatestIs DEF Latest
<1>7. \A i \in DOMAIN reqs :
         /\ reqs'[i].alone = reqs[i].alone /\ reqs'[i].path = reqs[i].path
         /\ reqs'[i].dest = reqs[i].dest
  <2> SUFFICES ASSUME NEW i \in DOMAIN reqs
               PROVE  /\ reqs'[i].alone = reqs[i].alone /\ reqs'[i].path = reqs[i].path
                      /\ reqs'[i].dest = reqs[i].dest
    OBVIOUS
  <2>1. PICK r \in Drafts : r = reqs[i] BY <1>2 DEF Requests
  <2>2. reqs'[i] = [r EXCEPT !.pc = "done", !.status = 500] \/ reqs'[i] = r BY <1>1, <2>1
  <2>3. CASE reqs'[i] = r BY <2>1, <2>3
  <2>4. CASE reqs'[i] = [r EXCEPT !.pc = "done", !.status = 500]
    <3> DEFINE s == [r EXCEPT !.pc = "done", !.status = 500]
    <3>1. s.alone = r.alone /\ s.path = r.path /\ s.dest = r.dest BY DEF Drafts
    <3> HIDE DEF s
    <3> QED BY <2>1, <2>4, <3>1 DEF s
  <2> QED BY <2>2, <2>3, <2>4
<1>8. Alone BY <1>4, <1>6, <1>7 DEF Alone
<1>9. reqs'[n] = reqs[n]
  <2>1. reqs[n].path \notin Media BY <1>2, <1>6, <1>8 DEF Alone, Dav!FileConstants
  <2> QED BY <1>1, <1>6, <2>1 DEF Dav!OnPhone
<1>10. Latest' = Latest BY <1>6, <1>9
<1> QED BY <1>1, <1>3, <1>8, <1>10, TruthStays

LEMMA PhoneTruth ==
    ASSUME FileTypes, LastIsTrue, Dav!PhoneServes \/ Dav!PhoneRefuses
    PROVE  LastIsTrue'
<1> SUFFICES ASSUME Alone' PROVE LastIsTrue' BY DEF LastIsTrue
<1> DEFINE m == Head(out)
<1>1. out # <<>> /\ out' = Tail(out) /\ UNCHANGED <<up, cuts, reqs, tfs, sized>>
  BY DEF Dav!PhoneServes, Dav!PhoneRefuses
<1>2. /\ m = out[1] /\ m \in Messages /\ 1 \in DOMAIN out /\ Len(out') = Len(out) - 1
      /\ out' \in Seq(Messages) /\ Len(out) \in Nat
      /\ \A k \in DOMAIN out' : k \in Nat /\ k + 1 \in DOMAIN out /\ out'[k] = out[k + 1]
  BY <1>1, FileTail DEF FileTypes
<1>3. Alone /\ Latest' = Latest /\ Len(reqs') = Len(reqs) BY <1>1 DEF Alone, Latest
<1>4. Asking /\ Answering /\ Ended BY <1>3 DEF LastIsTrue
<1>5. PICK r \in Requests : r = Latest BY <1>3, LatestIs DEF Alone
<1>6. PICK x \in Messages : x = m BY <1>2
<1> HIDE DEF m
<1>7. PICK a \in Replies :
        /\ a.id = x.id /\ back' = Append(back, a)
        /\ a.ok => a = Dav!PhoneAnswer(x) /\ phone' = Dav!PhoneAfter(x)
  <2>1. Dav!PhoneAnswer(x) \in Replies /\ Dav!PhoneAnswer(x).id = x.id BY AnswerTypes
  <2>2. CASE Dav!PhoneServes BY <1>6, <2>1, <2>2 DEF Dav!PhoneServes, m
  <2>3. CASE Dav!PhoneRefuses
    <3>1. back' = Append(back, [Dav!PhoneAnswer(x) EXCEPT !.ok = FALSE])
      BY <1>6, <2>3 DEF Dav!PhoneRefuses, m
    <3>2. /\ [Dav!PhoneAnswer(x) EXCEPT !.ok = FALSE] \in Replies
          /\ [Dav!PhoneAnswer(x) EXCEPT !.ok = FALSE].id = x.id
          /\ ~[Dav!PhoneAnswer(x) EXCEPT !.ok = FALSE].ok
      BY <2>1 DEF Replies
    <3> QED BY <3>1, <3>2
  <2> QED BY <2>2, <2>3
<1>8. PICK l : l = Len(back) + 1 OBVIOUS
<1>9. /\ Len(back') = l /\ back'[l] = a /\ DOMAIN back' = DOMAIN back \union {l}
      /\ \A k \in DOMAIN back : back'[k] = back[k]
  BY <1>7, <1>8, FileAppend DEF FileTypes
<1>10. Ended' BY <1>1, <1>3, <1>4 DEF Ended, Succeeded
<1>11. \A k \in DOMAIN back : Mine(back[k])' <=> Mine(back[k]) BY <1>3, <1>9 DEF Mine
<1>12. \A k \in DOMAIN out' : Mine(out[k])' <=> Mine(out[k + 1]) BY <1>2, <1>3 DEF Mine
<1>13. Mine(back[l])' <=> Mine(x) BY <1>3, <1>7, <1>9 DEF Mine
<1>14. CASE Mine(x)
  <2>1. /\ 1 = Len(out) /\ \A k \in DOMAIN back : ~Mine(back[k])
        /\ r.pc # "done" => Matches(r, x) /\ Before(r)
    BY <1>2, <1>4, <1>5, <1>6, <1>14 DEF Asking
  <2>2. out' = <<>>
    <3>1. Len(out) = 1 BY <2>1
    <3>2. Len(out') = Len(out) - 1 /\ out' \in Seq(Messages) BY <1>2
    <3>3. Len(out') = 0 BY <3>1, <3>2
    <3> QED BY <3>2, <3>3, EmptySeq
  <2>3. Asking' BY <2>2 DEF Asking
  <2>4. \A k \in DOMAIN back' : Mine(back[k])' => k = l BY <1>9, <1>11, <2>1
  <2>5. r.pc # "done" => a.id[2] = r.n BY <1>7, <2>1 DEF Matches
  <2>6. r.pc # "done" /\ a.ok => Answered(r, a)'
    <3>1. r.path \in Paths /\ r.dest \in Paths BY <1>3, <1>5 DEF Alone
    <3> QED BY <1>7, <2>1, <3>1, ServedIs
  <2>7. Latest' = r BY <1>3, <1>5
  <2>8. r.pc # "done" => (back[l].ok => Answered(Latest, back[l]))'
    BY <1>9, <2>6, <2>7 DEF Answered, Before, Early, Holds, Copies, Source
  <2>9. Answering' BY <1>9, <2>2, <2>4, <2>5, <2>7, <2>8 DEF Answering
  <2> QED BY <1>10, <2>3, <2>9 DEF LastIsTrue
<1>15. CASE ~Mine(x)
  <2>1. \A k \in DOMAIN back : ~Mine(back[k]) BY <1>1, <1>4 DEF Answering
  <2>2. \A k \in DOMAIN back' : ~Mine(back[k])' BY <1>9, <1>11, <1>13, <1>15, <2>1
  <2>3. Answering' BY <2>2 DEF Answering
  <2>4. Asking'
    <3> SUFFICES ASSUME NEW k \in DOMAIN out', NEW y, y = out[k + 1], Mine(y)
                 PROVE  /\ k = Len(out')
                        /\ r.pc # "done" =>
                              /\ Matches(r, y)' /\ Before(r)'
                              /\ r.pc # "stat" /\ r.op # "MKCOL" => k = 1
      BY <1>2, <1>3, <1>5, <1>12, <2>2 DEF Asking
    <3>1. /\ k + 1 = Len(out)
          /\ r.pc # "done" =>
                /\ Matches(r, y) /\ Before(r)
                /\ r.pc # "stat" /\ r.op # "MKCOL" => k + 1 = 1
      BY <1>2, <1>4, <1>5 DEF Asking
    <3>2. k \in DOMAIN out' /\ k \in Nat /\ k # 0
      <4>1. DOMAIN out' = 1..Len(out') BY <1>2
      <4> QED BY <4>1
    <3>3. k = Len(out') BY <1>2, <3>1, <3>2
    <3>4. r.pc # "done" => r.pc = "stat" \/ r.op = "MKCOL" BY <3>1, <3>2
    <3>5. r.pc # "done" /\ r.op = "MKCOL" => r.pc = "mkdir" BY DEF Requests, Ways
    <3>6. r.pc # "done" => Matches(r, y)' BY <3>1, <3>4, <3>5 DEF Matches, Target
    <3>7. r.pc # "done" => Before(r)' BY <3>1, <3>4, <3>5 DEF Before, Early
    <3> QED BY <3>1, <3>3, <3>4, <3>6, <3>7
  <2> QED BY <1>10, <2>3, <2>4 DEF LastIsTrue
<1> QED BY <1>14, <1>15

LEMMA NextTruth == FileInv /\ [Dav!Next]_Dav!vars => LastIsTrue'
<1> SUFFICES ASSUME FileTypes, OthersDone, LastIsTrue, [Dav!Next]_Dav!vars PROVE LastIsTrue'
  BY DEF FileInv
<1>1. CASE \E op \in Dav!Ops, p, d \in Paths \union Media, body \in Dav!Files(Len(reqs) + 1) :
             (op # "PUT" => body = <<>>) /\ Dav!Begin(op, p, d, body)
  <2>1. PICK op \in Dav!Ops, p \in Names, d \in Names, body \in Dav!Files(Len(reqs) + 1) :
           Dav!Begin(op, p, d, body)
    BY <1>1 DEF Names
  <2> QED BY <2>1, BeginTruth
<1>2. CASE Dav!HandleResponse BY <1>2, ResponseTruth
<1>3. CASE \E i \in Dav!Running :
             Dav!Timeout(i) \/ Dav!MediaStat(i) \/ (\E ok \in BOOLEAN : Dav!MediaRead(i, ok))
  BY <1>3, TimeoutTruth, MediaTruth DEF LastIsTrue
<1>4. CASE \E ok \in BOOLEAN : Dav!LoadSettles(ok) BY <1>4, LoadTruth
<1>5. CASE Dav!PhoneServes \/ Dav!PhoneRefuses BY <1>5, PhoneTruth
<1>6. CASE Dav!Disconnect
  <2>1. phone' = phone /\ reqs' = reqs /\ out' = <<>> /\ back' = <<>> BY <1>6 DEF Dav!Disconnect
  <2>2. Asking' /\ Answering' BY <2>1 DEF Asking, Answering
  <2>3. Alone' => Alone /\ Ended /\ Latest' = Latest BY <2>1 DEF Alone, Latest, LastIsTrue
  <2>4. Alone' => Ended' BY <2>1, <2>3 DEF Ended, Succeeded, Claims, Holds
  <2> QED BY <2>2, <2>4 DEF LastIsTrue
<1>7. CASE UNCHANGED <<phone, out, back, reqs>>
  <2> SUFFICES ASSUME Alone' PROVE LastIsTrue' BY DEF LastIsTrue
  <2>1. Alone /\ UNCHANGED <<Latest, Len(reqs)>> BY <1>7 DEF Alone, Latest
  <2> QED BY <1>7, <2>1, TruthStays
<1> QED BY <1>1, <1>2, <1>3, <1>4, <1>5, <1>6, <1>7
     DEF Dav!Next, Dav!AppDownloads, Dav!Connect, Dav!vars

--------------------
LEMMA FileInvInit == Dav!FileConstants /\ Dav!Init => FileInv
<1> SUFFICES ASSUME Dav!FileConstants, Dav!Init PROVE FileInv OBVIOUS
<1>1. reqs = <<>> BY DEF Dav!Init
<1>2. OthersDone /\ LastIsTrue BY <1>1 DEF OthersDone, LastIsTrue, Alone
<1> QED BY <1>2, InitTypes DEF FileInv

LEMMA FileInvNext == FileInv /\ [Dav!Next]_Dav!vars => FileInv'
  BY NextTypes, NextOthers, NextTruth DEF FileInv

LEMMA FileInvTypes == FileInv => Dav!TypeOK
<1> SUFFICES ASSUME FileTypes PROVE Dav!TypeOK BY DEF FileInv
<1>1. PICK S \in SUBSET Paths : phone \in [S -> Objects] BY DEF FileTypes, Disks
<1>2. DOMAIN phone \subseteq Paths BY <1>1
<1>3. \A p \in DOMAIN phone : phone[p].dir \in BOOLEAN /\ Len(phone[p].data) <= Chunks
  BY <1>1 DEF Objects, Bytes
<1>4. \A i \in DOMAIN reqs :
        /\ reqs[i].op \in Dav!Ops /\ reqs[i].pc \in Dav!Asks \union {"done"}
        /\ reqs[i].status \in {0, 200, 201, 204, 207, 404, 405, 500}
        /\ (reqs[i].status = 0) <=> (reqs[i].pc # "done")
        /\ reqs[i].at \in 0..Chunks /\ Len(reqs[i].got) <= Chunks
  <2> SUFFICES ASSUME NEW i \in DOMAIN reqs, NEW r \in Requests, r = reqs[i]
               PROVE  /\ r.op \in Dav!Ops /\ r.pc \in Dav!Asks \union {"done"}
                      /\ r.status \in {0, 200, 201, 204, 207, 404, 405, 500}
                      /\ (r.status = 0) <=> (r.pc # "done")
                      /\ r.at \in 0..Chunks /\ Len(r.got) <= Chunks
    BY DEF FileTypes
  <2>1. r \in Drafts /\ ((r.status = 0) <=> (r.pc # "done")) BY DEF Requests
  <2> QED BY <2>1 DEF Drafts, Statuses, Bytes
<1> QED BY <1>2, <1>3, <1>4 DEF FileTypes, Dav!TypeOK

LEMMA FileInvTruth == FileInv => Dav!LastAnswerIsTrue
<1> SUFFICES ASSUME FileInv, NEW i \in DOMAIN reqs, i = Len(reqs), reqs[i].alone,
                    reqs[i].path \in Paths, reqs[i].dest \in Paths
             PROVE  LET r == reqs[i]
                        Is(p, s) == p \in DOMAIN phone /\ phone[p] = Dav!File(s)
                    IN /\ r.op = "PUT" /\ Dav!Done(i, {201, 204}) => Is(r.path, r.body)
                       /\ r.op = "COPY" /\ Dav!Done(i, {201}) =>
                             {r.path, r.dest} \subseteq DOMAIN phone /\ phone[r.dest] = phone[r.path]
                       /\ r.op \in {"MOVE", "DELETE"} /\ Dav!Done(i, {201, 204}) => r.path \notin DOMAIN phone
                       /\ r.op = "GET" /\ Dav!Done(i, {200}) /\ ~r.cut => Is(r.path, r.got)
  BY DEF Dav!LastAnswerIsTrue
<1>1. reqs # <<>> OBVIOUS
<1>2. Latest = reqs[i] /\ Alone BY <1>1 DEF Latest, Alone
<1>3. Succeeded(Latest) => Claims(Latest) BY <1>2 DEF FileInv, LastIsTrue, Ended
<1>4. PICK r \in Requests : r = reqs[i] BY DEF FileInv, FileTypes
<1>5. Claims(r) \/ ~Succeeded(r) BY <1>2, <1>3, <1>4
<1> QED BY <1>4, <1>5 DEF Claims, Succeeded, Dav!Done, Holds

(* Whatever the phone's disk holds at first and however many requests, chunks *)
(* and broken connections there are, the handlers of webdav-server.ts and the *)
(* pending calls of filesystem-handler.ts keep their types: a request has an *)
(* answer just when it has ended, and reads no further than the size it saw. *)
THEOREM FilesTyped == Dav!FileConstants => (Dav!Spec => []Dav!TypeOK)
<1> SUFFICES ASSUME Dav!FileConstants PROVE Dav!Spec => []Dav!TypeOK OBVIOUS
<1>1. Dav!Init => FileInv BY FileInvInit
<1>2. FileInv /\ [Dav!Next]_Dav!vars => FileInv' BY FileInvNext
<1>3. FileInv => Dav!TypeOK BY FileInvTypes
<1> QED BY <1>1, <1>2, <1>3, PTL DEF Dav!Spec

(* The status that handleGet, handlePut, handleDelete, handleMove, handleCopy *)
(* or handleMkcol gives the last request, when no other was running as it *)
(* began, is true of the phone's disk: after a 2xx the file that was put or *)
(* copied is there with every chunk in its place, the one moved or deleted is *)
(* gone from its path, and what was downloaded is what the file holds, even *)
(* with messages of requests that timed out or were cut off still on the way. *)
THEOREM FilesTruth == Dav!FileConstants => (Dav!Spec => []Dav!LastAnswerIsTrue)
<1> SUFFICES ASSUME Dav!FileConstants PROVE Dav!Spec => []Dav!LastAnswerIsTrue OBVIOUS
<1>1. Dav!Init => FileInv BY FileInvInit
<1>2. FileInv /\ [Dav!Next]_Dav!vars => FileInv' BY FileInvNext
<1>3. FileInv => Dav!LastAnswerIsTrue BY FileInvTruth
<1> QED BY <1>1, <1>2, <1>3, PTL DEF Dav!Spec
====================
