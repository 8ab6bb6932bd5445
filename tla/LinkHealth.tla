---------- MODULE LinkHealth ----------
(* The sockets of the WebSocket server and what ends them: the identity that *)
(* must come first, the ping timer, the drift of the clock over a sleep, the *)
(* resume of the system, a newer connection of the same phone.  Time runs in *)
(* units of five seconds; a phone that is there answers a ping within one. *)
EXTENDS Integers

CONSTANTS
    Sockets, DeviceOf, None,    \* connections, numbered as they are made, and their phones
    Sleeps, MaxSleeps           \* bounds: how long the system sleeps, and how often

VARIABLES
    sock,       \* socket -> "unused", "new" (no identity yet), "stored", "closing", "terminated", "closed"
    there,      \* socket -> its peer answers
    table,      \* connections: device -> its socket
    alive,      \* sockets that answered since the last ping
    pinged,     \* sockets with a ping on its way, or its answer
    age,        \* socket -> time since its last pong, on the wall clock
    waits,      \* socket -> time its identity may still take
    pingIn, checkIn, drift, \* time to the ping timer, to the sleep check, and since the last check
    slept,      \* how often the system slept
    gone        \* history: socket -> waking time since its peer stopped to answer

vars == <<sock, there, table, alive, pinged, age, waits, pingIn, checkIn, drift, slept, gone>>

PingInterval == 6           \* 30 s
SleepCheck == 2             \* 10 s
SleepThreshold == 24        \* 2 minutes
StaleThreshold == 18        \* three ping intervals
IdentityTimeout == 2        \* 10 s
Longest == 25               \* no clock needs to run further

Devices == {DeviceOf[s] : s \in Sockets}
Stored == {table[d] : d \in Devices} \ {None}
AtMost(n) == IF n > Longest THEN Longest ELSE n

TypeOK ==
    /\ sock \in [Sockets -> {"unused", "new", "stored", "closing", "terminated", "closed"}]
    /\ there \in [Sockets -> BOOLEAN] /\ table \in [Devices -> Sockets \union {None}]
    /\ alive \subseteq Sockets /\ pinged \subseteq Sockets
    /\ age \in [Sockets -> 0..Longest] /\ waits \in [Sockets -> 0..IdentityTimeout]
    /\ pingIn \in 0..PingInterval /\ checkIn \in 0..SleepCheck /\ drift \in 0..Longest
    /\ slept \in 0..MaxSleeps /\ gone \in [Sockets -> 0..Longest]
    /\ \A d \in Devices : table[d] # None => DeviceOf[table[d]] = d
    /\ \A s \in Sockets : sock[s] = "stored" => table[DeviceOf[s]] = s

Init ==
    /\ sock = [s \in Sockets |-> "unused"] /\ there = [s \in Sockets |-> TRUE]
    /\ table = [d \in Devices |-> None] /\ alive = {} /\ pinged = {}
    /\ age = [s \in Sockets |-> 0] /\ waits = [s \in Sockets |-> 0]
    /\ pingIn = PingInterval /\ checkIn = SleepCheck /\ drift = 0
    /\ slept = 0 /\ gone = [s \in Sockets |-> 0]

timerVars == <<pingIn, checkIn, drift, slept>>

--------------------
(* A socket *)
Open(s) ==
    /\ sock[s] = "unused" /\ \A t \in Sockets : t < s => sock[t] # "unused"
    /\ sock' = [sock EXCEPT ![s] = "new"]
    /\ waits' = [waits EXCEPT ![s] = IdentityTimeout]
    /\ UNCHANGED <<there, table, alive, pinged, age, timerVars, gone>>

\* storeConnection(): a connection of the same phone is closed, and leaves the table without
\* the callbacks of a disconnection.
Identified(s) ==
    /\ sock[s] = "new" /\ there[s]
    /\ LET old == table[DeviceOf[s]] IN
       sock' = [t \in Sockets |-> IF t = s THEN "stored"
                                  ELSE IF t = old /\ sock[t] = "stored" THEN "closing" ELSE sock[t]]
    /\ table' = [table EXCEPT ![DeviceOf[s]] = s]
    /\ alive' = alive \union {s} /\ age' = [age EXCEPT ![s] = 0]
    /\ UNCHANGED <<there, pinged, waits, timerVars, gone>>

\* The first message is no identity, or does not come in time.
NotIdentified(s) ==
    /\ sock[s] = "new" /\ (there[s] \/ waits[s] = 0)
    /\ sock' = [sock EXCEPT ![s] = "closing"]
    /\ UNCHANGED <<there, table, alive, pinged, age, waits, timerVars, gone>>

\* The daemon closes a connection whose version does not fit, or whose phone was unpaired.
DaemonCloses(s) ==
    /\ sock[s] = "stored"
    /\ sock' = [sock EXCEPT ![s] = "closing"]
    /\ UNCHANGED <<there, table, alive, pinged, age, waits, timerVars, gone>>

\* The close event. Only the connection in the table disconnects its phone.
Closes(s) ==
    /\ sock[s] \in {"stored", "closing", "terminated"} \/ (sock[s] = "new" /\ there[s])
    /\ sock[s] \in {"stored", "closing"} => there[s]
    /\ sock' = [sock EXCEPT ![s] = "closed"]
    /\ pinged' = pinged \ {s}
    /\ IF s \in Stored
       THEN /\ table' = [table EXCEPT ![DeviceOf[s]] = None]
            /\ alive' = alive \ {s}
       ELSE UNCHANGED <<table, alive>>
    /\ UNCHANGED <<there, age, waits, timerVars, gone>>

PhoneVanishes(s) ==
    /\ sock[s] \in {"new", "stored"} /\ there[s]
    /\ there' = [there EXCEPT ![s] = FALSE]
    /\ pinged' = pinged \ {s}
    /\ UNCHANGED <<sock, table, alive, age, waits, timerVars, gone>>

Pong(s) ==
    /\ s \in pinged /\ there[s]
    /\ pinged' = pinged \ {s} /\ alive' = alive \union {s} /\ age' = [age EXCEPT ![s] = 0]
    /\ UNCHANGED <<sock, there, table, waits, timerVars, gone>>

--------------------
(* The timers *)
Terminated(S) == [s \in Sockets |-> IF s \in S THEN "terminated" ELSE sock[s]]

\* checkSleepDrift()
Asleep == drift > SleepThreshold /\ Stored # {}

\* Mutations of the next definition.
PingTimerForgiving ==
    /\ pingIn = 0 /\ pingIn' = PingInterval /\ drift' = 0
    /\ IF Asleep THEN sock' = Terminated(Stored) /\ UNCHANGED <<alive, pinged>>
       ELSE LET dead == {s \in Stored : age[s] > StaleThreshold}
            IN /\ sock' = Terminated(dead)
               /\ pinged' = pinged \union {s \in Stored \ dead : sock[s] = "stored"}
               /\ UNCHANGED alive
    /\ UNCHANGED <<there, table, age, waits, checkIn, slept, gone>>
PingTimerUnguarded ==
    /\ pingIn = 0 /\ pingIn' = PingInterval /\ UNCHANGED drift
    /\ LET dead == {s \in Stored : s \notin alive}
       IN /\ sock' = Terminated(dead)
          /\ alive' = alive \ Stored
          /\ pinged' = pinged \union {s \in Stored \ dead : sock[s] = "stored"}
    /\ UNCHANGED <<there, table, age, waits, checkIn, slept, gone>>

PingTimer ==
    /\ pingIn = 0 /\ pingIn' = PingInterval /\ drift' = 0
    /\ IF Asleep THEN sock' = Terminated(Stored) /\ UNCHANGED <<alive, pinged>>
       ELSE LET dead == {s \in Stored : age[s] > StaleThreshold \/ s \notin alive}
            IN /\ sock' = Terminated(dead)
               /\ alive' = alive \ {s \in Stored : ~(age[s] > StaleThreshold)}
               /\ pinged' = pinged \union {s \in Stored \ dead : sock[s] = "stored"}
    /\ UNCHANGED <<there, table, age, waits, checkIn, slept, gone>>

SleepTimer ==
    /\ checkIn = 0 /\ checkIn' = SleepCheck /\ drift' = 0
    /\ sock' = IF Asleep THEN Terminated(Stored) ELSE sock
    /\ UNCHANGED <<there, table, alive, pinged, age, waits, pingIn, slept, gone>>

\* forceReconnect(), when the system reports that it has resumed
Resume ==
    /\ drift > SleepCheck
    /\ sock' = Terminated(Stored)
    /\ UNCHANGED <<there, table, alive, pinged, age, waits, timerVars, gone>>

\* Time passes when nothing is due, and every phone that is there has answered.
Quiet ==
    /\ pingIn > 0 /\ checkIn > 0
    /\ \A s \in Sockets :
          /\ ~(s \in pinged /\ there[s])
          /\ sock[s] # "terminated"
          /\ sock[s] = "new" => waits[s] > 0

Older(n) == age' = [s \in Sockets |-> IF s \in Stored THEN AtMost(age[s] + n) ELSE 0]

Tick ==
    /\ Quiet
    /\ pingIn' = pingIn - 1 /\ checkIn' = checkIn - 1
    /\ drift' = AtMost(drift + 1)
    /\ Older(1)
    /\ waits' = [s \in Sockets |-> IF sock[s] = "new" THEN waits[s] - 1 ELSE 0]
    /\ gone' = [s \in Sockets |-> IF ~there[s] /\ s \in Stored THEN AtMost(gone[s] + 1) ELSE 0]
    /\ UNCHANGED <<sock, there, table, alive, pinged, slept>>

\* The wall clock goes on while the system sleeps; its timers stand still or come due at once.
Sleep(n) ==
    /\ Quiet /\ slept < MaxSleeps
    /\ slept' = slept + 1
    /\ drift' = AtMost(drift + n)
    /\ Older(n)
    /\ pingIn' \in {pingIn, 0} /\ checkIn' \in {checkIn, 0}
    /\ UNCHANGED <<sock, there, table, alive, pinged, waits, gone>>

Next ==
    \/ \E s \in Sockets :
          \/ Open(s) \/ Identified(s) \/ NotIdentified(s) \/ DaemonCloses(s) \/ Closes(s)
          \/ PhoneVanishes(s) \/ Pong(s)
    \/ PingTimer \/ SleepTimer \/ Resume \/ Tick
    \/ \E n \in Sleeps : Sleep(n)

Spec == Init /\ [][Next]_vars

--------------------
\* A connection whose phone is gone leaves the table within two ping intervals of waking time.
DeadAreDropped == \A s \in Stored : gone[s] <= 2 * PingInterval

\* A connection that slept through more than the threshold is never pinged
\* again: its answer could make a stream that missed events look healthy.
SleepersAreNotPinged ==
    [][\A s \in Stored : drift > SleepThreshold /\ s \notin pinged => s \notin pinged']_vars

====================
