---------- MODULE CommandLine ----------
(* The daemon as a process, and the commands that talk to it.  A daemon takes *)
(* the port of the phone, then the file with its process number, then the *)
(* socket of the commands; stopping gives them back in another order, and a *)
(* crash gives back only the port.  A command connects, calls its methods and *)
(* waits for every answer, for a time-out or for the end of the connection. *)
EXTENDS Integers, FiniteSets, Sequences

CONSTANTS MaxDaemons    \* bound: daemons started, one after the other or at once

VARIABLES
    life,                       \* daemon -> where it is between its start and its end
    embedded,                   \* daemons inside the window: neither file nor socket
    port, pidFile, socketFile,  \* who holds each of them; 0 for nobody
    command, server,            \* the command that runs, and the daemon it is connected to
    pending, answers,           \* calls that wait, and answers on their way: id -> outcome
    waiting,                    \* "pair" has its key and waits for the phone
    outcome, ran                \* how the command ended; methods that ran for it

vars == <<life, embedded, port, pidFile, socketFile, command, server, pending, answers, waiting,
          outcome, ran>>

Daemons == 1..MaxDaemons
Phases == {"none", "init", "starting", "running", "stopping", "closing", "dead"}

(* What each command calls, all at once. *)
DeviceCommands ==
    [status |-> {"daemon.status"}, devices |-> {"devices.discovered", "devices.paired", "devices.connected"}]
PairingCommands ==
    [pending |-> {"pair.pending"}, accept |-> {"pair.accept"}, reject |-> {"pair.reject"}]
KnownCommands ==
    [connect |-> {"devices.connect"}, known |-> {"devices.known", "devices.paired", "devices.connected"},
     forget |-> {"devices.forget"}, unpair |-> {"pair.unpair"}, stop |-> {"daemon.stop"}]
MessageCommands ==
    [conversations |-> {"sms.conversations"}, messages |-> {"sms.messages"}, send |-> {"sms.send"}]
DataCommands ==
    [contacts |-> {"contacts.list"}, notifications |-> {"notifications.list"}, sync |-> {"sms.request_sync"}]
FileCommands ==
    [attachment |-> {"sms.get_attachment"}, deleteMessage |-> {"sms.delete_message"},
     deleteConversation |-> {"sms.delete_conversation"}]
PhoneCommands == [storage |-> {"storage.analyze"}, ring |-> {"phone.ring"}]
Pair == [pair |-> {"pair.request"}]

Tables == {DeviceCommands, PairingCommands, KnownCommands, MessageCommands, DataCommands, FileCommands,
           PhoneCommands, Pair}
Commands == UNION {DOMAIN t : t \in Tables}
Calls(c) == UNION {t[c] : t \in {u \in Tables : c \in DOMAIN u}}

Served == (UNION {Calls(c) : c \in Commands}) \ {"sms.request_sync", "storage.analyze"}

Busy == command # "none" /\ outcome = "none"

TypeOK ==
    /\ life \in [Daemons -> Phases] /\ embedded \subseteq Daemons
    /\ {port, pidFile, socketFile, server} \subseteq Daemons \union {0}
    /\ command \in Commands \union {"none", "watch"} /\ (~Busy => server = 0)
    /\ pending \subseteq Calls(command)
    /\ answers \subseteq Calls(command) \X {"result", "error", "not found"}
    /\ waiting \in BOOLEAN /\ (waiting => command = "pair" /\ pending = {})
    /\ outcome \in {"none", "done", "failed", "not running", "not found"}
    /\ (server # 0 => life[server] = "running" /\ server \notin embedded)
    /\ (server = 0 => pending = {} /\ answers = {})

Init ==
    /\ life = [d \in Daemons |-> "none"] /\ embedded = {}
    /\ port = 0 /\ pidFile = 0 /\ socketFile = 0
    /\ command = "none" /\ server = 0 /\ pending = {} /\ answers = {} /\ waiting = FALSE
    /\ outcome = "none" /\ ran = {}

client == <<command, server, pending, answers, waiting, outcome, ran>>

Alive(d) == d # 0 /\ life[d] \notin {"none", "dead"}

--------------------
(* The daemon *)
\* init() fails, and with it the process, when the port is taken.
InitDaemon(d, inWindow) ==
    /\ life[d] = "none" /\ (\A e \in 1..(d - 1) : life[e] # "none")
    /\ IF port = 0 THEN life' = [life EXCEPT ![d] = "init"] /\ port' = d
       ELSE life' = [life EXCEPT ![d] = "dead"] /\ UNCHANGED port
    /\ embedded' = IF inWindow THEN embedded \union {d} ELSE embedded
    /\ UNCHANGED <<pidFile, socketFile, client>>

\* A mutation of the next definition.
StartUnchecked(d) ==
    /\ life[d] = "init"
    /\ life' = [life EXCEPT ![d] = IF d \in embedded THEN "running" ELSE "starting"]
    /\ pidFile' = IF d \in embedded THEN pidFile ELSE d
    /\ UNCHANGED <<embedded, port, socketFile, client>>

StartDaemon(d) ==
    /\ life[d] = "init"
    /\ \/ d \in embedded /\ life' = [life EXCEPT ![d] = "running"] /\ UNCHANGED <<port, pidFile>>
       \/ /\ d \notin embedded /\ ~Alive(pidFile)
          /\ life' = [life EXCEPT ![d] = "starting"] /\ pidFile' = d /\ UNCHANGED port
       \/ /\ d \notin embedded /\ Alive(pidFile)
          /\ life' = [life EXCEPT ![d] = "dead"] /\ port' = 0 /\ UNCHANGED pidFile
    /\ UNCHANGED <<embedded, socketFile, client>>

\* The socket file of a daemon that crashed is removed first.
StartIpc(d) ==
    /\ life[d] = "starting"
    /\ life' = [life EXCEPT ![d] = "running"] /\ socketFile' = d
    /\ UNCHANGED <<embedded, port, pidFile, client>>

\* Every waiting call is rejected when the connection ends.  "pair" waits on
\* for its thirty seconds; "watch" ends without a word.
ConnectionLost ==
    /\ server' = 0 /\ pending' = {} /\ answers' = {}
    /\ IF waiting THEN UNCHANGED <<command, waiting, outcome>>
       ELSE /\ UNCHANGED <<command, waiting>>
            /\ outcome' = IF command = "watch" THEN "done" ELSE "failed"
    /\ UNCHANGED ran

Lost(d) == IF server = d /\ d # 0 THEN ConnectionLost ELSE UNCHANGED client

\* stop(): the commands' server first,
StopDaemon(d) ==
    /\ life[d] = "running"
    /\ life' = [life EXCEPT ![d] = "stopping"]
    /\ socketFile' = IF d \in embedded THEN socketFile ELSE 0
    /\ Lost(d)
    /\ UNCHANGED <<embedded, port, pidFile>>

\* then the server of the phone,
StopWsServer(d) ==
    /\ life[d] = "stopping"
    /\ life' = [life EXCEPT ![d] = "closing"] /\ port' = 0
    /\ UNCHANGED <<embedded, pidFile, socketFile, client>>

\* and the process number last.
RemovePidFile(d) ==
    /\ life[d] = "closing"
    /\ life' = [life EXCEPT ![d] = "dead"]
    /\ pidFile' = IF d \in embedded THEN pidFile ELSE 0
    /\ UNCHANGED <<embedded, port, socketFile, client>>

\* Killed, or a second signal, which leaves while the first still stops.
Crash(d) ==
    /\ Alive(d)
    /\ life' = [life EXCEPT ![d] = "dead"]
    /\ port' = IF port = d THEN 0 ELSE port
    /\ Lost(d)
    /\ UNCHANGED <<embedded, pidFile, socketFile>>

--------------------
(* The command *)
daemon == <<life, embedded, port, pidFile, socketFile>>

Run(c) ==
    /\ ~Busy
    /\ command' = c /\ ran' = {} /\ answers' = {} /\ UNCHANGED waiting
    /\ IF Alive(socketFile)
       THEN server' = socketFile /\ outcome' = "none" /\ pending' = Calls(c)
       ELSE outcome' = "not running" /\ UNCHANGED <<server, pending>>
    /\ UNCHANGED daemon

\* A mutation of the next definition.
HandleMessageAnswered(m, ok) ==
    /\ server # 0 /\ m \in Calls(command) /\ m \notin ran /\ ~\E a \in answers : a[1] = m
    /\ answers' = answers \union {<<m, "result">>}
    /\ ran' = IF m \in Served THEN ran \union {m} ELSE ran
    /\ UNCHANGED <<command, server, pending, waiting, outcome, daemon>>

\* The daemon runs what it knows, also for a caller that no longer waits.
HandleMessage(m, ok) ==
    /\ server # 0 /\ m \in Calls(command) /\ m \notin ran /\ ~\E a \in answers : a[1] = m
    /\ answers' = answers \union {<<m, IF m \notin Served THEN "not found"
                                       ELSE IF ok THEN "result" ELSE "error">>}
    /\ ran' = IF m \in Served /\ ok THEN ran \union {m} ELSE ran
    /\ UNCHANGED <<command, server, pending, waiting, outcome, daemon>>

End(how) ==
    /\ server' = 0 /\ pending' = {} /\ answers' = {} /\ waiting' = FALSE
    /\ outcome' = how /\ UNCHANGED command

HandleResponse(m) ==
    /\ m \in pending
    /\ \/ /\ <<m, "result">> \in answers
          /\ IF pending # {m}
             THEN pending' = pending \ {m} /\ UNCHANGED <<command, server, answers, waiting, outcome>>
             ELSE IF command = "pair"
             THEN /\ pending' = {} /\ waiting' = TRUE
                  /\ UNCHANGED <<command, server, answers, outcome>>
             ELSE End("done")
       \/ <<m, "error">> \in answers /\ End("failed")
       \/ <<m, "not found">> \in answers /\ End("not found")
    /\ UNCHANGED <<ran, daemon>>

RequestTimeout == pending # {} /\ End("failed") /\ UNCHANGED <<ran, daemon>>

PairingResult(success) ==
    /\ waiting /\ server # 0
    /\ End(IF success THEN "done" ELSE "failed") /\ UNCHANGED <<ran, daemon>>

PairingTimeout == waiting /\ End("failed") /\ UNCHANGED <<ran, daemon>>

Interrupt == command = "watch" /\ Busy /\ End("done") /\ UNCHANGED <<ran, daemon>>

DaemonStep ==
    \E d \in Daemons :
       \/ \E w \in BOOLEAN : InitDaemon(d, w)
       \/ StartDaemon(d) \/ StartIpc(d)
       \/ StopDaemon(d) \/ StopWsServer(d) \/ RemovePidFile(d) \/ Crash(d)

CommandStep ==
    \/ \E c \in Commands \union {"watch"} : Run(c)
    \/ \E m \in Calls(command), ok \in BOOLEAN : HandleMessage(m, ok)
    \/ \E m \in Calls(command) : HandleResponse(m)
    \/ \E ok \in BOOLEAN : PairingResult(ok)
    \/ RequestTimeout \/ PairingTimeout \/ Interrupt

Next == DaemonStep \/ CommandStep

Spec == Init /\ [][Next]_vars

--------------------
\* However daemons are started, stopped and killed, at most one is at work;
\* one that runs for commands is the one both files name, so a command finds
\* it and a second start sees it; and no end of one takes away another's.
OneDaemonServes ==
    /\ \A d, e \in Daemons : {life[d], life[e]} \subseteq {"init", "starting", "running"} => d = e
    /\ \A d \in Daemons \ embedded :
          /\ life[d] \in {"starting", "running"} => pidFile = d /\ port = d
          /\ life[d] = "running" => socketFile = d

\* A command that reports success had everything it called run by a daemon.
CommandsAreHonest == outcome = "done" => Calls(command) \subseteq ran

\* No command of the manual is answered that its method does not exist.
\* The code does not keep this: see README.md, section 6.
CommandsAreServed == outcome # "not found"
====================
