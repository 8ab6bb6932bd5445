---------- MODULE PendingOperations ----------
(* Choices the user makes that the phone has to know: numbers whose *)
(* conversations are hidden, and conversations that were read.  A choice goes *)
(* to the phone at once, or to a table of pending operations when the query *)
(* fails; every synchronisation empties that table and then takes the phone's *)
(* list for the window's. *)
EXTENDS Integers, Sequences, FiniteSets, SequencesExt

CONSTANTS MaxChoices, MaxFaults     \* bounds: choices, and everything that goes wrong

VARIABLES
    chosen,                         \* the choices made so far: what each one says
    hidden,                         \* is the number hidden in the window?
    phoneHidden, reached,           \* is it on the phone, and the choices the phone has applied
    up, out, back, faults,          \* the connection, and what travels each way
    calls,                          \* direct calls that wait for their answer
    queued,                         \* table pending_operations, oldest first
    stage, snapshot, notices        \* the synchronisation, and the lists it sends the window

vars == <<chosen, hidden, phoneHidden, reached, up, out, back, faults, calls, queued, stage,
          snapshot, notices>>

Made == 1..MaxChoices
Kinds == {"hide", "show", "read"}

TypeOK ==
    /\ chosen \in Seq(Kinds) /\ hidden \in BOOLEAN /\ phoneHidden \in BOOLEAN
    /\ reached \subseteq Made /\ calls \subseteq Made /\ up \in BOOLEAN
    /\ queued \in Seq(Made) /\ IsInjective(queued) /\ snapshot \in Seq(Made)
    /\ stage \in {"idle", "flush", "waiting", "list", "listing"}
    /\ stage # "idle" => IsPrefix(snapshot, queued)
    /\ notices \in Seq(BOOLEAN)
    /\ ~up => out = <<>> /\ back = <<>> /\ calls = {} /\ stage = "idle"

Init ==
    /\ chosen = <<>> /\ hidden = FALSE /\ phoneHidden = FALSE /\ reached = {}
    /\ up = FALSE /\ out = <<>> /\ back = <<>> /\ faults = 0
    /\ calls = {} /\ queued = <<>> /\ stage = "idle" /\ snapshot = <<>> /\ notices = <<>>

Trouble == faults < MaxFaults /\ faults' = faults + 1

--------------------
(* The user and the direct call *)
Call(kind) ==
    /\ Len(chosen) < MaxChoices
    /\ chosen' = Append(chosen, kind)
    /\ LET i == Len(chosen) + 1 IN
       IF up THEN /\ out' = Append(out, [by |-> "direct", id |-> i])
                  /\ calls' = calls \union {i}
                  /\ UNCHANGED queued
       ELSE queued' = Append(queued, i) /\ UNCHANGED <<out, calls>>
    /\ UNCHANGED <<phoneHidden, reached, up, back, faults, stage, snapshot, notices>>

\* The button offers the opposite of what the window shows.
ToggleFilter ==
    /\ Call(IF hidden THEN "show" ELSE "hide")
    /\ hidden' = ~hidden

MarkThreadRead == Call("read") /\ UNCHANGED hidden

Failed(i) == calls' = calls \ {i} /\ queued' = Append(queued, i)

\* A mutation of the next definition.
SettleForgetting(i, ok) == calls' = calls \ {i} /\ UNCHANGED queued

Settle(i, ok) == IF ok THEN calls' = calls \ {i} /\ UNCHANGED queued ELSE Failed(i)

CallTimesOut ==
    /\ Trouble
    /\ \E i \in calls : Settle(i, FALSE)
    /\ UNCHANGED <<chosen, hidden, phoneHidden, reached, up, out, back, stage, snapshot, notices>>

--------------------
(* The phone *)
PhoneServes(ok) ==
    /\ out # <<>> /\ (ok \/ Head(out).by # "list")
    /\ IF ok THEN UNCHANGED faults ELSE Trouble
    /\ out' = Tail(out)
    /\ LET m == Head(out) IN
       IF m.by = "list"
       THEN back' = Append(back, [by |-> "list", id |-> 0, ok |-> phoneHidden])
            /\ UNCHANGED <<phoneHidden, reached>>
       ELSE /\ back' = Append(back, [by |-> m.by, id |-> m.id, ok |-> ok])
            /\ reached' = IF ok THEN reached \union {m.id} ELSE reached
            /\ phoneHidden' = IF ok /\ chosen[m.id] # "read" THEN chosen[m.id] = "hide"
                              ELSE phoneHidden
    /\ UNCHANGED <<chosen, hidden, up, calls, queued, stage, snapshot, notices>>

--------------------
(* The synchronisation *)
\* Bound: the window hears of one list before the next synchronisation.
StartSync ==
    /\ up /\ stage = "idle" /\ notices = <<>>
    /\ stage' = "flush" /\ snapshot' = queued
    /\ UNCHANGED <<chosen, hidden, phoneHidden, reached, up, out, back, faults, calls, queued, notices>>

FlushPendingOperations ==
    /\ stage = "flush"
    /\ IF snapshot = <<>> THEN stage' = "list" /\ UNCHANGED out
       ELSE stage' = "waiting" /\ out' = Append(out, [by |-> "flush", id |-> Head(snapshot)])
    /\ UNCHANGED <<chosen, hidden, phoneHidden, reached, up, back, faults, calls, queued, snapshot,
                   notices>>

AskFilterList ==
    /\ stage = "list"
    /\ stage' = "listing" /\ out' = Append(out, [by |-> "list", id |-> 0])
    /\ UNCHANGED <<chosen, hidden, phoneHidden, reached, up, back, faults, calls, queued, snapshot,
                   notices>>

\* The first failure ends the flush; the rest of the synchronisation goes on.
Flushed(i, ok) ==
    IF ok THEN /\ queued' = RemoveFirst(queued, i)
               /\ snapshot' = Tail(snapshot) /\ stage' = "flush"
    ELSE stage' = "list" /\ snapshot' = <<>> /\ UNCHANGED queued

HandleAnswer ==
    /\ back # <<>>
    /\ back' = Tail(back)
    /\ LET m == Head(back) IN
       \/ /\ m.by = "direct" /\ m.id \in calls
          /\ Settle(m.id, m.ok) /\ UNCHANGED <<stage, snapshot, notices>>
       \/ m.by = "direct" /\ m.id \notin calls /\ UNCHANGED <<calls, queued, stage, snapshot, notices>>
       \/ m.by = "flush" /\ Flushed(m.id, m.ok) /\ UNCHANGED <<calls, notices>>
       \/ /\ m.by = "list" /\ notices' = Append(notices, m.ok)
          /\ stage' = "idle" /\ UNCHANGED <<calls, queued, snapshot>>
    /\ UNCHANGED <<chosen, hidden, phoneHidden, reached, up, out, faults>>

SetFilterList ==
    /\ notices # <<>>
    /\ hidden' = Head(notices) /\ notices' = Tail(notices)
    /\ UNCHANGED <<chosen, phoneHidden, reached, up, out, back, faults, calls, queued, stage, snapshot>>

--------------------
(* The connection *)
Connect ==
    /\ ~up /\ up' = TRUE
    /\ UNCHANGED <<chosen, hidden, phoneHidden, reached, out, back, faults, calls, queued, stage,
                   snapshot, notices>>

\* The direct calls that wait, oldest first.
CallsInOrder ==
    CHOOSE s \in [1..Cardinality(calls) -> calls] :
        \A i, j \in DOMAIN s : i < j => s[i] < s[j]

\* Every waiting query is rejected, the direct ones into the table.
Disconnect ==
    /\ up /\ Trouble /\ up' = FALSE
    /\ out' = <<>> /\ back' = <<>> /\ calls' = {}
    /\ queued' = queued \o CallsInOrder
    /\ stage' = "idle" /\ snapshot' = <<>>
    /\ UNCHANGED <<chosen, hidden, phoneHidden, reached, notices>>

Next ==
    \/ ToggleFilter \/ MarkThreadRead \/ CallTimesOut
    \/ \E ok \in BOOLEAN : PhoneServes(ok)
    \/ StartSync \/ FlushPendingOperations \/ AskFilterList \/ HandleAnswer \/ SetFilterList
    \/ Connect \/ Disconnect

Spec == Init /\ [][Next]_vars

--------------------
\* A choice the phone has not applied is on its way there or stands in the
\* table that the next synchronisation sends: none is lost with a connection,
\* to a refusal, or to a flush that stopped half way.
NoChoiceIsForgotten ==
    \A i \in DOMAIN chosen :
       i \in reached \/ (\E j \in DOMAIN queued : queued[j] = i) \/ (i \in calls /\ up)
====================
