---------- MODULE ContactMigration ----------
(* Moving contacts to another account of the phone: the window scans, the *)
(* user picks, the window has the phone migrate.  The daemon keeps one *)
(* request, its promise and its timer, for both; the phone's answers name *)
(* no request. *)
EXTENDS Integers, Sequences

CONSTANT MaxCalls   \* bound on the requests

VARIABLES
    up, out, back,      \* the connection, requests to the phone, answers from it
    slot, timers,       \* the promise that waits for the next answer, and the timers that run
    replies,            \* settled promises on their way to the window
    window, waits, made \* the window, the promise it awaits, the promises made

vars == <<up, out, back, slot, timers, replies, window, waits, made>>

Busy == {"scanning", "migrating"}

TypeOK ==
    /\ up \in BOOLEAN /\ slot \in 0..made /\ timers \subseteq 1..made /\ made \in 0..MaxCalls
    /\ window \in Busy \union {"closed", "idle", "results", "complete", "error"}
    /\ waits \in 0..made

Init ==
    /\ up \in BOOLEAN /\ out = <<>> /\ back = <<>> /\ slot = 0 /\ timers = {}
    /\ replies = <<>> /\ window = "closed" /\ waits = 0 /\ made = 0

Settled(id, with) == Append(replies, [id |-> id, with |-> with])

\* requestContactMigrationScan and requestContactMigrationExecute: a request
\* that is pending is cancelled, its timer with it.
Request(op) ==
    /\ made < MaxCalls
    /\ made' = made + 1 /\ waits' = made + 1
    /\ IF ~up THEN replies' = Settled(made + 1, "error") /\ UNCHANGED <<out, slot, timers>>
       ELSE /\ out' = Append(out, op)
            /\ slot' = made + 1
            /\ timers' = (timers \ {slot}) \union {made + 1}
            /\ replies' = IF slot = 0 THEN replies ELSE Settled(slot, "error")
    /\ UNCHANGED <<up, back>>

Open == window = "closed" /\ window' = "idle" /\ UNCHANGED <<up, out, back, slot, timers, replies, waits, made>>
Scan == window \in {"idle", "error"} /\ window' = "scanning" /\ Request("scan")
Migrate == window = "results" /\ window' = "migrating" /\ Request("execute")
Close == window # "closed" /\ window' = "closed" /\ UNCHANGED <<up, out, back, slot, timers, replies, waits, made>>

PhoneAnswers == out # <<>> /\ out' = Tail(out) /\ back' = Append(back, Head(out)) /\ UNCHANGED <<up, slot, timers, replies, window, waits, made>>

\* Mutation of the next definition.
AnswerLeavingTimer ==
    /\ back # <<>>
    /\ back' = Tail(back)
    /\ slot' = 0 /\ UNCHANGED timers
    /\ replies' = IF slot = 0 THEN replies ELSE Settled(slot, Head(back))
    /\ UNCHANGED <<up, out, window, waits, made>>

\* Either answer resolves the promise that waits; one that comes too late is dropped.
Answer ==
    /\ back # <<>>
    /\ back' = Tail(back)
    /\ slot' = 0 /\ timers' = timers \ {slot}
    /\ replies' = IF slot = 0 THEN replies ELSE Settled(slot, Head(back))
    /\ UNCHANGED <<up, out, window, waits, made>>

\* 30 s for a scan, 120 s for a migration.
Timer(id) ==
    /\ id \in timers
    /\ timers' = timers \ {id} /\ slot' = 0 /\ replies' = Settled(id, "error")
    /\ UNCHANGED <<up, out, back, window, waits, made>>

\* The window takes any answer to a migration for its result, and reads contacts out of any
\* answer to a scan: the answer to a migration has none, which is an error.
HandleReply ==
    /\ replies # <<>>
    /\ replies' = Tail(replies)
    /\ LET m == Head(replies) IN
       \/ (window \notin Busy \/ m.id # waits) /\ UNCHANGED window
       \/ window \in Busy /\ m.id = waits
          /\ \/ m.with = "error" /\ window' = "error"
             \/ m.with # "error" /\ window = "migrating" /\ window' = "complete"
             \/ m.with = "execute" /\ window = "scanning" /\ window' = "error"
             \/ m.with = "scan" /\ window = "scanning" /\ window' \in {"results", "complete"}
    /\ UNCHANGED <<up, out, back, slot, timers, waits, made>>

Disconnect == up /\ up' = FALSE /\ out' = <<>> /\ back' = <<>> /\ UNCHANGED <<slot, timers, replies, window, waits, made>>
Connect == ~up /\ up' = TRUE /\ UNCHANGED <<out, back, slot, timers, replies, window, waits, made>>

Next ==
    \/ Open \/ Scan \/ Migrate \/ Close \/ PhoneAnswers \/ Answer
    \/ \E id \in timers : Timer(id)
    \/ HandleReply \/ Disconnect \/ Connect

Spec == Init /\ [][Next]_vars

--------------------
\* A window that scans or migrates holds the promise the next answer settles,
\* with a timer of its own, or the outcome is on its way: no request before it
\* took its place or its timer away.
WaiterIsHeard ==
    window \in Busy =>
        \/ slot = waits /\ timers = {waits}
        \/ \E i \in DOMAIN replies : replies[i].id = waits
====================
