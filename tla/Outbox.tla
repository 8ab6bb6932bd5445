---------- MODULE Outbox ----------
(* What the send queue promises its user: a message that was submitted is *)
(* open until it gets one outcome, "sent" is said only of a message the phone *)
(* has sent, an outcome is never taken back, and an entry that was closed *)
(* (cancelled, retried, replaced by the real message) stays closed. *)
EXTENDS Naturals

CONSTANT Sends

VARIABLES
    stage,          \* what the user sees of each message
    delivered       \* those the phone has sent

vars == <<stage, delivered>>

Outcomes == {"sent", "timeout", "failed"}
Stages == {"unused", "sending", "closed"} \cup Outcomes

Init ==
    /\ stage = [s \in Sends |-> "unused"]
    /\ delivered = {}

\* A message whose twin the phone has just reported is never shown: closed at once.
Submit(s) ==
    /\ stage[s] = "unused"
    /\ \E st \in {"sending", "closed"} : stage' = [stage EXCEPT ![s] = st]
    /\ UNCHANGED delivered

Deliver(s) ==
    /\ stage[s] # "unused"
    /\ delivered' = delivered \cup {s}
    /\ UNCHANGED stage

Report(s, outcome) ==
    /\ stage[s] = "sending"
    /\ outcome = "sent" => s \in delivered
    /\ stage' = [stage EXCEPT ![s] = outcome]
    /\ UNCHANGED delivered

\* Several entries close at once; a retry submits the next message in the same step.
Close(S, opened) ==
    /\ \A s \in S : stage[s] \notin {"unused", "closed"}
    /\ \A s \in opened : stage[s] = "unused"
    /\ \E st \in {"sending", "closed"} :
           stage' = [s \in Sends |-> IF s \in S THEN "closed"
                                    ELSE IF s \in opened THEN st ELSE stage[s]]
    /\ UNCHANGED delivered

Next ==
    \/ \E s \in Sends :
           \/ Submit(s)
           \/ Deliver(s)
           \/ \E outcome \in Outcomes : Report(s, outcome)
    \/ \E S \in (SUBSET Sends) \ {{}}, opened \in {{}} \cup {{s} : s \in Sends} :
           Close(S, opened)

Spec == Init /\ [][Next]_vars
====================
