---------- MODULE QueryLine ----------
(***************************************************************************)
(* What the query client promises its callers (docs/ *)
(* PROTOCOL_1_3_REVISIONS.md, "Desktop-Side Query Abstraction"): calls *)
(* stand in one line, only the call at the head is being served, it ends *)
(* with its complete answer or with an error, and losing the connection *)
(* fails everybody in the line at once.  Nothing is said of pages, *)
(* acknowledgements, timers or the phone. *)
(***************************************************************************)
EXTENDS Naturals, Sequences

CONSTANTS
    Queries,   \* the calls ever made of the client, each made once
    Answer     \* Answer[q]: the complete answer to q

VARIABLES
    line,      \* the calls that wait, in the order they were made
    outcome,   \* outcome[q]: "idle", "refused", "waiting", "resolved" or "rejected"
    result     \* result[q]: what the caller's promise was resolved with

vars == <<line, outcome, result>>

Init ==
    /\ line = <<>>
    /\ outcome = [q \in Queries |-> "idle"]
    /\ result = [q \in Queries |-> {}]

\* A call is made and joins the line, or is refused on the spot.
Ask(q) ==
    /\ outcome[q] = "idle"
    /\ \/ /\ line' = Append(line, q)
          /\ outcome' = [outcome EXCEPT ![q] = "waiting"]
       \/ /\ outcome' = [outcome EXCEPT ![q] = "refused"]
          /\ UNCHANGED line
    /\ UNCHANGED result

\* The head of the line gets its whole answer.
AnswerHead ==
    /\ line # <<>>
    /\ outcome' = [outcome EXCEPT ![Head(line)] = "resolved"]
    /\ result' = [result EXCEPT ![Head(line)] = Answer[Head(line)]]
    /\ line' = Tail(line)

\* The head of the line is given up; the calls behind it move up.
FailHead ==
    /\ line # <<>>
    /\ outcome' = [outcome EXCEPT ![Head(line)] = "rejected"]
    /\ line' = Tail(line)
    /\ UNCHANGED result

\* The connection is lost: everybody who waits is told so.
FailAll ==
    /\ line' = <<>>
    /\ outcome' = [q \in Queries |->
                      IF outcome[q] = "waiting" THEN "rejected" ELSE outcome[q]]
    /\ UNCHANGED result

Next ==
    \/ \E q \in Queries : Ask(q)
    \/ AnswerHead
    \/ FailHead
    \/ FailAll

SafeSpec == Init /\ [][Next]_vars

\* The head never waits for ever.
Spec == SafeSpec /\ WF_vars(AnswerHead \/ FailHead)
====================
