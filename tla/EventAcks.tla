---------- MODULE EventAcks ----------
(* The phone's events and their acknowledgements.  Three handlers (messages, *)
(* new photos, changed files) apply each event as it comes and collect the *)
(* numbers to acknowledge behind a timer that every event restarts.  The *)
(* phone keeps an event until it is acknowledged, and sends what it has kept *)
(* again when the desktop subscribes. *)
EXTENDS Integers, Sequences, FiniteSets

CONSTANTS MaxEvents, MaxCuts    \* bounds: events on the phone, ends of a connection and resyncs

VARIABLES
    phone,      \* kind -> events kept on the phone
    kindOf,     \* the kind of each event, in the order they were made
    handled,    \* events a handler has applied
    up, subscribed, out, back, cuts,    \* the connection, and what travels each way
    pendingAckIds, ackTimer             \* kind -> what the handler has to acknowledge, and its timer

vars == <<phone, kindOf, handled, up, subscribed, out, back, cuts, pendingAckIds, ackTimer>>

Kinds == {"message", "media", "watch"}
Ids == 1..MaxEvents

TypeOK ==
    /\ phone \in [Kinds -> SUBSET Ids] /\ Len(kindOf) <= MaxEvents /\ handled \subseteq Ids
    /\ up \in BOOLEAN /\ subscribed \in BOOLEAN /\ cuts \in 0..MaxCuts
    /\ pendingAckIds \in [Kinds -> SUBSET Ids] /\ ackTimer \in [Kinds -> BOOLEAN]
    /\ ~up => out = <<>> /\ back = <<>> /\ ~subscribed
    /\ \A k \in Kinds : ackTimer[k] => pendingAckIds[k] # {}

Init ==
    /\ phone = [k \in Kinds |-> {}] /\ kindOf = <<>> /\ handled = {}
    /\ up = FALSE /\ subscribed = FALSE /\ out = <<>> /\ back = <<>> /\ cuts = 0
    /\ pendingAckIds = [k \in Kinds |-> {}] /\ ackTimer = [k \in Kinds |-> FALSE]

Subscribe == [op |-> "subscribe", kind |-> "all", ids |-> {}]
Acks(k) == [op |-> "ack", kind |-> k, ids |-> pendingAckIds[k]]

--------------------
(* The phone *)
PhoneEvent(k) ==
    /\ Len(kindOf) < MaxEvents
    /\ LET e == Len(kindOf) + 1 IN
       /\ kindOf' = Append(kindOf, k)
       /\ phone' = [phone EXCEPT ![k] = @ \union {e}]
       /\ back' = IF subscribed THEN Append(back, e) ELSE back
    /\ UNCHANGED <<handled, up, subscribed, out, cuts, pendingAckIds, ackTimer>>

\* The events it keeps, oldest first.
Kept ==
    LET ids == {e \in DOMAIN kindOf : e \in phone[kindOf[e]]}
    IN CHOOSE s \in [1..Cardinality(ids) -> ids] :
          \A i, j \in DOMAIN s : i < j => s[i] < s[j]

PhoneServes ==
    /\ out # <<>>
    /\ out' = Tail(out)
    /\ LET m == Head(out) IN
       IF m.op = "subscribe" THEN subscribed' = TRUE /\ back' = back \o Kept /\ UNCHANGED phone
       ELSE phone' = [phone EXCEPT ![m.kind] = @ \ m.ids] /\ UNCHANGED <<subscribed, back>>
    /\ UNCHANGED <<kindOf, handled, up, cuts, pendingAckIds, ackTimer>>

--------------------
(* The handlers *)
QueueAck(k, e) ==
    /\ pendingAckIds' = [pendingAckIds EXCEPT ![k] = @ \union {e}]
    /\ ackTimer' = [ackTimer EXCEPT ![k] = TRUE]

Handle(k) ==
    /\ back # <<>> /\ kindOf[Head(back)] = k
    /\ back' = Tail(back)
    /\ handled' = handled \union {Head(back)}
    /\ QueueAck(k, Head(back))
    /\ UNCHANGED <<phone, kindOf, up, subscribed, out, cuts>>

HandleEvent == Handle("message")
HandleMediaEvent == Handle("media")
HandleWatchEvent == Handle("watch")

\* Without a connection the numbers are dropped.
FlushAcks(k) ==
    /\ ackTimer[k]
    /\ out' = IF up THEN Append(out, Acks(k)) ELSE out
    /\ pendingAckIds' = [pendingAckIds EXCEPT ![k] = {}]
    /\ ackTimer' = [ackTimer EXCEPT ![k] = FALSE]
    /\ UNCHANGED <<phone, kindOf, handled, up, subscribed, back, cuts>>

\* A mutation of the next definition.
ClearIdsOnly == pendingAckIds' = [k \in Kinds |-> {}] /\ UNCHANGED ackTimer

ClearPendingAcks ==
    /\ pendingAckIds' = [k \in Kinds |-> {}]
    /\ ackTimer' = [k \in Kinds |-> FALSE]

--------------------
(* The connection *)
Connect ==
    /\ ~up
    /\ up' = TRUE /\ out' = <<Subscribe>>
    /\ UNCHANGED <<phone, kindOf, handled, subscribed, back, cuts, pendingAckIds, ackTimer>>

Cut == up /\ cuts < MaxCuts /\ cuts' = cuts + 1 /\ UNCHANGED <<phone, kindOf, handled>>

Disconnect ==
    /\ Cut
    /\ up' = FALSE /\ subscribed' = FALSE /\ out' = <<>> /\ back' = <<>>
    /\ ClearPendingAcks

\* The phone's next connection takes the place of this one.
Replaced ==
    /\ Cut
    /\ subscribed' = FALSE /\ out' = <<Subscribe>> /\ back' = <<>>
    /\ ClearPendingAcks
    /\ UNCHANGED up

\* A mutation of the next definition.
ResyncUnsubscribed == Cut /\ ClearPendingAcks /\ UNCHANGED <<up, subscribed, back, out>>

Resync == Cut /\ ClearPendingAcks /\ out' = Append(out, Subscribe) /\ UNCHANGED <<up, subscribed, back>>

Next ==
    \/ \E k \in Kinds : PhoneEvent(k) \/ FlushAcks(k)
    \/ PhoneServes \/ HandleEvent \/ HandleMediaEvent \/ HandleWatchEvent
    \/ Connect \/ Disconnect \/ Replaced \/ Resync

Spec == Init /\ [][Next]_vars

--------------------
\* The phone forgets no event that its handler has not applied; and on a live
\* connection an event it still keeps is on its way here, waits for the
\* timer, is being acknowledged, or comes again with the next subscription.
EventsAreAcked ==
    /\ \A e \in DOMAIN kindOf : e \in phone[kindOf[e]] \/ e \in handled
    /\ up => \A k \in Kinds : \A e \in phone[k] :
          \/ \E i \in DOMAIN back : back[i] = e
          \/ e \in pendingAckIds[k] /\ ackTimer[k]
          \/ \E i \in DOMAIN out : out[i] = Subscribe \/ (out[i].kind = k /\ e \in out[i].ids)
====================
