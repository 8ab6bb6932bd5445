---------- MODULE QueryClient_proofs ----------
(***************************************************************************)
(* Theorems about the query client, for any number of calls, pages and *)
(* any window.  The argument: TypeOK; then NobodyForgotten, which says *)
(* that the unsettled promises are exactly the calls of the line; then *)
(* Delivery, which says that the pages of the query in progress that are *)
(* still to come lie in order, without a gap, between the phone and the *)
(* desktop.  Completeness of answers and the refinement of QueryLine *)
(* follow from the three.  Oversight, last, counts pages and ACKs and *)
(* follows each query and cancellation to the phone: its window is kept. *)
(***************************************************************************)
EXTENDS QueryClient, SequenceTheorems, FunctionTheorems, FiniteSetTheorems, TLAPS

USE DEF Message, Page

--------------------
(* Sequences. *)

LEMMA Elements ==
    ASSUME NEW S, NEW s \in Seq(S)
    PROVE  \A i \in DOMAIN s : s[i] \in S
BY ElementOfSeq, LenProperties

\* Putting an element in front of a sequence, as Line does.
LEMMA FrontProperties ==
    ASSUME NEW S, NEW s \in Seq(S), NEW e \in S
    PROVE  /\ <<e>> \o s \in Seq(S)
           /\ <<e>> \o s # <<>>
           /\ Len(<<e>> \o s) = Len(s) + 1
           /\ (<<e>> \o s)[1] = e
           /\ \A i \in 1..Len(s) : (<<e>> \o s)[i + 1] = s[i]
           /\ Head(<<e>> \o s) = e
           /\ Tail(<<e>> \o s) = s
<1> DEFINE f == <<e>> \o s
<1>1. <<e>> \in Seq(S) /\ Len(<<e>>) = 1 /\ <<e>>[1] = e OBVIOUS
<1>2. f \in Seq(S) /\ Len(f) = Len(s) + 1 BY <1>1, ConcatProperties
<1>3. f[1] = e /\ \A i \in 1..Len(s) : f[i + 1] = s[i]
  <2>1. \A i \in 1..(1 + Len(s)) : f[i] = IF i <= 1 THEN <<e>>[i] ELSE s[i - 1]
    BY <1>1, ConcatProperties
  <2>2. Len(s) \in Nat OBVIOUS
  <2> HIDE DEF f
  <2> QED BY <1>1, <2>1, <2>2
<1>4. f # <<>> /\ Head(f) = e
  <2> HIDE DEF f
  <2> QED BY <1>2, <1>3
<1>5. Tail(f) = s
  <2> HIDE DEF f
  <2>1. Tail(f) \in Seq(S) /\ Len(Tail(f)) = Len(s)
        /\ \A i \in 1..Len(s) : Tail(f)[i] = f[i + 1]
    BY <1>2, <1>4, HeadTailProperties
  <2> QED BY <1>3, <2>1, SeqEqual
<1> QED BY <1>2, <1>3, <1>4, <1>5

\* What is sent joins the messages on their way, or is swallowed.
LEMMA OnWireProperties ==
    ASSUME toPhone \in Seq(Message), NEW msgs \in Seq(Message)
    PROVE  /\ OnWire(msgs) \in Seq(Message)
           /\ ~link => OnWire(msgs) = toPhone
           /\ \A i \in DOMAIN OnWire(msgs) :
                 \/ \E j \in DOMAIN toPhone : OnWire(msgs)[i] = toPhone[j]
                 \/ \E j \in DOMAIN msgs : OnWire(msgs)[i] = msgs[j]
<1>1. CASE link /\ sendMessage
  <2>1. OnWire(msgs) = toPhone \o msgs BY <1>1 DEF OnWire
  <2>2. Len(toPhone) \in Nat /\ Len(msgs) \in Nat
        /\ DOMAIN toPhone = 1..Len(toPhone) /\ DOMAIN msgs = 1..Len(msgs)
    OBVIOUS
  <2> DEFINE w == toPhone \o msgs
  <2>3. w \in Seq(Message) /\ DOMAIN w = 1..(Len(toPhone) + Len(msgs))
    BY ConcatProperties, LenProperties
  <2>4. \A i \in 1..(Len(toPhone) + Len(msgs)) :
            w[i] = IF i <= Len(toPhone) THEN toPhone[i] ELSE msgs[i - Len(toPhone)]
    BY ConcatProperties
  <2> HIDE DEF w
  <2>5. ASSUME NEW i \in DOMAIN w
        PROVE  \/ \E j \in DOMAIN toPhone : w[i] = toPhone[j]
               \/ \E j \in DOMAIN msgs : w[i] = msgs[j]
    <3>1. CASE i <= Len(toPhone) BY <3>1, <2>2, <2>3, <2>4
    <3>2. CASE ~(i <= Len(toPhone))
      <4>1. i - Len(toPhone) \in DOMAIN msgs /\ w[i] = msgs[i - Len(toPhone)]
        BY <3>2, <2>2, <2>3, <2>4
      <4> QED BY <4>1
    <3> QED BY <3>1, <3>2
  <2> QED BY <1>1, <2>1, <2>3, <2>5 DEF w
<1>2. CASE ~(link /\ sendMessage) BY <1>2 DEF OnWire
<1> QED BY <1>1, <1>2

\* A dispatched query goes out behind msgs.
LEMMA SentMessages ==
    ASSUME NEW q \in Queries
    PROVE  /\ AckFor(q) \in Seq(Message) /\ CancelFor(q) \in Seq(Message)
           /\ \A msgs \in Seq(Message) : Append(msgs, Query(q)) \in Seq(Message)
BY DEF AckFor, CancelFor, Ack, Cancel, Query

--------------------
(* Types. *)

FlagsOK ==
    /\ link \in BOOLEAN
    /\ sendMessage \in BOOLEAN
    /\ onPage \in BOOLEAN

ClientOK ==
    /\ active \in Queries \cup {None}
    /\ queue \in Seq(Queries)
    /\ got \subseteq Nat \ {0}
    /\ receivedCount \in Nat
    /\ timer \in {"off", "first", "idle"}

DataOK ==
    /\ ClientOK
    /\ outcome \in [Queries -> {"idle", "refused", "waiting", "resolved", "rejected"}]
    /\ result \in [Queries -> SUBSET (Nat \ {0})]
    /\ streamed \in [Queries -> SUBSET (Nat \ {0})]
    /\ toPhone \in Seq(Message)
    /\ toDesktop \in Seq(Page)
    /\ sent \in [Queries -> Nat]
    /\ acked \in [Queries -> Nat]
    /\ serving \subseteq Queries
    /\ orphaned \subseteq Queries

LEMMA TypeParts == TypeOK <=> FlagsOK /\ DataOK
BY DEF TypeOK, FlagsOK, DataOK, ClientOK

\* The flags hold Booleans: each is assigned a literal, or whether a call streams.
LEMMA FlagStep == FlagsOK /\ [Next]_vars => FlagsOK'
<1> SUFFICES ASSUME FlagsOK, [Next]_vars PROVE FlagsOK'
  OBVIOUS
<1> USE DEF FlagsOK, client, Dispatch, DrainQueue, LeaveQueue, Idle, RejectAll
<1>1. ASSUME NEW q \in Queries, Call(q) PROVE FlagsOK'
  <2>1. (q \in Streaming) \in BOOLEAN OBVIOUS
  <2>2. UNCHANGED <<link, sendMessage>> /\ (UNCHANGED onPage \/ onPage' = (q \in Streaming))
    BY <1>1, Zenon DEF Call
  <2> QED BY <2>1, <2>2, Zenon
<1>2. CASE PageOfUnknownQuery BY <1>2, Zenon DEF PageOfUnknownQuery
<1>3. CASE HandleResultPage BY <1>3, Zenon DEF HandleResultPage
<1>4. CASE Timeout BY <1>4, Zenon DEF Timeout
<1>5. ASSUME NEW q \in Aborters, Abort(q) PROVE FlagsOK'
  BY <1>5, Zenon DEF Abort
<1>6. CASE LinkBreaks BY <1>6, Zenon DEF LinkBreaks
<1>7. CASE Disconnected BY <1>7, Zenon DEF Disconnected
<1>8. CASE Connected BY <1>8, Zenon DEF Connected
<1>9. CASE Rewire BY <1>9, Zenon DEF Rewire
<1>10. CASE PhoneReceives BY <1>10, Zenon DEF PhoneReceives
<1>11. ASSUME NEW q \in Queries, PhoneSendsPage(q) PROVE FlagsOK'
  BY <1>11, Zenon DEF PhoneSendsPage
<1>12. CASE UNCHANGED vars BY <1>12, Zenon DEF vars
<1> QED BY <1>1, <1>2, <1>3, <1>4, <1>5, <1>6, <1>7, <1>8, <1>9, <1>10, <1>11, <1>12 DEF Next

\* dispatch() and drainQueue() keep the client's fields in their types.
LEMMA DispatchTypes ==
    ASSUME toPhone \in Seq(Message), NEW q \in Queries, NEW b,
           NEW msgs \in Seq(Message), Dispatch(q, b, msgs),
           queue' \in Seq(Queries)
    PROVE  ClientOK' /\ toPhone' \in Seq(Message)
BY SentMessages, OnWireProperties DEF Dispatch, ClientOK, TimerFor

LEMMA DrainTypes ==
    ASSUME toPhone \in Seq(Message), queue \in Seq(Queries),
           NEW msgs \in Seq(Message), DrainQueue(msgs)
    PROVE  ClientOK' /\ toPhone' \in Seq(Message)
<1>1. CASE queue = <<>>
  <2>1. Idle /\ queue' = queue /\ toPhone' = OnWire(msgs) BY <1>1 DEF DrainQueue, LeaveQueue
  <2>2. active' = None /\ got' = {} /\ receivedCount' = 0 /\ timer' = "off" BY <2>1 DEF Idle
  <2> QED BY <2>1, <2>2, OnWireProperties DEF ClientOK
<1>2. CASE queue # <<>>
  <2>1. Head(queue) \in Queries /\ Tail(queue) \in Seq(Queries) BY <1>2, HeadTailProperties
  <2>2. Dispatch(Head(queue), FALSE, msgs) /\ queue' = Tail(queue) BY <1>2 DEF DrainQueue
  <2> QED BY <2>1, <2>2, DispatchTypes
<1> QED BY <1>1, <1>2

\* RejectAll leaves an idle client and settled promises.
LEMMA RejectTypes ==
    ASSUME DataOK, RejectAll
    PROVE  ClientOK' /\ outcome' \in [Queries -> {"idle", "refused", "waiting", "resolved", "rejected"}]
           /\ result' = result /\ streamed' = streamed
<1>1. active' = None /\ queue' = <<>> /\ got' = {} /\ receivedCount' = 0 /\ timer' = "off"
  BY DEF RejectAll, Idle
<1>2. ClientOK' BY <1>1 DEF ClientOK
<1> QED BY <1>2 DEF RejectAll, DataOK

\* The query in progress is a query.
LEMMA ActiveIsQuery ==
    ASSUME DataOK, active # None
    PROVE  active \in Queries /\ AckFor(active) \in Seq(Message)
           /\ CancelFor(active) \in Seq(Message)
BY SentMessages DEF DataOK, ClientOK

\* A page that is handled.
LEMMA PageAtHead ==
    ASSUME DataOK, toDesktop # <<>>
    PROVE  /\ Head(toDesktop) \in Page /\ Head(toDesktop) = toDesktop[1]
           /\ Tail(toDesktop) \in Seq(Page)
           /\ Expected(Head(toDesktop)) => active # None
<1>1. toDesktop \in Seq(Page) BY DEF DataOK
<1>2. Head(toDesktop) \in Page /\ Tail(toDesktop) \in Seq(Page) BY <1>1, HeadTailProperties
<1>3. Head(toDesktop).q # None BY <1>2, QueryClientAssumption
<1>4. Head(toDesktop) = toDesktop[1] BY <1>1
<1> QED BY <1>2, <1>3, <1>4 DEF Expected

LEMMA DataStep == DataOK /\ [Next]_vars => DataOK'
<1> SUFFICES ASSUME DataOK, [Next]_vars PROVE DataOK'
  OBVIOUS
<1> USE DEF promise, phone, Settle
<1>1. ASSUME NEW q \in Queries, Call(q) PROVE DataOK'
  <2>1. CASE ~sendMessage BY <1>1, <2>1 DEF Call, DataOK, ClientOK, client
  <2>2. CASE sendMessage /\ active # None
    <3>1. queue' = Append(queue, q) /\ UNCHANGED <<active, got, receivedCount, timer, toPhone>>
      BY <1>1, <2>2 DEF Call, Enqueue
    <3>2. queue' \in Seq(Queries) BY <3>1 DEF DataOK, ClientOK
    <3> QED BY <1>1, <2>2, <3>1, <3>2 DEF Call, DataOK, ClientOK
  <2>3. CASE sendMessage /\ active = None
    <3>1. Dispatch(q, q \in Streaming, <<>>) /\ queue' = queue BY <1>1, <2>3 DEF Call
    <3>2. ClientOK' /\ toPhone' \in Seq(Message)
      BY <3>1, DispatchTypes, <<>> \in Seq(Message) DEF DataOK, ClientOK
    <3> QED BY <1>1, <2>3, <3>2 DEF Call, DataOK
  <2> QED BY <2>1, <2>2, <2>3, <1>1 DEF Call
<1>2. CASE PageOfUnknownQuery BY <1>2, PageAtHead DEF PageOfUnknownQuery, DataOK, ClientOK, client
<1>3. CASE HandleResultPage
  <2> DEFINE page == Head(toDesktop).page
  <2>1. toDesktop # <<>> /\ Expected(Head(toDesktop)) /\ toDesktop' = Tail(toDesktop)
    BY <1>3 DEF HandleResultPage
  <2>2. active # None /\ page \in Nat \ {0} /\ Tail(toDesktop) \in Seq(Page) BY <2>1, PageAtHead
  <2>3. streamed' \in [Queries -> SUBSET (Nat \ {0})]
    BY <1>3, <2>2, ActiveIsQuery DEF HandleResultPage, DataOK
  <2>4. CASE IsLast(active)
    <3>1. DrainQueue(AckFor(active)) BY <1>3, <2>4 DEF HandleResultPage
    <3>2. ClientOK' /\ toPhone' \in Seq(Message)
      BY <3>1, <2>2, ActiveIsQuery, DrainTypes DEF DataOK, ClientOK
    <3>3. (got \cup {page}) \cap Answer[active] \subseteq Nat \ {0} BY <2>2 DEF DataOK, ClientOK
    <3>4. outcome' = [outcome EXCEPT ![active] = "resolved"]
          /\ result' = [result EXCEPT ![active] = (got \cup {page}) \cap Answer[active]]
          /\ UNCHANGED phone
      BY <1>3, <2>4 DEF HandleResultPage
    <3> QED BY <2>1, <2>2, <2>3, <3>2, <3>3, <3>4 DEF DataOK
  <2>5. CASE ~IsLast(active)
    <3>1. toPhone' \in Seq(Message)
      BY <1>3, <2>2, <2>5, ActiveIsQuery, OnWireProperties DEF HandleResultPage, DataOK
    <3>2. got' = got \cup {page} /\ receivedCount' = receivedCount + 1
          /\ timer' = TimerFor(receivedCount + 1)
          /\ UNCHANGED <<active, queue, outcome, result, phone>>
      BY <1>3, <2>5 DEF HandleResultPage
    <3>3. ClientOK'
      <4>1. got' \subseteq Nat \ {0} BY <2>2, <3>2 DEF ClientOK, DataOK
      <4>2. receivedCount' \in Nat /\ timer' \in {"off", "first", "idle"}
        BY <3>2 DEF ClientOK, DataOK, TimerFor
      <4> QED BY <3>2, <4>1, <4>2 DEF ClientOK, DataOK
    <3> QED BY <2>1, <2>2, <2>3, <3>1, <3>2, <3>3 DEF DataOK
  <2> QED BY <2>4, <2>5
<1>4. ASSUME active # None, DrainQueue(CancelFor(active)),
             Settle(active, "rejected"),
             UNCHANGED <<link, sendMessage, result, streamed, toDesktop, phone>>
      PROVE  DataOK'
  <2>1. ClientOK' /\ toPhone' \in Seq(Message)
    BY <1>4, ActiveIsQuery, DrainTypes DEF DataOK, ClientOK
  <2> QED BY <1>4, <2>1 DEF DataOK
<1>5. CASE Timeout BY <1>4, <1>5 DEF Timeout
<1>6. ASSUME NEW q \in Aborters, Abort(q) PROVE DataOK'
  BY <1>4, <1>6 DEF Abort
<1>7. CASE LinkBreaks
  <2>1. toPhone' = <<>> /\ toDesktop' = <<>> /\ serving' = {}
        /\ UNCHANGED <<client, promise, sent, acked, orphaned>>
    BY <1>7 DEF LinkBreaks, LoseChannel
  <2> QED BY <2>1 DEF DataOK, ClientOK, client
<1>8. CASE Disconnected BY <1>8, RejectTypes DEF Disconnected, DataOK
<1>9. CASE Connected
  <2>1. toPhone' = <<>> /\ toDesktop' = <<>> /\ serving' = {}
        /\ UNCHANGED <<sent, acked, orphaned>>
    BY <1>9 DEF Connected, LoseChannel
  <2>2. ClientOK' /\ outcome' \in [Queries -> {"idle", "refused", "waiting", "resolved", "rejected"}]
        /\ result' = result /\ streamed' = streamed
    BY <1>9, RejectTypes DEF Connected
  <2> QED BY <2>1, <2>2 DEF DataOK
<1>10. CASE Rewire BY <1>10, RejectTypes DEF Rewire, DataOK, ClientOK
<1>11. CASE PhoneReceives
  <2>1. Head(toPhone) \in Message /\ Tail(toPhone) \in Seq(Message)
    BY <1>11, HeadTailProperties DEF PhoneReceives, DataOK
  <2>2. toPhone' = Tail(toPhone) /\ UNCHANGED <<client, promise, toDesktop, sent, orphaned>>
    BY <1>11 DEF PhoneReceives
  <2>3. acked' \in [Queries -> Nat] /\ serving' \subseteq Queries
    <3> DEFINE m == Head(toPhone)
    <3>1. m.q \in Queries BY <2>1
    <3>2. acked' = acked \/ acked' = [acked EXCEPT ![m.q] = @ + 1] BY <1>11 DEF PhoneReceives
    <3>3. serving' \subseteq serving \cup {m.q} BY <1>11 DEF PhoneReceives
    <3> QED BY <3>1, <3>2, <3>3 DEF DataOK
  <2> QED BY <2>1, <2>2, <2>3 DEF DataOK, ClientOK, client
<1>12. ASSUME NEW q \in Queries, PhoneSendsPage(q) PROVE DataOK'
  <2>1. sent[q] + 1 \in Nat \ {0} BY DEF DataOK
  <2> QED BY <1>12, <2>1 DEF PhoneSendsPage, DataOK, ClientOK, client
<1>13. CASE UNCHANGED vars BY <1>13 DEF vars, DataOK, ClientOK, client
<1> QED BY <1>1, <1>2, <1>3, <1>5, <1>6, <1>7, <1>8, <1>9, <1>10, <1>11, <1>12, <1>13 DEF Next

\* Every field of the client, the channels and the phone keeps its type.
THEOREM TypeCorrect == Spec => []TypeOK
<1>1. Init => FlagsOK BY Zenon DEF Init, FlagsOK
<1>2. Init => DataOK
  <2>1. Init => ClientOK BY DEF Init, ClientOK
  <2>2. Init => /\ outcome = [q \in Queries |-> "idle"]
                /\ result = [q \in Queries |-> {}] /\ streamed = [q \in Queries |-> {}]
                /\ toPhone = <<>> /\ toDesktop = <<>>
                /\ sent = [q \in Queries |-> 0] /\ acked = [q \in Queries |-> 0]
                /\ serving = {} /\ orphaned = {}
    BY DEF Init
  <2> QED BY <2>1, <2>2 DEF DataOK
<1> QED BY <1>1, <1>2, FlagStep, DataStep, TypeParts, PTL DEF Spec

--------------------
(* The line of calls. *)

InSeq(x, s) == \E i \in DOMAIN s : s[i] = x
NoRepeats(s) == \A i, j \in DOMAIN s : s[i] = s[j] => i = j
LineOf(a, s) == IF a = None THEN s ELSE <<a>> \o s

LEMMA LineProperties ==
    ASSUME NEW a \in Queries \cup {None}, NEW s \in Seq(Queries)
    PROVE  /\ LineOf(a, s) \in Seq(Queries)
           /\ a = None => LineOf(a, s) = s
           /\ a # None => /\ LineOf(a, s) # <<>>
                          /\ Head(LineOf(a, s)) = a
                          /\ Tail(LineOf(a, s)) = s
BY FrontProperties DEF LineOf

LEMMA HeadAndTail ==
    ASSUME NEW S, NEW s \in Seq(S), s # <<>>
    PROVE  <<Head(s)>> \o Tail(s) = s
<1>1. Head(s) \in S /\ Tail(s) \in Seq(S) /\ Len(Tail(s)) = Len(s) - 1
      /\ \A i \in 1..Len(Tail(s)) : Tail(s)[i] = s[i + 1]
  BY HeadTailProperties
<1> DEFINE f == <<Head(s)>> \o Tail(s)
<1>2. f \in Seq(S) /\ Len(f) = Len(Tail(s)) + 1 /\ f[1] = Head(s)
      /\ \A i \in 1..Len(Tail(s)) : f[i + 1] = Tail(s)[i]
  BY <1>1, FrontProperties
<1> HIDE DEF f
<1>3. Len(s) \in Nat /\ Head(s) = s[1] OBVIOUS
<1>4. ASSUME NEW i \in 1..Len(f) PROVE f[i] = s[i]
  <2>1. CASE i = 1 BY <1>2, <1>3, <2>1
  <2>2. CASE i # 1
    <3>1. i - 1 \in 1..Len(Tail(s)) /\ (i - 1) + 1 = i BY <1>1, <1>2, <1>3, <2>2
    <3> QED BY <1>1, <1>2, <3>1
  <2> QED BY <2>1, <2>2
<1>5. f = s BY <1>1, <1>2, <1>3, <1>4, SeqEqual
<1> QED BY <1>5 DEF f

LEMMA AppendToLine ==
    ASSUME NEW s \in Seq(Queries), NEW q \in Queries, NoRepeats(s), ~InSeq(q, s)
    PROVE  /\ NoRepeats(Append(s, q))
           /\ \A x : InSeq(x, Append(s, q)) <=> InSeq(x, s) \/ x = q
<1>1. Len(s) \in Nat /\ DOMAIN s = 1..Len(s) /\ DOMAIN Append(s, q) = 1..(Len(s) + 1)
      /\ Append(s, q)[Len(s) + 1] = q
      /\ \A i \in 1..Len(s) : Append(s, q)[i] = s[i]
  OBVIOUS
<1>2. \A i \in 1..(Len(s) + 1) : i \in 1..Len(s) \/ i = Len(s) + 1 BY <1>1
<1> QED BY <1>1, <1>2 DEF InSeq, NoRepeats

LEMMA TailOfLine ==
    ASSUME NEW s \in Seq(Queries), s # <<>>, NoRepeats(s)
    PROVE  /\ InSeq(Head(s), s)
           /\ NoRepeats(Tail(s))
           /\ \A x : InSeq(x, Tail(s)) <=> InSeq(x, s) /\ x # Head(s)
<1> DEFINE t == Tail(s)
<1>1. Len(s) \in Nat \ {0} /\ DOMAIN s = 1..Len(s) /\ Head(s) = s[1] OBVIOUS
<1>2. t \in Seq(Queries) /\ Len(t) = Len(s) - 1 /\ DOMAIN t = 1..(Len(s) - 1)
      /\ \A i \in 1..(Len(s) - 1) : t[i] = s[i + 1]
  BY <1>1, HeadTailProperties, LenProperties
<1> HIDE DEF t
<1>3. \A i \in 1..(Len(s) - 1) : i + 1 \in 1..Len(s) /\ i + 1 # 1 BY <1>1
<1>4. \A i \in 1..Len(s) : i = 1 \/ (i - 1 \in 1..(Len(s) - 1) /\ (i - 1) + 1 = i) BY <1>1
<1>5. InSeq(Head(s), s) BY <1>1 DEF InSeq
<1>6. ASSUME NEW i \in DOMAIN t, NEW j \in DOMAIN t, t[i] = t[j] PROVE i = j
  <2>1. s[i + 1] = s[j + 1] /\ i + 1 \in DOMAIN s /\ j + 1 \in DOMAIN s BY <1>1, <1>2, <1>3, <1>6
  <2>2. i + 1 = j + 1 BY <2>1 DEF NoRepeats
  <2> QED BY <1>1, <1>2, <2>2
<1>7. ASSUME NEW x, InSeq(x, t) PROVE InSeq(x, s) /\ x # Head(s)
  <2>1. PICK i \in DOMAIN t : t[i] = x BY <1>7 DEF InSeq
  <2>2. s[i + 1] = x /\ i + 1 \in DOMAIN s /\ i + 1 # 1 /\ 1 \in DOMAIN s BY <1>1, <1>2, <1>3, <2>1
  <2> QED BY <1>1, <2>2 DEF InSeq, NoRepeats
<1>8. ASSUME NEW x, InSeq(x, s), x # Head(s) PROVE InSeq(x, t)
  <2>1. PICK i \in DOMAIN s : s[i] = x BY <1>8 DEF InSeq
  <2>2. i - 1 \in DOMAIN t /\ t[i - 1] = x BY <1>1, <1>2, <1>4, <1>8, <2>1
  <2> QED BY <2>2 DEF InSeq
<1> QED BY <1>5, <1>6, <1>7, <1>8 DEF t, NoRepeats

\* Who waits is served: the queue stands behind a query in progress, which has
\* a timer.
Coupled ==
    /\ active = None => queue = <<>>
    /\ active # None <=> timer # "off"

\* What a step can do to the line and to the promises.
Stays == Line' = Line /\ UNCHANGED <<outcome, result>>
Resolves ==
    /\ Line # <<>> /\ Head(Line) = active
    /\ HandleResultPage /\ IsLast(active)
    /\ Line' = Tail(Line)
    /\ outcome' = [outcome EXCEPT ![active] = "resolved"]
    /\ result' = [result EXCEPT
                     ![active] = (got \cup {Head(toDesktop).page}) \cap Answer[active]]
Empties ==
    /\ Line' = <<>>
    /\ outcome' = [q \in Queries |-> IF InSeq(q, Line) THEN "rejected" ELSE outcome[q]]
    /\ UNCHANGED result

LineStep ==
    \/ Stays
    \/ \E q \in Queries : Promised!Ask(q)
    \/ Resolves
    \/ Promised!FailHead
    \/ Empties

LEMMA LineIs == Line = LineOf(active, queue)
BY DEF Line, LineOf

\* drainQueue() takes the head of the line off it.
LEMMA DrainMovesUp ==
    ASSUME DataOK, active # None, NEW msgs, DrainQueue(msgs)
    PROVE  /\ Line # <<>> /\ Head(Line) = active
           /\ Line' = Tail(Line)
           /\ Coupled'
<1>1. active \in Queries /\ queue \in Seq(Queries) BY DEF DataOK, ClientOK
<1>2. Line # <<>> /\ Head(Line) = active /\ Tail(Line) = queue BY <1>1, LineProperties, LineIs
<1>3. CASE queue = <<>>
  <2>1. active' = None /\ queue' = <<>> /\ timer' = "off" BY <1>3 DEF DrainQueue, LeaveQueue, Idle
  <2> QED BY <1>2, <1>3, <2>1 DEF Line, Coupled
<1>4. CASE queue # <<>>
  <2>1. active' = Head(queue) /\ queue' = Tail(queue) /\ timer' = "first"
    BY <1>4 DEF DrainQueue, Dispatch, TimerFor
  <2>2. Head(queue) \in Queries BY <1>1, <1>4, HeadTailProperties
  <2>3. active' # None BY <2>1, <2>2, QueryClientAssumption
  <2>4. Line' = <<Head(queue)>> \o Tail(queue) BY <2>1, <2>3 DEF Line
  <2>5. Line' = queue BY <1>1, <1>4, <2>4, HeadAndTail
  <2> QED BY <1>2, <2>1, <2>3, <2>5 DEF Coupled
<1> QED BY <1>2, <1>3, <1>4

LEMMA RejectEmpties ==
    ASSUME DataOK, RejectAll
    PROVE  Empties /\ Coupled'
<1>1. active' = None /\ queue' = <<>> /\ timer' = "off" /\ result' = result BY DEF RejectAll, Idle
<1>2. ASSUME NEW q \in Queries
      PROVE  InSeq(q, Line) <=> (q = active \/ \E i \in DOMAIN queue : queue[i] = q)
  <2>1. queue \in Seq(Queries) /\ active \in Queries \cup {None} /\ q # None
    BY QueryClientAssumption DEF DataOK, ClientOK
  <2>2. CASE active = None BY <2>1, <2>2 DEF Line, InSeq
  <2>3. CASE active # None
    <3> DEFINE f == <<active>> \o queue
    <3>1. Line = f BY <2>3 DEF Line
    <3>2. Len(queue) \in Nat /\ DOMAIN queue = 1..Len(queue) BY <2>1
    <3>3. DOMAIN f = 1..(Len(queue) + 1) /\ f[1] = active
          /\ \A i \in 1..Len(queue) : f[i + 1] = queue[i]
      BY <2>1, <2>3, FrontProperties, LenProperties
    <3> HIDE DEF f
    <3>4. \A i \in 1..(Len(queue) + 1) :
             i = 1 \/ (i - 1 \in 1..Len(queue) /\ (i - 1) + 1 = i)
      BY <3>2
    <3>5. \A i \in 1..Len(queue) : i + 1 \in 1..(Len(queue) + 1) BY <3>2
    <3>6. 1 \in 1..(Len(queue) + 1) BY <3>2
    <3>7. ASSUME InSeq(q, f), q # active PROVE \E i \in DOMAIN queue : queue[i] = q
      <4>1. PICK i \in DOMAIN f : f[i] = q BY <3>7 DEF InSeq
      <4>2. i - 1 \in DOMAIN queue /\ queue[i - 1] = q BY <3>2, <3>3, <3>4, <3>7, <4>1
      <4> QED BY <4>2
    <3>8. ASSUME NEW i \in DOMAIN queue, queue[i] = q PROVE InSeq(q, f)
      BY <3>2, <3>3, <3>5, <3>8 DEF InSeq
    <3>9. q = active => InSeq(q, f) BY <3>3, <3>6 DEF InSeq
    <3> QED BY <3>1, <3>7, <3>8, <3>9
  <2> QED BY <2>2, <2>3
<1>3. Line' = <<>> /\ Coupled' BY <1>1 DEF Line, Coupled
<1> QED BY <1>1, <1>2, <1>3 DEF Empties, RejectAll

\* Every step of the client is a step of the line, and leaves it coupled.
LEMMA LineSteps == DataOK /\ Coupled /\ [Next]_vars => LineStep /\ Coupled'
<1> SUFFICES ASSUME DataOK, Coupled, [Next]_vars PROVE LineStep /\ Coupled'
  OBVIOUS
<1> USE DEF promise, Settle
<1>1. ASSUME UNCHANGED <<active, queue, timer, outcome, result>> PROVE LineStep /\ Coupled'
  BY <1>1 DEF LineStep, Stays, Line, Coupled
<1>2. ASSUME NEW q \in Queries, Call(q) PROVE LineStep /\ Coupled'
  <2>1. active \in Queries \cup {None} /\ queue \in Seq(Queries) /\ q # None
        /\ outcome[q] = "idle" /\ result' = result
    BY <1>2, QueryClientAssumption DEF Call, DataOK, ClientOK
  <2>2. CASE ~sendMessage
    <3>1. outcome' = [outcome EXCEPT ![q] = "refused"] /\ UNCHANGED <<active, queue, timer>>
      BY <1>2, <2>2 DEF Call, client
    <3> QED BY <2>1, <3>1 DEF LineStep, Promised!Ask, Line, Coupled
  <2>3. CASE sendMessage /\ active # None
    <3>1. outcome' = [outcome EXCEPT ![q] = "waiting"] /\ queue' = Append(queue, q)
          /\ UNCHANGED <<active, timer>>
      BY <1>2, <2>3 DEF Call, Enqueue
    <3>2. Line' = Append(Line, q)
      <4>1. <<active>> \in Seq(Queries) /\ <<q>> \in Seq(Queries) BY <2>1, <2>3
      <4>2. Append(queue, q) = queue \o <<q>> BY <2>1, AppendIsConcat
      <4>3. <<active>> \o queue \in Seq(Queries) BY <2>1, <4>1, ConcatProperties
      <4>4. Append(<<active>> \o queue, q) = (<<active>> \o queue) \o <<q>> BY <4>3, AppendIsConcat
      <4>5. (<<active>> \o queue) \o <<q>> = <<active>> \o (queue \o <<q>>)
        BY <2>1, <4>1, ConcatAssociative
      <4> QED BY <2>3, <3>1, <4>2, <4>4, <4>5 DEF Line
    <3>3. Coupled' BY <2>3, <3>1 DEF Coupled
    <3> QED BY <2>1, <3>1, <3>2, <3>3 DEF LineStep, Promised!Ask
  <2>4. CASE sendMessage /\ active = None
    <3>1. outcome' = [outcome EXCEPT ![q] = "waiting"] /\ active' = q /\ queue' = queue
          /\ timer' = "first"
      BY <1>2, <2>4 DEF Call, Dispatch, TimerFor
    <3>2. queue = <<>> BY <2>4 DEF Coupled
    <3>3. Line = <<>> /\ Line' = <<q>> \o <<>> BY <2>1, <2>4, <3>1, <3>2 DEF Line
    <3>4. <<q>> \o <<>> = Append(<<>>, q) BY <<q>> \in Seq(Queries), ConcatEmptySeq
    <3>5. Coupled' BY <2>1, <3>1 DEF Coupled
    <3> QED BY <2>1, <3>1, <3>3, <3>4, <3>5 DEF LineStep, Promised!Ask
  <2> QED BY <1>2, <2>2, <2>3, <2>4 DEF Call
<1>3. CASE PageOfUnknownQuery BY <1>1, <1>3 DEF PageOfUnknownQuery, client
<1>4. CASE HandleResultPage
  <2>1. active # None BY <1>4, PageAtHead DEF HandleResultPage
  <2>2. CASE IsLast(active)
    BY <1>4, <2>1, <2>2, DrainMovesUp DEF HandleResultPage, LineStep, Resolves
  <2>3. CASE ~IsLast(active)
    <3>1. UNCHANGED <<active, queue, outcome, result>> /\ timer' = TimerFor(receivedCount + 1)
      BY <1>4, <2>3 DEF HandleResultPage
    <3>2. timer' # "off" BY <3>1 DEF TimerFor
    <3> QED BY <2>1, <3>1, <3>2 DEF LineStep, Stays, Line, Coupled
  <2> QED BY <2>2, <2>3
<1>5. ASSUME active # None, DrainQueue(CancelFor(active)), Settle(active, "rejected"),
             UNCHANGED result
      PROVE  LineStep /\ Coupled'
  BY <1>5, DrainMovesUp DEF LineStep, Promised!FailHead
<1>6. CASE Timeout BY <1>5, <1>6 DEF Timeout
<1>7. ASSUME NEW q \in Aborters, Abort(q) PROVE LineStep /\ Coupled'
  BY <1>5, <1>7 DEF Abort
<1>8. CASE LinkBreaks BY <1>1, <1>8 DEF LinkBreaks, client
<1>9. CASE Disconnected \/ Connected \/ Rewire
  BY <1>9, RejectEmpties DEF Disconnected, Connected, Rewire, LineStep
<1>10. CASE PhoneReceives BY <1>1, <1>10 DEF PhoneReceives, client
<1>11. ASSUME NEW q \in Queries, PhoneSendsPage(q) PROVE LineStep /\ Coupled'
  BY <1>1, <1>11 DEF PhoneSendsPage, client
<1>12. CASE UNCHANGED vars BY <1>1, <1>12 DEF vars, client
<1> QED BY <1>2, <1>3, <1>4, <1>6, <1>7, <1>8, <1>9, <1>10, <1>11, <1>12 DEF Next

\* The unsettled promises are the calls of the line.
LineOK ==
    /\ \A q \in Queries : outcome[q] = "waiting" <=> InSeq(q, Line)
    /\ NoRepeats(Line)

LEMMA LineType == DataOK => Line \in Seq(Queries)
BY LineProperties, LineIs DEF DataOK, ClientOK

LEMMA LineOKStep == DataOK /\ LineOK /\ LineStep => LineOK'
<1> SUFFICES ASSUME DataOK, LineOK, LineStep PROVE LineOK'
  OBVIOUS
<1>1. Line \in Seq(Queries) /\ outcome \in [Queries -> {"idle", "refused", "waiting", "resolved", "rejected"}]
  BY LineType DEF DataOK
<1>2. CASE Stays BY <1>2 DEF Stays, LineOK
<1>3. ASSUME NEW q \in Queries, Promised!Ask(q) PROVE LineOK'
  <2>1. outcome[q] = "idle" /\ ~InSeq(q, Line) BY <1>3 DEF Promised!Ask, LineOK
  <2>2. CASE Line' = Append(Line, q) /\ outcome' = [outcome EXCEPT ![q] = "waiting"]
    <3>1. NoRepeats(Line') /\ \A x : InSeq(x, Line') <=> InSeq(x, Line) \/ x = q
      BY <1>1, <2>1, <2>2, AppendToLine DEF LineOK
    <3> QED BY <1>1, <2>2, <3>1 DEF LineOK
  <2>3. CASE Line' = Line /\ outcome' = [outcome EXCEPT ![q] = "refused"]
    BY <1>1, <2>1, <2>3 DEF LineOK
  <2> QED BY <1>3, <2>2, <2>3 DEF Promised!Ask
<1>4. ASSUME Line # <<>>, Line' = Tail(Line), NEW how \in {"resolved", "rejected"},
             outcome' = [outcome EXCEPT ![Head(Line)] = how]
      PROVE  LineOK'
  <2>1. NoRepeats(Line') /\ \A x : InSeq(x, Line') <=> InSeq(x, Line) /\ x # Head(Line)
    BY <1>1, <1>4, TailOfLine DEF LineOK
  <2> QED BY <1>1, <1>4, <2>1 DEF LineOK
<1>5. CASE Resolves BY <1>4, <1>5 DEF Resolves
<1>6. CASE Promised!FailHead BY <1>4, <1>6 DEF Promised!FailHead
<1>7. CASE Empties BY <1>7 DEF Empties, LineOK, InSeq, NoRepeats
<1> QED BY <1>2, <1>3, <1>5, <1>6, <1>7 DEF LineStep

\* What the theorems below start from.
LineInv == FlagsOK /\ DataOK /\ Coupled /\ LineOK

LEMMA LineInvariant == Spec => []LineInv
<1>1. Init => Coupled /\ LineOK BY DEF Init, Coupled, LineOK, Line, InSeq, NoRepeats
<1>2. LineInv /\ [Next]_vars => Coupled' /\ LineOK' BY LineSteps, LineOKStep DEF LineInv
<1> QED BY <1>1, <1>2, TypeCorrect, TypeParts, PTL DEF Spec, LineInv

\* Nobody waits forgotten (query-client.ts:246-330), for any number of calls.
THEOREM NobodyIsForgotten == Spec => []NobodyForgotten
<1>1. LineInv => NobodyForgotten BY DEF LineInv, Coupled, LineOK, NobodyForgotten, InSeq, NoRepeats
<1> QED BY <1>1, LineInvariant, PTL

--------------------
(* Completeness of answers. *)

\* The pages stored are the first receivedCount ones.
GotPrefix == got = 1..receivedCount

\* A broken link carries nothing and the phone answers nothing.
DeadLink == ~link => toPhone = <<>> /\ toDesktop = <<>> /\ serving = {}

\* The pages of a query travel in the order they are sent.
Ordered ==
    /\ \A i \in DOMAIN toDesktop : toDesktop[i].page <= sent[toDesktop[i].q]
    /\ \A i, j \in DOMAIN toDesktop :
          (i < j /\ toDesktop[i].q = toDesktop[j].q) => toDesktop[i].page < toDesktop[j].page

\* Pages of the query in progress that travel have not been counted yet...
Ahead == \A i \in DOMAIN toDesktop : toDesktop[i].q = active => toDesktop[i].page > receivedCount

\* ... and all that were sent and not counted travel.
NoGap ==
    (link /\ active # None) =>
        \A p \in Nat : (receivedCount < p /\ p <= sent[active]) =>
            \E i \in DOMAIN toDesktop : toDesktop[i].q = active /\ toDesktop[i].page = p

\* A call that has not been dispatched is unknown to the phone.
Untouched ==
    \A q \in Queries : (outcome[q] = "idle" \/ InSeq(q, queue)) =>
        /\ sent[q] = 0
        /\ q \notin serving
        /\ \A i \in DOMAIN toPhone : toPhone[i] # Query(q)

\* Only pages that were sent are counted.
Counted == active # None => receivedCount <= sent[active]

Delivery == GotPrefix /\ DeadLink /\ Ordered /\ Ahead /\ NoGap /\ Counted /\ Untouched

LEMMA QueueProperties ==
    ASSUME LineInv
    PROVE  /\ queue \in Seq(Queries) /\ NoRepeats(queue)
           /\ \A q \in Queries : InSeq(q, queue) => outcome[q] = "waiting" /\ q # active
<1>1. active \in Queries \cup {None} /\ queue \in Seq(Queries) /\ Line \in Seq(Queries)
  BY LineType DEF LineInv, DataOK, ClientOK
<1>2. CASE active = None BY <1>1, <1>2, QueryClientAssumption DEF LineInv, LineOK, Line
<1>3. CASE active # None
  <2>1. Line # <<>> /\ Head(Line) = active /\ Tail(Line) = queue
    BY <1>1, <1>3, LineProperties, LineIs
  <2>2. NoRepeats(queue) /\ \A x : InSeq(x, queue) <=> InSeq(x, Line) /\ x # active
    BY <1>1, <2>1, TailOfLine DEF LineInv, LineOK
  <2> QED BY <1>1, <2>2 DEF LineInv, LineOK
<1> QED BY <1>2, <1>3

\* What goes out behind a page or a timeout leaves the undispatched calls
\* untouched, and drainQueue() starts a call the phone knows nothing of.
LEMMA DrainDelivers ==
    ASSUME LineInv, Untouched, active # None,
           NEW msgs \in Seq(Message), \A i \in DOMAIN msgs : msgs[i].type # "query",
           DrainQueue(msgs), UNCHANGED <<sent, serving>>,
           NEW how \in {"resolved", "rejected"}, outcome' = [outcome EXCEPT ![active] = how]
    PROVE  /\ GotPrefix' /\ NoGap' /\ Counted' /\ Untouched'
           /\ receivedCount' = 0
           /\ ~link => toPhone' = toPhone
<1>1. queue \in Seq(Queries) /\ NoRepeats(queue) /\ toPhone \in Seq(Message)
      /\ active \in Queries /\ outcome \in [Queries -> {"idle", "refused", "waiting", "resolved", "rejected"}]
      /\ sent \in [Queries -> Nat]
  BY QueueProperties DEF LineInv, DataOK, ClientOK
<1>2. \A q \in Queries : outcome'[q] = "idle" => outcome[q] = "idle" BY <1>1
<1>3. 1..0 = {} OBVIOUS
<1>4. CASE queue = <<>>
  <2>1. active' = None /\ got' = {} /\ receivedCount' = 0 /\ queue' = queue
        /\ toPhone' = OnWire(msgs)
    BY <1>4 DEF DrainQueue, LeaveQueue, Idle
  <2>2. \A i \in DOMAIN toPhone' : \/ \E j \in DOMAIN toPhone : toPhone'[i] = toPhone[j]
                                  \/ \E j \in DOMAIN msgs : toPhone'[i] = msgs[j]
    BY <1>1, <2>1, OnWireProperties
  <2>3. \A q \in Queries : Query(q).type = "query" BY DEF Query
  <2>4. Untouched' BY <1>2, <2>1, <2>2, <2>3 DEF Untouched, InSeq
  <2>5. GotPrefix' /\ NoGap' /\ Counted' BY <1>3, <2>1 DEF GotPrefix, NoGap, Counted
  <2> QED BY <1>1, <2>1, <2>4, <2>5, OnWireProperties
<1>5. CASE queue # <<>>
  <2> DEFINE h == Head(queue)
  <2>1. active' = h /\ got' = {} /\ receivedCount' = 0 /\ queue' = Tail(queue)
        /\ toPhone' = OnWire(Append(msgs, Query(h)))
    BY <1>5 DEF DrainQueue, Dispatch
  <2>2. h \in Queries /\ InSeq(h, queue)
        /\ \A x : InSeq(x, queue') <=> InSeq(x, queue) /\ x # h
    BY <1>1, <1>5, <2>1, HeadTailProperties, TailOfLine
  <2>3. Append(msgs, Query(h)) \in Seq(Message) BY <2>2, SentMessages
  <2>4. \A i \in DOMAIN toPhone' :
            \/ \E j \in DOMAIN toPhone : toPhone'[i] = toPhone[j]
            \/ \E j \in DOMAIN Append(msgs, Query(h)) : toPhone'[i] = Append(msgs, Query(h))[j]
    BY <1>1, <2>1, <2>3, OnWireProperties
  <2>5. \A j \in DOMAIN Append(msgs, Query(h)) :
            Append(msgs, Query(h))[j] = Query(h) \/ Append(msgs, Query(h))[j].type # "query"
    <3> DEFINE qh == Query(h)
    <3>1. Len(msgs) \in Nat /\ DOMAIN msgs = 1..Len(msgs)
          /\ DOMAIN Append(msgs, qh) = 1..(Len(msgs) + 1) /\ Append(msgs, qh)[Len(msgs) + 1] = qh
          /\ \A j \in 1..Len(msgs) : Append(msgs, qh)[j] = msgs[j]
      <4>1. qh \in Message BY <2>2 DEF Query
      <4> HIDE DEF qh
      <4> QED BY <4>1, AppendProperties, LenProperties
    <3>2. \A j \in 1..(Len(msgs) + 1) : j \in 1..Len(msgs) \/ j = Len(msgs) + 1 BY <3>1
    <3> HIDE DEF qh
    <3>3. \A j \in DOMAIN Append(msgs, qh) :
            Append(msgs, qh)[j] = qh \/ Append(msgs, qh)[j].type # "query"
      BY <3>1, <3>2
    <3> QED BY <3>3 DEF qh
  <2>6. \A q \in Queries : Query(q).type = "query" /\ (q # h => Query(q) # Query(h)) BY DEF Query
  <2>7. \A q \in Queries : (outcome'[q] = "idle" \/ InSeq(q, queue')) =>
            /\ outcome[q] = "idle" \/ InSeq(q, queue)
            /\ q # h
    BY <1>2, <2>2, QueueProperties
  <2>8. Untouched'
    <3> SUFFICES ASSUME NEW q \in Queries, outcome'[q] = "idle" \/ InSeq(q, queue')
                 PROVE  /\ sent'[q] = 0 /\ q \notin serving'
                        /\ \A i \in DOMAIN toPhone' : toPhone'[i] # Query(q)
      BY DEF Untouched, Query, InSeq
    <3>1. sent[q] = 0 /\ q \notin serving /\ q # h
          /\ \A i \in DOMAIN toPhone : toPhone[i] # Query(q)
      BY <2>7 DEF Untouched
    <3> QED BY <2>4, <2>5, <2>6, <3>1
  <2>9. sent'[h] = 0 BY <2>2 DEF Untouched
  <2>10. GotPrefix' /\ NoGap' /\ Counted' BY <1>3, <2>1, <2>9 DEF GotPrefix, NoGap, Counted
  <2> QED BY <1>1, <2>1, <2>3, <2>8, <2>10, OnWireProperties
<1> QED BY <1>4, <1>5

\* Taking the page at the head off the channel.
LEMMA TailOfPages ==
    ASSUME DataOK, toDesktop # <<>>
    PROVE  LET t == Tail(toDesktop) IN
           /\ DOMAIN t = 1..(Len(toDesktop) - 1) /\ Len(toDesktop) \in Nat \ {0}
           /\ DOMAIN toDesktop = 1..Len(toDesktop) /\ Head(toDesktop) = toDesktop[1]
           /\ \A i \in DOMAIN t : t[i] = toDesktop[i + 1] /\ i + 1 \in DOMAIN toDesktop /\ 1 < i + 1
           /\ \A i \in DOMAIN toDesktop : i = 1 \/ (i - 1 \in DOMAIN t /\ t[i - 1] = toDesktop[i])
<1> DEFINE t == Tail(toDesktop)
<1>1. toDesktop \in Seq(Page) BY DEF DataOK
<1>2. Len(toDesktop) \in Nat \ {0} /\ DOMAIN toDesktop = 1..Len(toDesktop) BY <1>1
<1>3. t \in Seq(Page) /\ Len(t) = Len(toDesktop) - 1
      /\ \A i \in 1..Len(t) : t[i] = toDesktop[i + 1]
  BY <1>1, HeadTailProperties
<1>4. DOMAIN t = 1..Len(t) BY <1>3, LenProperties
<1>5. Head(toDesktop) = toDesktop[1] BY <1>1
<1> HIDE DEF t
<1>6. \A i \in 1..(Len(toDesktop) - 1) : i + 1 \in 1..Len(toDesktop) /\ 1 < i + 1 BY <1>2
<1>7. \A i \in 1..Len(toDesktop) : i = 1 \/ (i - 1 \in 1..(Len(toDesktop) - 1) /\ (i - 1) + 1 = i)
  BY <1>2
<1>8. \A i \in DOMAIN toDesktop : i = 1 \/ (i - 1 \in DOMAIN t /\ t[i - 1] = toDesktop[i])
  BY <1>2, <1>3, <1>4, <1>7
<1>9. \A i \in DOMAIN t : t[i] = toDesktop[i + 1] /\ i + 1 \in DOMAIN toDesktop /\ 1 < i + 1
  BY <1>2, <1>3, <1>4, <1>6
<1> QED BY <1>2, <1>3, <1>4, <1>5, <1>8, <1>9 DEF t

\* The page of the query in progress at the head is the next one.
LEMMA NextPage ==
    ASSUME LineInv, Delivery, toDesktop # <<>>, Expected(Head(toDesktop))
    PROVE  /\ active \in Queries /\ active # None
           /\ Head(toDesktop).page = receivedCount + 1
<1>1. active \in Queries /\ active # None /\ Head(toDesktop).page \in Nat
      /\ Head(toDesktop) = toDesktop[1] /\ 1 \in DOMAIN toDesktop
      /\ receivedCount \in Nat /\ sent[active] \in Nat /\ Head(toDesktop).q = active
  <2>1. DataOK BY DEF LineInv
  <2>2. Head(toDesktop) \in Page /\ active # None /\ Head(toDesktop).q = active
    BY <2>1, PageAtHead DEF Expected
  <2>3. Head(toDesktop) = toDesktop[1] /\ 1 \in DOMAIN toDesktop BY <2>1, TailOfPages
  <2>4. active \in Queries /\ receivedCount \in Nat /\ sent \in [Queries -> Nat]
    BY <2>1, <2>2 DEF DataOK, ClientOK
  <2>5. Head(toDesktop).page \in Nat BY <2>2 DEF Page
  <2> QED BY <2>2, <2>3, <2>4, <2>5
<1>2. link BY DEF Delivery, DeadLink
<1>3. receivedCount < toDesktop[1].page /\ toDesktop[1].page <= sent[active]
  BY <1>1 DEF Delivery, Ahead, Ordered
<1>4. PICK i \in DOMAIN toDesktop : toDesktop[i].q = active /\ toDesktop[i].page = receivedCount + 1
  <2>1. receivedCount + 1 \in Nat /\ receivedCount < receivedCount + 1
        /\ receivedCount + 1 <= sent[active]
    BY <1>1, <1>3
  <2> QED BY <1>1, <1>2, <2>1 DEF Delivery, NoGap
<1>5. i = 1 \/ 1 < i BY TailOfPages DEF LineInv
<1>6. 1 < i => toDesktop[1].page < receivedCount + 1 BY <1>1, <1>4 DEF Delivery, Ordered
<1> QED BY <1>1, <1>3, <1>4, <1>5, <1>6

LEMMA DropHead ==
    ASSUME LineInv, Delivery, toDesktop # <<>>, toDesktop' = Tail(toDesktop), sent' = sent
    PROVE  Ordered'
<1> DEFINE t == Tail(toDesktop)
<1>1. /\ \A i \in DOMAIN t : t[i] = toDesktop[i + 1] /\ i + 1 \in DOMAIN toDesktop
      /\ DOMAIN t \subseteq Nat
  BY TailOfPages DEF LineInv
<1> HIDE DEF t
<1>2. toDesktop' = t BY DEF t
<1>3. \A i, j \in DOMAIN t : i < j => i + 1 < j + 1 BY <1>1
<1> QED BY <1>1, <1>2, <1>3 DEF Delivery, Ordered

LEMMA HandleDelivers ==
    ASSUME LineInv, Delivery, HandleResultPage
    PROVE  Delivery'
<1> DEFINE page == Head(toDesktop).page
           t == Tail(toDesktop)
<1>1. toDesktop # <<>> /\ Expected(Head(toDesktop)) /\ toDesktop' = t
      /\ link' = link /\ sent' = sent /\ serving' = serving
  BY DEF HandleResultPage, phone
<1>2. active \in Queries /\ active # None /\ page = receivedCount + 1 BY <1>1, NextPage
<1>3. /\ \A i \in DOMAIN t : t[i] = toDesktop[i + 1] /\ i + 1 \in DOMAIN toDesktop /\ 1 < i + 1
      /\ \A i \in DOMAIN toDesktop : i = 1 \/ (i - 1 \in DOMAIN t /\ t[i - 1] = toDesktop[i])
      /\ Head(toDesktop) = toDesktop[1] /\ 1 \in DOMAIN toDesktop
  BY <1>1, TailOfPages DEF LineInv
<1>4. link BY <1>1 DEF Delivery, DeadLink
<1>5. Ordered' /\ DeadLink' BY <1>1, <1>4, DropHead DEF DeadLink
<1>6. DataOK /\ receivedCount \in Nat /\ sent \in [Queries -> Nat]
      /\ \A i \in DOMAIN toDesktop : toDesktop[i].page \in Nat \ {0} /\ toDesktop[i].q \in Queries
  <2>1. toDesktop \in Seq(Page) /\ DataOK /\ receivedCount \in Nat /\ sent \in [Queries -> Nat]
    BY DEF LineInv, DataOK, ClientOK
  <2>2. \A i \in DOMAIN toDesktop : toDesktop[i] \in Page BY <2>1, Elements
  <2> QED BY <2>1, <2>2
<1>7. AckFor(active) \in Seq(Message) /\ \A i \in DOMAIN AckFor(active) : AckFor(active)[i].type # "query"
  BY <1>2, <1>6, ActiveIsQuery DEF AckFor, Ack
<1>8. CASE IsLast(active)
  <2>1. GotPrefix' /\ NoGap' /\ Counted' /\ Untouched' /\ receivedCount' = 0
    <3>1. DrainQueue(AckFor(active)) /\ outcome' = [outcome EXCEPT ![active] = "resolved"]
      BY <1>8 DEF HandleResultPage, Settle
    <3> QED BY <1>1, <1>2, <1>7, <3>1, DrainDelivers DEF Delivery
  <2>2. Ahead'
    <3>1. \A i \in DOMAIN t : t[i].page \in Nat \ {0} BY <1>3, <1>6
    <3> HIDE DEF t
    <3> QED BY <1>1, <2>1, <3>1 DEF Ahead
  <2> QED BY <1>5, <2>1, <2>2 DEF Delivery
<1>9. CASE ~IsLast(active)
  <2>1. got' = got \cup {page} /\ receivedCount' = receivedCount + 1 /\ active' = active
        /\ toPhone' = OnWire(AckFor(active)) /\ queue' = queue /\ outcome' = outcome
    BY <1>9 DEF HandleResultPage
  <2>2. GotPrefix'
    <3>1. 1..(receivedCount + 1) = (1..receivedCount) \cup {receivedCount + 1} BY <1>6
    <3> QED BY <1>2, <2>1, <3>1 DEF Delivery, GotPrefix
  <2>3. Ahead'
    <3>1. \A i \in DOMAIN t : t[i].q = active => receivedCount + 1 < t[i].page
      BY <1>1, <1>2, <1>3, <1>6 DEF Delivery, Ordered, Expected
    <3> HIDE DEF t
    <3> QED BY <1>1, <2>1, <3>1 DEF Ahead
  <2>4. NoGap'
    <3> SUFFICES ASSUME NEW p \in Nat, receivedCount + 1 < p, p <= sent[active]
                 PROVE  \E i \in DOMAIN t : t[i].q = active /\ t[i].page = p
      BY <1>1, <2>1 DEF NoGap
    <3>1. PICK i \in DOMAIN toDesktop : toDesktop[i].q = active /\ toDesktop[i].page = p
      BY <1>2, <1>4, <1>6 DEF Delivery, NoGap
    <3>2. i # 1 BY <1>2, <1>3, <1>6, <3>1
    <3> QED BY <1>3, <3>1, <3>2
  <2>5. Untouched'
    <3>1. \A i \in DOMAIN toPhone' :
              \/ \E j \in DOMAIN toPhone : toPhone'[i] = toPhone[j]
              \/ \E j \in DOMAIN AckFor(active) : toPhone'[i] = AckFor(active)[j]
      BY <1>6, <1>7, <2>1, OnWireProperties DEF DataOK
    <3>2. \A q \in Queries : Query(q).type = "query" /\ Query(q)' = Query(q) BY DEF Query
    <3>3. \A q \in Queries : InSeq(q, queue') <=> InSeq(q, queue) BY <2>1
    <3> QED BY <1>1, <1>7, <2>1, <3>1, <3>2, <3>3 DEF Delivery, Untouched
  <2>6. Counted' BY <1>1, <1>2, <1>3, <1>6, <2>1 DEF Delivery, Ordered, Counted, Expected
  <2> QED BY <1>5, <2>2, <2>3, <2>4, <2>5, <2>6 DEF Delivery
<1> QED BY <1>8, <1>9

\* Steps that leave the client, the channel to the desktop and sent alone, and
\* send no query, leave Delivery alone.
LEMMA SameDelivery ==
    ASSUME Delivery,
           UNCHANGED <<link, active, queue, got, receivedCount, toDesktop, sent>>,
           serving' = serving, toPhone' = toPhone,
           \A q \in Queries : outcome'[q] = "idle" => outcome[q] = "idle"
    PROVE  Delivery'
<1>1. \A q \in Queries : Query(q)' = Query(q) BY DEF Query
<1>2. \A q \in Queries : InSeq(q, queue') <=> InSeq(q, queue) OBVIOUS
<1>3. Untouched' BY <1>1, <1>2 DEF Delivery, Untouched
<1>4. NoGap' /\ Ahead' /\ Ordered' /\ Counted' BY DEF Delivery, NoGap, Ahead, Ordered, Counted
<1>5. GotPrefix' /\ DeadLink' BY DEF Delivery, GotPrefix, DeadLink
<1> QED BY <1>3, <1>4, <1>5 DEF Delivery

\* A client that is emptied has nothing to be delivered.
LEMMA RejectDelivers ==
    ASSUME LineInv, Untouched, RejectAll, sent' = sent, serving' \subseteq serving,
           toPhone' \in {toPhone, <<>>}
    PROVE  GotPrefix' /\ NoGap' /\ Counted' /\ Untouched' /\ active' = None /\ receivedCount' = 0
<1>1. active' = None /\ queue' = <<>> /\ got' = {} /\ receivedCount' = 0
      /\ outcome' = [q \in Queries |->
                        IF q = active \/ \E i \in DOMAIN queue : queue[i] = q
                        THEN "rejected" ELSE outcome[q]]
  BY DEF RejectAll, Idle
<1>2. 1..0 = {} OBVIOUS
<1>3. GotPrefix' /\ NoGap' /\ Counted' BY <1>1, <1>2 DEF GotPrefix, NoGap, Counted
<1>4. \A q \in Queries : ~InSeq(q, queue') /\ (outcome'[q] = "idle" => outcome[q] = "idle")
  BY <1>1 DEF InSeq
<1>5. \A q \in Queries : Query(q)' = Query(q) BY DEF Query
<1>6. Untouched' BY <1>4, <1>5 DEF Untouched
<1> QED BY <1>1, <1>3, <1>6

LEMMA DeliveryStep == LineInv /\ Delivery /\ [Next]_vars => Delivery'
<1> SUFFICES ASSUME LineInv, Delivery, [Next]_vars PROVE Delivery'
  OBVIOUS
<1> USE DEF Settle
<1>0. /\ active \in Queries \cup {None} /\ queue \in Seq(Queries) /\ receivedCount \in Nat
      /\ sent \in [Queries -> Nat] /\ toPhone \in Seq(Message) /\ toDesktop \in Seq(Page)
      /\ outcome \in [Queries -> {"idle", "refused", "waiting", "resolved", "rejected"}]
      /\ DataOK
  BY DEF LineInv, DataOK, ClientOK
<1>p. \A i \in DOMAIN toDesktop : toDesktop[i].page \in Nat \ {0} /\ toDesktop[i].q \in Queries
  <2>1. \A i \in DOMAIN toDesktop : toDesktop[i] \in Page BY <1>0, Elements
  <2> QED BY <2>1
<1>1. ASSUME NEW q \in Queries, Call(q) PROVE Delivery'
  <2>1. outcome[q] = "idle" /\ q # None /\ UNCHANGED <<link, toDesktop, sent, serving>>
    BY <1>1, QueryClientAssumption DEF Call, phone
  <2>2. CASE ~sendMessage BY <1>0, <1>1, <2>1, <2>2, SameDelivery DEF Call, client
  <2>3. CASE sendMessage /\ active # None
    <3>1. queue' = Append(queue, q) /\ outcome' = [outcome EXCEPT ![q] = "waiting"]
          /\ UNCHANGED <<active, got, receivedCount, toPhone>>
      BY <1>1, <2>3 DEF Call, Enqueue
    <3>2. NoRepeats(queue) /\ ~InSeq(q, queue) BY <2>1, QueueProperties
    <3>3. \A x : InSeq(x, queue') <=> InSeq(x, queue) \/ x = q BY <1>0, <3>1, <3>2, AppendToLine
    <3>4. \A x \in Queries : Query(x)' = Query(x) BY DEF Query
    <3>5. Untouched' BY <1>0, <2>1, <3>1, <3>3, <3>4 DEF Delivery, Untouched
    <3>6. NoGap' /\ Ahead' /\ Ordered' /\ GotPrefix' /\ DeadLink' /\ Counted'
      BY <2>1, <3>1 DEF Delivery, NoGap, Ahead, Ordered, GotPrefix, DeadLink, Counted
    <3> QED BY <3>5, <3>6 DEF Delivery
  <2>4. CASE sendMessage /\ active = None
    <3>1. active' = q /\ got' = {} /\ receivedCount' = 0 /\ queue' = queue
          /\ toPhone' = OnWire(Append(<<>>, Query(q)))
          /\ outcome' = [outcome EXCEPT ![q] = "waiting"]
      BY <1>1, <2>4 DEF Call, Dispatch
    <3>2. queue = <<>> BY <2>4 DEF LineInv, Coupled
    <3>3. Append(<<>>, Query(q)) = <<Query(q)>> /\ <<Query(q)>> \in Seq(Message) BY DEF Query
    <3>4. \A i \in DOMAIN toPhone' : toPhone'[i] = Query(q) \/ \E j \in DOMAIN toPhone : toPhone'[i] = toPhone[j]
      <4> DEFINE one == <<Query(q)>>
      <4>1. DOMAIN one = {1} /\ one[1] = Query(q) OBVIOUS
      <4> HIDE DEF one
      <4>2. one \in Seq(Message) /\ toPhone' = OnWire(one) BY <3>1, <3>3 DEF one
      <4>3. \A i \in DOMAIN OnWire(one) :
                \/ \E j \in DOMAIN toPhone : OnWire(one)[i] = toPhone[j]
                \/ \E j \in DOMAIN one : OnWire(one)[i] = one[j]
        BY <1>0, <4>2, OnWireProperties
      <4> QED BY <4>1, <4>2, <4>3
    <3>5. \A x \in Queries : Query(x)' = Query(x) /\ (x # q => Query(x) # Query(q)) BY DEF Query
    <3>6. sent[q] = 0 BY <2>1 DEF Delivery, Untouched
    <3>7. \A x \in Queries : ~InSeq(x, queue') /\ (outcome'[x] = "idle" => outcome[x] = "idle" /\ x # q)
      BY <1>0, <3>1, <3>2 DEF InSeq
    <3>8. Untouched' BY <2>1, <3>4, <3>5, <3>7 DEF Delivery, Untouched
    <3>9. GotPrefix' /\ NoGap' /\ Ahead' /\ Counted'
      BY <1>p, <2>1, <3>1, <3>6, 1..0 = {} DEF GotPrefix, NoGap, Ahead, Counted
    <3>10. Ordered' BY <2>1 DEF Delivery, Ordered
    <3>11. DeadLink' BY <1>0, <2>1, <3>1, <3>3, OnWireProperties DEF Delivery, DeadLink
    <3> QED BY <3>8, <3>9, <3>10, <3>11 DEF Delivery
  <2> QED BY <1>1, <2>2, <2>3, <2>4 DEF Call
<1>2. CASE PageOfUnknownQuery
  <2>1. toDesktop # <<>> /\ ~Expected(Head(toDesktop)) /\ toDesktop' = Tail(toDesktop)
        /\ UNCHANGED <<link, active, queue, got, receivedCount, outcome, toPhone, sent, serving>>
    BY <1>2 DEF PageOfUnknownQuery, client, promise, phone
  <2> DEFINE t == Tail(toDesktop)
  <2>2. /\ \A i \in DOMAIN t : t[i] = toDesktop[i + 1] /\ i + 1 \in DOMAIN toDesktop /\ 1 < i + 1
        /\ \A i \in DOMAIN toDesktop : i = 1 \/ (i - 1 \in DOMAIN t /\ t[i - 1] = toDesktop[i])
        /\ Head(toDesktop) = toDesktop[1]
    BY <1>0, <2>1, TailOfPages
  <2>3. toDesktop' = t BY <2>1
  <2> HIDE DEF t
  <2>4. Ordered' BY <2>1, DropHead
  <2>5. Ahead' BY <2>1, <2>2, <2>3 DEF Delivery, Ahead
  <2>6. NoGap'
    <3> SUFFICES ASSUME link, active # None, NEW p \in Nat, receivedCount < p, p <= sent[active]
                 PROVE  \E i \in DOMAIN t : t[i].q = active /\ t[i].page = p
      BY <2>1, <2>3 DEF NoGap
    <3>1. PICK i \in DOMAIN toDesktop : toDesktop[i].q = active /\ toDesktop[i].page = p
      BY DEF Delivery, NoGap
    <3>2. i # 1 BY <2>1, <2>2, <3>1 DEF Expected
    <3> QED BY <2>2, <3>1, <3>2
  <2>7. DeadLink' BY <2>1 DEF Delivery, DeadLink
  <2>8. GotPrefix' /\ Untouched' /\ Counted'
    BY <2>1 DEF Delivery, GotPrefix, Counted, Untouched, InSeq, Query
  <2> QED BY <2>4, <2>5, <2>6, <2>7, <2>8 DEF Delivery
<1>3. CASE HandleResultPage BY <1>3, HandleDelivers
<1>4. ASSUME active # None, DrainQueue(CancelFor(active)), Settle(active, "rejected"),
             UNCHANGED <<link, toDesktop, phone>>
      PROVE  Delivery'
  <2>1. CancelFor(active) \in Seq(Message)
        /\ \A i \in DOMAIN CancelFor(active) : CancelFor(active)[i].type # "query"
    BY <1>0, <1>4, ActiveIsQuery DEF CancelFor, Cancel
  <2>2. UNCHANGED <<link, toDesktop, sent, serving>> BY <1>4 DEF phone
  <2>3. GotPrefix' /\ NoGap' /\ Counted' /\ Untouched' /\ receivedCount' = 0 /\ (~link => toPhone' = toPhone)
    BY <1>4, <2>1, <2>2, DrainDelivers DEF Delivery
  <2>4. Ahead' BY <1>p, <2>2, <2>3 DEF Ahead
  <2>5. Ordered' /\ DeadLink' BY <2>2, <2>3 DEF Delivery, Ordered, DeadLink
  <2> QED BY <2>3, <2>4, <2>5 DEF Delivery
<1>5. CASE Timeout BY <1>4, <1>5 DEF Timeout
<1>6. ASSUME NEW q \in Aborters, Abort(q) PROVE Delivery'
  BY <1>4, <1>6 DEF Abort
<1>7. CASE LinkBreaks
  <2>1. link' = FALSE /\ toPhone' = <<>> /\ toDesktop' = <<>> /\ serving' = {} /\ sent' = sent
        /\ UNCHANGED <<active, queue, got, receivedCount, outcome>>
    BY <1>7 DEF LinkBreaks, LoseChannel, client, promise
  <2> QED
    BY <2>1 DEF Delivery, GotPrefix, DeadLink, Ordered, Ahead, NoGap, Counted, Untouched, InSeq,
      Query
<1>8. CASE Disconnected
  <2>1. RejectAll /\ UNCHANGED <<link, toPhone, toDesktop, sent, serving>>
    BY <1>8 DEF Disconnected, phone
  <2>2. GotPrefix' /\ NoGap' /\ Counted' /\ Untouched' /\ active' = None /\ receivedCount' = 0
    BY <2>1, RejectDelivers DEF Delivery
  <2>3. Ordered' /\ Ahead' /\ DeadLink' BY <1>p, <2>1, <2>2 DEF Delivery, Ordered, Ahead, DeadLink
  <2> QED BY <2>2, <2>3 DEF Delivery
<1>9. CASE Connected
  <2>1. RejectAll /\ link' /\ toPhone' = <<>> /\ toDesktop' = <<>> /\ serving' = {} /\ sent' = sent
    BY <1>9 DEF Connected, LoseChannel
  <2>2. GotPrefix' /\ NoGap' /\ Counted' /\ Untouched' BY <2>1, RejectDelivers DEF Delivery
  <2>3. Ordered' /\ Ahead' /\ DeadLink' BY <2>1 DEF Ordered, Ahead, DeadLink
  <2> QED BY <2>2, <2>3 DEF Delivery
<1>10. CASE Rewire
  <2>1. RejectAll /\ UNCHANGED <<link, toPhone, toDesktop, sent, serving>> BY <1>10 DEF Rewire
  <2>2. GotPrefix' /\ NoGap' /\ Counted' /\ Untouched' /\ active' = None /\ receivedCount' = 0
    BY <2>1, RejectDelivers DEF Delivery
  <2>3. Ordered' /\ Ahead' /\ DeadLink' BY <1>p, <2>1, <2>2 DEF Delivery, Ordered, Ahead, DeadLink
  <2> QED BY <2>2, <2>3 DEF Delivery
<1>11. CASE PhoneReceives
  <2> DEFINE m == Head(toPhone)
             r == Tail(toPhone)
  <2>1. toPhone # <<>> /\ toPhone' = r
        /\ UNCHANGED <<link, active, queue, got, receivedCount, outcome, toDesktop, sent>>
        /\ serving' \subseteq serving \cup {m.q} /\ (m.type # "query" => serving' \subseteq serving)
    BY <1>11 DEF PhoneReceives, client, promise
  <2>2. link /\ m \in Message /\ m = toPhone[1] /\ 1 \in DOMAIN toPhone
        /\ \A i \in DOMAIN r : i + 1 \in DOMAIN toPhone /\ r[i] = toPhone[i + 1]
    <3>1. r \in Seq(Message) /\ Len(r) = Len(toPhone) - 1 /\ m \in Message
          /\ \A i \in 1..Len(r) : r[i] = toPhone[i + 1]
      BY <1>0, <2>1, HeadTailProperties
    <3>2. DOMAIN r = 1..Len(r) BY <3>1, LenProperties
    <3>3. Len(toPhone) \in Nat \ {0} /\ DOMAIN toPhone = 1..Len(toPhone) /\ m = toPhone[1]
      BY <1>0, <2>1
    <3> HIDE DEF r, m
    <3>4. \A i \in 1..Len(r) : i + 1 \in 1..Len(toPhone) BY <3>1, <3>3
    <3>5. link BY <2>1 DEF Delivery, DeadLink
    <3> QED BY <3>1, <3>2, <3>3, <3>4, <3>5
  <2>3. m.type = "query" => m = Query(m.q) BY <2>2 DEF Query
  <2>4. \A q \in Queries : Query(q)' = Query(q) /\ Query(q).q = q BY DEF Query
  <2>5. \A q \in Queries : InSeq(q, queue') <=> InSeq(q, queue) BY <2>1
  <2> HIDE DEF m, r
  <2>6. Untouched'
    <3> SUFFICES ASSUME NEW q \in Queries, outcome[q] = "idle" \/ InSeq(q, queue)
                 PROVE  /\ sent[q] = 0 /\ q \notin serving'
                        /\ \A i \in DOMAIN r : r[i] # Query(q)
      BY <2>1, <2>4, <2>5 DEF Untouched
    <3>1. sent[q] = 0 /\ q \notin serving /\ \A i \in DOMAIN toPhone : toPhone[i] # Query(q)
      BY DEF Delivery, Untouched
    <3>2. m # Query(q) BY <2>2, <3>1
    <3>3. q \notin serving' BY <2>1, <2>3, <3>1, <3>2
    <3> QED BY <2>2, <3>1, <3>3
  <2>7. NoGap' /\ Ahead' /\ Ordered' /\ GotPrefix' /\ DeadLink' /\ Counted'
    BY <2>1, <2>2 DEF Delivery, NoGap, Ahead, Ordered, GotPrefix, DeadLink, Counted
  <2> QED BY <2>6, <2>7 DEF Delivery
<1>12. ASSUME NEW q \in Queries, PhoneSendsPage(q) PROVE Delivery'
  <2> DEFINE new == [q |-> q, page |-> sent[q] + 1]
             w == Append(toDesktop, new)
  <2>1. q \in serving /\ sent' = [sent EXCEPT ![q] = @ + 1] /\ toDesktop' = w
        /\ UNCHANGED <<link, active, queue, got, receivedCount, outcome, toPhone, serving>>
    BY <1>12 DEF PhoneSendsPage, client, promise
  <2>2. /\ link /\ Len(toDesktop) \in Nat /\ DOMAIN toDesktop = 1..Len(toDesktop)
        /\ DOMAIN w = 1..(Len(toDesktop) + 1) /\ w[Len(toDesktop) + 1] = new
        /\ \A i \in 1..Len(toDesktop) : w[i] = toDesktop[i]
    <3>1. new \in Page BY <1>0
    <3>2. Len(toDesktop) \in Nat /\ DOMAIN toDesktop = 1..Len(toDesktop) BY <1>0
    <3>3. link BY <2>1 DEF Delivery, DeadLink
    <3> HIDE DEF new
    <3> QED BY <1>0, <3>1, <3>2, <3>3, AppendProperties, LenProperties
  <2>3. new.q = q /\ new.page = sent[q] + 1 /\ sent[q] \in Nat
        /\ sent'[q] = sent[q] + 1 /\ \A x \in Queries : x # q => sent'[x] = sent[x]
    BY <1>0, <2>1
  <2>4. \A i \in DOMAIN w : i \in DOMAIN toDesktop \/ i = Len(toDesktop) + 1 BY <2>2
  <2>5. \A i \in DOMAIN toDesktop : i \in DOMAIN w /\ i < Len(toDesktop) + 1 /\ w[i] = toDesktop[i]
    BY <2>2
  <2> HIDE DEF new, w
  <2>6. Ordered'
    <3>1. ASSUME NEW i \in DOMAIN w PROVE w[i].page <= sent'[w[i].q]
      <4>1. CASE i \in DOMAIN toDesktop
        <5>1. w[i] = toDesktop[i] /\ toDesktop[i].page <= sent[toDesktop[i].q]
              /\ toDesktop[i].q \in Queries /\ toDesktop[i].page \in Nat
          BY <1>p, <2>5, <4>1 DEF Delivery, Ordered
        <5>2. sent[toDesktop[i].q] \in Nat /\ sent'[toDesktop[i].q] \in {sent[toDesktop[i].q], sent[toDesktop[i].q] + 1}
          BY <1>0, <2>3, <5>1
        <5> QED BY <5>1, <5>2
      <4>2. CASE i = Len(toDesktop) + 1 BY <2>2, <2>3, <4>2
      <4> QED BY <2>4, <4>1, <4>2
    <3>2. ASSUME NEW i \in DOMAIN w, NEW j \in DOMAIN w, i < j, w[i].q = w[j].q
          PROVE  w[i].page < w[j].page
      <4>1. i \in DOMAIN toDesktop BY <2>2, <3>2
      <4>2. CASE j \in DOMAIN toDesktop BY <2>5, <3>2, <4>1, <4>2 DEF Delivery, Ordered
      <4>3. CASE j = Len(toDesktop) + 1
        BY <1>p, <2>2, <2>3, <2>5, <3>2, <4>1, <4>3 DEF Delivery, Ordered
      <4> QED BY <2>4, <4>2, <4>3
    <3> QED BY <2>1, <3>1, <3>2 DEF Ordered
  <2>7. Ahead'
    <3>1. active = q => receivedCount < sent[q] + 1
      BY <1>0, <2>1, <2>3, QueryClientAssumption DEF Delivery, Counted
    <3> QED BY <2>1, <2>2, <2>3, <2>4, <2>5, <3>1 DEF Delivery, Ahead
  <2>8. NoGap'
    <3> SUFFICES ASSUME active # None, NEW p \in Nat, receivedCount < p, p <= sent'[active]
                 PROVE  \E i \in DOMAIN w : w[i].q = active /\ w[i].page = p
      BY <2>1, <2>2 DEF NoGap
    <3>1. CASE p <= sent[active]
      <4>1. PICK i \in DOMAIN toDesktop : toDesktop[i].q = active /\ toDesktop[i].page = p
        BY <2>2, <3>1 DEF Delivery, NoGap
      <4> QED BY <2>5, <4>1
    <3>2. CASE ~(p <= sent[active])
      <4>1. active = q /\ p = sent[q] + 1 BY <1>0, <2>3, <3>2
      <4> QED BY <2>2, <2>3, <4>1
    <3> QED BY <3>1, <3>2
  <2>9. Counted' BY <1>0, <2>1, <2>3, QueryClientAssumption DEF Delivery, Counted
  <2>10. GotPrefix' /\ DeadLink' BY <2>1, <2>2 DEF Delivery, GotPrefix, DeadLink
  <2>11. Untouched'
    <3>1. \A x \in Queries : Query(x)' = Query(x) /\ (InSeq(x, queue') <=> InSeq(x, queue))
      BY <2>1 DEF Query
    <3>2. \A x \in Queries : x \notin serving => sent'[x] = sent[x] BY <2>1, <2>3
    <3> QED BY <2>1, <3>1, <3>2 DEF Delivery, Untouched
  <2> QED BY <2>6, <2>7, <2>8, <2>9, <2>10, <2>11 DEF Delivery
<1>13. CASE UNCHANGED vars BY <1>13, SameDelivery DEF vars, client, promise, phone
<1> QED BY <1>1, <1>2, <1>3, <1>5, <1>6, <1>7, <1>8, <1>9, <1>10, <1>11, <1>12, <1>13 DEF Next

LEMMA DeliveryInvariant == Spec => [](LineInv /\ Delivery)
<1>1. Init => Delivery
  BY 1..0 = {} DEF Init, Delivery, GotPrefix, DeadLink, Ordered, Ahead, NoGap, Counted, Untouched
<1> QED BY <1>1, LineInvariant, DeliveryStep, PTL DEF Spec

\* With the invariant, a call that is resolved is resolved with its answer.
LEMMA WholeAnswer ==
    ASSUME LineInv, Delivery, Resolves
    PROVE  result' = [result EXCEPT ![active] = Answer[active]]
<1>1. Head(toDesktop).page = receivedCount + 1 /\ active \in Queries
  BY NextPage DEF Resolves, HandleResultPage
<1>2. receivedCount \in Nat /\ PageCount[active] \in Nat
      /\ PageCount[active] <= receivedCount + 1
  BY <1>1, QueryClientAssumption DEF LineInv, DataOK, ClientOK, Resolves, IsLast
<1>3. (1..receivedCount) \cup {receivedCount + 1} = 1..(receivedCount + 1) BY <1>2
<1>4. (1..(receivedCount + 1)) \cap (1..PageCount[active]) = 1..PageCount[active] BY <1>2
<1> QED BY <1>1, <1>3, <1>4 DEF Delivery, GotPrefix, Answer, Resolves

\* Whatever is late, lost or aborted, a promise that is resolved holds the whole
\* answer to its own query (query-client.ts:158-268).
THEOREM AnswersAreComplete == Spec => []ResolvedIsComplete
<1>1. Init => ResolvedIsComplete BY DEF Init, ResolvedIsComplete
<1>2. LineInv /\ Delivery /\ ResolvedIsComplete /\ [Next]_vars => ResolvedIsComplete'
  <2> SUFFICES ASSUME LineInv, Delivery, ResolvedIsComplete, [Next]_vars
               PROVE  ResolvedIsComplete'
    OBVIOUS
  <2>1. LineStep BY LineSteps DEF LineInv
  <2>2. outcome \in [Queries -> {"idle", "refused", "waiting", "resolved", "rejected"}]
        /\ result \in [Queries -> SUBSET (Nat \ {0})]
    BY DEF LineInv, DataOK
  <2>3. CASE Stays BY <2>3 DEF Stays, ResolvedIsComplete
  <2>4. ASSUME NEW q \in Queries, Promised!Ask(q) PROVE ResolvedIsComplete'
    BY <2>2, <2>4 DEF Promised!Ask, ResolvedIsComplete
  <2>5. CASE Resolves BY <2>2, <2>5, WholeAnswer DEF Resolves, ResolvedIsComplete
  <2>6. CASE Promised!FailHead BY <2>2, <2>6 DEF Promised!FailHead, ResolvedIsComplete
  <2>7. CASE Empties BY <2>2, <2>7 DEF Empties, ResolvedIsComplete
  <2> QED BY <2>1, <2>3, <2>4, <2>5, <2>6, <2>7 DEF LineStep
<1> QED BY <1>1, <1>2, DeliveryInvariant, PTL DEF Spec

\* The client implements the line of calls its callers are promised: every step
\* of it is one step of QueryLine, or none.
THEOREM ClientServesALine == Spec => PromiseSafeSpec
<1>1. Init => Promised!Init BY DEF Init, Promised!Init, Line
<1>2. LineInv /\ Delivery /\ [Next]_vars => [Promised!Next]_(Promised!vars)
  <2> SUFFICES ASSUME LineInv, Delivery, [Next]_vars
               PROVE  [Promised!Next]_(Promised!vars)
    OBVIOUS
  <2>1. LineStep BY LineSteps DEF LineInv
  <2>2. CASE Stays BY <2>2 DEF Stays, Promised!vars
  <2>3. ASSUME NEW q \in Queries, Promised!Ask(q) PROVE Promised!Next
    BY <2>3 DEF Promised!Next
  <2>4. CASE Resolves BY <2>4, WholeAnswer DEF Resolves, Promised!Next, Promised!AnswerHead
  <2>5. CASE Promised!FailHead BY <2>5 DEF Promised!Next
  <2>6. CASE Empties
    <3>1. \A q \in Queries : InSeq(q, Line) <=> outcome[q] = "waiting" BY DEF LineInv, LineOK
    <3> QED BY <2>6, <3>1 DEF Empties, Promised!Next, Promised!FailAll
  <2> QED BY <2>1, <2>2, <2>3, <2>4, <2>5, <2>6 DEF LineStep
<1> QED BY <1>1, <1>2, DeliveryInvariant, PTL DEF Spec, PromiseSafeSpec, Promised!SafeSpec

\* A promise settles once: what was refused, resolved or rejected stays so, and
\* keeps its result.
THEOREM PromisesSettleOnce == Spec => SettledForGood
<1> DEFINE Settled(q) == outcome[q] \in {"refused", "resolved", "rejected"}
           Kept(q) == outcome'[q] = outcome[q] /\ result'[q] = result[q]
<1>1. LineInv /\ [Next]_vars => [\A q \in Queries : Settled(q) => Kept(q)]_vars
  <2> SUFFICES ASSUME LineInv, [Next]_vars, NEW q \in Queries, Settled(q)
               PROVE  Kept(q)
    OBVIOUS
  <2>1. LineStep BY LineSteps DEF LineInv
  <2>2. outcome \in [Queries -> {"idle", "refused", "waiting", "resolved", "rejected"}]
        /\ result \in [Queries -> SUBSET (Nat \ {0})] /\ ~InSeq(q, Line)
    BY DEF LineInv, DataOK, LineOK
  <2>3. Line # <<>> => q # Head(Line) BY <2>2, LineType, TailOfLine DEF LineInv, LineOK
  <2>4. CASE Stays BY <2>4 DEF Stays
  <2>5. ASSUME NEW x \in Queries, Promised!Ask(x) PROVE Kept(q)
    BY <2>2, <2>5 DEF Promised!Ask
  <2>6. CASE Resolves BY <2>2, <2>3, <2>6 DEF Resolves
  <2>7. CASE Promised!FailHead BY <2>2, <2>3, <2>7 DEF Promised!FailHead
  <2>8. CASE Empties BY <2>2, <2>8 DEF Empties
  <2> QED BY <2>1, <2>4, <2>5, <2>6, <2>7, <2>8 DEF LineStep
<1> QED BY <1>1, LineInvariant, PTL DEF Spec, SettledForGood

--------------------
(* The inactivity timer. *)

TimerInv == active # None => timer = TimerFor(receivedCount)

LEMMA TimerStep == DataOK /\ TimerInv /\ [Next]_vars => TimerInv'
<1> SUFFICES ASSUME DataOK, TimerInv, [Next]_vars PROVE TimerInv'
  OBVIOUS
<1>1. ASSUME UNCHANGED <<active, receivedCount, timer>> PROVE TimerInv'
  BY <1>1 DEF TimerInv, TimerFor
<1>2. ASSUME NEW q, NEW b, NEW msgs, Dispatch(q, b, msgs) PROVE TimerInv'
  BY <1>2 DEF Dispatch, TimerInv, TimerFor
<1>3. ASSUME Idle PROVE TimerInv'
  BY <1>3 DEF Idle, TimerInv
<1>4. ASSUME NEW msgs, DrainQueue(msgs) PROVE TimerInv'
  BY <1>2, <1>3, <1>4 DEF DrainQueue, LeaveQueue
<1>5. ASSUME NEW q \in Queries, Call(q) PROVE TimerInv'
  BY <1>1, <1>2, <1>5 DEF Call, client
<1>6. CASE HandleResultPage
  <2>1. CASE IsLast(active) BY <1>4, <1>6, <2>1 DEF HandleResultPage
  <2>2. CASE ~IsLast(active)
    <3>1. timer' = TimerFor(receivedCount + 1) /\ receivedCount' = receivedCount + 1
      BY <1>6, <2>2 DEF HandleResultPage
    <3> QED BY <3>1 DEF TimerInv, TimerFor
  <2> QED BY <2>1, <2>2
<1>7. CASE Timeout BY <1>4, <1>7 DEF Timeout
<1>8. ASSUME NEW q \in Aborters, Abort(q) PROVE TimerInv'
  BY <1>4, <1>8 DEF Abort
<1>9. CASE Disconnected \/ Connected \/ Rewire
  BY <1>3, <1>9 DEF Disconnected, Connected, Rewire, RejectAll
<1>10. CASE PageOfUnknownQuery \/ LinkBreaks \/ PhoneReceives
  BY <1>1, <1>10 DEF PageOfUnknownQuery, LinkBreaks, PhoneReceives, client
<1>11. ASSUME NEW q \in Queries, PhoneSendsPage(q) PROVE TimerInv'
  BY <1>1, <1>11 DEF PhoneSendsPage, client
<1>12. CASE UNCHANGED vars BY <1>1, <1>12 DEF vars, client
<1> QED BY <1>5, <1>6, <1>7, <1>8, <1>9, <1>10, <1>11, <1>12 DEF Next

\* A query that has not got a page is guarded by the long timer
\* (query-client.ts:277-300).
THEOREM FirstPageIsAwaited == Spec => []FirstPageHasItsBudget
<1>1. Init => TimerInv BY DEF Init, TimerInv
<1>2. LineInv /\ Delivery /\ TimerInv => FirstPageHasItsBudget
  <2> SUFFICES ASSUME LineInv, Delivery, TimerInv, active # None, got = {}
               PROVE  timer = "first"
    BY DEF FirstPageHasItsBudget
  <2>1. receivedCount \in Nat /\ 1..receivedCount = {}
    BY DEF LineInv, DataOK, ClientOK, Delivery, GotPrefix
  <2>2. receivedCount = 0 BY <2>1, 1 \in 1..receivedCount \/ receivedCount = 0
  <2> QED BY <2>2 DEF TimerInv, TimerFor
<1>3. LineInv => DataOK BY DEF LineInv
<1> QED BY <1>1, <1>2, <1>3, TimerStep, DeliveryInvariant, PTL DEF Spec

\* Both parts of what a waiting caller relies on: a place in the line with a
\* timer behind it, and a timer that leaves the phone its first page.
THEOREM EveryoneStaysAwaited == Spec => []EveryoneIsAwaited
<1>1. NobodyForgotten /\ FirstPageHasItsBudget => EveryoneIsAwaited BY DEF EveryoneIsAwaited
<1> QED BY <1>1, NobodyIsForgotten, FirstPageIsAwaited, PTL

--------------------
(* The phone's window. *)

\* What is on its way is sent through a socket that the client knows.
Wired == link => sendMessage

\* A call that has not been dispatched.
Unstarted(q) == outcome[q] = "idle" \/ InSeq(q, queue)

\* Of such a call the phone has not heard a word.
Unspoken ==
    \A q \in Queries : Unstarted(q) =>
        acked[q] = 0 /\ \A i \in DOMAIN toPhone : toPhone[i].q # q

\* A query is sent once, before the phone works for it.
SentOnce ==
    \A q \in Queries :
        /\ InSeq(Query(q), toPhone) => sent[q] = 0 /\ q \notin serving
        /\ \A i, j \in DOMAIN toPhone : toPhone[i] = Query(q) /\ toPhone[j] = Query(q) => i = j

\* The query travels and no cancellation travels behind it.
Pending(w, q) ==
    \E i \in DOMAIN w : w[i] = Query(q) /\ \A j \in DOMAIN w : j > i => w[j] # Cancel(q)

\* Whom the phone works for, or soon will, is in progress, orphaned or cancelled.
Overseen ==
    \A q \in Queries :
        /\ q \in serving /\ sent[q] < PageCount[q] =>
              q = active \/ q \in orphaned \/ InSeq(Cancel(q), toPhone)
        /\ Pending(toPhone, q) => q = active \/ q \in orphaned

Oversight == Wired /\ Unspoken /\ SentOnce /\ Overseen /\ CreditsConserved

\* How often elements of S occur in a sequence.
Spots(s, S) == {i \in DOMAIN s : s[i] \in S}
Count(s, S) == Cardinality(Spots(s, S))

LEMMA CountIsNat ==
    ASSUME NEW T, NEW s \in Seq(T), NEW S
    PROVE  /\ IsFiniteSet(Spots(s, S)) /\ Count(s, S) \in Nat
           /\ (\A i \in DOMAIN s : s[i] \notin S) => Count(s, S) = 0
<1>1. IsFiniteSet(1..Len(s)) BY FS_Interval
<1>2. Spots(s, S) \in SUBSET (1..Len(s)) BY DEF Spots
<1>3. IsFiniteSet(Spots(s, S)) BY <1>1, <1>2, FS_Subset
<1>4. (\A i \in DOMAIN s : s[i] \notin S) => Spots(s, S) = {} BY DEF Spots
<1> QED BY <1>3, <1>4, FS_CardinalityType, FS_EmptySet DEF Count

LEMMA CountAppend ==
    ASSUME NEW T, NEW s \in Seq(T), NEW e \in T, NEW S
    PROVE  Count(Append(s, e), S) = Count(s, S) + (IF e \in S THEN 1 ELSE 0)
<1> DEFINE w == Append(s, e)
           n == Len(s) + 1
<1>1. /\ DOMAIN s = 1..Len(s) /\ Len(s) \in Nat /\ DOMAIN w = 1..n
      /\ w[n] = e /\ \A i \in 1..Len(s) : w[i] = s[i]
  OBVIOUS
<1>2. n \notin Spots(s, S) BY <1>1 DEF Spots
<1>3. Count(s, S) \in Nat /\ IsFiniteSet(Spots(s, S)) BY CountIsNat
<1>4. CASE e \in S
  <2>1. Spots(w, S) = Spots(s, S) \cup {n} BY <1>1, <1>4 DEF Spots
  <2> QED BY <1>2, <1>3, <1>4, <2>1, FS_AddElement DEF Count
<1>5. CASE e \notin S
  <2>1. Spots(w, S) = Spots(s, S) BY <1>1, <1>5 DEF Spots
  <2> QED BY <1>3, <1>5, <2>1 DEF Count
<1> QED BY <1>4, <1>5

LEMMA CountTail ==
    ASSUME NEW T, NEW s \in Seq(T), s # <<>>, NEW S
    PROVE  Count(s, S) = Count(Tail(s), S) + (IF Head(s) \in S THEN 1 ELSE 0)
<1> DEFINE t == Tail(s)
           up == [i \in Spots(t, S) |-> i + 1]
           rest == Spots(s, S) \ {1}
<1>1. /\ DOMAIN s = 1..Len(s) /\ Len(s) \in Nat \ {0} /\ Head(s) = s[1]
      /\ t \in Seq(T) /\ DOMAIN t = 1..(Len(s) - 1)
      /\ \A i \in DOMAIN t : t[i] = s[i + 1]
  OBVIOUS
<1>2. IsFiniteSet(Spots(t, S)) /\ IsFiniteSet(Spots(s, S)) /\ Count(t, S) \in Nat
  BY <1>1, CountIsNat
<1>3. \A i \in Spots(t, S) : i \in Int /\ i + 1 \in rest BY <1>1 DEF Spots
<1>4. \A i \in rest : i - 1 \in Spots(t, S) /\ (i - 1) + 1 = i
  <2> SUFFICES ASSUME NEW i \in rest PROVE i - 1 \in Spots(t, S) /\ (i - 1) + 1 = i
    OBVIOUS
  <2>1. i \in 1..Len(s) /\ i # 1 /\ s[i] \in S BY <1>1 DEF Spots
  <2>2. i - 1 \in DOMAIN t /\ (i - 1) + 1 = i BY <1>1, <2>1
  <2> QED BY <1>1, <2>1, <2>2 DEF Spots
<1> HIDE DEF t, rest
<1>5. up \in [Spots(t, S) -> rest] BY <1>3
<1>6. \A i, j \in Spots(t, S) : up[i] = up[j] => i = j BY <1>3
<1>7. \A i \in rest : \E j \in Spots(t, S) : up[j] = i BY <1>4
<1>8. up \in Bijection(Spots(t, S), rest)
  <2> HIDE DEF up
  <2> QED BY <1>5, <1>6, <1>7, Fun_IsBij
<1>9. Cardinality(rest) = Count(t, S) BY <1>2, <1>8, FS_Bijection DEF ExistsBijection, Count
<1>10. Cardinality(rest) = IF 1 \in Spots(s, S) THEN Count(s, S) - 1 ELSE Count(s, S)
  BY <1>2, FS_RemoveElement DEF Count, rest
<1>11. 1 \in Spots(s, S) <=> Head(s) \in S BY <1>1 DEF Spots
<1>12. Count(s, S) \in Nat BY CountIsNat
<1> QED BY <1>2, <1>9, <1>10, <1>11, <1>12 DEF t

\* A message joins the end of those on their way.
LEMMA JoinsEnd ==
    ASSUME NEW w \in Seq(Message), NEW m \in Message
    PROVE  /\ Append(w, m) \in Seq(Message)
           /\ \A x : InSeq(x, Append(w, m)) <=> InSeq(x, w) \/ x = m
           /\ \A q : Pending(Append(w, m), q) =>
                        m = Query(q) \/ (Pending(w, q) /\ m # Cancel(q))
           /\ \A i \in DOMAIN Append(w, m) :
                 (i \in DOMAIN w /\ Append(w, m)[i] = w[i]) \/ (i = Len(w) + 1 /\ Append(w, m)[i] = m)
<1> DEFINE v == Append(w, m)
<1>1. /\ v \in Seq(Message) /\ Len(w) \in Nat /\ DOMAIN w = 1..Len(w)
      /\ DOMAIN v = 1..(Len(w) + 1) /\ v[Len(w) + 1] = m
      /\ \A i \in 1..Len(w) : v[i] = w[i]
  OBVIOUS
<1> HIDE DEF v
<1>2. \A i \in DOMAIN v : (i \in DOMAIN w /\ v[i] = w[i]) \/ (i = Len(w) + 1 /\ v[i] = m) BY <1>1
<1>3. \A x : InSeq(x, v) <=> InSeq(x, w) \/ x = m BY <1>1 DEF InSeq
<1>4. ASSUME NEW q, Pending(v, q), m # Query(q) PROVE Pending(w, q) /\ m # Cancel(q)
  <2>1. PICK i \in DOMAIN v : v[i] = Query(q) /\ \A j \in DOMAIN v : j > i => v[j] # Cancel(q)
    BY <1>4 DEF Pending
  <2>2. i \in DOMAIN w /\ w[i] = Query(q) BY <1>2, <1>4, <2>1
  <2>3. \A j \in DOMAIN w : j > i => w[j] # Cancel(q) BY <1>1, <2>1
  <2>4. m # Cancel(q) BY <1>1, <2>1, <2>2
  <2> QED BY <2>2, <2>3, <2>4 DEF Pending
<1> QED BY <1>1, <1>2, <1>3, <1>4 DEF v

\* The message at the front leaves.
LEMMA LeavesFront ==
    ASSUME NEW w \in Seq(Message), w # <<>>
    PROVE  /\ Tail(w) \in Seq(Message) /\ Head(w) \in Message /\ InSeq(Head(w), w)
           /\ \A x : InSeq(x, w) <=> InSeq(x, Tail(w)) \/ x = Head(w)
           /\ \A q : Pending(Tail(w), q) => Pending(w, q)
           /\ \A q : Head(w) = Query(q) => Pending(w, q) \/ InSeq(Cancel(q), Tail(w))
           /\ Head(w) = w[1] /\ \A i \in DOMAIN Tail(w) : i + 1 \in DOMAIN w /\ Tail(w)[i] = w[i + 1]
<1> DEFINE t == Tail(w)
<1>1. /\ DOMAIN w = 1..Len(w) /\ Len(w) \in Nat \ {0} /\ Head(w) = w[1] /\ Head(w) \in Message
      /\ t \in Seq(Message) /\ DOMAIN t = 1..(Len(w) - 1)
      /\ \A i \in DOMAIN t : t[i] = w[i + 1]
  <2>1. Head(w) \in Message /\ t \in Seq(Message) /\ Len(t) = Len(w) - 1
        /\ \A i \in 1..Len(t) : t[i] = w[i + 1]
    BY HeadTailProperties
  <2>2. DOMAIN w = 1..Len(w) /\ Len(w) \in Nat \ {0} /\ Head(w) = w[1] OBVIOUS
  <2> HIDE DEF t
  <2>3. DOMAIN t = 1..Len(t) BY <2>1, LenProperties
  <2> QED BY <2>1, <2>2, <2>3
<1> HIDE DEF t
<1>2. \A i \in DOMAIN w : i = 1 \/ (i - 1 \in DOMAIN t /\ t[i - 1] = w[i])
  <2> SUFFICES ASSUME NEW i \in DOMAIN w, i # 1 PROVE i - 1 \in DOMAIN t /\ t[i - 1] = w[i]
    OBVIOUS
  <2>1. i - 1 \in DOMAIN t /\ (i - 1) + 1 = i BY <1>1
  <2> QED BY <1>1, <2>1
<1>3. \A i \in DOMAIN t : i + 1 \in DOMAIN w /\ t[i] = w[i + 1] BY <1>1
<1>4. ASSUME NEW x PROVE InSeq(x, w) <=> InSeq(x, t) \/ x = Head(w)
  <2>1. ASSUME InSeq(x, w) PROVE InSeq(x, t) \/ x = Head(w)
    BY <1>1, <1>2, <2>1 DEF InSeq
  <2>2. ASSUME InSeq(x, t) PROVE InSeq(x, w)
    BY <1>3, <2>2 DEF InSeq
  <2>3. 1 \in DOMAIN w BY <1>1
  <2> QED BY <1>1, <2>1, <2>2, <2>3 DEF InSeq
<1>5. ASSUME NEW q, Pending(t, q) PROVE Pending(w, q)
  <2>1. PICK i \in DOMAIN t : t[i] = Query(q) /\ \A j \in DOMAIN t : j > i => t[j] # Cancel(q)
    BY <1>5 DEF Pending
  <2>2. i + 1 \in DOMAIN w /\ w[i + 1] = Query(q) BY <1>3, <2>1
  <2>3. \A j \in DOMAIN w : j > i + 1 => w[j] # Cancel(q)
    <3> SUFFICES ASSUME NEW j \in DOMAIN w, j > i + 1 PROVE w[j] # Cancel(q)
      OBVIOUS
    <3>1. j # 1 /\ j - 1 > i BY <1>1
    <3> QED BY <1>2, <2>1, <3>1
  <2> QED BY <2>2, <2>3 DEF Pending
<1>6. ASSUME NEW q, Head(w) = Query(q), ~Pending(w, q) PROVE InSeq(Cancel(q), t)
  <2>1. PICK j \in DOMAIN w : j > 1 /\ w[j] = Cancel(q) BY <1>1, <1>6 DEF Pending
  <2>2. j - 1 \in DOMAIN t /\ t[j - 1] = Cancel(q) BY <1>1, <1>2, <2>1
  <2> QED BY <2>2 DEF InSeq
<1>7. InSeq(Head(w), w) BY <1>4
<1> QED BY <1>1, <1>3, <1>4, <1>5, <1>6, <1>7 DEF t

\* What dispatch(), sendCancel() and the acknowledgement put on a wire that works.
LEMMA OnLiveWire ==
    ASSUME link, sendMessage, toPhone \in Seq(Message), NEW m \in Message, NEW n \in Message
    PROVE  /\ OnWire(<<m>>) = Append(toPhone, m)
           /\ OnWire(Append(<<>>, m)) = Append(toPhone, m)
           /\ OnWire(Append(<<m>>, n)) = Append(Append(toPhone, m), n)
<1>1. toPhone \o <<m>> = Append(toPhone, m) /\ Append(toPhone, m) \in Seq(Message)
  BY AppendIsConcat, AppendProperties
<1>2. Append(<<>>, m) = <<m>> OBVIOUS
<1>3. Append(<<m>>, n) = <<m>> \o <<n>> /\ <<m>> \in Seq(Message) /\ <<n>> \in Seq(Message)
  BY AppendIsConcat
<1>4. toPhone \o (<<m>> \o <<n>>) = (toPhone \o <<m>>) \o <<n>> BY <1>3, ConcatAssociative
<1>5. Append(toPhone, m) \o <<n>> = Append(Append(toPhone, m), n) BY <1>1, AppendIsConcat
<1> QED BY <1>1, <1>2, <1>3, <1>4, <1>5 DEF OnWire

PagesOf(q) == {p \in Page : p.q = q}

LEMMA CountsAre ==
    ASSUME NEW w, NEW d \in Seq(Page), NEW a
    PROVE  /\ Cardinality({i \in DOMAIN w : w[i] = Ack(a)}) = Count(w, {Ack(a)})
           /\ Cardinality({i \in DOMAIN d : d[i].q = a}) = Count(d, PagesOf(a))
<1>1. {i \in DOMAIN w : w[i] = Ack(a)} = Spots(w, {Ack(a)}) BY DEF Spots
<1>2. \A i \in DOMAIN d : d[i] \in Page BY Elements
<1>3. {i \in DOMAIN d : d[i].q = a} = Spots(d, PagesOf(a)) BY <1>2 DEF Spots, PagesOf
<1> QED BY <1>1, <1>3 DEF Count

\* The counts change by one when their own message or page joins or leaves.
LEMMA AckCount ==
    ASSUME NEW w \in Seq(Message), NEW a
    PROVE  /\ Count(w, {Ack(a)}) \in Nat
           /\ \A m \in Message : Count(Append(w, m), {Ack(a)}) =
                 IF m = Ack(a) THEN Count(w, {Ack(a)}) + 1 ELSE Count(w, {Ack(a)})
           /\ w # <<>> => Count(w, {Ack(a)}) =
                 IF Head(w) = Ack(a) THEN Count(Tail(w), {Ack(a)}) + 1 ELSE Count(Tail(w), {Ack(a)})
<1> DEFINE M == Message
           S == {Ack(a)}
<1>1. w \in Seq(M) /\ \A m : m \in S <=> m = Ack(a) OBVIOUS
<1> HIDE DEF M, S
<1>2. Count(w, S) \in Nat BY <1>1, CountIsNat
<1>3. \A m \in M : Count(Append(w, m), S) = Count(w, S) + (IF m \in S THEN 1 ELSE 0)
  BY <1>1, CountAppend
<1>4. ASSUME w # <<>>
      PROVE  /\ Count(w, S) = Count(Tail(w), S) + (IF Head(w) \in S THEN 1 ELSE 0)
             /\ Count(Tail(w), S) \in Nat
  <2>1. Tail(w) \in Seq(M) BY <1>1, <1>4, HeadTailProperties
  <2>2. Count(Tail(w), S) \in Nat BY <2>1, CountIsNat
  <2> QED BY <1>1, <1>4, <2>2, CountTail
<1>5. \A m \in M : Count(Append(w, m), S) = IF m = Ack(a) THEN Count(w, S) + 1 ELSE Count(w, S)
  BY <1>1, <1>2, <1>3
<1>6. w # <<>> => Count(w, S) = IF Head(w) = Ack(a) THEN Count(Tail(w), S) + 1 ELSE Count(Tail(w), S)
  BY <1>1, <1>4
<1> QED BY <1>2, <1>5, <1>6 DEF M, S

LEMMA PagesCount ==
    ASSUME NEW d \in Seq(Page), NEW a
    PROVE  /\ Count(d, PagesOf(a)) \in Nat
           /\ \A p \in Page : Count(Append(d, p), PagesOf(a)) =
                 IF p.q = a THEN Count(d, PagesOf(a)) + 1 ELSE Count(d, PagesOf(a))
           /\ d # <<>> => Count(d, PagesOf(a)) =
                 IF Head(d).q = a THEN Count(Tail(d), PagesOf(a)) + 1 ELSE Count(Tail(d), PagesOf(a))
<1> DEFINE P == Page
<1>1. d \in Seq(P) /\ \A p \in P : p \in PagesOf(a) <=> p.q = a BY DEF PagesOf
<1> HIDE DEF P
<1>2. Count(d, PagesOf(a)) \in Nat BY <1>1, CountIsNat
<1>3. \A p \in P : Count(Append(d, p), PagesOf(a)) = Count(d, PagesOf(a)) + (IF p \in PagesOf(a) THEN 1 ELSE 0)
  BY <1>1, CountAppend
<1>4. ASSUME d # <<>>
      PROVE  /\ Count(d, PagesOf(a)) = Count(Tail(d), PagesOf(a)) + (IF Head(d) \in PagesOf(a) THEN 1 ELSE 0)
             /\ Count(Tail(d), PagesOf(a)) \in Nat /\ Head(d) \in P
  <2>1. Tail(d) \in Seq(P) /\ Head(d) \in P BY <1>1, <1>4, HeadTailProperties
  <2>2. Count(Tail(d), PagesOf(a)) \in Nat BY <2>1, CountIsNat
  <2> QED BY <1>1, <1>4, <2>1, <2>2, CountTail
<1> QED BY <1>1, <1>2, <1>3, <1>4 DEF P

Credit(a, w, d) == sent[a] = acked[a] + Count(w, {Ack(a)}) + Count(d, PagesOf(a))

LEMMA CreditsAre ==
    ASSUME toDesktop \in Seq(Page), toDesktop' \in Seq(Page)
    PROVE  /\ CreditsConserved <=> (link /\ active # None => Credit(active, toPhone, toDesktop))
           /\ CreditsConserved' <=>
                 (link' /\ active' # None => Credit(active, toPhone, toDesktop)')
BY CountsAre DEF CreditsConserved, Credit

\* The line, the channels and a call that has not been dispatched.
LEMMA WindowFacts ==
    ASSUME LineInv, Delivery
    PROVE  /\ active \in Queries \cup {None} /\ queue \in Seq(Queries)
           /\ toPhone \in Seq(Message) /\ toDesktop \in Seq(Page)
           /\ sent \in [Queries -> Nat] /\ acked \in [Queries -> Nat]
           /\ outcome \in [Queries -> {"idle", "refused", "waiting", "resolved", "rejected"}]
           /\ DataOK
           /\ \A q \in Queries : Unstarted(q) =>
                 /\ sent[q] = 0 /\ q \notin serving /\ q # active /\ ~InSeq(Query(q), toPhone)
                 /\ \A i \in DOMAIN toDesktop : toDesktop[i] \notin PagesOf(q)
<1>1. /\ active \in Queries \cup {None} /\ queue \in Seq(Queries)
      /\ toPhone \in Seq(Message) /\ toDesktop \in Seq(Page)
      /\ sent \in [Queries -> Nat] /\ acked \in [Queries -> Nat] /\ DataOK
      /\ outcome \in [Queries -> {"idle", "refused", "waiting", "resolved", "rejected"}]
  BY DEF LineInv, DataOK, ClientOK
<1>2. ASSUME NEW q \in Queries, Unstarted(q)
      PROVE  /\ sent[q] = 0 /\ q \notin serving /\ q # active /\ ~InSeq(Query(q), toPhone)
             /\ \A i \in DOMAIN toDesktop : toDesktop[i] \notin PagesOf(q)
  <2>1. sent[q] = 0 /\ q \notin serving /\ \A i \in DOMAIN toPhone : toPhone[i] # Query(q)
    BY <1>2 DEF Delivery, Untouched, Unstarted
  <2>2. q # active
    <3>1. active # None => InSeq(active, Line) /\ outcome[active] = "waiting"
      BY <1>1, LineType, LineProperties, LineIs, TailOfLine DEF LineInv, LineOK
    <3> QED BY <1>2, <3>1, QueueProperties, QueryClientAssumption DEF Unstarted
  <2>3. \A i \in DOMAIN toDesktop : toDesktop[i].page <= sent[toDesktop[i].q]
    BY DEF Delivery, Ordered
  <2>4. \A i \in DOMAIN toDesktop : toDesktop[i] \in Page BY <1>1, Elements
  <2>5. \A i \in DOMAIN toDesktop : toDesktop[i] \notin PagesOf(q) BY <2>1, <2>3, <2>4 DEF PagesOf
  <2> QED BY <2>1, <2>2, <2>5 DEF InSeq
<1> QED BY <1>1, <1>2

\* A call that starts finds the window closed and nothing of its own on the way.
LEMMA FreshCredit ==
    ASSUME NEW h \in Queries, NEW w \in Seq(Message), NEW d \in Seq(Page),
           sent[h] = 0, acked[h] = 0,
           \A i \in DOMAIN w : w[i] # Ack(h), \A i \in DOMAIN d : d[i] \notin PagesOf(h)
    PROVE  Credit(h, w, d)
<1>1. Count(w, {Ack(h)}) = 0 /\ Count(d, PagesOf(h)) = 0 BY CountIsNat
<1> QED BY <1>1 DEF Credit

\* The query in progress ends, with m for the phone; the next in line starts.
LEMMA DrainOversees ==
    ASSUME LineInv, Delivery, Oversight, active # None, DataOK',
           NEW m \in {Ack(active), Cancel(active)}, DrainQueue(<<m>>),
           m = Ack(active) => sent[active] >= PageCount[active],
           NEW how \in {"resolved", "rejected"}, outcome' = [outcome EXCEPT ![active] = how],
           toDesktop' = toDesktop \/ (toDesktop # <<>> /\ toDesktop' = Tail(toDesktop)),
           UNCHANGED <<link, sendMessage, sent, acked, serving, orphaned>>
    PROVE  Oversight'
<1>1. /\ queue \in Seq(Queries) /\ NoRepeats(queue) /\ active \in Queries
      /\ toPhone \in Seq(Message) /\ toDesktop \in Seq(Page) /\ m \in Message
      /\ outcome \in [Queries -> {"idle", "refused", "waiting", "resolved", "rejected"}]
      /\ sent \in [Queries -> Nat] /\ PageCount[active] \in Nat \ {0}
  BY WindowFacts, QueueProperties, QueryClientAssumption DEF Ack, Cancel
<1>2. toDesktop' \in Seq(Page) /\ \A i \in DOMAIN toDesktop' : \E j \in DOMAIN toDesktop : toDesktop'[i] = toDesktop[j]
  <2>1. CASE toDesktop' = toDesktop BY <1>1, <2>1
  <2>2. CASE toDesktop # <<>> /\ toDesktop' = Tail(toDesktop)
    <3>1. \A i \in DOMAIN Tail(toDesktop) :
             Tail(toDesktop)[i] = toDesktop[i + 1] /\ i + 1 \in DOMAIN toDesktop
      BY <2>2, TailOfPages DEF LineInv
    <3>2. Tail(toDesktop) \in Seq(Page) BY <1>1, <2>2, HeadTailProperties
    <3> QED BY <2>2, <3>1, <3>2
  <2> QED BY <2>1, <2>2
<1>3. Wired' BY DEF Oversight, Wired
<1>4. \A q \in Queries : outcome'[q] = "idle" => outcome[q] = "idle" BY <1>1
<1>5. m.q = active /\ \A q : m # Query(q) /\ (m = Ack(q) \/ m = Cancel(q) => q = active)
  BY DEF Ack, Cancel, Query
<1>6. CASE ~link
  <2>1. toPhone' = toPhone /\ toPhone = <<>> /\ serving = {}
    <3>1. \A msgs : OnWire(msgs) = toPhone BY <1>6 DEF OnWire
    <3> QED BY <1>6, <3>1 DEF DrainQueue, LeaveQueue, Dispatch, Delivery, DeadLink
  <2>2. \A q \in Queries : Unstarted(q)' => Unstarted(q)
    <3>1. CASE queue = <<>> BY <1>4, <3>1 DEF Unstarted, DrainQueue, LeaveQueue, InSeq
    <3>2. CASE queue # <<>>
      <4>1. queue' = Tail(queue) BY <3>2 DEF DrainQueue
      <4> QED BY <1>1, <1>4, <3>2, <4>1, TailOfLine DEF Unstarted
    <3> QED BY <3>1, <3>2
  <2>3. Unspoken' /\ SentOnce' /\ Overseen'
    BY <2>1, <2>2 DEF Oversight, Unspoken, SentOnce, Overseen, Pending, InSeq
  <2> QED BY <1>1, <1>2, <1>3, <1>6, <2>3, CreditsAre DEF Oversight
<1>7. CASE link
  <2> DEFINE w == Append(toPhone, m)
  <2>1. sendMessage BY <1>7 DEF Oversight, Wired
  <2>2. /\ w \in Seq(Message)
        /\ \A x : InSeq(x, w) <=> InSeq(x, toPhone) \/ x = m
        /\ \A q : Pending(w, q) => m = Query(q) \/ (Pending(toPhone, q) /\ m # Cancel(q))
        /\ \A i \in DOMAIN w : (i \in DOMAIN toPhone /\ w[i] = toPhone[i]) \/ (i = Len(toPhone) + 1 /\ w[i] = m)
    BY <1>1, JoinsEnd
  <2> HIDE DEF w
  \* What holds of the channel once m is in it.
  <2>3. \A q \in Queries :
           /\ InSeq(Query(q), w) => sent[q] = 0 /\ q \notin serving
           /\ \A i, j \in DOMAIN w : w[i] = Query(q) /\ w[j] = Query(q) => i = j
    BY <1>5, <2>2 DEF Oversight, SentOnce
  <2>4. \A q \in Queries :
           /\ q \in serving /\ sent[q] < PageCount[q] => q \in orphaned \/ InSeq(Cancel(q), w)
           /\ Pending(w, q) => q \in orphaned
    <3> SUFFICES ASSUME NEW q \in Queries
                 PROVE  /\ q \in serving /\ sent[q] < PageCount[q] => q \in orphaned \/ InSeq(Cancel(q), w)
                        /\ Pending(w, q) => q \in orphaned
      OBVIOUS
    <3>1. CASE q # active BY <1>5, <2>2, <3>1 DEF Oversight, Overseen
    <3>2. CASE q = active /\ m = Cancel(active) BY <1>5, <2>2, <3>2
    <3>3. CASE q = active /\ m = Ack(active)
      <4>1. ~InSeq(Query(q), toPhone) /\ ~(sent[q] < PageCount[q])
        BY <1>1, <3>3 DEF Oversight, SentOnce
      <4>2. ~Pending(w, q) BY <1>5, <2>2, <4>1 DEF Pending, InSeq
      <4> QED BY <4>1, <4>2
    <3> QED BY <3>1, <3>2, <3>3
  <2>5. \A q \in Queries : Unstarted(q) => acked[q] = 0 /\ \A i \in DOMAIN w : w[i].q # q
    BY <1>5, <2>2, WindowFacts DEF Oversight, Unspoken
  <2>6. CASE queue = <<>>
    <3>1. active' = None /\ toPhone' = w /\ queue' = queue
      BY <1>1, <1>7, <2>1, <2>6, OnLiveWire DEF DrainQueue, LeaveQueue, Idle, w
    <3>2. \A q \in Queries : Unstarted(q)' => Unstarted(q) BY <1>4, <3>1 DEF Unstarted
    <3>3. Unspoken' /\ SentOnce' /\ Overseen'
      BY <2>3, <2>4, <2>5, <3>1, <3>2 DEF Unspoken, SentOnce, Overseen
    <3> QED BY <1>1, <1>2, <1>3, <3>1, <3>3, CreditsAre DEF Oversight
  <2>7. CASE queue # <<>>
    <3> DEFINE h == Head(queue)
               v == Append(w, Query(h))
    <3>1. h \in Queries /\ InSeq(h, queue) /\ Query(h) \in Message
          /\ \A x : InSeq(x, Tail(queue)) <=> InSeq(x, queue) /\ x # h
      BY <1>1, <2>7, HeadTailProperties, TailOfLine DEF Query
    <3>2. active' = h /\ toPhone' = v /\ queue' = Tail(queue)
      BY <1>1, <1>7, <2>1, <2>7, <3>1, OnLiveWire DEF DrainQueue, Dispatch, w
    <3>3. /\ v \in Seq(Message)
          /\ \A x : InSeq(x, v) <=> InSeq(x, w) \/ x = Query(h)
          /\ \A q : Pending(v, q) => Query(h) = Query(q) \/ Pending(w, q)
          /\ \A i \in DOMAIN v : (i \in DOMAIN w /\ v[i] = w[i]) \/ (i = Len(w) + 1 /\ v[i] = Query(h))
      BY <2>2, <3>1, JoinsEnd
    <3>4. Unstarted(h) /\ sent[h] = 0 /\ h \notin serving /\ ~InSeq(Query(h), w)
          /\ acked[h] = 0 /\ \A i \in DOMAIN w : w[i].q # h
      BY <1>5, <2>2, <2>5, <3>1, WindowFacts DEF Unstarted
    <3>5. \A q \in Queries : Unstarted(q)' => Unstarted(q) /\ q # h
      BY <1>4, <3>1, <3>2, QueueProperties DEF Unstarted
    <3>6. \A q : Query(q) = Query(h) => q = h BY DEF Query
    <3>7. \A q : Query(h) # Ack(q) /\ Query(h) # Cancel(q) /\ Query(h).q = h
      BY DEF Query, Ack, Cancel
    <3> HIDE DEF h, v
    <3>8. Unspoken' BY <2>5, <3>2, <3>3, <3>5, <3>7 DEF Unspoken
    <3>9. SentOnce' BY <2>3, <3>2, <3>3, <3>4, <3>6 DEF SentOnce, InSeq
    <3>10. Overseen' BY <2>4, <3>2, <3>3, <3>6 DEF Overseen
    <3>11. Credit(h, v, toDesktop')
      <4>1. \A i \in DOMAIN v : v[i] # Ack(h)
        <5>1. Ack(h).q = h BY DEF Ack
        <5> QED BY <3>3, <3>4, <3>7, <5>1
      <4>2. \A i \in DOMAIN toDesktop' : toDesktop'[i] \notin PagesOf(h)
        BY <1>2, <3>1, <3>4, WindowFacts
      <4> QED BY <1>2, <3>1, <3>3, <3>4, <4>1, <4>2, FreshCredit
    <3>12. CreditsConserved' BY <1>1, <1>2, <3>2, <3>11, CreditsAre DEF Credit
    <3> QED BY <1>3, <3>8, <3>9, <3>10, <3>12 DEF Oversight
  <2> QED BY <2>6, <2>7
<1> QED BY <1>6, <1>7

\* The client is emptied: whoever it worked for is orphaned, or the phone is gone.
LEMMA RejectOversees ==
    ASSUME LineInv, Delivery, Oversight, RejectAll, Wired', sent' = sent, acked' = acked,
           \/ toPhone' = <<>> /\ serving' = {}
           \/ toPhone' = toPhone /\ serving' = serving /\ active \in orphaned' \cup {None},
           orphaned \subseteq orphaned'
    PROVE  Oversight'
<1>1. active' = None /\ queue' = <<>>
      /\ \A q \in Queries : outcome'[q] = "idle" => outcome[q] = "idle"
  BY DEF RejectAll, Idle
<1>2. \A q \in Queries : Unstarted(q)' => Unstarted(q) BY <1>1 DEF Unstarted, InSeq
<1>3. CreditsConserved' BY <1>1 DEF CreditsConserved
<1>4. CASE toPhone' = <<>> /\ serving' = {}
  <2>1. Unspoken' /\ SentOnce' /\ Overseen'
    BY <1>2, <1>4 DEF Oversight, Unspoken, SentOnce, Overseen, Pending, InSeq
  <2> QED BY <1>3, <2>1 DEF Oversight
<1>5. CASE toPhone' = toPhone /\ serving' = serving /\ active \in orphaned' \cup {None}
  <2>1. Unspoken' /\ SentOnce' BY <1>2, <1>5 DEF Oversight, Unspoken, SentOnce
  <2>2. Overseen' BY <1>5, QueryClientAssumption DEF Oversight, Overseen
  <2> QED BY <1>3, <2>1, <2>2 DEF Oversight
<1> QED BY <1>4, <1>5

LEMMA CallOversees ==
    ASSUME LineInv, Delivery, Oversight, DataOK', NEW q \in Queries, Call(q)
    PROVE  Oversight'
<1>1. /\ outcome[q] = "idle" /\ toPhone \in Seq(Message) /\ queue \in Seq(Queries)
      /\ toDesktop \in Seq(Page)
      /\ outcome \in [Queries -> {"idle", "refused", "waiting", "resolved", "rejected"}]
      /\ UNCHANGED <<link, toDesktop, sent, acked, serving, orphaned>>
  BY WindowFacts DEF Call, phone
<1>2. /\ Unstarted(q) /\ sent[q] = 0 /\ q \notin serving /\ ~InSeq(Query(q), toPhone)
      /\ acked[q] = 0 /\ \A i \in DOMAIN toPhone : toPhone[i].q # q
  BY <1>1, WindowFacts DEF Unstarted, Oversight, Unspoken
<1>3. ASSUME UNCHANGED <<sendMessage, active, toPhone>>, \A x \in Queries : Unstarted(x)' => Unstarted(x)
      PROVE  Oversight'
  <2>1. Wired' /\ Unspoken' /\ SentOnce' /\ Overseen'
    BY <1>1, <1>3 DEF Oversight, Wired, Unspoken, SentOnce, Overseen
  <2>2. CreditsConserved' BY <1>1, <1>3 DEF Oversight, CreditsConserved
  <2> QED BY <2>1, <2>2 DEF Oversight
<1>4. CASE ~sendMessage
  <2>1. UNCHANGED <<sendMessage, active, queue, toPhone>> /\ outcome' = [outcome EXCEPT ![q] = "refused"]
    BY <1>4 DEF Call, client, Settle
  <2>2. \A x \in Queries : Unstarted(x)' => Unstarted(x) BY <1>1, <2>1 DEF Unstarted
  <2> QED BY <1>3, <2>1, <2>2
<1>5. CASE sendMessage /\ active # None
  <2>1. UNCHANGED <<sendMessage, active, toPhone>> /\ queue' = Append(queue, q)
        /\ outcome' = [outcome EXCEPT ![q] = "waiting"]
    BY <1>5 DEF Call, Enqueue, Settle
  <2>2. \A x \in Queries : InSeq(x, queue') => InSeq(x, queue) \/ x = q
    <3>1. NoRepeats(queue) /\ ~InSeq(q, queue) BY <1>1, QueueProperties
    <3> QED BY <1>1, <2>1, <3>1, AppendToLine
  <2>3. \A x \in Queries : Unstarted(x)' => Unstarted(x) BY <1>1, <1>2, <2>1, <2>2 DEF Unstarted
  <2> QED BY <1>3, <2>1, <2>3
<1>6. CASE sendMessage /\ active = None
  <2>1. /\ sendMessage' = sendMessage /\ active' = q /\ queue' = queue
        /\ toPhone' = OnWire(Append(<<>>, Query(q))) /\ outcome' = [outcome EXCEPT ![q] = "waiting"]
    BY <1>6 DEF Call, Dispatch, Settle
  <2>2. queue = <<>> BY <1>6 DEF LineInv, Coupled
  <2>3. \A x \in Queries : Unstarted(x)' => Unstarted(x) /\ x # q
    BY <1>1, <2>1, <2>2 DEF Unstarted, InSeq
  <2>4. Wired' BY <1>1, <2>1 DEF Oversight, Wired
  <2>5. CASE ~link
    <3>1. toPhone' = toPhone /\ toPhone = <<>> /\ serving = {}
      BY <2>1, <2>5 DEF OnWire, Delivery, DeadLink
    <3>2. Unspoken' /\ SentOnce' /\ Overseen'
      BY <1>1, <2>3, <3>1 DEF Oversight, Unspoken, SentOnce, Overseen, Pending, InSeq
    <3>3. CreditsConserved' BY <1>1, <2>5 DEF CreditsConserved
    <3> QED BY <2>4, <3>2, <3>3 DEF Oversight
  <2>6. CASE link
    <3> DEFINE v == Append(toPhone, Query(q))
    <3>1. Query(q) \in Message /\ toPhone' = v
      <4>1. Query(q) \in Message BY DEF Query
      <4> QED BY <1>1, <1>6, <2>1, <2>6, <4>1, OnLiveWire
    <3>2. /\ v \in Seq(Message)
          /\ \A x : InSeq(x, v) <=> InSeq(x, toPhone) \/ x = Query(q)
          /\ \A x : Pending(v, x) => Query(q) = Query(x) \/ Pending(toPhone, x)
          /\ \A i \in DOMAIN v : (i \in DOMAIN toPhone /\ v[i] = toPhone[i]) \/ (i = Len(toPhone) + 1 /\ v[i] = Query(q))
      BY <1>1, <3>1, JoinsEnd
    <3>3. \A x : Query(x) = Query(q) => x = q BY DEF Query
    <3>4. \A x : Query(q) # Ack(x) /\ Query(q) # Cancel(x) /\ Query(q).q = q
      BY DEF Query, Ack, Cancel
    <3> HIDE DEF v
    <3>5. Unspoken' BY <1>1, <2>3, <3>1, <3>2, <3>4 DEF Oversight, Unspoken
    <3>6. SentOnce' BY <1>1, <1>2, <3>1, <3>2, <3>3 DEF Oversight, SentOnce, InSeq
    <3>7. Overseen'
      BY <1>1, <1>6, <2>1, <3>1, <3>2, <3>3, QueryClientAssumption DEF Oversight, Overseen
    <3>8. Credit(q, v, toDesktop)
      <4>1. \A i \in DOMAIN v : v[i] # Ack(q)
        <5>1. Ack(q).q = q BY DEF Ack
        <5> QED BY <1>2, <3>2, <3>4, <5>1
      <4>2. \A i \in DOMAIN toDesktop : toDesktop[i] \notin PagesOf(q) BY <1>2, WindowFacts
      <4> QED BY <1>1, <1>2, <3>2, <4>1, <4>2, FreshCredit
    <3>9. CreditsConserved' BY <1>1, <2>1, <3>1, <3>8, CreditsAre DEF Credit
    <3> QED BY <2>4, <3>5, <3>6, <3>7, <3>9 DEF Oversight
  <2> QED BY <2>5, <2>6
<1> QED BY <1>4, <1>5, <1>6

\* A page of the query in progress becomes an acknowledgement.
LEMMA PageOversees ==
    ASSUME LineInv, Delivery, Oversight, DataOK', HandleResultPage
    PROVE  Oversight'
<1>1. /\ toDesktop # <<>> /\ Expected(Head(toDesktop)) /\ toDesktop' = Tail(toDesktop)
      /\ UNCHANGED <<link, sendMessage, sent, acked, serving, orphaned>>
  BY DEF HandleResultPage, phone
<1>2. /\ active \in Queries /\ active # None /\ Head(toDesktop).page = receivedCount + 1
  BY <1>1, NextPage
<1>3. /\ link /\ sendMessage
      /\ toPhone \in Seq(Message) /\ toDesktop \in Seq(Page) /\ Tail(toDesktop) \in Seq(Page)
      /\ receivedCount \in Nat /\ sent[active] \in Nat /\ PageCount[active] \in Nat
      /\ receivedCount + 1 <= sent[active]
  <2>1. link BY <1>1 DEF Delivery, DeadLink
  <2>2. /\ toPhone \in Seq(Message) /\ toDesktop \in Seq(Page) /\ receivedCount \in Nat
        /\ sent[active] \in Nat /\ PageCount[active] \in Nat
    BY <1>2, WindowFacts, QueryClientAssumption DEF DataOK, ClientOK
  <2>3. Head(toDesktop) = toDesktop[1] /\ 1 \in DOMAIN toDesktop BY <1>1, TailOfPages DEF LineInv
  <2>4. toDesktop[1].page <= sent[toDesktop[1].q] BY <2>3 DEF Delivery, Ordered
  <2> QED BY <1>1, <1>2, <2>1, <2>2, <2>3, <2>4, HeadTailProperties DEF Oversight, Wired, Expected
<1>4. CASE IsLast(active)
  <2>1. /\ DrainQueue(<<Ack(active)>>) /\ outcome' = [outcome EXCEPT ![active] = "resolved"]
    BY <1>4 DEF HandleResultPage, AckFor, Settle
  <2>2. sent[active] >= PageCount[active] BY <1>3, <1>4 DEF IsLast
  <2>3. Ack(active) # Cancel(active) BY DEF Ack, Cancel
  <2> QED BY <1>1, <1>2, <2>1, <2>2, DrainOversees
<1>5. CASE ~IsLast(active)
  <2> DEFINE w == Append(toPhone, Ack(active))
  <2>1. /\ UNCHANGED <<active, queue, outcome>> /\ toPhone' = OnWire(<<Ack(active)>>)
    BY <1>5 DEF HandleResultPage, AckFor
  <2>2. Ack(active) \in Message BY <1>2 DEF Ack
  <2>3. toPhone' = w BY <1>3, <2>1, <2>2, OnLiveWire
  <2>4. /\ w \in Seq(Message)
        /\ \A x : InSeq(x, w) <=> InSeq(x, toPhone) \/ x = Ack(active)
        /\ \A x : Pending(w, x) => Ack(active) = Query(x) \/ Pending(toPhone, x)
        /\ \A i \in DOMAIN w : (i \in DOMAIN toPhone /\ w[i] = toPhone[i]) \/ (i = Len(toPhone) + 1 /\ w[i] = Ack(active))
    BY <1>3, <2>2, JoinsEnd
  <2>5. \A x : Ack(active) # Query(x) /\ Ack(active) # Cancel(x) /\ Ack(active).q = active
    BY DEF Query, Ack, Cancel
  <2>6. \A x \in Queries : (Unstarted(x)' => Unstarted(x)) /\ (Unstarted(x) => x # active)
    BY <2>1, WindowFacts DEF Unstarted
  <2>7. Count(w, {Ack(active)}) = Count(toPhone, {Ack(active)}) + 1 BY <1>3, <2>2, AckCount
  <2>8. Count(toDesktop, PagesOf(active)) = Count(Tail(toDesktop), PagesOf(active)) + 1
    BY <1>1, <1>3, PagesCount DEF Expected
  <2>9. /\ acked[active] \in Nat /\ Count(toPhone, {Ack(active)}) \in Nat
        /\ Count(Tail(toDesktop), PagesOf(active)) \in Nat
    BY <1>2, <1>3, WindowFacts, AckCount, PagesCount
  <2> HIDE DEF w
  <2>14. Wired' BY <1>1, <1>3 DEF Wired
  <2>15. Unspoken' BY <1>1, <2>1, <2>3, <2>4, <2>5, <2>6 DEF Oversight, Unspoken
  <2>16. SentOnce'
    <3>1. \A x \in Queries, i \in DOMAIN w : w[i] = Query(x) => i \in DOMAIN toPhone /\ toPhone[i] = Query(x)
      BY <2>4, <2>5
    <3>2. \A x \in Queries : InSeq(Query(x), w) => InSeq(Query(x), toPhone) BY <2>4, <2>5
    <3> QED BY <1>1, <2>3, <3>1, <3>2 DEF Oversight, SentOnce
  <2>17. Overseen' BY <1>1, <2>1, <2>3, <2>4, <2>5 DEF Oversight, Overseen
  <2>10. Wired' /\ Unspoken' /\ SentOnce' /\ Overseen' BY <2>14, <2>15, <2>16, <2>17
  <2>11. Credit(active, toPhone, toDesktop) BY <1>2, <1>3, <1>1, CreditsAre DEF Oversight
  <2>12. Credit(active, w, Tail(toDesktop))
    <3> DEFINE c == Count(toPhone, {Ack(active)})
               e == Count(Tail(toDesktop), PagesOf(active))
    <3>1. c \in Nat /\ e \in Nat /\ sent[active] \in Nat /\ acked[active] \in Nat BY <1>3, <2>9
    <3>2. sent[active] = acked[active] + c + (e + 1) BY <2>8, <2>11 DEF Credit
    <3> HIDE DEF c, e
    <3>3. sent[active] = acked[active] + (c + 1) + e BY <3>1, <3>2
    <3> QED BY <2>7, <3>3 DEF Credit, c, e
  <2>13. CreditsConserved' BY <1>1, <1>3, <2>1, <2>3, <2>12, CreditsAre DEF Credit
  <2> QED BY <2>10, <2>13 DEF Oversight
<1> QED BY <1>4, <1>5

\* The phone takes a message.
LEMMA ReceiptOversees ==
    ASSUME LineInv, Delivery, Oversight, DataOK', PhoneReceives
    PROVE  Oversight'
<1> DEFINE t == Tail(toPhone)
<1> PICK m : m = Head(toPhone) OBVIOUS
<1>1. /\ toPhone # <<>> /\ toPhone' = t
      /\ UNCHANGED <<link, sendMessage, active, queue, outcome, toDesktop, sent, orphaned>>
  BY DEF PhoneReceives, client, promise
<1>2. /\ toPhone \in Seq(Message) /\ toDesktop \in Seq(Page) /\ acked \in [Queries -> Nat]
      /\ sent \in [Queries -> Nat] /\ active \in Queries \cup {None}
  BY WindowFacts
<1>3. /\ t \in Seq(Message) /\ m \in Message /\ InSeq(m, toPhone)
      /\ \A x : InSeq(x, toPhone) <=> InSeq(x, t) \/ x = m
      /\ \A q : Pending(t, q) => Pending(toPhone, q)
      /\ \A q : m = Query(q) => Pending(toPhone, q) \/ InSeq(Cancel(q), t)
      /\ m = toPhone[1] /\ \A i \in DOMAIN t : i + 1 \in DOMAIN toPhone /\ t[i] = toPhone[i + 1]
  BY <1>1, <1>2, LeavesFront
<1> HIDE DEF t
<1>4. m.q \in Queries /\ m.type \in {"query", "ack", "cancel"}
      /\ (m.type = "query" => m = Query(m.q)) /\ (m.type = "ack" => m = Ack(m.q))
      /\ (m.type = "cancel" => m = Cancel(m.q))
  BY <1>3 DEF Query, Ack, Cancel
<1>5. \A q : /\ Query(q).type = "query" /\ Ack(q).type = "ack" /\ Cancel(q).type = "cancel"
             /\ Query(q).q = q /\ Ack(q).q = q /\ Cancel(q).q = q
  BY DEF Query, Ack, Cancel
<1>6. \A q \in Queries : (Unstarted(q)' <=> Unstarted(q)) /\ (Unstarted(q) => m.q # q)
  <2>1. \A q \in Queries : Unstarted(q) => m.q # q BY <1>3 DEF Oversight, Unspoken, InSeq
  <2> QED BY <1>1, <2>1 DEF Unstarted
<1>7. acked' = IF m.type = "ack" THEN [acked EXCEPT ![m.q] = @ + 1] ELSE acked
  BY <1>4 DEF PhoneReceives
<1>8. /\ m.type = "query" => serving' = serving \cup {m.q}
      /\ m.type = "cancel" => serving' = serving \ {m.q}
      /\ m.type = "ack" => serving' \subseteq serving
  BY <1>4 DEF PhoneReceives
<1>9. Wired' BY <1>1 DEF Oversight, Wired
<1>10. Unspoken' BY <1>1, <1>2, <1>3, <1>6, <1>7 DEF Oversight, Unspoken
<1>11. \A i \in DOMAIN t : i + 1 # 1 BY <1>2, <1>3
<1>12. SentOnce'
  <2>1. ASSUME NEW q \in Queries, InSeq(Query(q), t) PROVE sent[q] = 0 /\ q \notin serving'
    <3>1. sent[q] = 0 /\ q \notin serving BY <1>3, <2>1 DEF Oversight, SentOnce
    <3>2. m # Query(q)
      <4>1. PICK i \in DOMAIN t : t[i] = Query(q) BY <2>1 DEF InSeq
      <4>2. 1 \in DOMAIN toPhone BY <1>1, <1>2
      <4> QED BY <1>3, <1>11, <4>1, <4>2 DEF Oversight, SentOnce
    <3> QED BY <1>4, <1>8, <3>1, <3>2
  <2>2. ASSUME NEW q \in Queries, NEW i \in DOMAIN t, NEW j \in DOMAIN t,
               t[i] = Query(q), t[j] = Query(q)
        PROVE  i = j
    <3>1. i + 1 = j + 1 BY <1>3, <2>2 DEF Oversight, SentOnce
    <3> QED BY <1>3, <3>1
  <2> QED BY <1>1, <2>1, <2>2 DEF SentOnce
<1>13. Overseen'
  <2>1. ASSUME NEW q \in Queries, q \in serving', sent[q] < PageCount[q]
        PROVE  q = active \/ q \in orphaned \/ InSeq(Cancel(q), t)
    <3>1. CASE m = Query(q) BY <1>3, <3>1 DEF Oversight, Overseen
    <3>2. CASE m # Query(q)
      <4>1. q \in serving /\ m # Cancel(q) BY <1>4, <1>5, <1>8, <2>1, <3>2
      <4> QED BY <1>3, <2>1, <4>1 DEF Oversight, Overseen
    <3> QED BY <3>1, <3>2
  <2>2. \A q \in Queries : Pending(t, q) => q = active \/ q \in orphaned
    BY <1>3 DEF Oversight, Overseen
  <2> QED BY <1>1, <2>1, <2>2 DEF Overseen
<1>14. CreditsConserved'
  <2> SUFFICES ASSUME link, active # None PROVE Credit(active, toPhone, toDesktop)'
    BY <1>1, <1>2, CreditsAre
  <2>1. Credit(active, toPhone, toDesktop) /\ active \in Queries
    BY <1>1, <1>2, CreditsAre DEF Oversight
  <2> DEFINE c == Count(t, {Ack(active)})
             e == Count(toDesktop, PagesOf(active))
  <2>2. /\ Count(toPhone, {Ack(active)}) = IF m = Ack(active) THEN c + 1 ELSE c
        /\ c \in Nat /\ e \in Nat
    BY <1>1, <1>2, <1>3, AckCount, PagesCount DEF t
  <2>3. acked'[active] = IF m = Ack(active) THEN acked[active] + 1 ELSE acked[active]
    BY <1>2, <1>4, <1>5, <1>7, <2>1
  <2>4. acked[active] \in Nat BY <1>2, <2>1
  <2>5. sent[active] = acked[active] + Count(toPhone, {Ack(active)}) + e BY <2>1 DEF Credit
  <2>6. Count(toPhone', {Ack(active)}) = c BY <1>1
  <2> HIDE DEF c, e
  <2>7. sent[active] = acked'[active] + c + e BY <2>2, <2>3, <2>4, <2>5
  <2> QED BY <1>1, <2>6, <2>7 DEF Credit, e
<1> QED BY <1>9, <1>10, <1>12, <1>13, <1>14 DEF Oversight

LEMMA OversightStep == LineInv /\ Delivery /\ Oversight /\ [Next]_vars => Oversight'
<1> SUFFICES ASSUME LineInv, Delivery, Oversight, [Next]_vars PROVE Oversight'
  OBVIOUS
<1>0. DataOK' BY DataStep DEF LineInv
<1>1. ASSUME NEW q \in Queries, Call(q) PROVE Oversight'
  BY <1>0, <1>1, CallOversees
<1>2. ASSUME UNCHANGED <<link, sendMessage, active, queue, outcome, toPhone, acked, orphaned>>,
             \A q \in Queries : sent'[q] = sent[q] \/ (q \in serving /\ sent'[q] > sent[q]),
             serving' = serving, sent' \in [Queries -> Nat],
             link /\ active # None => Credit(active, toPhone, toDesktop)'
      PROVE  Oversight'
  <2>1. \A q \in Queries : Unstarted(q)' <=> Unstarted(q) BY <1>2 DEF Unstarted
  <2>2. Wired' /\ Unspoken' BY <1>2, <2>1 DEF Oversight, Wired, Unspoken
  <2>3. SentOnce' BY <1>2 DEF Oversight, SentOnce
  <2>4. Overseen'
    <3>1. \A q \in Queries : sent'[q] < PageCount[q] => sent[q] < PageCount[q]
      <4> TAKE q \in Queries
      <4>1. sent[q] \in Nat /\ PageCount[q] \in Nat /\ sent'[q] \in Nat
        BY <1>2, WindowFacts, QueryClientAssumption
      <4>2. sent'[q] = sent[q] \/ sent'[q] > sent[q] BY <1>2
      <4> QED BY <4>1, <4>2
    <3> QED BY <1>2, <3>1 DEF Oversight, Overseen
  <2>5. CreditsConserved' BY <1>0, <1>2, WindowFacts, CreditsAre DEF DataOK
  <2> QED BY <2>2, <2>3, <2>4, <2>5 DEF Oversight
<1>3. CASE PageOfUnknownQuery
  <2>1. /\ toDesktop # <<>> /\ ~Expected(Head(toDesktop)) /\ toDesktop' = Tail(toDesktop)
        /\ UNCHANGED <<link, sendMessage, active, queue, outcome, toPhone, sent, acked, serving, orphaned>>
    BY <1>3 DEF PageOfUnknownQuery, client, promise, phone
  <2>2. ASSUME link, active # None PROVE Credit(active, toPhone, toDesktop)'
    <3>1. Credit(active, toPhone, toDesktop)
      BY <1>0, <2>2, WindowFacts, CreditsAre DEF Oversight, DataOK
    <3>3. Count(toDesktop, PagesOf(active)) = Count(Tail(toDesktop), PagesOf(active))
      BY <2>1, WindowFacts, PagesCount DEF Expected
    <3> QED BY <2>1, <3>1, <3>3 DEF Credit
  <2> QED BY <1>0, <1>2, <2>1, <2>2 DEF DataOK
<1>4. CASE HandleResultPage BY <1>0, <1>4, PageOversees
<1>5. ASSUME active # None, Settle(active, "rejected"), DrainQueue(CancelFor(active)),
             UNCHANGED <<link, sendMessage, toDesktop, phone>>
      PROVE  Oversight'
  <2>1. Cancel(active) # Ack(active) BY DEF Cancel, Ack
  <2> QED BY <1>0, <1>5, <2>1, DrainOversees DEF Settle, CancelFor, phone
<1>6. CASE Timeout BY <1>5, <1>6 DEF Timeout
<1>7. ASSUME NEW q \in Aborters, Abort(q) PROVE Oversight'
  BY <1>5, <1>7 DEF Abort
<1>8. CASE LinkBreaks
  <2>1. /\ ~link' /\ toPhone' = <<>> /\ serving' = {} /\ acked' = acked
        /\ UNCHANGED <<queue, outcome>>
    BY <1>8 DEF LinkBreaks, LoseChannel, client, promise
  <2>2. \A q \in Queries : Unstarted(q)' <=> Unstarted(q) BY <2>1 DEF Unstarted
  <2>3. Unspoken' /\ SentOnce' /\ Overseen'
    BY <2>1, <2>2 DEF Oversight, Unspoken, SentOnce, Overseen, Pending, InSeq
  <2> QED BY <2>1, <2>3 DEF Oversight, Wired, CreditsConserved
<1>9. CASE Disconnected
  <2>1. RejectAll /\ ~link' /\ UNCHANGED <<toPhone, sent, acked, serving, orphaned>>
        /\ toPhone = <<>> /\ serving = {}
    BY <1>9 DEF Disconnected, phone, Delivery, DeadLink
  <2> QED BY <2>1, RejectOversees DEF Wired
<1>10. CASE Connected BY <1>10, RejectOversees DEF Connected, LoseChannel, Wired
<1>11. CASE Rewire
  <2>1. /\ RejectAll /\ UNCHANGED <<link, sendMessage, toPhone, sent, acked, serving>>
        /\ orphaned \subseteq orphaned' /\ active \in orphaned' \cup {None}
    BY <1>11 DEF Rewire
  <2> QED BY <2>1, RejectOversees DEF Oversight, Wired
<1>12. CASE PhoneReceives BY <1>0, <1>12, ReceiptOversees
<1>13. ASSUME NEW q \in Queries, PhoneSendsPage(q) PROVE Oversight'
  <2> DEFINE p == [q |-> q, page |-> sent[q] + 1]
  <2>1. /\ q \in serving /\ sent' = [sent EXCEPT ![q] = @ + 1] /\ toDesktop' = Append(toDesktop, p)
        /\ UNCHANGED <<link, sendMessage, active, queue, outcome, toPhone, acked, serving, orphaned>>
    BY <1>13 DEF PhoneSendsPage, client, promise
  <2>2. p \in Page /\ p.q = q BY WindowFacts
  <2> HIDE DEF p
  <2>3. \A x \in Queries : sent'[x] = IF x = q THEN sent[x] + 1 ELSE sent[x] BY <2>1, WindowFacts
  <2>4. ASSUME link, active # None PROVE Credit(active, toPhone, toDesktop)'
    <3>1. Credit(active, toPhone, toDesktop) /\ active \in Queries
      BY <1>0, <2>4, WindowFacts, CreditsAre DEF Oversight, DataOK
    <3> DEFINE c == Count(toPhone, {Ack(active)})
               e == Count(toDesktop, PagesOf(active))
    <3>2. Count(toDesktop', PagesOf(active)) = IF active = q THEN e + 1 ELSE e
      <4>1. toDesktop \in Seq(Page) BY WindowFacts
      <4>2. Count(Append(toDesktop, p), PagesOf(active)) =
               IF p.q = active THEN Count(toDesktop, PagesOf(active)) + 1 ELSE Count(toDesktop, PagesOf(active))
        BY <2>2, <4>1, PagesCount
      <4> QED BY <2>1, <2>2, <4>2
    <3>3. sent[active] \in Nat /\ acked[active] \in Nat /\ e \in Nat /\ c \in Nat
      BY <3>1, WindowFacts, AckCount, PagesCount
    <3>4. sent[active] = acked[active] + c + e BY <3>1 DEF Credit
    <3>5. sent'[active] = IF active = q THEN sent[active] + 1 ELSE sent[active] BY <2>3, <3>1
    <3> HIDE DEF c, e
    <3>6. sent'[active] = acked[active] + c + Count(toDesktop', PagesOf(active))
      BY <3>2, <3>3, <3>4, <3>5
    <3> QED BY <2>1, <3>6 DEF Credit, c
  <2>5. \A x \in Queries : sent'[x] = sent[x] \/ (x \in serving /\ sent'[x] > sent[x])
    BY <2>1, <2>3, WindowFacts
  <2> QED BY <1>0, <1>2, <2>1, <2>4, <2>5 DEF DataOK
<1>14. CASE UNCHANGED vars
  <2>1. UNCHANGED <<link, sendMessage, active, queue, outcome, toPhone, toDesktop, sent, acked, serving, orphaned>>
    BY <1>14 DEF vars, client, promise, phone
  <2>2. ASSUME link, active # None PROVE Credit(active, toPhone, toDesktop)'
    BY <1>0, <2>1, <2>2, WindowFacts, CreditsAre DEF Oversight, DataOK, Credit
  <2> QED BY <1>0, <1>2, <2>1, <2>2 DEF DataOK
<1> QED BY <1>1, <1>3, <1>4, <1>6, <1>7, <1>8, <1>9, <1>10, <1>11, <1>12, <1>13, <1>14 DEF Next

\* sendCancel() reaches every query the phone still works for, but the ones a
\* resync drops without a word; and no page of the phone's window is lost while
\* a query is in progress: it is acknowledged, or it, or its ACK, is on its way.
THEOREM WindowStaysKept == Spec => []WindowIsKept
<1>1. Init => Oversight
  BY DEF Init, Oversight, Wired, Unspoken, SentOnce, Overseen, Pending, InSeq, CreditsConserved
<1>2. LineInv /\ Oversight => WindowIsKept
  <2> SUFFICES ASSUME LineInv, Oversight PROVE WindowIsKept
    OBVIOUS
  <2>1. serving \subseteq Queries BY DEF LineInv, DataOK
  <2>2. NoAbandonedWork BY <2>1 DEF Oversight, Overseen, InSeq, NoAbandonedWork
  <2> QED BY <2>2 DEF Oversight, WindowIsKept
<1> QED BY <1>1, <1>2, OversightStep, DeliveryInvariant, PTL DEF Spec
====================
