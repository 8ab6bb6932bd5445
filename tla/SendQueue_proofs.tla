---------- MODULE SendQueue_proofs ----------
(* What SendQueue promises, for any number of messages, contents and *)
(* connections: the optimistic entry and the daemon's queue together keep the *)
(* promise of Outbox, and nothing leaves the screen by itself but a message *)
(* that was sent. *)
(* *)
(* The rest is about another list of the window, ConversationList (Chats). *)
EXTENDS SendQueue, Integers, SequenceTheorems, FunctionTheorems, FiniteSetTheorems, TLAPS

CONSTANTS
    Threads, MaxNews, MaxClicks                                            \* ConversationList

VARIABLES
    batch, inbox, calls, replies, list, timer, sel, shown, focus, bottom, attention, flash,
    clock, news, clicks                                                    \* ConversationList

Chats == INSTANCE ConversationList

--------------------
(* The daemon's Map as a sequence without duplicates *)

Has(q, s) == \E i \in DOMAIN q : q[i] = s
Distinct(q) == \A i, j \in DOMAIN q : q[i] = q[j] => i = j

(* What is left when one element of a sequence is cut out. *)
Cut(q, k) == SubSeq(q, 1, k - 1) \o SubSeq(q, k + 1, Len(q))
LEMMA CutProperties ==
    ASSUME NEW S, NEW q \in Seq(S), NEW k \in 1..Len(q)
    PROVE  /\ Cut(q, k) \in Seq(S) /\ Len(Cut(q, k)) = Len(q) - 1
           /\ \A i \in 1..(k - 1) : Cut(q, k)[i] = q[i]
           /\ \A i \in k..(Len(q) - 1) : Cut(q, k)[i] = q[i + 1]
<1> DEFINE a == SubSeq(q, 1, k - 1)
           b == SubSeq(q, k + 1, Len(q))
<1>1. Len(q) \in Nat /\ k \in Int /\ k - 1 \in Int /\ k + 1 \in Int OBVIOUS
<1>2. a \in Seq(S) /\ Len(a) = k - 1 /\ \A i \in 1..(k - 1) : a[i] = q[i]
  <2>1. \A i \in 1..(k - 1) : q[i] \in S OBVIOUS
  <2>2. /\ a \in Seq(S)
        /\ Len(a) = IF 1 <= k - 1 THEN (k - 1) - 1 + 1 ELSE 0
        /\ \A i \in 1..((k - 1) - 1 + 1) : a[i] = q[1 + i - 1]
    BY <1>1, <2>1, SubSeqProperties
  <2> QED BY <2>2, <1>1
<1>3. b \in Seq(S) /\ Len(b) = Len(q) - k /\ \A i \in 1..(Len(q) - k) : b[i] = q[k + i]
  <2>1. \A i \in (k + 1)..Len(q) : q[i] \in S OBVIOUS
  <2>2. /\ b \in Seq(S)
        /\ Len(b) = IF k + 1 <= Len(q) THEN Len(q) - (k + 1) + 1 ELSE 0
        /\ \A i \in 1..(Len(q) - (k + 1) + 1) : b[i] = q[(k + 1) + i - 1]
    BY <1>1, <2>1, SubSeqProperties
  <2> QED BY <2>2, <1>1
<1>4. Cut(q, k) = a \o b BY DEF Cut
<1> HIDE DEF a, b
<1>5. /\ a \o b \in Seq(S)
      /\ Len(a \o b) = Len(a) + Len(b)
      /\ \A i \in 1..(Len(a) + Len(b)) : (a \o b)[i] = IF i <= Len(a) THEN a[i] ELSE b[i - Len(a)]
  BY <1>2, <1>3, ConcatProperties
<1>6. \A i \in 1..(k - 1) : (a \o b)[i] = q[i] BY <1>1, <1>2, <1>3, <1>5
<1>7. ASSUME NEW i \in k..(Len(q) - 1) PROVE (a \o b)[i] = q[i + 1]
  <2>1. i \in 1..(Len(a) + Len(b)) /\ ~(i <= Len(a)) BY <1>1, <1>2, <1>3
  <2>2. i - Len(a) \in 1..(Len(q) - k) /\ k + (i - Len(a)) = i + 1 BY <1>1, <1>2
  <2> QED BY <2>1, <2>2, <1>3, <1>5
<1> QED BY <1>1, <1>2, <1>3, <1>4, <1>5, <1>6, <1>7

LEMMA WithoutProperties ==
    ASSUME NEW q \in Seq(Sends), Distinct(q), NEW s \in Sends, Has(q, s)
    PROVE  /\ Without(q, s) \in Seq(Sends) /\ Distinct(Without(q, s))
           /\ \A t \in Sends : Has(Without(q, s), t) <=> Has(q, t) /\ t # s
<1> DEFINE k == CHOOSE i \in DOMAIN q : q[i] = s
           r == Cut(q, k)
<1>1. k \in DOMAIN q /\ q[k] = s BY DEF Has
<1>2. DOMAIN q = 1..Len(q) /\ Len(q) \in Nat OBVIOUS
<1>3. Without(q, s) = r BY DEF Without, Cut
<1> HIDE DEF k
<1>4. /\ r \in Seq(Sends) /\ Len(r) = Len(q) - 1
      /\ \A i \in 1..(k - 1) : r[i] = q[i]
      /\ \A i \in k..(Len(q) - 1) : r[i] = q[i + 1]
  BY <1>1, <1>2, CutProperties
<1> HIDE DEF r
<1>5. DOMAIN r = 1..(Len(q) - 1) BY <1>2, <1>4
<1> DEFINE at(n) == IF n < k THEN n ELSE n + 1
<1>6. \A i \in DOMAIN r : at(i) \in DOMAIN q \ {k} /\ r[i] = q[at(i)] BY <1>1, <1>2, <1>4, <1>5
<1>7. \A i, j \in DOMAIN r : at(i) = at(j) => i = j BY <1>1, <1>2, <1>5
<1>8. \A i \in DOMAIN q \ {k} : \E j \in DOMAIN r : at(j) = i
  <2> SUFFICES ASSUME NEW i \in DOMAIN q \ {k} PROVE \E j \in DOMAIN r : at(j) = i OBVIOUS
  <2>1. CASE i < k BY <2>1, <1>1, <1>2, <1>5
  <2>2. CASE i > k
    <3>1. i - 1 \in DOMAIN r /\ at(i - 1) = i BY <2>2, <1>1, <1>2, <1>5
    <3> QED BY <3>1
  <2> QED BY <2>1, <2>2, <1>1, <1>2
<1> HIDE DEF at
<1>9. Distinct(r) BY <1>6, <1>7 DEF Distinct
<1>10. ASSUME NEW t \in Sends PROVE Has(r, t) <=> Has(q, t) /\ t # s
  <2>1. ASSUME Has(r, t) PROVE Has(q, t) /\ t # s
    BY <1>1, <1>6, <2>1 DEF Has, Distinct
  <2>2. ASSUME Has(q, t), t # s PROVE Has(r, t)
    BY <1>1, <1>6, <1>8, <2>2 DEF Has
  <2> QED BY <2>1, <2>2
<1> QED BY <1>3, <1>4, <1>9, <1>10

LEMMA AppendHas ==
    ASSUME NEW q \in Seq(Sends), NEW s \in Sends
    PROVE  /\ Append(q, s) \in Seq(Sends)
           /\ \A t : Has(Append(q, s), t) <=> Has(q, t) \/ t = s
           /\ Distinct(q) /\ ~Has(q, s) => Distinct(Append(q, s))
<1>1. /\ Append(q, s) \in Seq(Sends)
      /\ DOMAIN q = 1..Len(q) /\ Len(q) \in Nat
      /\ DOMAIN Append(q, s) = 1..(Len(q) + 1)
      /\ \A i \in 1..Len(q) : Append(q, s)[i] = q[i]
      /\ Append(q, s)[Len(q) + 1] = s
  OBVIOUS
<1>2. \A t : Has(Append(q, s), t) <=> Has(q, t) \/ t = s BY <1>1 DEF Has
<1>3. Distinct(q) /\ ~Has(q, s) => Distinct(Append(q, s)) BY <1>1 DEF Has, Distinct
<1> QED BY <1>1, <1>2, <1>3

LEMMA TailHas ==
    ASSUME NEW q \in Seq(Sends), q # <<>>
    PROVE  /\ Head(q) \in Sends /\ Has(q, Head(q))
           /\ Tail(q) \in Seq(Sends)
           /\ \A t : Has(Tail(q), t) => Has(q, t)
<1>1. /\ Head(q) \in Sends /\ Head(q) = q[1] /\ 1 \in DOMAIN q
      /\ Tail(q) \in Seq(Sends) /\ Len(Tail(q)) = Len(q) - 1
      /\ \A i \in 1..Len(Tail(q)) : Tail(q)[i] = q[i + 1]
  OBVIOUS
<1>2. DOMAIN q = 1..Len(q) /\ Len(q) \in Nat /\ DOMAIN Tail(q) = 1..Len(Tail(q)) BY <1>1
<1>3. Has(q, Head(q)) BY <1>1 DEF Has
<1>4. ASSUME NEW t, Has(Tail(q), t) PROVE Has(q, t)
  <2>1. PICK i \in DOMAIN Tail(q) : Tail(q)[i] = t BY <1>4 DEF Has
  <2>2. i + 1 \in DOMAIN q /\ q[i + 1] = t BY <1>1, <1>2, <2>1
  <2> QED BY <2>2 DEF Has
<1> QED BY <1>1, <1>3, <1>4

--------------------
(* The inductive invariant *)

Stores == [temp : SUBSET Sends, known : SUBSET Sends, skipped : SUBSET Sends,
           mapped : SUBSET Sends, timers : SUBSET Sends,
           early : [Sends -> Statuses \cup {None}]]
Daemons == [queue : Seq(Sends), ticks : [Sends -> 0..MaxConnects]]
Links == [up : BOOLEAN, connects : 0..MaxConnects, down : Seq(Sends),
          answers : SUBSET (Sends \X {"sent", "failed"})]
Calls == {"idle", "asked", "replied", "refused", "over"}

Types ==
    /\ view \in [mode : {"compose", "thread"}, sent : BOOLEAN, found : BOOLEAN]
    /\ content \in [Sends -> Contents \cup {None}]
    /\ ghost \in [Sends -> Ghosts]
    /\ store \in Stores
    /\ call \in [Sends -> Calls]
    /\ cancels \subseteq Sends
    /\ daemon \in Daemons
    /\ \A s \in Sends : daemon.ticks[s] <= link.connects
    /\ Distinct(daemon.queue)
    /\ link \in Links
    /\ notes \subseteq Sends \X Statuses
    /\ phone \subseteq Sends
    /\ rows \in [stored : SUBSET Texts, shown : SUBSET Texts]
    /\ excused \subseteq Sends

Noted(s) == \E st \in Statuses : <<s, st>> \in notes
OnWire(s) == Has(link.down, s)
Answered(s) == \E st \in {"sent", "failed"} : <<s, st>> \in link.answers

\* The daemon does not have the message yet, or will never have it: nothing is said of it.
Unheard(s) ==
    /\ ~Queued(s) /\ ~Noted(s) /\ ~OnWire(s) /\ ~Answered(s)
    /\ s \notin phone /\ s \notin store.mapped /\ store.early[s] = None
    /\ ghost[s] \in {"none", "sending"}

\* A status is on exactly one stage of its way: the queue, the notification, the status
\* kept for the reply, the entry. It is "sent" only of what the phone has sent.
Course(s) ==
    /\ content[s] = None <=> call[s] = "idle"
    /\ call[s] = "idle" => ghost[s] = "none"
    /\ call[s] \in {"idle", "asked", "refused"} => Unheard(s)
    /\ Queued(s) => ~Noted(s) /\ store.early[s] = None
    /\ store.early[s] # None => ~Noted(s)
    /\ \A st, other \in Statuses : <<s, st>> \in notes /\ <<s, other>> \in notes => st = other
    /\ s \in store.mapped => call[s] = "over"
    /\ ghost[s] \in Statuses => call[s] = "over" /\ ~Queued(s) /\ ~Noted(s)
    /\ s \in store.timers => ghost[s] = "sent"
    /\ (\/ <<s, "sent">> \in notes
        \/ <<s, "sent">> \in link.answers
        \/ store.early[s] = "sent"
        \/ ghost[s] = "sent") => s \in phone

\* The rows of the conversation are messages the phone has sent.
SentTexts == {content[t] : t \in phone}
RowsAreSent == rows.stored \cup rows.shown \subseteq SentTexts

Inv == Types /\ (\A s \in Sends : Course(s)) /\ RowsAreSent /\ NothingSilentlyLost

\* What a step does to a message that is not its subject: nothing, or it takes
\* something away.
Fades(s) ==
    /\ content'[s] = content[s] /\ call'[s] = call[s]
    /\ ghost'[s] \in {ghost[s], "none"}
    /\ s \in store'.mapped => s \in store.mapped
    /\ s \in store'.timers => s \in store.timers /\ ghost'[s] = ghost[s]
    /\ store'.early[s] \in {store.early[s], None}
    /\ Queued(s)' => Queued(s)
    /\ \A st \in Statuses : <<s, st>> \in notes' => <<s, st>> \in notes
    /\ OnWire(s)' => OnWire(s) \/ Queued(s)
    /\ \A st \in {"sent", "failed"} : <<s, st>> \in link'.answers => <<s, st>> \in link.answers
    /\ s \in phone' <=> s \in phone

LEMMA CourseFades ==
    ASSUME Types, Types', NEW s \in Sends, Course(s), Fades(s)
    PROVE  Course(s)'
<1>1. Noted(s)' => Noted(s) BY DEF Fades, Noted
<1>2. Answered(s)' => Answered(s) BY DEF Fades, Answered
<1>3. Unheard(s) => Unheard(s)' \/ Queued(s) BY <1>1, <1>2 DEF Fades, Unheard
<1>4. None \notin Statuses BY SendAssumption DEF Statuses
<1>5. call[s] \in {"idle", "asked", "refused"} => Unheard(s)' BY <1>3 DEF Course, Unheard
<1> QED BY <1>1, <1>4, <1>5 DEF Fades, Course, Statuses

\* The fields of the three records, each with its type.
LEMMA Fields ==
    ASSUME Types
    PROVE  /\ store.temp \subseteq Sends /\ store.known \subseteq Sends /\ store.skipped \subseteq Sends
           /\ store.mapped \subseteq Sends /\ store.timers \subseteq Sends
           /\ store.early \in [Sends -> Statuses \cup {None}]
           /\ daemon.queue \in Seq(Sends) /\ daemon.ticks \in [Sends -> 0..MaxConnects]
           /\ link.up \in BOOLEAN /\ link.connects \in 0..MaxConnects
           /\ link.down \in Seq(Sends) /\ link.answers \subseteq Sends \X {"sent", "failed"}
BY DEF Types, Stores, Daemons, Links

\* A step that leaves the daemon, the wire and the phone alone.
LEMMA BackendStays ==
    ASSUME UNCHANGED backend, NEW s \in Sends
    PROVE  /\ Queued(s)' = Queued(s) /\ Noted(s)' = Noted(s)
           /\ OnWire(s)' = OnWire(s) /\ Answered(s)' = Answered(s)
BY DEF backend, Queued, Noted, OnWire, Answered, Has

\* A message is submitted: by a view, or by a retry of another one.
LEMMA SubmittedCourse ==
    ASSUME Types, Types', UNCHANGED backend,
           NEW s \in Sends, Course(s), call[s] = "idle",
           content'[s] \in Contents, call'[s] = "asked", ghost'[s] \in {"none", "sending"},
           s \in store'.mapped => s \in store.mapped,
           s \in store'.timers => s \in store.timers,
           store'.early[s] = store.early[s]
    PROVE  Course(s)'
<1>1. /\ Queued(s)' = Queued(s) /\ Noted(s)' = Noted(s)
      /\ OnWire(s)' = OnWire(s) /\ Answered(s)' = Answered(s)
  BY BackendStays
<1>2. Unheard(s) /\ ghost[s] = "none" BY DEF Course
<1>3. Unheard(s)' BY <1>1, <1>2 DEF Unheard, backend
<1>4. content'[s] # None BY SendAssumption
<1>5. s \notin store.timers BY <1>2 DEF Course
<1>6. /\ \A st \in Statuses : <<s, st>> \notin notes'
      /\ <<s, "sent">> \notin link'.answers
  BY <1>3 DEF Unheard, Noted, Answered
<1> QED BY <1>3, <1>4, <1>5, <1>6 DEF Course, Unheard, Statuses

--------------------
(* Each action: the types, and the course of every message *)

Courses == \A s \in Sends : Course(s)
Others(S) == \A u \in Sends \ S : Fades(u)

LEMMA CoursesFade ==
    ASSUME Types, Types', Courses, NEW S \in SUBSET Sends, Others(S),
           \A s \in S : Course(s)'
    PROVE  Courses'
BY CourseFades DEF Courses, Others

LEMMA SubmitStep ==
    ASSUME Types, Courses, NEW s \in Sends, NEW c \in Contents,
           NEW temp \in BOOLEAN, NEW matched \in BOOLEAN,
           Submit(s, c, temp, matched),
           view' \in [mode : {"compose", "thread"}, sent : BOOLEAN, found : BOOLEAN],
           UNCHANGED <<cancels, backend, rows, excused>>
    PROVE  Types' /\ Courses'
<1>1. /\ content' = [content EXCEPT ![s] = c]
      /\ call' = [call EXCEPT ![s] = "asked"] /\ call[s] = "idle"
      /\ \E st \in {"none", "sending"} : ghost' = [ghost EXCEPT ![s] = st]
  BY DEF Submit
<1>2. /\ store' \in Stores
      /\ store'.mapped = store.mapped /\ store'.timers = store.timers
      /\ store'.early = store.early
  BY Fields DEF Submit, Types, Stores
<1>3. Types' BY <1>1, <1>2 DEF Types, backend, Ghosts, Calls
<1>4. Others({s}) BY <1>1, <1>2, BackendStays DEF Others, Fades, Types, backend
<1>5. Course(s)' BY <1>1, <1>2, <1>3, SubmittedCourse DEF Types, Courses
<1> QED BY <1>3, <1>4, <1>5, CoursesFade

LEMMA RetryStep ==
    ASSUME Types, Courses, NEW s \in Sends, NEW t \in Sends, NEW matched \in BOOLEAN,
           RetrySend(s, t, matched)
    PROVE  Types' /\ Courses'
<1>1. s # t /\ ghost[s] # "none" BY DEF RetrySend, CanRetry, Courses, Course
<1>2. content[s] \in Contents
  <2>1. call[s] # "idle" BY <1>1 DEF Courses, Course
  <2> QED BY <2>1 DEF Courses, Course, Types
<1>3. /\ content' = [content EXCEPT ![t] = content[s]]
      /\ call' = [call EXCEPT ![t] = "asked"] /\ call[t] = "idle"
      /\ \E st \in {"none", "sending"} : ghost' = [ghost EXCEPT ![s] = "none", ![t] = st]
      /\ UNCHANGED <<view, cancels, backend, rows>> /\ excused' = excused \cup {s}
  BY DEF RetrySend
<1>4. /\ store' \in Stores
      /\ store'.mapped \subseteq store.mapped /\ store'.timers = store.timers
      /\ store'.early = store.early
  <2> DEFINE opened(skip) ==
          [store EXCEPT !.mapped = @ \ ({s} \cap store.known),
                        !.temp = IF s \in store.temp THEN @ \cup {t} ELSE @,
                        !.skipped = IF skip THEN @ \cup {t} ELSE @]
  <2>1. \E skip \in BOOLEAN : store' = Forget(opened(skip), {s}) BY DEF RetrySend
  <2>2. PICK skip \in BOOLEAN : store' = Forget(opened(skip), {s}) BY <2>1
  <2>3. /\ opened(skip) \in Stores
        /\ opened(skip).mapped \subseteq store.mapped
        /\ opened(skip).timers = store.timers /\ opened(skip).early = store.early
    BY DEF Types, Stores
  <2> HIDE DEF opened
  <2> QED BY <2>2, <2>3 DEF Forget, Stores
<1>5. Types' BY <1>2, <1>3, <1>4 DEF Types, backend, Ghosts, Calls
<1>6. ghost[s] # "sent" BY DEF RetrySend, CanRetry
<1>7. s \notin store.timers BY <1>6 DEF Courses, Course
<1>8. Others({t}) BY <1>1, <1>3, <1>4, <1>7, BackendStays DEF Others, Fades, Types, backend
<1>9. Course(t)'
  <2>1. ghost'[t] \in {"none", "sending"} BY <1>3 DEF Types
  <2> QED BY <1>2, <1>3, <1>4, <1>5, <2>1, SubmittedCourse DEF Types, Courses
<1> QED BY <1>5, <1>8, <1>9, CoursesFade

\* The steps that only take entries away, or change nothing of them.
LEMMA RemovedStep ==
    ASSUME Types, Courses, NEW S \in SUBSET Sends, Removed(S),
           view' \in [mode : {"compose", "thread"}, sent : BOOLEAN, found : BOOLEAN],
           rows' \in [stored : SUBSET Texts, shown : SUBSET Texts],
           excused' \subseteq Sends,
           UNCHANGED <<content, call, cancels, backend>>
    PROVE  Types' /\ Courses'
<1>1. /\ store' \in Stores
      /\ store'.mapped \subseteq store.mapped /\ store'.timers = store.timers \ S
      /\ store'.early = store.early
  BY Fields DEF Removed, Forget, Types, Stores
<1>2. ghost' = [s \in Sends |-> IF s \in S THEN "none" ELSE ghost[s]] BY DEF Removed
<1>3. Types' BY <1>1, <1>2 DEF Types, backend, Ghosts
<1>4. Others({}) BY <1>1, <1>2, BackendStays DEF Others, Fades, backend
<1> QED BY <1>3, <1>4, CoursesFade

LEMMA CancelStep ==
    ASSUME Types, Courses, NEW s \in Sends, CancelSend(s)
    PROVE  Types' /\ Courses'
<1>1. /\ store' \in Stores
      /\ store'.mapped \subseteq store.mapped /\ store'.timers = store.timers
      /\ store'.early = store.early
  BY Fields DEF CancelSend, Forget, Types, Stores
<1>2. /\ ghost' = [ghost EXCEPT ![s] = "none"] /\ cancels' \subseteq Sends
      /\ excused' = excused \cup {s} /\ UNCHANGED <<view, content, call, backend, rows>>
  BY Fields DEF CancelSend, Types
<1>3. Types' BY <1>1, <1>2 DEF Types, backend, Ghosts
<1>4. ghost[s] # "sent" BY DEF CancelSend, CanCancel
<1>5. s \notin store.timers BY <1>4 DEF Courses, Course
<1>6. Others({}) BY <1>1, <1>2, <1>5, BackendStays DEF Others, Fades, Types, backend
<1> QED BY <1>3, <1>6, CoursesFade

LEMMA RemovalTimerStep ==
    ASSUME Types, Courses, NEW s \in Sends, RemovalTimer(s)
    PROVE  Types' /\ Courses'
<1>1. /\ store' \in Stores
      /\ store'.mapped \subseteq store.mapped /\ store'.timers = store.timers \ {s}
      /\ store'.early = store.early
  BY Fields DEF RemovalTimer, Forget, Types, Stores
<1>2. ghost' = [ghost EXCEPT ![s] = "none"]
      /\ UNCHANGED <<view, content, call, cancels, backend, rows, excused>>
  BY DEF RemovalTimer
<1>3. Types' BY <1>1, <1>2 DEF Types, backend, Ghosts
<1>4. Others({}) BY <1>1, <1>2, BackendStays DEF Others, Fades, Types, backend
<1> QED BY <1>3, <1>4, CoursesFade

LEMMA ResetStep ==
    ASSUME Types, Courses, ResetSendQueue
    PROVE  Types' /\ Courses'
<1>1. /\ store' \in Stores
      /\ store'.mapped = {} /\ store'.timers = {}
      /\ store'.early = [s \in Sends |-> None]
  BY Fields DEF ResetSendQueue, Forget, Types, Stores
<1>2. /\ ghost' = [s \in Sends |-> "none"] /\ excused' = excused \cup Shown
      /\ rows' = [stored |-> {}, shown |-> {}]
      /\ UNCHANGED <<view, content, call, cancels, backend>>
  BY DEF ResetSendQueue
<1>3. Types' BY <1>1, <1>2 DEF Types, backend, Ghosts, Shown
<1>4. Others({}) BY <1>1, <1>2, BackendStays DEF Others, Fades, Types, backend
<1> QED BY <1>3, <1>4, CoursesFade

\* The reply: a status that was kept for it is applied now, and kept no longer.
LEMMA RepliedStep ==
    ASSUME Types, Courses, NEW s \in Sends, SendReplied(s)
    PROVE  Types' /\ Courses'
<1> DEFINE st == store.early[s]
           apply == s \notin store.skipped /\ st # None
<1>1. /\ call[s] = "replied" /\ call' = [call EXCEPT ![s] = "over"]
      /\ ghost' = IF apply /\ ghost[s] # "none" THEN [ghost EXCEPT ![s] = st] ELSE ghost
      /\ UNCHANGED <<view, content, cancels, backend, rows, excused>>
  BY DEF SendReplied, Applied
<1>2. /\ store' \in Stores
      /\ store'.early = [store.early EXCEPT ![s] = None]
      /\ store'.mapped \subseteq store.mapped \cup {s}
      /\ store'.timers = IF apply /\ st = "sent" /\ ghost[s] # "none"
                         THEN store.timers \cup {s} ELSE store.timers
  BY Fields, SendAssumption DEF SendReplied, Types, Stores
<1>3. st # None => st \in Statuses BY Fields
<1>4. Types' BY <1>1, <1>2, <1>3 DEF Types, backend, Ghosts, Calls
<1>5. Others({s}) BY <1>1, <1>2, BackendStays DEF Others, Fades, Types, backend
<1>6. Course(s)'
  <2>1. Course(s) BY DEF Courses
  <2>2. s \notin store.timers /\ ghost[s] \notin Statuses BY <1>1, <2>1 DEF Course, Statuses
  <2>3. /\ Queued(s)' = Queued(s) /\ Noted(s)' = Noted(s) /\ UNCHANGED backend BY <1>1, BackendStays
  <2>4. /\ call'[s] = "over" /\ store'.early[s] = None
        /\ ghost'[s] = IF apply /\ ghost[s] # "none" THEN st ELSE ghost[s]
        /\ content'[s] = content[s]
    BY <1>1, <1>2, Fields DEF Types
  <2>5. None \notin Statuses BY SendAssumption DEF Statuses
  <2>6. st # None => ~Queued(s) /\ ~Noted(s) BY <2>1 DEF Course
  <2>7. st = "sent" => s \in phone BY <2>1 DEF Course
  <2> HIDE DEF st
  <2>8. /\ ghost'[s] \in Statuses => ~Queued(s)' /\ ~Noted(s)'
        /\ ghost'[s] = "sent" => s \in phone
        /\ s \in store'.timers => ghost'[s] = "sent"
    BY <1>2, <2>2, <2>3, <2>4, <2>6, <2>7 DEF Statuses
  <2> QED BY <1>1, <2>1, <2>3, <2>4, <2>5, <2>8 DEF Course, backend, Statuses
<1> QED BY <1>4, <1>5, <1>6, CoursesFade

\* The call fails: the entry asks the user what to do.
LEMMA RefusedStep ==
    ASSUME Types, Courses, NEW s \in Sends, SendRefused(s)
    PROVE  Types' /\ Courses'
<1>1. /\ call[s] = "refused" /\ call' = [call EXCEPT ![s] = "over"]
      /\ ghost' = IF ghost[s] # "none" THEN [ghost EXCEPT ![s] = "timeout"] ELSE ghost
      /\ UNCHANGED <<view, content, cancels, backend, rows, excused>>
  BY DEF SendRefused, Applied
<1>2. /\ store' \in Stores
      /\ store'.early = store.early /\ store'.mapped = store.mapped
      /\ store'.timers = store.timers
  BY Fields DEF SendRefused, Types, Stores
<1>3. Types' BY <1>1, <1>2 DEF Types, backend, Ghosts, Statuses, Calls
<1>4. Others({s}) BY <1>1, <1>2, BackendStays DEF Others, Fades, Types, backend
<1>5. Course(s)'
  <2>1. Course(s) /\ Unheard(s) BY <1>1 DEF Courses, Course
  <2>2. s \notin store.timers BY <2>1 DEF Course, Unheard
  <2>3. /\ Queued(s)' = Queued(s) /\ Noted(s)' = Noted(s) BY <1>1, BackendStays
  <2>4. /\ call'[s] = "over" /\ ghost'[s] \in {"none", "timeout"} /\ content'[s] = content[s]
    BY <1>1 DEF Types
  <2> QED BY <1>1, <1>2, <2>1, <2>2, <2>3, <2>4 DEF Course, Unheard, backend
<1> QED BY <1>3, <1>4, <1>5, CoursesFade

\* A notification: applied to the entry it is mapped to, or kept for the reply.
LEMMA StatusStep ==
    ASSUME Types, Courses, NEW s \in Sends, NEW st \in Statuses, HandleSendStatus(s, st)
    PROVE  Types' /\ Courses'
<1> DEFINE known == s \in store.mapped
<1>1. /\ <<s, st>> \in notes /\ notes' = notes \ {<<s, st>>}
      /\ ghost' = IF known /\ ghost[s] # "none" THEN [ghost EXCEPT ![s] = st] ELSE ghost
      /\ UNCHANGED <<view, content, call, cancels, daemon, link, phone, rows, excused>>
  BY DEF HandleSendStatus, SendStatus, Applied
<1>2. /\ store' \in Stores
      /\ store'.early = IF known THEN store.early ELSE [store.early EXCEPT ![s] = st]
      /\ store'.mapped = store.mapped
      /\ store'.timers = IF known /\ st = "sent" /\ ghost[s] # "none"
                         THEN store.timers \cup {s} ELSE store.timers
  BY Fields DEF HandleSendStatus, SendStatus, Types, Stores
<1>3. Types' BY <1>1, <1>2 DEF Types, Ghosts, Statuses
<1>4. \A u \in Sends : Queued(u)' = Queued(u) /\ OnWire(u)' = OnWire(u) /\ Answered(u)' = Answered(u)
  BY <1>1 DEF Queued, OnWire, Answered, Has
<1>5. Others({s}) BY <1>1, <1>2, <1>4 DEF Others, Fades, Types
<1>6. Course(s)'
  <2>1. Course(s) /\ Noted(s) BY <1>1 DEF Courses, Noted
  <2>2. /\ call[s] \in {"replied", "over"} /\ ~Queued(s) /\ store.early[s] = None
        /\ s \notin store.timers
        /\ st = "sent" => s \in phone
    BY <1>1, <2>1 DEF Course, Unheard, Types, Calls, Statuses
  <2>3. ~Noted(s)' BY <1>1, <2>1 DEF Course, Noted
  <2>4. /\ ghost'[s] = IF known /\ ghost[s] # "none" THEN st ELSE ghost[s]
        /\ store'.early[s] = IF known THEN store.early[s] ELSE st
        /\ <<s, "sent">> \notin notes'
    BY <1>1, <1>2, <2>3, Fields DEF Types, Noted, Statuses
  <2>5. \A other \in Statuses : <<s, other>> \notin notes' BY <2>3 DEF Noted
  <2>6. ghost[s] \notin Statuses BY <2>1 DEF Course
  <2>7. /\ s \in store'.timers => ghost'[s] = "sent"
        /\ ghost'[s] \in Statuses => call[s] = "over"
    BY <1>2, <2>1, <2>2, <2>4, <2>6 DEF Course, Statuses
  <2>8. /\ ghost'[s] = "sent" => s \in phone
        /\ store'.early[s] = "sent" => s \in phone
    BY <2>1, <2>2, <2>4 DEF Course
  <2> QED BY <1>1, <1>2, <1>4, <2>1, <2>2, <2>3, <2>4, <2>5, <2>7, <2>8 DEF Course
<1> QED BY <1>3, <1>5, <1>6, CoursesFade

\* A step that leaves the renderer alone.
LEMMA RendererStays ==
    ASSUME UNCHANGED renderer, UNCHANGED <<cancels, rows>>, Types,
           daemon' \in Daemons, \A s \in Sends : daemon'.ticks[s] <= link'.connects,
           Distinct(daemon'.queue), link' \in Links,
           notes' \subseteq Sends \X Statuses, phone' \subseteq Sends
    PROVE  Types'
BY DEF renderer, Types

\* A message goes on the wire, if there is one.
LEMMA DispatchedIs ==
    ASSUME NEW l \in Links, NEW s \in Sends
    PROVE  /\ Dispatched(l, s) \in Links
           /\ Dispatched(l, s).connects = l.connects /\ Dispatched(l, s).answers = l.answers
           /\ Dispatched(l, s).up = l.up
           /\ \A t : Has(Dispatched(l, s).down, t) => Has(l.down, t) \/ t = s
<1>1. l.down \in Seq(Sends) BY DEF Links
<1>2. /\ Append(l.down, s) \in Seq(Sends)
      /\ \A t : Has(Append(l.down, s), t) <=> Has(l.down, t) \/ t = s
  BY <1>1, AppendHas
<1> QED BY <1>2 DEF Dispatched, Links

LEMMA QueuedHas ==
    ASSUME NEW s
    PROVE  (Queued(s) <=> Has(daemon.queue, s)) /\ (Queued(s)' <=> Has(daemon'.queue, s))
BY DEF Queued, Has

LEMMA QueueStep ==
    ASSUME Types, Courses, NEW s \in Sends, QueueMessage(s)
    PROVE  Types' /\ Courses'
<1>1. /\ call[s] = "asked" /\ call' = [call EXCEPT ![s] = "replied"]
      /\ daemon' = [daemon EXCEPT !.queue = Append(@, s)] /\ link' = Dispatched(link, s)
      /\ UNCHANGED <<view, content, ghost, store, cancels, notes, phone, rows, excused>>
  BY DEF QueueMessage
<1>2. Course(s) /\ Unheard(s) BY <1>1 DEF Courses, Course
<1>3. /\ daemon'.queue = Append(daemon.queue, s) /\ daemon'.ticks = daemon.ticks
      /\ daemon' \in Daemons
  BY <1>1, Fields, AppendHas DEF Types, Daemons
<1>4. /\ Distinct(daemon'.queue)
      /\ \A t \in Sends : Queued(t)' <=> Queued(t) \/ t = s
  BY <1>2, <1>3, AppendHas, Fields, QueuedHas DEF Types, Unheard
<1>5. /\ link' \in Links /\ link'.connects = link.connects /\ link'.answers = link.answers
      /\ \A t \in Sends : OnWire(t)' => OnWire(t) \/ t = s
  BY <1>1, DispatchedIs DEF Types, OnWire
<1>6. Types' BY <1>1, <1>3, <1>4, <1>5 DEF Types, Calls
<1>7. Others({s}) BY <1>1, <1>4, <1>5 DEF Others, Fades, Types
<1>8. Course(s)'
  <2>1. call'[s] = "replied" BY <1>1 DEF Types
  <2>2. ~Noted(s)' BY <1>1, <1>2 DEF Unheard, Noted
  <2> QED BY <1>1, <1>2, <1>5, <2>1, <2>2 DEF Course, Unheard, Noted, Answered, Statuses
<1> QED BY <1>6, <1>7, <1>8, CoursesFade

LEMMA RefuseStep ==
    ASSUME Types, Courses, NEW s \in Sends, RefuseMessage(s)
    PROVE  Types' /\ Courses'
<1>1. /\ call[s] = "asked" /\ call' = [call EXCEPT ![s] = "refused"]
      /\ UNCHANGED <<view, content, ghost, store, cancels, backend, rows, excused>>
  BY DEF RefuseMessage
<1>2. Types' BY <1>1 DEF Types, backend, Calls
<1>3. Others({s}) BY <1>1, BackendStays DEF Others, Fades, Types, backend
<1>4. Course(s)'
  <2>1. Course(s) /\ Unheard(s) BY <1>1 DEF Courses, Course
  <2>2. Unheard(s)' BY <1>1, <2>1, BackendStays DEF Unheard, backend
  <2>3. call'[s] = "refused" BY <1>1 DEF Types
  <2> QED BY <1>1, <2>1, <2>2, <2>3 DEF Course, Unheard, Statuses, backend
<1> QED BY <1>2, <1>3, <1>4, CoursesFade

\* An entry leaves the queue.
LEMMA LeavesQueue ==
    ASSUME Types, NEW s \in Sends, Queued(s),
           daemon' = [daemon EXCEPT !.queue = Without(@, s)]
    PROVE  /\ daemon' \in Daemons /\ daemon'.ticks = daemon.ticks /\ Distinct(daemon'.queue)
           /\ \A t \in Sends : Queued(t)' <=> Queued(t) /\ t # s
<1>1. daemon.queue \in Seq(Sends) /\ Distinct(daemon.queue) /\ Has(daemon.queue, s)
  BY Fields, QueuedHas DEF Types
<1>2. daemon'.queue = Without(daemon.queue, s) /\ daemon'.ticks = daemon.ticks BY DEF Types, Daemons
<1>3. daemon' \in Daemons BY <1>1, <1>2, WithoutProperties DEF Types, Daemons
<1> QED BY <1>1, <1>2, <1>3, WithoutProperties, QueuedHas

LEMMA DaemonCancelStep ==
    ASSUME Types, Courses, NEW s \in Sends, DaemonCancel(s)
    PROVE  Types' /\ Courses'
<1>1. /\ cancels' = cancels \ {s} /\ UNCHANGED <<renderer, link, notes, phone, rows>>
      /\ \/ Queued(s) /\ daemon' = [daemon EXCEPT !.queue = Without(@, s)]
         \/ daemon' = daemon
  BY DEF DaemonCancel
<1>2. /\ daemon' \in Daemons /\ daemon'.ticks = daemon.ticks /\ Distinct(daemon'.queue)
      /\ \A t \in Sends : Queued(t)' => Queued(t)
  BY <1>1, LeavesQueue, QueuedHas DEF Types
<1>3. Types' BY <1>1, <1>2 DEF Types, renderer
<1>4. Others({}) BY <1>1, <1>2 DEF Others, Fades, OnWire, renderer
<1> QED BY <1>3, <1>4, CoursesFade

\* An outcome: the entry leaves the queue and a notification goes out.
LEMMA AnswerStep ==
    ASSUME Types, Courses, NEW s \in Sends, NEW st \in Statuses,
           Queued(s), Answer(s, st), st = "sent" => s \in phone,
           link' \in Links, link'.connects = link.connects, link'.down = link.down,
           link'.answers \subseteq link.answers,
           UNCHANGED <<renderer, cancels, phone, rows>>
    PROVE  Types' /\ Courses'
<1>1. /\ daemon' \in Daemons /\ daemon'.ticks = daemon.ticks /\ Distinct(daemon'.queue)
      /\ \A t \in Sends : Queued(t)' <=> Queued(t) /\ t # s
      /\ notes' = notes \cup {<<s, st>>}
  BY LeavesQueue DEF Answer
<1>2. Types' BY <1>1 DEF Types, renderer
<1>3. Others({s}) BY <1>1 DEF Others, Fades, OnWire, renderer
<1>4. Course(s)'
  <2>1. Course(s) /\ ~Noted(s) /\ store.early[s] = None /\ ~Unheard(s)
    BY DEF Courses, Course, Unheard
  <2>2. \A other \in Statuses : <<s, other>> \in notes' => other = st BY <1>1, <2>1 DEF Noted
  <2>3. ~Queued(s)' BY <1>1
  <2>4. ghost[s] \notin Statuses BY <2>1 DEF Course
  <2>5. <<s, "sent">> \in notes' => s \in phone BY <2>2 DEF Statuses
  <2> QED BY <2>1, <2>2, <2>3, <2>4, <2>5 DEF Course, renderer, Statuses
<1> QED BY <1>2, <1>3, <1>4, CoursesFade

LEMMA TimeoutStep ==
    ASSUME Types, Courses, NEW s \in Sends, SendTimeout(s)
    PROVE  Types' /\ Courses'
BY AnswerStep DEF SendTimeout, Types, Statuses

LEMMA ResponseStep ==
    ASSUME Types, Courses, NEW s \in Sends, NEW st \in {"sent", "failed"},
           HandleSendStatusResponse(s, st)
    PROVE  Types' /\ Courses'
<1>1. /\ <<s, st>> \in link.answers
      /\ link' \in Links /\ link'.connects = link.connects /\ link'.down = link.down
      /\ link'.answers \subseteq link.answers
      /\ UNCHANGED <<renderer, cancels, phone, rows>>
  BY DEF HandleSendStatusResponse, Types, Links
<1>2. st = "sent" => s \in phone BY <1>1 DEF Courses, Course
<1>3. CASE Queued(s) BY <1>1, <1>2, <1>3, AnswerStep DEF HandleSendStatusResponse, Statuses
<1>4. CASE ~Queued(s)
  <2>1. UNCHANGED <<daemon, notes>> BY <1>4 DEF HandleSendStatusResponse
  <2>2. Types' BY <1>1, <2>1 DEF Types, renderer
  <2>3. Others({}) BY <1>1, <2>1 DEF Others, Fades, OnWire, Queued, renderer
  <2> QED BY <2>2, <2>3, CoursesFade
<1> QED BY <1>3, <1>4

LEMMA FlushStep ==
    ASSUME Types, Courses, FlushSendQueue
    PROVE  Types' /\ Courses'
<1> DEFINE l == [link EXCEPT !.up = TRUE, !.connects = @ + 1]
<1>1. /\ UNCHANGED <<renderer, cancels, notes, phone, rows>>
      /\ l \in Links /\ l.connects = link.connects + 1
      /\ l.down = link.down /\ l.answers = link.answers
  <2>1. link.connects \in 0..MaxConnects /\ link.connects < MaxConnects BY Fields DEF FlushSendQueue
  <2>2. link.connects + 1 \in 0..MaxConnects BY <2>1, SendAssumption
  <2> QED BY <2>2 DEF FlushSendQueue, Types, Links
<1> HIDE DEF l
<1>2. /\ daemon' \in Daemons /\ daemon'.queue = daemon.queue
      /\ \A s \in Sends : daemon'.ticks[s] <= link.connects + 1
      /\ link' \in Links /\ link'.connects = link.connects + 1 /\ link'.answers = link.answers
      /\ \A t \in Sends : OnWire(t)' => OnWire(t) \/ Queued(t)
  <2>1. CASE daemon.queue = <<>>
    <3>1. link' = l /\ daemon' = daemon BY <2>1 DEF FlushSendQueue, l
    <3> QED BY <3>1, <1>1, Fields DEF Types, OnWire
  <2>2. CASE daemon.queue # <<>>
    <3>1. /\ link' = Dispatched(l, Head(daemon.queue))
          /\ daemon' = [daemon EXCEPT !.ticks =
                 [s \in Sends |-> IF Has(Tail(daemon.queue), s) THEN @[s] + 1 ELSE @[s]]]
      BY <2>2 DEF FlushSendQueue, l, Has
    <3>2. Head(daemon.queue) \in Sends /\ Has(daemon.queue, Head(daemon.queue))
      BY <2>2, Fields, TailHas
    <3>3. /\ link' \in Links /\ link'.connects = l.connects /\ link'.answers = l.answers
          /\ \A t \in Sends : OnWire(t)' => OnWire(t) \/ Queued(t)
      BY <1>1, <3>1, <3>2, DispatchedIs, QueuedHas DEF OnWire
    <3>4. daemon.queue \in Seq(Sends) /\ daemon.ticks \in [Sends -> 0..MaxConnects]
          /\ link.connects \in Nat /\ l.connects \in 0..MaxConnects
      BY <1>1, Fields, SendAssumption DEF Links
    <3>5. /\ daemon'.queue = daemon.queue
          /\ daemon'.ticks = [s \in Sends |-> IF Has(Tail(daemon.queue), s)
                                              THEN daemon.ticks[s] + 1 ELSE daemon.ticks[s]]
      BY <3>1 DEF Types, Daemons
    <3>6. \A s \in Sends : /\ daemon'.ticks[s] \in 0..MaxConnects
                           /\ daemon'.ticks[s] <= link.connects + 1
      BY <1>1, <3>4, <3>5, SendAssumption DEF Types
    <3>7. daemon'.ticks \in [Sends -> 0..MaxConnects] BY <3>5, <3>6
    <3>8. daemon' \in Daemons BY <3>1, <3>4, <3>5, <3>7 DEF Types, Daemons
    <3> QED BY <1>1, <3>3, <3>5, <3>6, <3>8
  <2> QED BY <2>1, <2>2
<1>3. Types' BY <1>1, <1>2, RendererStays DEF Types
<1>4. Others({}) BY <1>1, <1>2 DEF Others, Fades, Queued, renderer
<1> QED BY <1>3, <1>4, CoursesFade

LEMMA FlushTimerStep ==
    ASSUME Types, Courses, NEW s \in Sends, FlushTimer(s)
    PROVE  Types' /\ Courses'
<1>1. /\ UNCHANGED <<renderer, cancels, notes, phone, rows>>
      /\ daemon' = [daemon EXCEPT !.ticks[s] = @ - 1] /\ daemon.ticks[s] > 0
      /\ \/ Queued(s) /\ link' = Dispatched(link, s)
         \/ link' = link
  BY DEF FlushTimer, TrySendQueued
<1>2. /\ link' \in Links /\ link'.connects = link.connects /\ link'.answers = link.answers
      /\ \A t \in Sends : OnWire(t)' => OnWire(t) \/ Queued(t)
  BY <1>1, DispatchedIs DEF Types, OnWire
<1>3. /\ daemon'.queue = daemon.queue
      /\ daemon'.ticks = [daemon.ticks EXCEPT ![s] = @ - 1]
  BY <1>1 DEF Types, Daemons
<1>4. /\ daemon'.ticks \in [Sends -> 0..MaxConnects]
      /\ \A t \in Sends : daemon'.ticks[t] <= link.connects
  <2>1. \A t \in Sends : daemon.ticks[t] \in 0..MaxConnects BY Fields
  <2>2. daemon.ticks[s] - 1 \in 0..MaxConnects /\ daemon.ticks[s] - 1 <= daemon.ticks[s]
    BY <1>1, <2>1, SendAssumption
  <2>3. daemon'.ticks \in [Sends -> 0..MaxConnects] BY <1>3, <2>2, Fields
  <2>4. link.connects \in Nat BY Fields, SendAssumption
  <2>5. ASSUME NEW t \in Sends PROVE daemon'.ticks[t] <= link.connects
    <3>1. daemon.ticks[t] <= link.connects BY DEF Types
    <3>2. daemon'.ticks[t] <= daemon.ticks[t] BY <1>3, <2>1, <2>2, Fields, SendAssumption
    <3>3. daemon.ticks[t] \in Nat /\ daemon'.ticks[t] \in Nat BY <2>1, <2>3, SendAssumption
    <3> QED BY <2>4, <3>1, <3>2, <3>3
  <2> QED BY <2>3, <2>5
<1>5. daemon' \in Daemons BY <1>1, <1>3, <1>4, Fields DEF Types, Daemons
<1>6. Types' BY <1>1, <1>2, <1>3, <1>4, <1>5, RendererStays DEF Types
<1>7. Others({}) BY <1>1, <1>2, <1>3 DEF Others, Fades, Queued, renderer
<1> QED BY <1>6, <1>7, CoursesFade

LEMMA DisconnectStep ==
    ASSUME Types, Courses, Disconnect
    PROVE  Types' /\ Courses'
<1>1. /\ UNCHANGED <<renderer, cancels, daemon, notes, phone, rows>>
      /\ link' \in Links /\ link'.connects = link.connects
      /\ link'.down = <<>> /\ link'.answers = {}
  <2>1. <<>> \in Seq(Sends) OBVIOUS
  <2> QED BY <2>1 DEF Disconnect, Types, Links
<1>2. Types' BY <1>1, RendererStays DEF Types
<1>3. Others({}) BY <1>1 DEF Others, Fades, Queued, OnWire, Has, renderer
<1> QED BY <1>2, <1>3, CoursesFade

LEMMA PhoneStep ==
    ASSUME Types, Courses, NEW ok \in BOOLEAN, NEW answers \in BOOLEAN, PhoneSends(ok, answers)
    PROVE  /\ Types' /\ Courses'
           /\ Head(link.down) \in Sends /\ call[Head(link.down)] \in {"replied", "over"}
           /\ phone' \in {phone, phone \cup {Head(link.down)}}
<1> PICK s : s = Head(link.down) OBVIOUS
<1>1. /\ s \in Sends /\ OnWire(s) /\ Tail(link.down) \in Seq(Sends)
      /\ \A t : Has(Tail(link.down), t) => Has(link.down, t)
  BY Fields, TailHas DEF PhoneSends, OnWire
<1>2. Course(s) /\ call[s] \in {"replied", "over"}
  BY <1>1 DEF Courses, Course, Unheard, Types, Calls
<1> DEFINE said == IF ok THEN "sent" ELSE "failed"
           grown == IF answers THEN link.answers \cup {<<s, said>>} ELSE link.answers
<1>3. /\ phone' = IF ok THEN phone \cup {s} ELSE phone
      /\ link' = [link EXCEPT !.down = Tail(link.down), !.answers = grown]
      /\ UNCHANGED <<renderer, cancels, daemon, notes, rows>>
  BY DEF PhoneSends
<1>4. said \in {"sent", "failed"} OBVIOUS
<1>5. grown \subseteq Sends \X {"sent", "failed"} BY <1>1, <1>4, Fields
<1>6. /\ \A t \in Sends \ {s} : \A st : <<t, st>> \in grown => <<t, st>> \in link.answers
      /\ <<s, "sent">> \in grown => ok \/ <<s, "sent">> \in link.answers
  BY <1>4
<1> HIDE DEF grown
<1>7. /\ link'.down = Tail(link.down) /\ link'.connects = link.connects /\ link' \in Links
      /\ link'.answers = grown
  BY <1>1, <1>3, <1>5 DEF Types, Links
<1>8. phone' \subseteq Sends BY <1>1, <1>3 DEF Types
<1>9. Types' BY <1>3, <1>7, <1>8, RendererStays DEF Types
<1>10. \A t \in Sends : (OnWire(t)' => OnWire(t)) /\ (Queued(t)' = Queued(t)) /\ (Noted(t)' = Noted(t))
  BY <1>1, <1>3, <1>7 DEF OnWire, Queued, Noted, Has
<1>11. Others({s}) BY <1>3, <1>6, <1>7, <1>10 DEF Others, Fades, renderer
<1>12. Course(s)'
  <2>1. <<s, "sent">> \in link'.answers => s \in phone' BY <1>2, <1>3, <1>6, <1>7 DEF Course
  <2>2. call'[s] \in {"replied", "over"} BY <1>2, <1>3 DEF renderer
  <2> QED BY <1>1, <1>2, <1>3, <1>10, <2>1, <2>2 DEF Course, renderer
<1>13. Courses' BY <1>1, <1>9, <1>11, <1>12, CoursesFade
<1> QED BY <1>1, <1>2, <1>3, <1>9, <1>13

LEMMA StoredStep ==
    ASSUME Types, Courses, NEW s \in Sends, MessageStored(s)
    PROVE  Types' /\ Courses'
<1>1. UNCHANGED <<content, ghost, store, call, cancels, backend, excused>> BY DEF MessageStored
<1>2. /\ rows' \in [stored : SUBSET Texts, shown : SUBSET Texts]
      /\ view' \in [mode : {"compose", "thread"}, sent : BOOLEAN, found : BOOLEAN]
  BY DEF MessageStored, Types
<1>3. Types' BY <1>1, <1>2 DEF Types, backend
<1>4. Others({}) BY <1>1, BackendStays DEF Others, Fades, backend
<1> QED BY <1>3, <1>4, CoursesFade

--------------------
(* What is shown has been sent, and what is gone was sent or taken away *)

\* The rows stay messages that were sent; an entry that goes was sent, or is excused.
LEMMA GoneForAReason ==
    ASSUME Types, Types', NothingSilentlyLost,
           SentTexts \subseteq SentTexts',
           rows'.stored \cup rows'.shown \subseteq SentTexts',
           excused \subseteq excused',
           \A s \in Sends :
               \/ content'[s] = content[s] /\ (ghost'[s] = "none" => ghost[s] = "none")
               \/ content'[s] \in SentTexts'
               \/ s \in excused'
               \/ ghost'[s] # "none"
    PROVE  RowsAreSent' /\ NothingSilentlyLost'
<1>1. RowsAreSent' BY DEF RowsAreSent
<1>2. ASSUME NEW s \in Sends, content'[s] # None, ghost'[s] = "none", s \notin excused'
      PROVE  content'[s] \in SentTexts'
  <2>1. CASE content'[s] = content[s] /\ ghost[s] = "none"
    <3>1. PICK t \in Sends : content[t] = content[s] /\ t \in phone
      BY <1>2, <2>1 DEF NothingSilentlyLost
    <3>2. content[s] \in SentTexts BY <3>1 DEF SentTexts
    <3> QED BY <2>1, <3>2
  <2> QED BY <1>2, <2>1
<1>3. NothingSilentlyLost'
  <2>1. \A s \in Sends : content'[s] \in SentTexts' =>
            \E t \in Sends : content'[t] = content'[s] /\ t \in phone'
    BY DEF SentTexts, Types
  <2> QED BY <1>2, <2>1 DEF NothingSilentlyLost
<1> QED BY <1>1, <1>3

\* A step with no row and no content, after which no entry is gone that was not before.
LEMMA NothingGoes ==
    ASSUME Types, Types', RowsAreSent, NothingSilentlyLost,
           UNCHANGED <<content, rows, excused>>, phone \subseteq phone',
           \A s \in Sends : ghost'[s] = "none" => ghost[s] = "none"
    PROVE  RowsAreSent' /\ NothingSilentlyLost'
<1>1. SentTexts \subseteq SentTexts' BY DEF SentTexts
<1> QED BY <1>1, GoneForAReason DEF RowsAreSent

\* A message that is submitted while the same text is on screen was sent.
LEMMA SubmitReason ==
    ASSUME Inv, Types', NEW s \in Sends, NEW c \in Contents,
           call[s] = "idle", content' = [content EXCEPT ![s] = c],
           UNCHANGED <<phone, rows>>, excused \subseteq excused',
           ghost'[s] = "none" => c \in rows.shown,
           \A u \in Sends \ {s} : (ghost'[u] = "none" => ghost[u] = "none") \/ u \in excused'
    PROVE  RowsAreSent' /\ NothingSilentlyLost'
<1>1. s \notin phone BY DEF Inv, Course, Unheard
<1>2. SentTexts' = SentTexts BY <1>1 DEF SentTexts, Inv, Types
<1>3. /\ content'[s] = c
      /\ \A u \in Sends \ {s} : content'[u] = content[u]
  BY DEF Inv, Types
<1>4. c \in rows.shown => c \in SentTexts' BY <1>2 DEF Inv, RowsAreSent
<1>5. rows'.stored \cup rows'.shown \subseteq SentTexts' BY <1>2 DEF Inv, RowsAreSent
<1>6. \A u \in Sends :
          \/ content'[u] = content[u] /\ (ghost'[u] = "none" => ghost[u] = "none")
          \/ content'[u] \in SentTexts'
          \/ u \in excused'
          \/ ghost'[u] # "none"
  BY <1>3, <1>4
<1> QED BY <1>2, <1>5, <1>6, GoneForAReason DEF Inv

--------------------
(* The invariant *)

LEMMA InitInv ==
    ASSUME Init
    PROVE  Inv
<1>1. None \notin Contents /\ None \notin Statuses BY SendAssumption DEF Statuses
<1>2. /\ <<>> \in Seq(Sends) /\ Distinct(<<>>)
      /\ \A s : ~Has(<<>>, s)
  BY DEF Distinct, Has
<1>3. 0 \in 0..MaxConnects BY SendAssumption
<1>4. Types
  <2>1. store \in Stores BY DEF Init, Stores
  <2>2. daemon \in Daemons BY <1>2, <1>3 DEF Init, Daemons
  <2>3. link \in Links BY <1>2, <1>3 DEF Init, Links
  <2>4. /\ \A s \in Sends : daemon.ticks[s] = 0
        /\ link.connects = 0 /\ Distinct(daemon.queue)
    BY <1>2 DEF Init
  <2>5. /\ view \in [mode : {"compose", "thread"}, sent : BOOLEAN, found : BOOLEAN]
        /\ rows \in [stored : SUBSET Texts, shown : SUBSET Texts]
    <3>1. rows = [stored |-> {}, shown |-> {}] BY DEF Init
    <3>2. rows \in [stored : SUBSET Texts, shown : SUBSET Texts] BY <3>1
    <3>3. CASE view = [mode |-> "compose", sent |-> FALSE, found |-> FALSE] BY <3>2, <3>3
    <3>4. CASE view = [mode |-> "thread", sent |-> FALSE, found |-> TRUE] BY <3>2, <3>4
    <3> QED BY <3>3, <3>4 DEF Init
  <2> QED BY <2>1, <2>2, <2>3, <2>4, <2>5 DEF Init, Types, Calls, Ghosts
<1>5. \A s \in Sends : Unheard(s) BY <1>2, QueuedHas DEF Init, Unheard, Noted, OnWire, Answered
<1>6. \A s \in Sends : Course(s) BY <1>1, <1>5 DEF Init, Course, Unheard, Statuses
<1>7. RowsAreSent BY DEF Init, RowsAreSent
<1>8. NothingSilentlyLost BY DEF Init, NothingSilentlyLost
<1> QED BY <1>4, <1>6, <1>7, <1>8 DEF Inv

\* The actions of Next by the part of the system they belong to.
UserStep ==
    \/ \E s \in Sends :
           \/ \E c \in Contents, matched \in BOOLEAN : ThreadSend(s, c, matched)
           \/ \E c \in Contents : ComposeSend(s, c)
           \/ CancelSend(s)
           \/ \E t \in Sends, matched \in BOOLEAN : RetrySend(s, t, matched)
    \/ \E cleared \in SUBSET Sends : LoadThread(cleared)
    \/ EnterThread
    \/ ResetSendQueue
StoreStep == \E s \in Sends : Reply(s) \/ Deliver(s) \/ RemovalTimer(s)
DaemonStep ==
    \/ \E s \in Sends :
           \/ QueueMessage(s) \/ RefuseMessage(s) \/ DaemonCancel(s) \/ SendTimeout(s)
           \/ \E st \in {"sent", "failed"} : HandleSendStatusResponse(s, st)
           \/ FlushTimer(s)
    \/ FlushSendQueue
    \/ Disconnect
PhoneStepOf == \E ok, answers \in BOOLEAN : PhoneSends(ok, answers)
RowStep == \E s \in Sends : MessageStored(s)

LEMMA NextCases ==
    ASSUME Next
    PROVE  UserStep \/ StoreStep \/ DaemonStep \/ PhoneStepOf \/ RowStep
BY DEF Next, UserStep, StoreStep, DaemonStep, PhoneStepOf, RowStep

LEMMA UserInv ==
    ASSUME Inv, UserStep
    PROVE  Inv'
<1>1. Types /\ Courses /\ RowsAreSent /\ NothingSilentlyLost BY DEF Inv, Courses
<1>2. ASSUME NEW s \in Sends, NEW c \in Contents, NEW temp \in BOOLEAN, NEW matched \in BOOLEAN,
             Submit(s, c, temp, matched),
             view' \in [mode : {"compose", "thread"}, sent : BOOLEAN, found : BOOLEAN],
             UNCHANGED <<cancels, backend, rows, excused>>
      PROVE  Inv'
  <2>1. Types' /\ Courses' BY <1>1, <1>2, SubmitStep
  <2>2. /\ call[s] = "idle" /\ content' = [content EXCEPT ![s] = c]
        /\ ghost'[s] = "none" => c \in rows.shown
        /\ \A u \in Sends \ {s} : ghost'[u] = ghost[u]
    BY <1>1, <1>2 DEF Submit, Types
  <2>3. RowsAreSent' /\ NothingSilentlyLost' BY <1>2, <2>1, <2>2, SubmitReason DEF backend
  <2> QED BY <2>1, <2>3 DEF Inv, Courses
<1>3. ASSUME NEW s \in Sends, NEW c \in Contents, NEW matched \in BOOLEAN, ThreadSend(s, c, matched)
      PROVE  Inv'
  BY <1>1, <1>2, <1>3 DEF ThreadSend, Types
<1>4. ASSUME NEW s \in Sends, NEW c \in Contents, ComposeSend(s, c)
      PROVE  Inv'
  <2>1. view' \in [mode : {"compose", "thread"}, sent : BOOLEAN, found : BOOLEAN]
    BY <1>1, <1>4 DEF ComposeSend, Types
  <2> QED BY <1>2, <1>4, <2>1 DEF ComposeSend
<1>5. ASSUME NEW s \in Sends, CancelSend(s) PROVE Inv'
  <2>1. Types' /\ Courses' BY <1>1, <1>5, CancelStep
  <2>2. /\ UNCHANGED <<content, phone, rows>> /\ excused' = excused \cup {s}
        /\ \A u \in Sends \ {s} : ghost'[u] = ghost[u]
    BY <1>1, <1>5 DEF CancelSend, backend, Types
  <2>3. SentTexts' = SentTexts BY <2>2 DEF SentTexts
  <2>4. RowsAreSent' /\ NothingSilentlyLost'
    BY <1>1, <2>1, <2>2, <2>3, GoneForAReason DEF RowsAreSent
  <2> QED BY <2>1, <2>4 DEF Inv, Courses
<1>6. ASSUME NEW s \in Sends, NEW t \in Sends, NEW matched \in BOOLEAN, RetrySend(s, t, matched)
      PROVE  Inv'
  <2>1. Types' /\ Courses' BY <1>1, <1>6, RetryStep
  <2>2. s # t /\ call[s] # "idle" BY <1>1, <1>6 DEF RetrySend, CanRetry, Courses, Course
  <2>3. content[s] \in Contents BY <1>1, <2>2 DEF Types, Courses, Course
  <2>4. /\ call[t] = "idle" /\ content' = [content EXCEPT ![t] = content[s]]
        /\ UNCHANGED <<phone, rows>> /\ excused' = excused \cup {s}
        /\ ghost'[t] = "none" => content[s] \in rows.shown
        /\ \A u \in Sends \ {s, t} : ghost'[u] = ghost[u]
    BY <1>1, <1>6, <2>2 DEF RetrySend, backend, Types
  <2>5. RowsAreSent' /\ NothingSilentlyLost' BY <2>1, <2>3, <2>4, SubmitReason
  <2> QED BY <2>1, <2>5 DEF Inv, Courses
<1>7. ASSUME NEW cleared \in SUBSET Sends, LoadThread(cleared) PROVE Inv'
  <2> DEFINE S == cleared \cup {s \in Shown : ghost[s] = "sent"}
  <2>1. /\ S \in SUBSET Sends /\ Removed(S)
        /\ UNCHANGED <<view, content, call, cancels, backend, excused>>
        /\ rows' = [rows EXCEPT !.shown = rows.stored]
    BY <1>7 DEF LoadThread, Shown
  <2>2. /\ rows' \in [stored : SUBSET Texts, shown : SUBSET Texts]
        /\ rows'.stored = rows.stored /\ rows'.shown = rows.stored
    BY <1>1, <2>1 DEF Types
  <2>3. \A s \in S : content[s] \in SentTexts
    <3>1. \A s \in cleared : content[s] \in rows.stored BY <1>7 DEF LoadThread, Matching
    <3>2. \A s \in Sends : ghost[s] = "sent" => s \in phone BY <1>1 DEF Courses, Course
    <3> QED BY <1>1, <3>1, <3>2 DEF RowsAreSent, SentTexts, Shown
  <2> HIDE DEF S
  <2>4. Types' /\ Courses' BY <1>1, <2>1, <2>2, RemovedStep DEF Types
  <2>5. SentTexts' = SentTexts BY <2>1 DEF SentTexts, backend
  <2>6. \A s \in Sends \ S : ghost'[s] = ghost[s] BY <2>1 DEF Removed
  <2>7. RowsAreSent' /\ NothingSilentlyLost'
    BY <1>1, <2>1, <2>2, <2>3, <2>4, <2>5, <2>6, GoneForAReason DEF RowsAreSent
  <2> QED BY <2>4, <2>7 DEF Inv, Courses
<1>8. ASSUME EnterThread PROVE Inv'
  <2> DEFINE S == Shown \cap store.temp
  <2>1. /\ S \in SUBSET Sends /\ Removed(S)
        /\ UNCHANGED <<content, call, cancels, backend, rows>> /\ excused' = excused \cup S
        /\ view' = [mode |-> "thread", sent |-> FALSE, found |-> TRUE]
    BY <1>8 DEF EnterThread, Shown
  <2> HIDE DEF S
  <2>2. Types' /\ Courses' BY <1>1, <2>1, RemovedStep DEF Types
  <2>3. SentTexts' = SentTexts BY <2>1 DEF SentTexts, backend
  <2>4. \A s \in Sends \ S : ghost'[s] = ghost[s] BY <2>1 DEF Removed
  <2>5. RowsAreSent' /\ NothingSilentlyLost'
    BY <1>1, <2>1, <2>2, <2>3, <2>4, GoneForAReason DEF RowsAreSent
  <2> QED BY <2>2, <2>5 DEF Inv, Courses
<1>9. ASSUME ResetSendQueue PROVE Inv'
  <2>1. Types' /\ Courses' BY <1>1, <1>9, ResetStep
  <2>2. /\ UNCHANGED <<content, phone>> /\ excused' = excused \cup Shown
        /\ rows'.stored = {} /\ rows'.shown = {}
    BY <1>9 DEF ResetSendQueue, backend
  <2>3. SentTexts' = SentTexts BY <2>2 DEF SentTexts
  <2>4. \A s \in Sends : s \in excused' \/ ghost[s] = "none" BY <2>2 DEF Shown
  <2>5. RowsAreSent' /\ NothingSilentlyLost' BY <1>1, <2>1, <2>2, <2>3, <2>4, GoneForAReason
  <2> QED BY <2>1, <2>5 DEF Inv, Courses
<1> QED BY <1>3, <1>4, <1>5, <1>6, <1>7, <1>8, <1>9 DEF UserStep

LEMMA StoreInv ==
    ASSUME Inv, StoreStep
    PROVE  Inv'
<1>1. Types /\ Courses /\ RowsAreSent /\ NothingSilentlyLost BY DEF Inv, Courses
<1>2. "none" \notin Statuses BY DEF Statuses
<1>3. ASSUME NEW s \in Sends, Reply(s) PROVE Inv'
  <2>1. Types' /\ Courses' BY <1>1, <1>3, RepliedStep, RefusedStep DEF Reply
  <2>2. UNCHANGED <<content, rows, excused, phone>>
    BY <1>3 DEF Reply, SendReplied, SendRefused, backend
  <2>3. store.early[s] # None => store.early[s] \in Statuses BY <1>1, Fields
  <2>4. \A u \in Sends : ghost'[u] = "none" => ghost[u] = "none"
    BY <1>1, <1>2, <1>3, <2>3 DEF Reply, SendReplied, SendRefused, Applied, Types, Statuses
  <2>5. RowsAreSent' /\ NothingSilentlyLost' BY <1>1, <2>1, <2>2, <2>4, NothingGoes
  <2> QED BY <2>1, <2>5 DEF Inv, Courses
<1>4. ASSUME NEW s \in Sends, NEW st \in Statuses, HandleSendStatus(s, st) PROVE Inv'
  <2>1. Types' /\ Courses' BY <1>1, <1>4, StatusStep
  <2>2. UNCHANGED <<content, rows, excused, phone>> BY <1>4 DEF HandleSendStatus
  <2>3. \A u \in Sends : ghost'[u] = "none" => ghost[u] = "none"
    BY <1>1, <1>2, <1>4 DEF HandleSendStatus, SendStatus, Applied, Types
  <2>4. RowsAreSent' /\ NothingSilentlyLost' BY <1>1, <2>1, <2>2, <2>3, NothingGoes
  <2> QED BY <2>1, <2>4 DEF Inv, Courses
<1>5. ASSUME NEW s \in Sends, RemovalTimer(s) PROVE Inv'
  <2>1. Types' /\ Courses' BY <1>1, <1>5, RemovalTimerStep
  <2>2. /\ UNCHANGED <<content, rows, excused, phone>>
        /\ \A u \in Sends \ {s} : ghost'[u] = ghost[u]
    BY <1>1, <1>5 DEF RemovalTimer, backend, Types
  <2>3. SentTexts' = SentTexts BY <2>2 DEF SentTexts
  <2>4. s \in phone BY <1>1, <1>5 DEF RemovalTimer, Courses, Course
  <2>5. content[s] \in SentTexts BY <2>4 DEF SentTexts
  <2>6. RowsAreSent' /\ NothingSilentlyLost'
    BY <1>1, <2>1, <2>2, <2>3, <2>5, GoneForAReason DEF RowsAreSent
  <2> QED BY <2>1, <2>6 DEF Inv, Courses
<1> QED BY <1>3, <1>4, <1>5 DEF StoreStep, Deliver

LEMMA DaemonInv ==
    ASSUME Inv, DaemonStep
    PROVE  Inv'
<1>1. Types /\ Courses /\ RowsAreSent /\ NothingSilentlyLost BY DEF Inv, Courses
<1>2. Types' /\ Courses'
  BY <1>1, QueueStep, RefuseStep, DaemonCancelStep, TimeoutStep, ResponseStep,
     FlushTimerStep, FlushStep, DisconnectStep DEF DaemonStep
<1>3. UNCHANGED <<content, ghost, rows, excused, phone>>
  BY DEF DaemonStep, QueueMessage, RefuseMessage, DaemonCancel, SendTimeout, FlushTimer,
         HandleSendStatusResponse, FlushSendQueue, Disconnect, renderer, backend
<1>4. RowsAreSent' /\ NothingSilentlyLost' BY <1>1, <1>2, <1>3, NothingGoes
<1> QED BY <1>2, <1>4 DEF Inv, Courses

LEMMA PhoneInv ==
    ASSUME Inv, PhoneStepOf
    PROVE  Inv'
<1>1. Types /\ Courses /\ RowsAreSent /\ NothingSilentlyLost BY DEF Inv, Courses
<1>2. Types' /\ Courses' /\ phone \subseteq phone' BY <1>1, PhoneStep DEF PhoneStepOf
<1>3. UNCHANGED <<content, ghost, rows, excused>> BY DEF PhoneStepOf, PhoneSends, renderer
<1>4. RowsAreSent' /\ NothingSilentlyLost' BY <1>1, <1>2, <1>3, NothingGoes
<1> QED BY <1>2, <1>4 DEF Inv, Courses

LEMMA RowInv ==
    ASSUME Inv, RowStep
    PROVE  Inv'
<1>1. Types /\ Courses /\ RowsAreSent /\ NothingSilentlyLost BY DEF Inv, Courses
<1>2. PICK s \in Sends : MessageStored(s) BY DEF RowStep
<1>3. Types' /\ Courses' BY <1>1, <1>2, StoredStep
<1>4. /\ UNCHANGED <<content, ghost, excused, phone>> /\ s \in phone
      /\ rows'.shown = rows.shown /\ rows'.stored \subseteq rows.stored \cup {content[s]}
  BY <1>1, <1>2 DEF MessageStored, backend, Types
<1>5. SentTexts' = SentTexts /\ content[s] \in SentTexts BY <1>4 DEF SentTexts
<1>6. RowsAreSent' /\ NothingSilentlyLost' BY <1>1, <1>3, <1>4, <1>5, GoneForAReason DEF RowsAreSent
<1> QED BY <1>3, <1>6 DEF Inv, Courses

LEMMA InvPreserved ==
    ASSUME Inv, [Next]_vars
    PROVE  Inv'
<1>1. CASE Next BY <1>1, NextCases, UserInv, StoreInv, DaemonInv, PhoneInv, RowInv
<1>2. CASE UNCHANGED vars
  <2>1. Types' /\ Others({}) /\ UNCHANGED <<content, ghost, rows, excused, phone>>
    BY <1>2 DEF vars, Inv, Types, Others, Fades, Queued, OnWire, Has
  <2>2. Courses' BY <2>1, CoursesFade DEF Inv, Courses
  <2>3. RowsAreSent' /\ NothingSilentlyLost' BY <2>1, NothingGoes DEF Inv
  <2> QED BY <2>1, <2>2, <2>3 DEF Inv, Courses
<1> QED BY <1>1, <1>2

LEMMA Invariance == Spec => []Inv
<1>1. Init /\ [][Next]_vars => []Inv BY InitInv, InvPreserved, PTL
<1> QED BY <1>1 DEF Spec, Safety

LEMMA InvTypes ==
    ASSUME Inv
    PROVE  TypeOK
<1>1. Types /\ Courses BY DEF Inv, Courses
<1>2. \A s \in store.timers : ghost[s] = "sent" BY <1>1, Fields DEF Courses, Course
<1>3. \A s \in Sends : ghost[s] # "none" => content[s] # None BY <1>1 DEF Courses, Course
<1> QED BY <1>1, <1>2, <1>3, Fields DEF TypeOK, Types, Calls

(* The store, the daemon's queue and the wire have the shapes their code *)
(* relies on: a removal timer belongs to an entry that says "sent", and an *)
(* entry on screen to a message that was submitted. *)
THEOREM TypeCorrect == Spec => []TypeOK
BY Invariance, InvTypes, PTL

(* clearMatchingPending(), clearSentMessages(), the removal timer and the *)
(* check for a row that is already there take no message off the screen that *)
(* was not sent, and that nobody cancelled, retried or reset. *)
THEOREM NothingIsLost == Spec => []NothingSilentlyLost
<1>1. Inv => NothingSilentlyLost BY DEF Inv
<1> QED BY <1>1, Invariance, PTL

--------------------
(* The promise, step by step *)

\* What the user sees of each message: the mapping of the refinement.
Stages == [s \in Sends |-> Stage(s)]

LEMMA PromiseDefs ==
    /\ Promise!Init <=> Stages = [s \in Sends |-> "unused"] /\ phone = {}
    /\ [Promise!Next]_Promise!vars <=>
           Promise!Next \/ (Stages' = Stages /\ phone' = phone)
BY DEF Promise!Init, Promise!vars, Stages

\* A step of which the user sees nothing.
LEMMA Unseen ==
    ASSUME UNCHANGED <<content, ghost, phone>>
    PROVE  [Promise!Next]_Promise!vars
<1>1. Stages' = Stages BY DEF Stages, Stage
<1> QED BY <1>1, PromiseDefs

\* A step that closes entries, and opens none.
LEMMA Closing ==
    ASSUME Types, NEW S \in SUBSET Sends, UNCHANGED <<content, phone>>,
           \A s \in S : ghost'[s] = "none", \A s \in Sends \ S : ghost'[s] = ghost[s]
    PROVE  [Promise!Next]_Promise!vars
<1> DEFINE C == {s \in S : Stage(s) \notin {"unused", "closed"}}
<1>1. C \in SUBSET Sends OBVIOUS
<1>2. \A s \in Sends : Stage(s)' = IF s \in C THEN "closed" ELSE Stage(s)
  <2>1. ASSUME NEW s \in Sends PROVE Stage(s)' = IF s \in C THEN "closed" ELSE Stage(s)
    <3>1. Stage(s)' = IF content[s] = None THEN "unused"
                      ELSE IF ghost'[s] = "none" THEN "closed" ELSE ghost'[s]
      BY DEF Stage
    <3>2. CASE s \in S
      <4>1. ghost[s] \in Ghosts BY DEF Types
      <4> QED BY <3>1, <3>2, <4>1 DEF Stage, Ghosts, Statuses
    <3>3. CASE s \notin S BY <3>1, <3>3 DEF Stage
    <3> QED BY <3>2, <3>3
  <2> QED BY <2>1
<1>3. CASE C = {}
  <2>1. Stages' = Stages BY <1>2, <1>3 DEF Stages
  <2> QED BY <2>1, PromiseDefs
<1>4. CASE C # {}
  <2>1. Promise!Close(C, {}) BY <1>1, <1>2 DEF Promise!Close, Stages
  <2>2. Promise!Next BY <1>1, <1>4, <2>1 DEF Promise!Next
  <2> QED BY <2>2, PromiseDefs
<1> QED BY <1>3, <1>4

\* A message is submitted: shown as "Sending...", or not at all.
LEMMA Submitting ==
    ASSUME Types, NEW s \in Sends, NEW c \in Contents, content[s] = None,
           content' = [content EXCEPT ![s] = c], UNCHANGED phone,
           NEW st \in {"none", "sending"}, ghost' = [ghost EXCEPT ![s] = st]
    PROVE  [Promise!Next]_Promise!vars
<1> DEFINE seen == IF st = "none" THEN "closed" ELSE "sending"
<1>1. c # None BY SendAssumption
<1>2. content'[s] = c /\ ghost'[s] = st
      /\ \A u \in Sends \ {s} : content'[u] = content[u] /\ ghost'[u] = ghost[u]
  BY DEF Types
<1>3. \A u \in Sends \ {s} : Stage(u)' = Stage(u) BY <1>2 DEF Stage
<1>4. Stage(s)' = seen /\ Stage(s) = "unused" BY <1>1, <1>2 DEF Stage
<1>5. seen \in {"sending", "closed"} OBVIOUS
<1> HIDE DEF seen
<1>6. Stages' = [Stages EXCEPT ![s] = seen] BY <1>3, <1>4 DEF Stages
<1>7. Promise!Submit(s) BY <1>4, <1>5, <1>6 DEF Promise!Submit, Stages
<1> QED BY <1>7, PromiseDefs DEF Promise!Next

\* A retry: one entry closes, and the next message is submitted.
LEMMA Retrying ==
    ASSUME Types, NEW s \in Sends, NEW t \in Sends, s # t, NEW c \in Contents,
           content[s] # None, ghost[s] # "none", content[t] = None,
           content' = [content EXCEPT ![t] = c], UNCHANGED phone,
           NEW st \in {"none", "sending"}, ghost' = [ghost EXCEPT ![s] = "none", ![t] = st]
    PROVE  [Promise!Next]_Promise!vars
<1> DEFINE seen == IF st = "none" THEN "closed" ELSE "sending"
<1>1. c # None BY SendAssumption
<1>2. /\ content'[t] = c /\ ghost'[t] = st /\ content'[s] = content[s] /\ ghost'[s] = "none"
      /\ \A u \in Sends \ {s, t} : content'[u] = content[u] /\ ghost'[u] = ghost[u]
  BY DEF Types
<1>3. \A u \in Sends \ {s, t} : Stage(u)' = Stage(u) BY <1>2 DEF Stage
<1>4. Stage(t)' = seen /\ Stage(t) = "unused" BY <1>1, <1>2 DEF Stage
<1>5. Stage(s)' = "closed" /\ Stage(s) \notin {"unused", "closed"}
  <2>1. ghost[s] \in Ghosts BY DEF Types
  <2> QED BY <1>2, <2>1 DEF Stage, Ghosts, Statuses
<1>6. seen \in {"sending", "closed"} OBVIOUS
<1> HIDE DEF seen
<1>7. Stages' = [u \in Sends |-> IF u \in {s} THEN "closed"
                                 ELSE IF u \in {t} THEN seen ELSE Stages[u]]
  BY <1>3, <1>4, <1>5 DEF Stages
<1>8. Promise!Close({s}, {t}) BY <1>4, <1>5, <1>6, <1>7 DEF Promise!Close, Stages
<1> QED BY <1>8, PromiseDefs DEF Promise!Next

\* A status reaches the entry that waits for it.
LEMMA Reporting ==
    ASSUME Types, NEW s \in Sends, NEW outcome \in Statuses,
           content[s] # None, ghost[s] = "sending", outcome = "sent" => s \in phone,
           UNCHANGED <<content, phone>>, ghost' = [ghost EXCEPT ![s] = outcome]
    PROVE  [Promise!Next]_Promise!vars
<1>1. ghost'[s] = outcome /\ \A u \in Sends \ {s} : ghost'[u] = ghost[u] BY DEF Types
<1>2. \A u \in Sends \ {s} : Stage(u)' = Stage(u) BY <1>1 DEF Stage
<1>3. Stage(s) = "sending" /\ Stage(s)' = outcome BY <1>1 DEF Stage, Statuses
<1>4. Stages' = [Stages EXCEPT ![s] = outcome] BY <1>2, <1>3 DEF Stages
<1>5. Promise!Report(s, outcome) BY <1>3, <1>4 DEF Promise!Report, Stages
<1> QED BY <1>5, PromiseDefs DEF Promise!Next, Promise!Outcomes, Statuses

LEMMA Delivering ==
    ASSUME NEW s \in Sends, content[s] # None, UNCHANGED <<content, ghost>>,
           phone' = phone \cup {s}, Types
    PROVE  [Promise!Next]_Promise!vars
<1>1. Stages' = Stages BY DEF Stages, Stage
<1>2. Stage(s) # "unused"
  <2>1. ghost[s] \in Ghosts BY DEF Types
  <2> QED BY <2>1 DEF Stage, Ghosts, Statuses
<1>3. Promise!Deliver(s) BY <1>1, <1>2 DEF Promise!Deliver, Stages
<1> QED BY <1>3, PromiseDefs DEF Promise!Next

LEMMA InitPromise ==
    ASSUME Init
    PROVE  Promise!Init
BY PromiseDefs DEF Init, Stages, Stage

LEMMA UserPromise ==
    ASSUME Inv, UserStep
    PROVE  [Promise!Next]_Promise!vars
<1>1. Types /\ Courses BY DEF Inv, Courses
<1>2. ASSUME NEW s \in Sends, NEW c \in Contents, NEW temp \in BOOLEAN, NEW matched \in BOOLEAN,
             Submit(s, c, temp, matched), UNCHANGED phone
      PROVE  [Promise!Next]_Promise!vars
  <2>1. content[s] = None BY <1>1, <1>2 DEF Submit, Courses, Course
  <2>2. /\ content' = [content EXCEPT ![s] = c]
        /\ \E st \in {"none", "sending"} : ghost' = [ghost EXCEPT ![s] = st]
    BY <1>2 DEF Submit
  <2> QED BY <1>1, <1>2, <2>1, <2>2, Submitting
<1>3. ASSUME NEW s \in Sends, NEW c \in Contents, NEW matched \in BOOLEAN, ThreadSend(s, c, matched)
      PROVE  [Promise!Next]_Promise!vars
  BY <1>2, <1>3 DEF ThreadSend, backend
<1>4. ASSUME NEW s \in Sends, NEW c \in Contents, ComposeSend(s, c)
      PROVE  [Promise!Next]_Promise!vars
  BY <1>2, <1>4 DEF ComposeSend, backend
<1>5. ASSUME NEW s \in Sends, CancelSend(s) PROVE [Promise!Next]_Promise!vars
  <2>1. /\ UNCHANGED <<content, phone>> /\ ghost'[s] = "none"
        /\ \A u \in Sends \ {s} : ghost'[u] = ghost[u]
    BY <1>1, <1>5 DEF CancelSend, backend, Types
  <2>2. {s} \in SUBSET Sends /\ \A u \in {s} : ghost'[u] = "none" BY <2>1
  <2> QED BY <1>1, <2>1, <2>2, Closing
<1>6. ASSUME NEW s \in Sends, NEW t \in Sends, NEW matched \in BOOLEAN, RetrySend(s, t, matched)
      PROVE  [Promise!Next]_Promise!vars
  <2>1. ghost[s] # "none" BY <1>6 DEF RetrySend, CanRetry
  <2>2. s # t /\ call[s] # "idle" BY <1>1, <1>6, <2>1 DEF RetrySend, Courses, Course
  <2>3. content[s] # None /\ content[s] \in Contents BY <1>1, <2>2 DEF Types, Courses, Course
  <2>4. /\ content[t] = None /\ content' = [content EXCEPT ![t] = content[s]] /\ UNCHANGED phone
        /\ \E st \in {"none", "sending"} : ghost' = [ghost EXCEPT ![s] = "none", ![t] = st]
    BY <1>1, <1>6 DEF RetrySend, backend, Courses, Course
  <2> QED BY <1>1, <2>1, <2>2, <2>3, <2>4, Retrying
<1>7. ASSUME NEW S \in SUBSET Sends, Removed(S), UNCHANGED <<content, backend>>
      PROVE  [Promise!Next]_Promise!vars
  <2>1. /\ UNCHANGED <<content, phone>> /\ \A s \in S : ghost'[s] = "none"
        /\ \A s \in Sends \ S : ghost'[s] = ghost[s]
    BY <1>7 DEF Removed, backend
  <2> QED BY <1>1, <2>1, Closing
<1>8. ASSUME NEW cleared \in SUBSET Sends, LoadThread(cleared) PROVE [Promise!Next]_Promise!vars
  <2>1. cleared \cup {s \in Shown : ghost[s] = "sent"} \in SUBSET Sends BY DEF Shown
  <2> QED BY <1>7, <1>8, <2>1 DEF LoadThread
<1>9. ASSUME EnterThread PROVE [Promise!Next]_Promise!vars
  <2>1. Shown \cap store.temp \in SUBSET Sends BY DEF Shown
  <2> QED BY <1>7, <1>9, <2>1 DEF EnterThread
<1>10. ASSUME ResetSendQueue PROVE [Promise!Next]_Promise!vars
  <2>1. /\ UNCHANGED <<content, phone>> /\ \A s \in Sends : ghost'[s] = "none"
    BY <1>10 DEF ResetSendQueue, backend
  <2> QED BY <1>1, <2>1, Closing
<1> QED BY <1>3, <1>4, <1>5, <1>6, <1>8, <1>9, <1>10 DEF UserStep

LEMMA StorePromise ==
    ASSUME Inv, StoreStep
    PROVE  [Promise!Next]_Promise!vars
<1>1. Types /\ Courses BY DEF Inv, Courses
\* A status is due to this entry only if it has none yet.
<1>2. ASSUME NEW s \in Sends, NEW st \in Statuses,
             content[s] # None, ghost[s] \notin Statuses, st = "sent" => s \in phone,
             UNCHANGED <<content, phone>>, ghost' = Applied(ghost, s, st)
      PROVE  [Promise!Next]_Promise!vars
  <2>1. CASE ghost[s] = "none" BY <1>2, <2>1, Unseen DEF Applied
  <2>2. CASE ghost[s] = "sending" BY <1>1, <1>2, <2>2, Reporting DEF Applied
  <2> QED BY <1>1, <1>2, <2>1, <2>2 DEF Types, Ghosts
<1>3. ASSUME NEW s \in Sends, SendReplied(s) PROVE [Promise!Next]_Promise!vars
  <2>1. UNCHANGED <<content, phone>> /\ call[s] = "replied" BY <1>3 DEF SendReplied, backend
  <2>2. /\ content[s] # None /\ ghost[s] \notin Statuses
        /\ store.early[s] = "sent" => s \in phone
    BY <1>1, <2>1 DEF Courses, Course
  <2>3. \/ ghost' = ghost
        \/ store.early[s] # None /\ ghost' = Applied(ghost, s, store.early[s])
    BY <1>3 DEF SendReplied
  <2>4. store.early[s] # None => store.early[s] \in Statuses BY <1>1, Fields
  <2> QED BY <1>2, <2>1, <2>2, <2>3, <2>4, Unseen
<1>4. ASSUME NEW s \in Sends, SendRefused(s) PROVE [Promise!Next]_Promise!vars
  <2>1. UNCHANGED <<content, phone>> /\ call[s] = "refused" /\ ghost' = Applied(ghost, s, "timeout")
    BY <1>4 DEF SendRefused, backend
  <2>2. content[s] # None /\ ghost[s] \notin Statuses BY <1>1, <2>1 DEF Courses, Course
  <2> QED BY <1>2, <2>1, <2>2 DEF Statuses
<1>5. ASSUME NEW s \in Sends, NEW st \in Statuses, HandleSendStatus(s, st)
      PROVE  [Promise!Next]_Promise!vars
  <2>1. /\ UNCHANGED <<content, phone>> /\ <<s, st>> \in notes
        /\ ghost' = ghost \/ ghost' = Applied(ghost, s, st)
    BY <1>5 DEF HandleSendStatus, SendStatus
  <2>2. Course(s) /\ Noted(s) BY <1>1, <2>1 DEF Courses, Noted
  <2>3. /\ content[s] # None /\ ghost[s] \notin Statuses /\ (st = "sent" => s \in phone)
    BY <2>1, <2>2 DEF Course, Unheard
  <2> QED BY <1>2, <2>1, <2>3, Unseen
<1>6. ASSUME NEW s \in Sends, RemovalTimer(s) PROVE [Promise!Next]_Promise!vars
  <2>1. /\ UNCHANGED <<content, phone>> /\ ghost'[s] = "none"
        /\ \A u \in Sends \ {s} : ghost'[u] = ghost[u]
    BY <1>1, <1>6 DEF RemovalTimer, backend, Types
  <2>2. {s} \in SUBSET Sends /\ \A u \in {s} : ghost'[u] = "none" BY <2>1
  <2> QED BY <1>1, <2>1, <2>2, Closing
<1> QED BY <1>3, <1>4, <1>5, <1>6 DEF StoreStep, Reply, Deliver

LEMMA PromiseKept ==
    ASSUME Inv, [Next]_vars
    PROVE  [Promise!Next]_Promise!vars
<1>1. CASE UserStep BY <1>1, UserPromise
<1>2. CASE StoreStep BY <1>2, StorePromise
<1>3. CASE DaemonStep
  BY <1>3, Unseen
  DEF DaemonStep, QueueMessage, RefuseMessage, DaemonCancel, SendTimeout, FlushTimer,
      HandleSendStatusResponse, FlushSendQueue, Disconnect, renderer, backend
<1>4. CASE PhoneStepOf
  <2>1. PICK ok \in BOOLEAN, answers \in BOOLEAN : PhoneSends(ok, answers) BY <1>4 DEF PhoneStepOf
  <2>2. PICK s \in Sends : call[s] \in {"replied", "over"} /\ phone' \in {phone, phone \cup {s}}
    BY <2>1, PhoneStep DEF Inv, Courses
  <2>3. content[s] # None BY <2>2 DEF Inv, Course
  <2>4. UNCHANGED <<content, ghost>> BY <2>1 DEF PhoneSends, renderer
  <2> QED BY <2>2, <2>3, <2>4, Unseen, Delivering DEF Inv
<1>5. CASE RowStep BY <1>5, Unseen DEF RowStep, MessageStored, backend
<1>6. CASE UNCHANGED vars BY <1>6, Unseen DEF vars
<1> QED BY <1>1, <1>2, <1>3, <1>4, <1>5, <1>6, NextCases

--------------------
(* What has left the queue is not dispatched again *)

At(q, s) == {i \in DOMAIN q : q[i] = s}

LEMMA TimesOfAnother ==
    ASSUME NEW q \in Seq(Sends), NEW s \in Sends, NEW t \in Sends, s # t
    PROVE  Times(Append(q, t), s) = Times(q, s)
<1>1. At(Append(q, t), s) = At(q, s) BY DEF At
<1> QED BY <1>1 DEF Times, At

LEMMA TimesOfTail ==
    ASSUME NEW q \in Seq(Sends), q # <<>>, NEW s \in Sends
    PROVE  Times(Tail(q), s) <= Times(q, s)
<1> DEFINE next == [i \in At(Tail(q), s) |-> i + 1]
<1>1. /\ DOMAIN q = 1..Len(q) /\ Len(q) \in Nat
      /\ DOMAIN Tail(q) = 1..(Len(q) - 1) /\ \A i \in DOMAIN Tail(q) : Tail(q)[i] = q[i + 1]
  OBVIOUS
<1>2. \A i \in At(Tail(q), s) : i \in Int /\ i + 1 \in At(q, s) BY <1>1 DEF At
<1>3. next \in [At(Tail(q), s) -> At(q, s)] BY <1>2
<1>4. \A i, j \in At(Tail(q), s) : next[i] = next[j] => i = j BY <1>2
<1> HIDE DEF next
<1>5. next \in Injection(At(Tail(q), s), At(q, s)) BY <1>3, <1>4, Fun_IsInj
<1>6. IsFiniteSet(At(q, s))
  <2>1. IsFiniteSet(1..Len(q)) BY <1>1, FS_Interval
  <2> QED BY <1>1, <2>1, FS_Subset DEF At
<1>7. Cardinality(At(Tail(q), s)) <= Cardinality(At(q, s)) BY <1>5, <1>6, FS_Injection
<1> QED BY <1>7 DEF Times, At

LEMMA TimesOfNothing ==
    ASSUME NEW q \in Seq(Sends), NEW s \in Sends
    PROVE  Times(<<>>, s) <= Times(q, s) /\ Times(q, s) <= Times(q, s)
<1>1. At(<<>>, s) = {} BY DEF At
<1>2. Cardinality(At(<<>>, s)) = 0 BY <1>1, FS_EmptySet
<1>3. IsFiniteSet(At(q, s))
  <2>1. IsFiniteSet(1..Len(q)) BY FS_Interval
  <2>2. At(q, s) \in SUBSET (1..Len(q)) BY DEF At
  <2> QED BY <2>1, <2>2, FS_Subset
<1>4. Cardinality(At(q, s)) \in Nat BY <1>3, FS_CardinalityType
<1> QED BY <1>2, <1>4 DEF Times, At

LEMMA GoneStays ==
    ASSUME Inv, [Next]_vars, NEW s \in Sends, call[s] \in {"replied", "over"}, ~Queued(s)
    PROVE  Times(link'.down, s) <= Times(link.down, s)
<1>1. Types /\ Courses /\ link.down \in Seq(Sends) BY Fields DEF Inv, Courses
<1>2. CASE link'.down = link.down BY <1>1, <1>2, TimesOfNothing
<1>3. ASSUME NEW l, l.down = link.down, NEW t \in Sends, t # s, link' = Dispatched(l, t), l \in Links
      PROVE  Times(link'.down, s) <= Times(link.down, s)
  <2>1. link'.down \in {link.down, Append(link.down, t)} BY <1>3 DEF Dispatched, Links
  <2>2. CASE link'.down = Append(link.down, t)
    <3>1. Times(link'.down, s) = Times(link.down, s) BY <1>1, <1>3, <2>2, TimesOfAnother
    <3> QED BY <1>1, <3>1, TimesOfNothing
  <2> QED BY <1>2, <2>1, <2>2
<1>4. CASE UserStep \/ StoreStep \/ RowStep \/ UNCHANGED vars
  <2>1. link' = link
    BY <1>4 DEF UserStep, StoreStep, RowStep, ThreadSend, ComposeSend, CancelSend, RetrySend,
       LoadThread, EnterThread, ResetSendQueue, Reply, Deliver, SendReplied, SendRefused,
       HandleSendStatus, RemovalTimer, MessageStored, backend, vars
  <2> QED BY <1>2, <2>1
<1>5. CASE PhoneStepOf
  <2>1. link.down # <<>> /\ link'.down = Tail(link.down)
    BY <1>1, <1>5 DEF PhoneStepOf, PhoneSends, Types, Links
  <2> QED BY <1>1, <2>1, TimesOfTail
<1>6. CASE DaemonStep
  <2>1. ASSUME NEW t \in Sends, QueueMessage(t) PROVE Times(link'.down, s) <= Times(link.down, s)
    BY <1>1, <1>3, <2>1 DEF QueueMessage, Types
  <2>2. ASSUME NEW t \in Sends, FlushTimer(t) PROVE Times(link'.down, s) <= Times(link.down, s)
    <3>1. link' = link \/ (t # s /\ link' = Dispatched(link, t))
      BY <2>2 DEF FlushTimer, TrySendQueued
    <3> QED BY <1>1, <1>2, <1>3, <3>1 DEF Types
  <2>3. ASSUME FlushSendQueue PROVE Times(link'.down, s) <= Times(link.down, s)
    <3> DEFINE l == [link EXCEPT !.up = TRUE, !.connects = @ + 1]
    <3>1. l \in Links /\ l.down = link.down
      <4>1. link.connects \in 0..MaxConnects /\ link.connects < MaxConnects
        BY <1>1, <2>3, Fields DEF FlushSendQueue
      <4>2. link.connects + 1 \in 0..MaxConnects BY <4>1, SendAssumption
      <4> QED BY <1>1, <4>2 DEF Types, Links
    <3>2. CASE daemon.queue = <<>>
      <4>1. link' = l BY <2>3, <3>2 DEF FlushSendQueue
      <4> QED BY <1>2, <3>1, <4>1
    <3>3. CASE daemon.queue # <<>>
      <4>1. link' = Dispatched(l, Head(daemon.queue)) BY <2>3, <3>3 DEF FlushSendQueue
      <4>2. Head(daemon.queue) \in Sends /\ Has(daemon.queue, Head(daemon.queue))
        BY <1>1, <3>3, Fields, TailHas
      <4>3. Head(daemon.queue) # s BY <4>2, QueuedHas
      <4> HIDE DEF l
      <4> QED BY <1>3, <3>1, <4>1, <4>2, <4>3
    <3> QED BY <3>2, <3>3
  <2>4. ASSUME Disconnect PROVE Times(link'.down, s) <= Times(link.down, s)
    <3>1. link'.down = <<>> BY <1>1, <2>4 DEF Disconnect, Types, Links
    <3> QED BY <1>1, <3>1, TimesOfNothing
  <2>5. ASSUME NEW t \in Sends, RefuseMessage(t) \/ DaemonCancel(t) \/ SendTimeout(t)
        PROVE  Times(link'.down, s) <= Times(link.down, s)
    BY <1>2, <2>5 DEF RefuseMessage, DaemonCancel, SendTimeout, backend
  <2>6. ASSUME NEW t \in Sends, NEW st \in {"sent", "failed"}, HandleSendStatusResponse(t, st)
        PROVE  Times(link'.down, s) <= Times(link.down, s)
    <3>1. link'.down = link.down BY <1>1, <2>6 DEF HandleSendStatusResponse, Types, Links
    <3> QED BY <1>2, <3>1
  <2> QED BY <1>6, <2>1, <2>2, <2>3, <2>4, <2>5, <2>6 DEF DaemonStep
<1> QED BY <1>4, <1>5, <1>6, NextCases

(* The optimistic entry, the daemon's queue and the phone together implement *)
(* Outbox: one outcome for each message, "sent" only of a message the phone *)
(* has sent, none after it was closed. And what has left the daemon's queue, *)
(* by a cancel, a timeout or an answer, no timer of a flush and no connection *)
(* dispatches again. *)
THEOREM KeepsItsPromise == Spec => OutboxIsKept
<1>1. Init => Promise!Init BY InitPromise
<1>2. Inv /\ [Next]_vars => [Promise!Next]_Promise!vars BY PromiseKept
<1>3. Inv /\ [Next]_vars =>
          [\A s \in Sends : call[s] \in {"replied", "over"} /\ ~Queued(s) =>
                            Times(link.down', s) <= Times(link.down, s)]_vars
  BY GoneStays
<1> QED BY <1>1, <1>2, <1>3, Invariance, PTL
        DEF Spec, Safety, OutboxIsKept, OutboxSpec, GoneStaysGone

--------------------
(* ConversationList: the list of conversations *)

Copies == [Threads -> Chats!Row]
ChatNotices == [kind : {"messages", "read"}, thread : Threads \cup {Chats!AnyThread}, newest : 0..MaxNews]
Attentions == [read : BOOLEAN, flashing : BOOLEAN, notified : 0..MaxNews]

(* A date is no later than the number of messages so far. *)
ChatTypes ==
    /\ Chats!ListConstants
    /\ rows \in Copies /\ list \in Copies /\ replies \in Seq(Copies)
    /\ batch \in [armed : BOOLEAN, threads : SUBSET Threads, newest : 0..MaxNews]
    /\ inbox \in Seq(ChatNotices) /\ calls \in Seq(Chats!Call)
    /\ timer \in BOOLEAN /\ focus \in BOOLEAN /\ bottom \in BOOLEAN /\ flash \in BOOLEAN
    /\ sel \in Threads \cup {None} /\ shown \in Threads \cup {None}
    /\ attention \in Attentions
    /\ news \in 0..MaxNews /\ clock \in 0..news /\ clicks \in 0..MaxClicks

(* The newest copy of the database there is on this side. *)
NewestCopy == IF replies = <<>> THEN list ELSE replies[Len(replies)]
Noticed ==
    \/ batch.armed \/ timer
    \/ \E k \in DOMAIN inbox : inbox[k].kind = "messages"
    \/ \E k \in DOMAIN calls : calls[k].kind = "list"
    \/ Chats!Fresh(NewestCopy)

(* Nothing flashes, or what has been sent ends with a stop. *)
Stops ==
    flash \/ (\E k \in DOMAIN calls : calls[k].kind = "flash") =>
        \E last \in DOMAIN calls :
            /\ calls[last].kind = "flash" /\ ~calls[last].on
            /\ \A k \in DOMAIN calls : k > last => calls[k].kind # "flash"
Quiet == focus \/ ~attention.flashing => Stops

ChatInv == ChatTypes /\ Noticed /\ Quiet

--------------------
(* Sequences of one kind *)

LEMMA ChatTail ==
    ASSUME NEW T, NEW s \in Seq(T), s # <<>>
    PROVE  /\ Tail(s) \in Seq(T) /\ Head(s) = s[1] /\ s[1] \in T /\ 1 \in DOMAIN s
           /\ Len(Tail(s)) = Len(s) - 1 /\ Len(s) \in Nat /\ Len(s) > 0
           /\ \A k \in DOMAIN Tail(s) : k + 1 \in DOMAIN s /\ Tail(s)[k] = s[k + 1]
           /\ \A k \in DOMAIN s : k # 1 => k - 1 \in DOMAIN Tail(s) /\ Tail(s)[k - 1] = s[k]
<1>1. Len(s) \in Nat /\ DOMAIN s = 1..Len(s) /\ Len(s) > 0 BY EmptySeq
<1>2. Tail(s) \in Seq(T) /\ Len(Tail(s)) = Len(s) - 1 /\ Head(s) = s[1] BY <1>1
<1>3. DOMAIN Tail(s) = 1..(Len(s) - 1) BY <1>2
<1>4. \A k \in 1..(Len(s) - 1) : Tail(s)[k] = s[k + 1] BY <1>1
<1> QED BY <1>1, <1>2, <1>3, <1>4

LEMMA ChatAppend ==
    ASSUME NEW T, NEW s \in Seq(T), NEW x \in T
    PROVE  /\ Append(s, x) \in Seq(T) /\ Len(Append(s, x)) = Len(s) + 1 /\ Append(s, x) # <<>>
           /\ Len(s) + 1 \in DOMAIN Append(s, x) /\ Append(s, x)[Len(s) + 1] = x
           /\ \A k \in DOMAIN s : k \in DOMAIN Append(s, x) /\ Append(s, x)[k] = s[k]
           /\ \A k \in DOMAIN Append(s, x) : k \in DOMAIN s \/ k = Len(s) + 1
           /\ Len(s) \in Nat /\ DOMAIN s = 1..Len(s)
<1>1. Len(s) \in Nat /\ DOMAIN s = 1..Len(s) OBVIOUS
<1>2. Append(s, x) \in Seq(T) /\ Len(Append(s, x)) = Len(s) + 1 OBVIOUS
<1>3. DOMAIN Append(s, x) = 1..(Len(s) + 1) BY <1>2
<1> QED BY <1>1, <1>2, <1>3

(* What is sent to the main process. *)
LEMMA CallKinds ==
    /\ Chats!ListCall \in Chats!Call /\ Chats!ListCall.kind = "list"
    /\ \A t \in Threads : Chats!MarkCall(t) \in Chats!Call /\ Chats!MarkCall(t).kind = "mark"
    /\ \A b \in BOOLEAN :
          Chats!FlashCall(b) \in Chats!Call /\ Chats!FlashCall(b).kind = "flash" /\ Chats!FlashCall(b).on = b
BY DEF Chats!Call, Chats!ListCall, Chats!MarkCall, Chats!FlashCall

LEMMA CallIs ==
    ASSUME NEW c \in Chats!Call
    PROVE  \/ c.kind = "list" /\ c = Chats!ListCall
           \/ c.kind = "mark" /\ c.thread \in Threads
           \/ c.kind = "flash" /\ c.on \in BOOLEAN
BY DEF Chats!Call, Chats!ListCall, Chats!MarkCall, Chats!FlashCall

LEMMA MarkedIs ==
    ASSUME ChatTypes, NEW l \in Copies, NEW t \in Threads
    PROVE  /\ Chats!Marked(l, t) \in Copies
           /\ Chats!Fresh(l) => Chats!Fresh(Chats!Marked(l, t))
<1>1. clock \in -1..MaxNews BY DEF ChatTypes, Chats!ListConstants
<1> DEFINE r == [l[t] EXCEPT !.readAt = clock]
<1>2. Chats!Marked(l, t) = [l EXCEPT ![t] = r] BY DEF Chats!Marked, Copies
<1>3. l[t] \in Chats!Row BY DEF Copies
<1>4. r \in Chats!Row /\ r.date = l[t].date /\ r.unread = l[t].unread BY <1>1, <1>3 DEF Chats!Row
<1> HIDE DEF r
<1>5. [l EXCEPT ![t] = r] \in Copies BY <1>4 DEF Copies
<1>6. \A u \in Threads : [l EXCEPT ![t] = r][u].date = l[u].date /\ [l EXCEPT ![t] = r][u].unread = l[u].unread
  BY <1>4 DEF Copies
<1> QED BY <1>2, <1>5, <1>6 DEF Chats!Fresh

LEMMA ChatInit == Chats!ListConstants /\ Chats!Init => ChatInv
<1> SUFFICES ASSUME Chats!ListConstants, Chats!Init PROVE ChatInv OBVIOUS
<1>1. rows \in Copies BY DEF Chats!Init, Chats!ListConstants, Copies, Chats!Row
<1>2. ChatTypes
  <2> USE DEF Chats!Init, Chats!ListConstants
  <2>1. rows \in Copies /\ list \in Copies BY <1>1
  <2>2. replies \in Seq(Copies) /\ inbox \in Seq(ChatNotices) /\ calls \in Seq(Chats!Call) OBVIOUS
  <2>3. 0 \in 0..MaxNews /\ 0 \in 0..MaxClicks OBVIOUS
  <2>4. attention \in Attentions BY <2>3 DEF Attentions
  <2>5. batch \in [armed : BOOLEAN, threads : SUBSET Threads, newest : 0..MaxNews] BY <2>3
  <2>6. news \in 0..MaxNews /\ clock \in 0..news /\ clicks \in 0..MaxClicks OBVIOUS
  <2>7. timer \in BOOLEAN /\ focus \in BOOLEAN /\ bottom \in BOOLEAN /\ flash \in BOOLEAN OBVIOUS
  <2>8. sel \in Threads \cup {None} /\ shown \in Threads \cup {None} OBVIOUS
  <2> QED BY <2>1, <2>2, <2>4, <2>5, <2>6, <2>7, <2>8 DEF ChatTypes
<1>3. Noticed BY DEF Noticed, NewestCopy, Chats!Init, Chats!Fresh
<1>4. Quiet BY DEF Chats!Init, Quiet, Stops
<1> QED BY <1>2, <1>3, <1>4 DEF ChatInv

(* Appending calls: what the window does about the list and the taskbar. *)
Told(more) ==
    \/ more = <<>>
    \/ \E c \in Chats!Call : more = <<c>>
    \/ \E c, d \in Chats!Call : more = <<c, d>> /\ c.kind = "mark"

LEMMA MoreIs ==
    ASSUME NEW more, Told(more)
    PROVE  /\ more \in Seq(Chats!Call) /\ Len(more) \in {0, 1, 2} /\ DOMAIN more = 1..Len(more)
           /\ Len(more) = 2 => more[1].kind = "mark"
<1>1. CASE more = <<>> BY <1>1
<1>2. ASSUME NEW c \in Chats!Call, more = <<c>>
      PROVE  more \in Seq(Chats!Call) /\ Len(more) = 1 /\ DOMAIN more = 1..Len(more)
  BY <1>2
<1>3. ASSUME NEW c \in Chats!Call, NEW d \in Chats!Call, more = <<c, d>>, c.kind = "mark"
      PROVE  /\ more \in Seq(Chats!Call) /\ Len(more) = 2 /\ DOMAIN more = 1..Len(more)
             /\ more[1].kind = "mark"
  BY <1>3
<1> QED BY <1>1, <1>2, <1>3 DEF Told

LEMMA CallsGrow ==
    ASSUME ChatTypes, NEW more, Told(more), NEW new, new = calls \o more
    PROVE  /\ new \in Seq(Chats!Call) /\ DOMAIN new = 1..(Len(calls) + Len(more))
           /\ Len(calls) \in Nat /\ Len(more) \in Nat /\ DOMAIN calls = 1..Len(calls)
           /\ \A k \in DOMAIN calls : k \in DOMAIN new /\ new[k] = calls[k]
           /\ \A k \in DOMAIN new : k \notin DOMAIN calls =>
                 k - Len(calls) \in DOMAIN more /\ new[k] = more[k - Len(calls)]
<1>1. calls \in Seq(Chats!Call) /\ Len(calls) \in Nat /\ DOMAIN calls = 1..Len(calls)
  BY DEF ChatTypes
<1>2. more \in Seq(Chats!Call) /\ Len(more) \in Nat /\ DOMAIN more = 1..Len(more) BY MoreIs
<1>3. /\ calls \o more \in Seq(Chats!Call) /\ Len(calls \o more) = Len(calls) + Len(more)
      /\ \A k \in 1..(Len(calls) + Len(more)) :
            (calls \o more)[k] = IF k <= Len(calls) THEN calls[k] ELSE more[k - Len(calls)]
  BY <1>1, <1>2, ConcatProperties
<1>4. DOMAIN new = 1..(Len(calls) + Len(more)) BY <1>1, <1>2, <1>3
<1> QED BY <1>1, <1>2, <1>3, <1>4

(* With nothing but marks and stops sent, whatever ended with a stop still *)
(* does. *)
Soft(c) == c.kind = "flash" => ~c.on
AllSoft(more) == \A k \in DOMAIN more : Soft(more[k])

LEMMA StopIsLast ==
    ASSUME ChatTypes, NEW more, Told(more), AllSoft(more), calls' = calls \o more,
           \E k \in DOMAIN more : more[k].kind = "flash"
    PROVE  Stops'
<1> DEFINE n == Len(calls)
<1>1. PICK new : new = calls \o more OBVIOUS
<1>2. /\ DOMAIN new = 1..(n + Len(more)) /\ n \in Nat /\ Len(more) \in Nat /\ DOMAIN calls = 1..n
      /\ \A k \in DOMAIN calls : k \in DOMAIN new /\ new[k] = calls[k]
      /\ \A k \in DOMAIN new : k \notin DOMAIN calls => k - n \in DOMAIN more /\ new[k] = more[k - n]
  BY <1>1, CallsGrow
<1>3. Len(more) \in {0, 1, 2} /\ DOMAIN more = 1..Len(more) /\ (Len(more) = 2 => more[1].kind = "mark")
  BY MoreIs
<1>4. PICK j \in DOMAIN more : more[j].kind = "flash" /\ \A k \in DOMAIN more : k > j => more[k].kind # "flash"
  <2>1. CASE more[Len(more)].kind = "flash" BY <1>3, <2>1
  <2>2. CASE more[Len(more)].kind # "flash"
    <3>1. PICK k \in DOMAIN more : more[k].kind = "flash" OBVIOUS
    <3>2. k \in 1..Len(more) /\ (Len(more) = 0 \/ Len(more) = 1 \/ Len(more) = 2) BY <1>3, <3>1
    <3>3. k = Len(more) \/ (k = 1 /\ Len(more) = 2)
      <4>1. CASE Len(more) = 0 BY <3>2, <4>1
      <4>2. CASE Len(more) = 1 BY <3>2, <4>2
      <4>3. CASE Len(more) = 2 BY <3>2, <4>3
      <4> QED BY <3>2, <4>1, <4>2, <4>3
    <3> QED BY <1>3, <2>2, <3>1, <3>3
  <2> QED BY <2>1, <2>2
<1>5. n + j \in DOMAIN new /\ n + j \notin DOMAIN calls BY <1>2, <1>3, <1>4
<1>6. new[n + j] = more[j] BY <1>2, <1>3, <1>4, <1>5
<1>7. \A k \in DOMAIN new : k > n + j => new[k].kind # "flash"
  <2> SUFFICES ASSUME NEW k \in DOMAIN new, k > n + j PROVE new[k].kind # "flash" OBVIOUS
  <2>1. k \in Nat /\ n \in Nat /\ j \in Nat /\ j > 0 BY <1>2, <1>3
  <2>2. k \notin DOMAIN calls /\ k - n > j BY <1>2, <2>1
  <2>3. k - n \in DOMAIN more /\ new[k] = more[k - n] BY <1>2, <2>2
  <2> QED BY <1>4, <2>2, <2>3
<1>8. new[n + j].kind = "flash" /\ ~new[n + j].on BY <1>4, <1>6 DEF AllSoft, Soft
<1> QED BY <1>1, <1>5, <1>7, <1>8 DEF Stops

LEMMA StopsGrow ==
    ASSUME ChatTypes, NEW more, Told(more), AllSoft(more), calls' = calls \o more, Stops,
           flash' = flash \/ flash' = FALSE
    PROVE  Stops'
<1> DEFINE n == Len(calls)
<1>1. PICK new : new = calls \o more OBVIOUS
<1>2. /\ DOMAIN new = 1..(n + Len(more)) /\ n \in Nat /\ Len(more) \in Nat /\ DOMAIN calls = 1..n
      /\ \A k \in DOMAIN calls : k \in DOMAIN new /\ new[k] = calls[k]
      /\ \A k \in DOMAIN new : k \notin DOMAIN calls => k - n \in DOMAIN more /\ new[k] = more[k - n]
  BY <1>1, CallsGrow
<1>3. Len(more) \in {0, 1, 2} /\ DOMAIN more = 1..Len(more) /\ (Len(more) = 2 => more[1].kind = "mark")
  BY MoreIs
<1>4. CASE \E k \in DOMAIN more : more[k].kind = "flash" BY <1>4, StopIsLast
<1>5. CASE \A k \in DOMAIN more : more[k].kind # "flash"
  <2>1. \A k \in DOMAIN new : new[k].kind = "flash" => k \in DOMAIN calls BY <1>2, <1>5
  <2>2. SUFFICES ASSUME flash \/ \E k \in DOMAIN new : new[k].kind = "flash"
                 PROVE  \E last \in DOMAIN new :
                            /\ new[last].kind = "flash" /\ ~new[last].on
                            /\ \A k \in DOMAIN new : k > last => new[k].kind # "flash"
    BY <1>1 DEF Stops
  <2>3. PICK last \in DOMAIN calls :
           /\ calls[last].kind = "flash" /\ ~calls[last].on
           /\ \A k \in DOMAIN calls : k > last => calls[k].kind # "flash"
    BY <1>2, <2>1, <2>2 DEF Stops
  <2> QED BY <1>2, <2>1, <2>3
<1> QED BY <1>4, <1>5

(* A change of the calls, the list and the store's memory by the window. *)
Acts(more) ==
    /\ Told(more) /\ calls' = calls \o more
    /\ list' = list \/ \E t \in Threads : list' = Chats!Marked(list, t)
    /\ UNCHANGED <<Chats!daemonVars, replies>>
    /\ attention' \in Attentions
    /\ {focus', bottom', flash'} \subseteq BOOLEAN
    /\ {sel', shown'} \subseteq Threads \cup {None}
    /\ clicks' \in 0..MaxClicks

LEMMA ActsTypes ==
    ASSUME ChatTypes, NEW more, Acts(more), inbox' \in Seq(ChatNotices), timer' \in BOOLEAN
    PROVE  ChatTypes'
<1>1. list' \in Copies BY MarkedIs DEF Acts, ChatTypes
<1>2. calls' \in Seq(Chats!Call) BY CallsGrow DEF Acts
<1> QED BY <1>1, <1>2 DEF ChatTypes, Acts, Chats!daemonVars

LEMMA ActsNoticed ==
    ASSUME ChatTypes, Noticed, NEW more, Acts(more), timer => timer',
           timer' \/ (\A k \in DOMAIN inbox : inbox[k].kind = "messages" =>
                         \E j \in DOMAIN inbox' : inbox'[j].kind = "messages")
    PROVE  Noticed'
<1>1. rows' = rows /\ batch' = batch /\ replies' = replies BY DEF Acts, Chats!daemonVars
<1>2. ASSUME NEW k \in DOMAIN calls, calls[k].kind = "list"
      PROVE  \E j \in DOMAIN calls' : calls'[j].kind = "list"
  <2>1. k \in DOMAIN calls' /\ calls'[k] = calls[k] BY CallsGrow DEF Acts
  <2> QED BY <1>2, <2>1
<1>3. Chats!Fresh(list) => Chats!Fresh(list)'
  <2>1. CASE list' = list BY <1>1, <2>1 DEF Chats!Fresh
  <2>2. ASSUME NEW t \in Threads, list' = Chats!Marked(list, t) PROVE Chats!Fresh(list) => Chats!Fresh(list)'
    <3>1. PICK l : l = Chats!Marked(list, t) OBVIOUS
    <3>2. Chats!Fresh(list) => Chats!Fresh(l) BY <3>1, MarkedIs DEF ChatTypes
    <3> QED BY <1>1, <2>2, <3>1, <3>2 DEF Chats!Fresh
  <2> QED BY <2>1, <2>2 DEF Acts
<1> QED BY <1>1, <1>2, <1>3 DEF Noticed, NewestCopy, Chats!Fresh

LEMMA ActsQuiet ==
    ASSUME ChatTypes, NEW more, Acts(more), AllSoft(more), Quiet,
           flash' = flash \/ flash' = FALSE,
           focus' \/ ~attention'.flashing => focus \/ ~attention.flashing
    PROVE  Quiet'
BY StopsGrow DEF Acts, Quiet

LEMMA SoftCalls ==
    /\ AllSoft(<<>>)
    /\ \A t \in Threads : AllSoft(<<Chats!MarkCall(t)>>)
    /\ AllSoft(<<Chats!FlashCall(FALSE)>>) /\ AllSoft(<<Chats!ListCall>>)
    /\ \A t \in Threads : AllSoft(<<Chats!MarkCall(t), Chats!FlashCall(FALSE)>>)
<1>1. /\ Soft(Chats!FlashCall(FALSE)) /\ Soft(Chats!ListCall)
      /\ \A t \in Threads : Soft(Chats!MarkCall(t))
  BY CallKinds DEF Soft
<1>2. ASSUME NEW c, Soft(c) PROVE AllSoft(<<c>>) BY <1>2 DEF AllSoft
<1>3. ASSUME NEW c, NEW d, Soft(c), Soft(d) PROVE AllSoft(<<c, d>>) BY <1>3 DEF AllSoft
<1>4. AllSoft(<<>>) BY DEF AllSoft
<1> QED BY <1>1, <1>2, <1>3, <1>4

LEMMA ToldCalls ==
    /\ Told(<<>>) /\ Told(<<Chats!ListCall>>)
    /\ \A t \in Threads : Told(<<Chats!MarkCall(t)>>)
    /\ \A b \in BOOLEAN : Told(<<Chats!FlashCall(b)>>)
    /\ \A t \in Threads, b \in BOOLEAN : Told(<<Chats!MarkCall(t), Chats!FlashCall(b)>>)
BY CallKinds DEF Told

LEMMA CallsSame == ChatTypes => calls \o <<>> = calls
BY DEF ChatTypes

LEMMA CallsTwo ==
    ASSUME ChatTypes, NEW c \in Chats!Call
    PROVE  /\ Append(calls, c) = calls \o <<c>>
           /\ Append(calls, c) \o <<>> = calls \o <<c>>
           /\ \A d \in Chats!Call : Append(calls, c) \o <<d>> = calls \o <<c, d>>
<1>1. calls \in Seq(Chats!Call) BY DEF ChatTypes
<1> QED BY <1>1

(* What the window does to the calls when it marks a thread and rings or stops. *)
LEMMA MarkTold ==
    ASSUME ChatTypes, NEW t \in Threads, NEW ring, ring = <<>> \/ \E b \in BOOLEAN : ring = <<Chats!FlashCall(b)>>,
           Chats!MarkThreadRead(t, ring)
    PROVE  /\ list' = Chats!Marked(list, t)
           /\ \E more : /\ Told(more) /\ calls' = calls \o more
                        /\ (ring = <<>> \/ ring = <<Chats!FlashCall(FALSE)>>) => AllSoft(more)
<1>1. list' = Chats!Marked(list, t) /\ calls' = Append(calls, Chats!MarkCall(t)) \o ring
  BY DEF Chats!MarkThreadRead
<1>2. Chats!MarkCall(t) \in Chats!Call BY CallKinds
<1>3. CASE ring = <<>>
  <2>1. calls' = calls \o <<Chats!MarkCall(t)>> BY <1>1, <1>2, <1>3, CallsTwo
  <2> QED BY <1>1, <2>1, ToldCalls, SoftCalls
<1>4. ASSUME NEW b \in BOOLEAN, ring = <<Chats!FlashCall(b)>>
      PROVE  \E more : /\ Told(more) /\ calls' = calls \o more
                       /\ ring = <<Chats!FlashCall(FALSE)>> => AllSoft(more)
  <2>1. Chats!FlashCall(b) \in Chats!Call BY CallKinds
  <2>2. calls' = calls \o <<Chats!MarkCall(t), Chats!FlashCall(b)>>
    BY <1>1, <1>2, <1>4, <2>1, CallsTwo
  <2>3. ring = <<Chats!FlashCall(FALSE)>> => ~b
    <3>1. ring[1].on = b BY <1>4, CallKinds
    <3>2. <<Chats!FlashCall(FALSE)>>[1].on = FALSE BY CallKinds
    <3> QED BY <3>1, <3>2
  <2>4. ~b => AllSoft(<<Chats!MarkCall(t), Chats!FlashCall(b)>>)
    <3>1. CASE b = FALSE BY <3>1, SoftCalls
    <3> QED BY <3>1
  <2> QED BY <2>2, <2>3, <2>4, ToldCalls
<1> QED BY <1>1, <1>3, <1>4

--------------------
(* The actions *)

LEMMA ArrivesActs ==
    ASSUME ChatInv, NEW t \in Threads, NEW incoming \in BOOLEAN, Chats!Arrives(t, incoming)
    PROVE  ChatInv'
<1> USE DEF ChatInv, Chats!Arrives, Chats!paneVars
<1>1. clock + 1 \in 0..MaxNews /\ clock' \in 0..news' /\ news' \in 0..MaxNews
  BY DEF ChatTypes, Chats!News, Chats!ListConstants
<1>2. rows' \in Copies
  <2> DEFINE r == [rows[t] EXCEPT !.date = clock + 1, !.unread = @ \/ incoming]
  <2>1. rows[t] \in Chats!Row BY DEF ChatTypes, Copies
  <2>2. r \in Chats!Row BY <1>1, <2>1 DEF Chats!Row
  <2>3. rows' = [rows EXCEPT ![t] = r] BY DEF ChatTypes, Copies
  <2> HIDE DEF r
  <2> QED BY <2>2, <2>3 DEF ChatTypes, Copies
<1>3. batch' \in [armed : BOOLEAN, threads : SUBSET Threads, newest : 0..MaxNews] /\ batch'.armed
  BY <1>1 DEF ChatTypes
<1>4. ChatTypes' BY <1>1, <1>2, <1>3 DEF ChatTypes
<1>5. Noticed' BY <1>3 DEF Noticed
<1>6. Quiet' BY DEF Quiet, Stops
<1> QED BY <1>4, <1>5, <1>6

LEMMA NoticeIs ==
    ASSUME NEW k \in {"messages", "read"}, NEW t \in Threads \cup {Chats!AnyThread}, NEW n \in 0..MaxNews
    PROVE  Chats!Notice(k, t, n) \in ChatNotices /\ Chats!Notice(k, t, n).kind = k
BY DEF Chats!Notice, ChatNotices

LEMMA ReadOnPhoneActs == ASSUME ChatInv, NEW t \in Threads, Chats!ReadOnPhone(t) PROVE ChatInv'
<1> USE DEF ChatInv, Chats!ReadOnPhone, Chats!paneVars
<1>1. rows' = Chats!Marked(rows, t) BY DEF Chats!Marked
<1>2. rows' \in Copies
  <2>1. PICK l \in Copies : l = rows BY DEF ChatTypes
  <2>2. Chats!Marked(l, t) \in Copies BY MarkedIs
  <2> QED BY <1>1, <2>1, <2>2
<1>3. \A u \in Threads : rows'[u].date = rows[u].date /\ rows'[u].unread = rows[u].unread
  <2> DEFINE r == [rows[t] EXCEPT !.readAt = clock]
  <2>1. rows[t] \in Chats!Row BY DEF ChatTypes, Copies
  <2>2. r.date = rows[t].date /\ r.unread = rows[t].unread BY <2>1 DEF Chats!Row
  <2>3. rows' = [rows EXCEPT ![t] = r] BY DEF ChatTypes, Copies
  <2> HIDE DEF r
  <2> QED BY <2>2, <2>3 DEF ChatTypes, Copies
<1>4. PICK n : n = Chats!Notice("read", t, 0) OBVIOUS
<1>5. n \in ChatNotices
  <2>1. 0 \in 0..MaxNews BY DEF ChatTypes, Chats!ListConstants
  <2> QED BY <1>4, <2>1, NoticeIs
<1>6. /\ inbox' \in Seq(ChatNotices)
      /\ \A k \in DOMAIN inbox : k \in DOMAIN inbox' /\ inbox'[k] = inbox[k]
  BY <1>4, <1>5, ChatAppend DEF ChatTypes
<1>7. news' \in 0..MaxNews /\ clock' \in 0..news' BY DEF ChatTypes, Chats!News, Chats!ListConstants
<1>8. ChatTypes' BY <1>2, <1>6, <1>7 DEF ChatTypes
<1>9. Noticed' BY <1>3, <1>6 DEF Noticed, NewestCopy, Chats!Fresh
<1>10. Quiet' BY DEF Quiet, Stops
<1> QED BY <1>8, <1>9, <1>10

LEMMA FlushActs == ASSUME ChatInv, Chats!FlushSmsBatch PROVE ChatInv'
<1> USE DEF ChatInv, Chats!FlushSmsBatch, Chats!paneVars
<1> DEFINE t == IF Chats!Cardinality(batch.threads) = 1 THEN CHOOSE u \in batch.threads : TRUE ELSE Chats!AnyThread
<1>1. t \in Threads \cup {Chats!AnyThread}
  <2>1. CASE Chats!Cardinality(batch.threads) = 1
    <3>2. Chats!Cardinality({}) = Cardinality({})
      BY DEF Chats!Cardinality, Chats!IsFiniteSet, Cardinality, IsFiniteSet
    <3>0. Chats!Cardinality({}) = 0 BY <3>2, FS_EmptySet
    <3>1. ASSUME batch.threads = {} PROVE FALSE
      <4>1. Chats!Cardinality(batch.threads) = 0 BY <3>0, <3>1
      <4> QED BY <2>1, <4>1
    <3> QED BY <3>1 DEF ChatTypes
  <2> QED BY <2>1
<1>10. inbox' = Append(inbox, Chats!Notice("messages", t, batch.newest)) OBVIOUS
<1> HIDE DEF t
<1>2. PICK n : n = Chats!Notice("messages", t, batch.newest) OBVIOUS
<1>3. n \in ChatNotices /\ n.kind = "messages" BY <1>1, <1>2, NoticeIs DEF ChatTypes
<1>4. inbox' = Append(inbox, n) BY <1>2, <1>10
<1>5. /\ inbox' \in Seq(ChatNotices) /\ Len(inbox) + 1 \in DOMAIN inbox' /\ inbox'[Len(inbox) + 1] = n
  BY <1>3, <1>4, ChatAppend DEF ChatTypes
<1>6. batch' \in [armed : BOOLEAN, threads : SUBSET Threads, newest : 0..MaxNews]
  BY DEF ChatTypes, Chats!ListConstants
<1>7. ChatTypes' BY <1>5, <1>6 DEF ChatTypes
<1>8. Noticed' BY <1>3, <1>5 DEF Noticed
<1>9. Quiet' BY DEF Quiet, Stops
<1> QED BY <1>7, <1>8, <1>9

LEMMA ServeActs == ASSUME ChatInv, Chats!ServeCall PROVE ChatInv'
<1> USE DEF ChatInv
<1>1. PICK c : c = Head(calls) OBVIOUS
<1>2. /\ calls # <<>> /\ calls' = Tail(calls)
      /\ UNCHANGED <<batch, clock, news, inbox, list, timer, attention, sel, shown, focus, bottom, clicks>>
  BY DEF Chats!ServeCall, Chats!paneVars
<1>3. /\ c = calls[1] /\ c \in Chats!Call /\ calls' \in Seq(Chats!Call)
      /\ \A k \in DOMAIN calls' : k + 1 \in DOMAIN calls /\ calls'[k] = calls[k + 1]
      /\ \A k \in DOMAIN calls : k # 1 => k - 1 \in DOMAIN calls' /\ calls'[k - 1] = calls[k]
      /\ 1 \in DOMAIN calls /\ DOMAIN calls \subseteq Nat /\ DOMAIN calls' \subseteq Nat
  BY <1>1, <1>2, ChatTail DEF ChatTypes
<1>4. \/ c.kind = "list" /\ replies' = Append(replies, rows) /\ rows' = rows /\ flash' = flash
      \/ c.kind = "mark" /\ rows' = Chats!Marked(rows, c.thread) /\ c.thread \in Threads
         /\ replies' = replies /\ flash' = flash
      \/ c.kind = "flash" /\ flash' = c.on /\ c.on \in BOOLEAN /\ rows' = rows /\ replies' = replies
  BY <1>1, <1>3, CallIs DEF Chats!ServeCall, Chats!Marked
<1>5. /\ rows' \in Copies /\ flash' \in BOOLEAN
      /\ \A u \in Threads : rows'[u].date = rows[u].date /\ rows'[u].unread = rows[u].unread
  <2>1. CASE rows' = rows BY <1>4, <2>1 DEF ChatTypes
  <2>2. CASE c.thread \in Threads /\ rows' = Chats!Marked(rows, c.thread)
    <3>0. PICK t \in Threads : t = c.thread BY <2>2
    <3>1. PICK l : l = Chats!Marked(rows, t) OBVIOUS
    <3>2. l \in Copies BY <3>1, MarkedIs DEF ChatTypes
    <3>3. Chats!Fresh(rows) BY DEF Chats!Fresh
    <3>4. Chats!Fresh(l) BY <3>1, <3>3, MarkedIs DEF ChatTypes
    <3> QED BY <1>4, <2>2, <3>0, <3>1, <3>2, <3>4 DEF Chats!Fresh, ChatTypes
  <2> QED BY <1>4, <2>1, <2>2
<1>6. /\ replies' \in Seq(Copies)
      /\ c.kind = "list" => replies' # <<>> /\ replies'[Len(replies')] = rows
  <2>1. CASE replies' = replies /\ c.kind # "list" BY <2>1 DEF ChatTypes
  <2>2. CASE replies' = Append(replies, rows) BY <2>2, ChatAppend DEF ChatTypes
  <2> QED BY <1>4, <2>1, <2>2
<1>7. ChatTypes' BY <1>2, <1>3, <1>5, <1>6 DEF ChatTypes
<1>8. Noticed'
  <2>1. CASE c.kind = "list" BY <1>4, <1>5, <1>6, <2>1 DEF Noticed, NewestCopy, Chats!Fresh
  <2>2. CASE c.kind # "list"
    <3>1. ASSUME NEW k \in DOMAIN calls, calls[k].kind = "list"
          PROVE  \E j \in DOMAIN calls' : calls'[j].kind = "list"
      <4>1. k # 1 BY <1>3, <2>2, <3>1
      <4> QED BY <1>3, <3>1, <4>1
    <3>2. replies' = replies BY <1>4, <2>2
    <3>3. Chats!Fresh(NewestCopy) => Chats!Fresh(NewestCopy)'
      BY <1>2, <1>5, <3>2 DEF Chats!Fresh, NewestCopy
    <3> QED BY <1>2, <3>1, <3>3 DEF Noticed
  <2> QED BY <2>1, <2>2
<1>9. Stops => Stops'
  <2> SUFFICES ASSUME Stops, flash' \/ \E k \in DOMAIN calls' : calls'[k].kind = "flash"
               PROVE  \E last \in DOMAIN calls' :
                          /\ calls'[last].kind = "flash" /\ ~calls'[last].on
                          /\ \A k \in DOMAIN calls' : k > last => calls'[k].kind # "flash"
    BY DEF Stops
  <2>1. flash \/ \E k \in DOMAIN calls : calls[k].kind = "flash"
    <3>1. CASE flash' BY <1>3, <1>4, <3>1
    <3>2. CASE \E k \in DOMAIN calls' : calls'[k].kind = "flash" BY <1>3, <3>2
    <3> QED BY <3>1, <3>2
  <2>2. PICK last \in DOMAIN calls :
           /\ calls[last].kind = "flash" /\ ~calls[last].on
           /\ \A k \in DOMAIN calls : k > last => calls[k].kind # "flash"
    BY <2>1 DEF Stops
  <2>3. CASE last = 1
    <3>1. \A k \in DOMAIN calls' : calls'[k].kind # "flash"
      <4> SUFFICES ASSUME NEW k \in DOMAIN calls' PROVE calls'[k].kind # "flash" OBVIOUS
      <4>1. k + 1 \in DOMAIN calls /\ calls'[k] = calls[k + 1] /\ k \in Nat BY <1>3
      <4>2. k # 0
        <5>1. calls' \in Seq(Chats!Call) BY <1>3
        <5> QED BY <5>1
      <4> QED BY <2>2, <2>3, <4>1, <4>2
    <3>2. ~flash' BY <1>3, <1>4, <2>2, <2>3
    <3> QED BY <3>1, <3>2
  <2>4. CASE last # 1
    <3>1. last - 1 \in DOMAIN calls' /\ calls'[last - 1] = calls[last] /\ last \in Nat BY <1>3, <2>4
    <3>2. \A k \in DOMAIN calls' : k > last - 1 => calls'[k].kind # "flash"
      <4> SUFFICES ASSUME NEW k \in DOMAIN calls', k > last - 1 PROVE calls'[k].kind # "flash" OBVIOUS
      <4>1. k + 1 \in DOMAIN calls /\ calls'[k] = calls[k + 1] /\ k \in Nat BY <1>3
      <4>2. k + 1 > last BY <3>1, <4>1
      <4> QED BY <2>2, <4>1, <4>2
    <3> QED BY <2>2, <3>1, <3>2
  <2> QED BY <2>3, <2>4
<1> QED BY <1>2, <1>7, <1>8, <1>9 DEF Quiet

LEMMA RefreshTimerActs == ASSUME ChatInv, Chats!RefreshTimer PROVE ChatInv'
<1> USE DEF ChatInv, Chats!RefreshTimer
<1>1. PICK more : more = <<Chats!ListCall>> OBVIOUS
<1>2. calls' = calls \o more BY <1>1, CallsTwo, CallKinds
<1>3. UNCHANGED <<Chats!daemonVars, inbox, replies, list, attention, flash, sel, shown, focus, bottom, clicks>>
  BY DEF Chats!paneVars
<1>4. Acts(more) /\ AllSoft(more) BY <1>1, <1>2, <1>3, ToldCalls, SoftCalls DEF Acts, ChatTypes
<1>5. ChatTypes' BY <1>3, <1>4, ActsTypes DEF ChatTypes
<1>6. Quiet' BY <1>3, <1>4, ActsQuiet
<1>7. Noticed'
  <2>1. calls' = Append(calls, Chats!ListCall) OBVIOUS
  <2>2. Len(calls) + 1 \in DOMAIN calls' /\ calls'[Len(calls) + 1] = Chats!ListCall
    BY <2>1, CallKinds, ChatAppend DEF ChatTypes
  <2> QED BY <2>2, CallKinds DEF Noticed
<1> QED BY <1>5, <1>6, <1>7

LEMMA ListReplyActs == ASSUME ChatInv, Chats!ListReply PROVE ChatInv'
<1> USE DEF ChatInv, Chats!ListReply
<1>1. UNCHANGED <<rows, batch, clock, news, inbox, calls, timer, attention, flash, sel, shown, focus, bottom, clicks>>
  BY DEF Chats!paneVars, Chats!daemonVars
<1>2. /\ replies # <<>> /\ replies' = Tail(replies) /\ list' = replies[1] /\ list' \in Copies
      /\ replies' \in Seq(Copies) /\ Len(replies') = Len(replies) - 1 /\ Len(replies) \in Nat
      /\ \A k \in DOMAIN replies' : replies'[k] = replies[k + 1]
  BY ChatTail DEF ChatTypes
<1>3. NewestCopy' = NewestCopy
  <2>1. CASE Len(replies) = 1
    <3>1. replies' = <<>> BY <1>2, <2>1, EmptySeq
    <3> QED BY <1>2, <2>1, <3>1 DEF NewestCopy
  <2>2. CASE Len(replies) # 1
    <3>1. replies' # <<>> /\ Len(replies) > 1 BY <1>2, <2>2, EmptySeq
    <3>2. Len(replies') \in DOMAIN replies' /\ Len(replies') + 1 = Len(replies) BY <1>2, <3>1
    <3> QED BY <1>2, <3>1, <3>2 DEF NewestCopy
  <2> QED BY <2>1, <2>2
<1>4. ChatTypes' BY <1>1, <1>2 DEF ChatTypes
<1>5. Noticed' BY <1>1, <1>3 DEF Noticed, Chats!Fresh
<1>6. Quiet' BY <1>1 DEF Quiet, Stops
<1> QED BY <1>4, <1>5, <1>6

LEMMA ReceivedActs == ASSUME ChatInv, Chats!HandleNotification PROVE ChatInv'
<1> USE DEF ChatInv
<1>1. PICK n : n = Head(inbox) OBVIOUS
<1>2. /\ inbox # <<>> /\ inbox' = Tail(inbox)
      /\ (n.kind = "messages" /\ Chats!HandleMessages(n)) \/ (n.kind = "read" /\ Chats!HandleRead)
      /\ UNCHANGED <<Chats!daemonVars, replies, flash, sel, shown, focus, bottom, clicks>>
  BY <1>1 DEF Chats!HandleNotification, Chats!paneVars
<1>3. inbox' \in Seq(ChatNotices) /\ n \in ChatNotices BY <1>1, <1>2, ChatTail DEF ChatTypes
<1>4. timer' = TRUE BY <1>2 DEF Chats!HandleMessages, Chats!HandleRead, Chats!RefreshConversations
<1>5. \E more : /\ Acts(more)
                /\ AllSoft(more) \/ (~focus /\ attention'.flashing)
                /\ ~attention'.flashing => ~attention.flashing
  <2>1. CASE n.kind = "read" /\ Chats!HandleRead
    <3>1. calls' = calls \o <<Chats!FlashCall(FALSE)>> /\ list' = list /\ attention' = attention
      BY <2>1, CallsTwo, CallKinds DEF Chats!HandleRead
    <3>2. Acts(<<Chats!FlashCall(FALSE)>>) BY <1>2, <3>1, ToldCalls DEF Acts, ChatTypes
    <3> QED BY <3>1, <3>2, SoftCalls
  <2>2. CASE n.kind = "messages" /\ Chats!HandleMessages(n)
    <3> DEFINE known == n.thread \in Threads
               unread == known /\ Chats!HasUnread(list[n.thread])
               here == known /\ n.thread = shown
               notify == ~focus /\ n.newest > attention.notified /\ unread
               ring == IF notify THEN <<Chats!FlashCall(TRUE)>> ELSE <<>>
    <3>1. /\ IF here /\ unread /\ focus /\ bottom THEN Chats!MarkThreadRead(n.thread, ring)
             ELSE calls' = calls \o ring /\ UNCHANGED list
          /\ attention' = [read |-> attention.read \/ (here /\ unread /\ ~(focus /\ bottom)),
                           flashing |-> attention.flashing \/ notify,
                           notified |-> IF notify THEN n.newest ELSE attention.notified]
      BY <2>2 DEF Chats!HandleMessages
    <3>2. attention' \in Attentions BY <1>3, <3>1 DEF Attentions, ChatTypes, ChatNotices
    <3>3. attention'.flashing = (attention.flashing \/ notify) BY <3>1
    <3>4. notify \in BOOLEAN /\ (notify => ~focus) OBVIOUS
    <3> HIDE DEF notify
    <3>5. ring = <<>> \/ (notify /\ ring = <<Chats!FlashCall(TRUE)>>) OBVIOUS
    <3> HIDE DEF ring
    <3>6. \E more : /\ Told(more) /\ calls' = calls \o more
                    /\ list' = list \/ \E t \in Threads : list' = Chats!Marked(list, t)
                    /\ AllSoft(more) \/ notify
      <4>1. CASE here /\ unread /\ focus /\ bottom
        <5>1. n.thread \in Threads /\ Chats!MarkThreadRead(n.thread, ring) BY <3>1, <4>1
        <5> QED BY <3>5, <5>1, MarkTold
      <4>2. CASE ~(here /\ unread /\ focus /\ bottom)
        <5>1. calls' = calls \o ring /\ list' = list BY <3>1, <4>2
        <5>2. Told(ring) /\ (AllSoft(ring) \/ notify) BY <3>5, ToldCalls, SoftCalls
        <5> QED BY <5>1, <5>2
      <4> QED BY <4>1, <4>2
    <3>7. PICK more : /\ Told(more) /\ calls' = calls \o more
                      /\ list' = list \/ \E t \in Threads : list' = Chats!Marked(list, t)
                      /\ AllSoft(more) \/ notify
      BY <3>6
    <3>8. Acts(more) BY <1>2, <3>2, <3>7 DEF Acts, ChatTypes
    <3> QED BY <3>3, <3>4, <3>7, <3>8
  <2> QED BY <1>2, <2>1, <2>2
<1>6. PICK more : /\ Acts(more)
                  /\ AllSoft(more) \/ (~focus /\ attention'.flashing)
                  /\ ~attention'.flashing => ~attention.flashing
  BY <1>5
<1>7. ChatTypes' BY <1>3, <1>4, <1>6, ActsTypes
<1>8. Noticed' BY <1>4 DEF Noticed
<1>9. Quiet'
  <2>1. CASE AllSoft(more) BY <1>2, <1>6, <2>1, ActsQuiet
  <2>2. CASE ~focus /\ attention'.flashing BY <1>2, <2>2 DEF Quiet
  <2> QED BY <1>6, <2>1, <2>2
<1> QED BY <1>7, <1>8, <1>9

(* The user's acts but for the marks they send. *)
LEMMA StillActs ==
    ASSUME ChatInv, NEW more, Acts(more), AllSoft(more),
           inbox' = inbox, timer' = timer, flash' = flash \/ flash' = FALSE,
           focus' \/ ~attention'.flashing => focus \/ ~attention.flashing
    PROVE  ChatInv'
<1> USE DEF ChatInv
<1>1. ChatTypes' BY ActsTypes DEF ChatTypes
<1>2. Noticed' BY ActsNoticed
<1>3. Quiet' BY ActsQuiet
<1> QED BY <1>1, <1>2, <1>3

LEMMA FocusActs == ASSUME ChatInv, Chats!Focus PROVE ChatInv'
<1> USE DEF ChatInv
<1>1. /\ focus' = TRUE /\ flash' = FALSE /\ clicks' \in 0..MaxClicks
      /\ attention' = [attention EXCEPT !.read = @ /\ ~bottom, !.flashing = FALSE]
      /\ UNCHANGED <<Chats!daemonVars, inbox, replies, timer, sel, shown, bottom>>
  BY DEF Chats!Focus, Chats!Focused, Chats!Click, ChatTypes, Chats!ListConstants
<1>2. attention' \in Attentions /\ ~attention'.flashing BY <1>1 DEF Attentions, ChatTypes
<1> DEFINE stop == IF attention.flashing THEN <<Chats!FlashCall(FALSE)>> ELSE <<>>
<1>3. IF attention.read /\ shown # None /\ bottom THEN Chats!MarkThreadRead(shown, stop)
      ELSE calls' = calls \o stop /\ UNCHANGED list
  BY DEF Chats!Focus, Chats!Focused
<1>4. \/ attention.flashing /\ stop = <<Chats!FlashCall(FALSE)>>
      \/ ~attention.flashing /\ stop = <<>>
  OBVIOUS
<1> HIDE DEF stop
<1>5. \E more : /\ Told(more) /\ calls' = calls \o more /\ AllSoft(more)
                /\ list' = list \/ \E t \in Threads : list' = Chats!Marked(list, t)
                /\ attention.flashing => \E k \in DOMAIN more : more[k].kind = "flash"
  <2>1. CASE attention.read /\ shown # None /\ bottom
    <3>1. PICK t \in Threads : t = shown BY <2>1 DEF ChatTypes
    <3>2. Chats!MarkThreadRead(t, stop) BY <1>3, <2>1, <3>1
    <3>3. list' = Chats!Marked(list, t) /\ calls' = Append(calls, Chats!MarkCall(t)) \o stop
      BY <3>2 DEF Chats!MarkThreadRead
    <3>4. Chats!MarkCall(t) \in Chats!Call /\ Chats!FlashCall(FALSE) \in Chats!Call BY CallKinds
    <3>5. CASE attention.flashing
      <4> DEFINE more == <<Chats!MarkCall(t), Chats!FlashCall(FALSE)>>
      <4>1. calls' = calls \o more BY <1>4, <3>3, <3>4, <3>5, CallsTwo
      <4>2. 2 \in DOMAIN more /\ more[2].kind = "flash"
        <5>1. Chats!FlashCall(FALSE).kind = "flash" BY CallKinds
        <5>2. 2 \in DOMAIN more /\ more[2] = Chats!FlashCall(FALSE) OBVIOUS
        <5> QED BY <5>1, <5>2
      <4> QED BY <3>3, <4>1, <4>2, ToldCalls, SoftCalls
    <3>6. CASE ~attention.flashing
      <4>1. calls' = calls \o <<Chats!MarkCall(t)>> BY <1>4, <3>3, <3>4, <3>6, CallsTwo
      <4> QED BY <3>3, <3>6, <4>1, ToldCalls, SoftCalls
    <3> QED BY <3>5, <3>6
  <2>2. CASE ~(attention.read /\ shown # None /\ bottom)
    <3>1. calls' = calls \o stop /\ list' = list BY <1>3, <2>2
    <3>2. attention.flashing => 1 \in DOMAIN stop /\ stop[1].kind = "flash"
      <4>1. Chats!FlashCall(FALSE).kind = "flash" BY CallKinds
      <4>2. PICK c : c = Chats!FlashCall(FALSE) OBVIOUS
      <4>3. attention.flashing => stop = <<c>> BY <1>4, <4>2
      <4>4. 1 \in DOMAIN <<c>> /\ <<c>>[1] = c OBVIOUS
      <4>5. CASE attention.flashing
        <5>1. stop = <<c>> BY <4>3, <4>5
        <5> QED BY <4>1, <4>2, <4>4, <5>1
      <4> QED BY <4>5
    <3>3. Told(stop) /\ AllSoft(stop) BY <1>4, ToldCalls, SoftCalls
    <3> QED BY <3>1, <3>2, <3>3
  <2> QED BY <2>1, <2>2
<1>6. PICK more : /\ Told(more) /\ calls' = calls \o more /\ AllSoft(more)
                  /\ list' = list \/ \E t \in Threads : list' = Chats!Marked(list, t)
                  /\ attention.flashing => \E k \in DOMAIN more : more[k].kind = "flash"
  BY <1>5
<1>7. Acts(more) BY <1>1, <1>2, <1>6 DEF Acts, ChatTypes
<1>8. ChatTypes' BY <1>1, <1>7, ActsTypes DEF ChatTypes
<1>9. Noticed' BY <1>1, <1>7, ActsNoticed
<1>10. Stops'
  <2>1. CASE ~attention.flashing BY <1>1, <1>6, <2>1, StopsGrow DEF Quiet
  <2>2. CASE attention.flashing BY <1>1, <1>6, <2>2, StopIsLast
  <2> QED BY <2>1, <2>2
<1> QED BY <1>8, <1>9, <1>10 DEF Quiet

LEMMA UserActs ==
    ASSUME ChatInv, Chats!Blur \/ Chats!Scroll \/ Chats!StartCompose \/ Chats!OpenExtraPanel
    PROVE  ChatInv'
<1> USE DEF ChatInv
<1>1. /\ UNCHANGED <<Chats!daemonVars, inbox, calls, replies, list, timer, attention, flash>>
      /\ clicks' \in 0..MaxClicks /\ {sel', shown'} \subseteq Threads \cup {None}
      /\ {focus', bottom'} \subseteq BOOLEAN /\ (focus' => focus)
  <2>1. Chats!Click => clicks' \in 0..MaxClicks BY DEF Chats!Click, ChatTypes, Chats!ListConstants
  <2>2. /\ sel \in Threads \cup {None} /\ shown \in Threads \cup {None}
        /\ focus \in BOOLEAN /\ bottom \in BOOLEAN
    BY DEF ChatTypes
  <2>3. CASE Chats!Blur BY <2>1, <2>2, <2>3 DEF Chats!Blur
  <2>4. CASE Chats!Scroll BY <2>1, <2>2, <2>4 DEF Chats!Scroll
  <2>5. CASE Chats!StartCompose BY <2>1, <2>2, <2>5 DEF Chats!StartCompose
  <2>6. CASE Chats!OpenExtraPanel BY <2>1, <2>2, <2>6 DEF Chats!OpenExtraPanel
  <2> QED BY <2>3, <2>4, <2>5, <2>6
<1>2. calls' = calls \o <<>> BY <1>1, CallsSame
<1>3. Acts(<<>>) BY <1>1, <1>2, ToldCalls DEF Acts, ChatTypes
<1> QED BY <1>1, <1>3, SoftCalls, StillActs

LEMMA SelectActs == ASSUME ChatInv, NEW t \in Threads, Chats!SelectConversation(t) PROVE ChatInv'
<1> USE DEF ChatInv
<1>1. /\ UNCHANGED <<Chats!daemonVars, inbox, replies, timer, focus, attention, flash>>
      /\ clicks' \in 0..MaxClicks /\ sel' = t /\ shown' = t /\ bottom' = TRUE
      /\ Chats!MarkThreadRead(t, <<>>)
  BY DEF Chats!SelectConversation, Chats!Click, ChatTypes, Chats!ListConstants
<1>2. PICK more : Told(more) /\ calls' = calls \o more /\ AllSoft(more) /\ list' = Chats!Marked(list, t)
  BY <1>1, MarkTold
<1>3. Acts(more) BY <1>1, <1>2 DEF Acts, ChatTypes
<1> QED BY <1>1, <1>2, <1>3, StillActs

LEMMA ChatNext == ChatInv /\ [Chats!Next]_Chats!vars => ChatInv'
<1> SUFFICES ASSUME ChatInv, [Chats!Next]_Chats!vars PROVE ChatInv' OBVIOUS
<1>1. CASE UNCHANGED Chats!vars
  BY <1>1 DEF ChatInv, ChatTypes, Noticed, Quiet, Stops, NewestCopy, Chats!Fresh, Chats!vars
<1>2. ASSUME NEW t \in Threads, NEW incoming \in BOOLEAN, Chats!Arrives(t, incoming) PROVE ChatInv'
  BY <1>2, ArrivesActs
<1>3. ASSUME NEW t \in Threads, Chats!ReadOnPhone(t) PROVE ChatInv' BY <1>3, ReadOnPhoneActs
<1>4. ASSUME NEW t \in Threads, Chats!SelectConversation(t) PROVE ChatInv' BY <1>4, SelectActs
<1>5. CASE Chats!FlushSmsBatch BY <1>5, FlushActs
<1>6. CASE Chats!ServeCall BY <1>6, ServeActs
<1>7. CASE Chats!RefreshTimer BY <1>7, RefreshTimerActs
<1>8. CASE Chats!ListReply BY <1>8, ListReplyActs
<1>9. CASE Chats!HandleNotification BY <1>9, ReceivedActs
<1>10. CASE Chats!Focus BY <1>10, FocusActs
<1>11. CASE Chats!Blur \/ Chats!Scroll \/ Chats!StartCompose \/ Chats!OpenExtraPanel
  BY <1>11, UserActs
<1> QED BY <1>1, <1>2, <1>3, <1>4, <1>5, <1>6, <1>7, <1>8, <1>9, <1>10, <1>11 DEF Chats!Next

(* Sets of the elements of the sequences. *)
LEMMA ElementsOf ==
    ASSUME NEW s
    PROVE  \A x : x \in Chats!ToSet(s) <=> \E k \in DOMAIN s : x = s[k]
BY DEF Chats!ToSet

LEMMA ChatGives == ChatInv => Chats!TypeOK /\ Chats!StaleIsNoticed /\ Chats!FlashEnds
<1> SUFFICES ASSUME ChatInv PROVE Chats!TypeOK /\ Chats!StaleIsNoticed /\ Chats!FlashEnds OBVIOUS
<1> USE DEF ChatInv
<1>1. Chats!TypeOK
  <2>1. /\ \A x \in Chats!ToSet(inbox) : x \in ChatNotices
        /\ \A x \in Chats!ToSet(calls) : x \in Chats!Call
        /\ \A x \in Chats!ToSet(replies) : x \in Copies
    BY ElementsOf DEF ChatTypes
  <2> QED BY <2>1 DEF ChatTypes, Chats!TypeOK, ChatNotices, Copies, Attentions, Chats!ListConstants
<1>2. Chats!StaleIsNoticed
  <2>1. ASSUME NEW k \in DOMAIN inbox, inbox[k].kind = "messages" PROVE Chats!StaleIsNoticed
    BY <2>1, ElementsOf DEF Chats!StaleIsNoticed
  <2>2. ASSUME NEW k \in DOMAIN calls, calls[k].kind = "list" PROVE Chats!StaleIsNoticed
    <3>1. calls[k] \in Chats!Call BY DEF ChatTypes
    <3>2. calls[k] = Chats!ListCall BY <2>2, <3>1, CallIs
    <3> QED BY <3>2, ElementsOf DEF Chats!StaleIsNoticed
  <2>3. ASSUME Chats!Fresh(NewestCopy) PROVE Chats!StaleIsNoticed
    <3>1. CASE replies = <<>> BY <2>3, <3>1 DEF NewestCopy, Chats!StaleIsNoticed
    <3>2. CASE replies # <<>>
      <4>1. Len(replies) \in DOMAIN replies BY <3>2, ChatTail DEF ChatTypes
      <4>2. PICK l : l = replies[Len(replies)] OBVIOUS
      <4>3. l \in Chats!ToSet(replies) /\ Chats!Fresh(l)
        BY <2>3, <3>2, <4>1, <4>2, ElementsOf DEF NewestCopy
      <4> QED BY <4>3 DEF Chats!StaleIsNoticed
    <3> QED BY <3>1, <3>2
  <2> QED BY <2>1, <2>2, <2>3 DEF Noticed, Chats!StaleIsNoticed
<1>3. Chats!FlashEnds
  <2>1. SUFFICES ASSUME focus, flash \/ Chats!FlashCalls # {}
                 PROVE  \E last \in Chats!FlashCalls :
                            ~calls[last].on /\ \A k \in Chats!FlashCalls : k <= last
    BY DEF Chats!FlashEnds
  <2>2. PICK last \in DOMAIN calls :
           /\ calls[last].kind = "flash" /\ ~calls[last].on
           /\ \A k \in DOMAIN calls : k > last => calls[k].kind # "flash"
    BY <2>1 DEF Quiet, Stops, Chats!FlashCalls
  <2>3. DOMAIN calls \subseteq Nat BY DEF ChatTypes
  <2> QED BY <2>2, <2>3 DEF Chats!FlashCalls
<1> QED BY <1>1, <1>2, <1>3

(* However notifications, the refresh timer, calls and their answers *)
(* interleave, a list of conversations that lacks what the database has will *)
(* be read again: something that brings it is under way (the stores *)
(* conversations.svelte.ts and messages.svelte.ts, and the batch of the main *)
(* process), for any conversations and any number of messages and clicks. *)
THEOREM ListStaysHeard == Chats!ListConstants => (Chats!Spec => [](Chats!TypeOK /\ Chats!StaleIsNoticed))
<1> SUFFICES ASSUME Chats!ListConstants PROVE Chats!Spec => [](Chats!TypeOK /\ Chats!StaleIsNoticed)
  OBVIOUS
<1>1. Chats!Init => ChatInv BY ChatInit
<1>2. ChatInv /\ [Chats!Next]_Chats!vars => ChatInv' BY ChatNext
<1>3. ChatInv => Chats!TypeOK /\ Chats!StaleIsNoticed BY ChatGives
<1> QED BY <1>1, <1>2, <1>3, PTL DEF Chats!Spec

(* While the window has the focus the taskbar flashes only until a call that *)
(* is on its way stops it (handleFocus and the notification handlers of *)
(* messages.svelte.ts). *)
THEOREM FlashingEnds == Chats!ListConstants => (Chats!Spec => []Chats!FlashEnds)
<1> SUFFICES ASSUME Chats!ListConstants PROVE Chats!Spec => []Chats!FlashEnds OBVIOUS
<1>1. Chats!Init => ChatInv BY ChatInit
<1>2. ChatInv /\ [Chats!Next]_Chats!vars => ChatInv' BY ChatNext
<1>3. ChatInv => Chats!FlashEnds BY ChatGives
<1> QED BY <1>1, <1>2, <1>3, PTL DEF Chats!Spec
====================
