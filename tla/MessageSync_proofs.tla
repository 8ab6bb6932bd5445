---------- MODULE MessageSync_proofs ----------
(* The desktop removes no message that the phone still has, and lacks none of *)
(* a fully synced thread once the pipeline has settled: for any number of *)
(* messages, threads, broken connections and opened threads. *)
(* *)
(* The argument has three parts. Types says what is on the wire and in *)
(* progress. Truth says that what is on its way can be acted upon whenever it *)
(* arrives: a deletion names what the phone no longer has, and a snapshot *)
(* lists everything that existed when it was taken and is still there. Noted *)
(* says that what the desktop lacks of a fully synced thread is announced, or *)
(* the thread has its turn in the batch before it, or that turn is lost. *)
(* *)
(* The second half is about MessageStore, the rows of one conversation at the *)
(* grain of statements; Storage is that module. The last part is about *)
(* Contacts, which the same pipeline brings (People). *)
EXTENDS MessageSync, FiniteSetTheorems, SequenceTheorems, TLAPS

CONSTANTS
    Msgs, MaxEvents, MaxKills,                                                 \* MessageStore
    Uids, MaxChanges, MaxSyncs, MaxAsks                                            \* Contacts

VARIABLES
    kept, handled, page, toPhone, conv, synced, listed, msgs, atts, files, todo, fetching, doomed, kills,
    events,                                                                    \* MessageStore
    contactPhone, changes, db, contactUp, contactOut, contactBack, syncs, asks, settled \* Contacts

Storage == INSTANCE MessageStore
People == INSTANCE Contacts WITH
        phone <- contactPhone, up <- contactUp, out <- contactOut, back <- contactBack

Kinds == {"new", "deleted", "thread_deleted", "answer", "late"}
Events == [kind : Kinds, message : Messages \cup {None}, thread : Threads \cup {None}]
Phases == {"none", "asked", "answering", "answered"}
Taken == {"answering", "answered"}
Answers == {i \in DOMAIN channel : channel[i].kind = "answer"}

(* The answer under way is a set of messages. *)
Listing == query.phase \in Taken /\ query.op.kind \in {"full", "quick"}

(* The query in progress is a record of an operation, or none; its snapshot *)
(* lists what exists. *)
QueryOK ==
    /\ query = [op |-> query.op, phase |-> query.phase, answer |-> query.answer,
                existing |-> query.existing]
    /\ query.phase \in Phases
    /\ query.phase = "none" => query = NoQuery
    /\ query.phase # "none" => query.op \in Ops
    /\ query.existing \subseteq born
    /\ Listing => query.answer \subseteq born
    /\ query.phase \in Taken /\ query.op.kind = "list" => query.answer \subseteq Threads

(* Its answer is on its way once, when the phone has sent the last page. *)
AnswerOK ==
    /\ query.phase = "answered" => Answers # {}
    /\ Answers # {} => query.phase = "answered"
    /\ \A i, j \in Answers : i = j

DatabaseOK ==
    /\ phone \subseteq born /\ born \subseteq Messages /\ local \subseteq born
    /\ fully \subseteq convs /\ convs \subseteq Threads /\ flagged \subseteq Threads
    /\ covered \in [Threads -> SUBSET born]

PipelineOK ==
    /\ stage \in {"off", "list", "batch", "background", "ready"}
    /\ due \subseteq Ops
    /\ batch \subseteq Threads /\ missed \subseteq Threads /\ interrupted \in BOOLEAN

LinkOK ==
    /\ connected \in BOOLEAN /\ syncActive \in BOOLEAN
    /\ (~connected) => (channel = <<>> /\ query = NoQuery /\ stage = "off")

(* A message that is announced or deleted, and a thread that is deleted, *)
(* existed. *)
ChannelOK ==
    /\ channel \in Seq(Events)
    /\ \A i \in DOMAIN channel :
           /\ channel[i].kind = "new" => channel[i].message \in born
           /\ channel[i].kind = "thread_deleted" => channel[i].thread \in Threads

Types == ChannelOK /\ QueryOK /\ AnswerOK /\ DatabaseOK /\ PipelineOK /\ LinkOK

--------------------
(* What the handling of an event adds to the database. *)
Brings(e) ==
    IF e.kind = "new" THEN {e.message}
    ELSE IF e.kind = "answer" /\ Listing THEN query.answer ELSE {}

(* A deletion is of a message the phone has had and has no longer. *)
DeletedIsGone ==
    \A i \in DOMAIN channel :
        channel[i].kind = "deleted" => channel[i].message \in born \ phone

(* When the deletion of a thread arrives, all the desktop has of it by then *)
(* is gone, what comes before it on the wire included. *)
ThreadIsGone ==
    \A i \in DOMAIN channel : channel[i].kind = "thread_deleted" =>
        /\ \A m \in local : ThreadOf[m] = channel[i].thread => m \notin phone
        /\ \A j \in DOMAIN channel : j < i =>
               \A m \in Brings(channel[j]) : ThreadOf[m] = channel[i].thread => m \notin phone

(* The snapshot of a full sync lists all of the thread. *)
SnapshotIsTrue ==
    query.phase \in Taken /\ query.op.kind = "full" =>
        \A m \in query.existing \cap phone : ThreadOf[m] = query.op.thread => m \in query.answer

Truth == DeletedIsGone /\ ThreadIsGone /\ SnapshotIsTrue

--------------------
Announced(m) == \E i \in DOMAIN channel : channel[i].kind = "new" /\ channel[i].message = m

(* What existed when a thread was last fully synced, and is still there, the *)
(* desktop has: a quick sync may leave it out. *)
CoveredIsHere ==
    \A t \in fully : \A m \in covered[t] \cap phone : ThreadOf[m] = t => m \in local

(* What came to exist after the snapshot of a full sync has been announced. *)
YoungerIsAnnounced ==
    query.phase \in Taken /\ query.op.kind = "full" =>
        \A m \in phone \ query.existing :
            ThreadOf[m] = query.op.thread => m \in local \/ Announced(m)

(* And what existed then, the answer of a quick sync lists, or it is here. *)
QuickIsComplete ==
    query.phase \in Taken /\ query.op.kind = "quick" /\ query.op.thread \in fully =>
        \A m \in phone : ThreadOf[m] = query.op.thread =>
            m \in local \/ Announced(m) \/ m \in query.answer

(* A thread that will be asked for, or is being asked for, or was to be. *)
Asked(t) ==
    \/ stage \in {"off", "list"}
    \/ stage = "batch" /\ (t \in batch \/ (query.phase # "none" /\ query.op = Op("quick", t)))
    \/ t \in missed

MissingIsNoted ==
    \A t \in fully : \A m \in phone :
        ThreadOf[m] = t => m \in local \/ Announced(m) \/ Asked(t)

Noted == CoveredIsHere /\ YoungerIsAnnounced /\ QuickIsComplete /\ MissingIsNoted

Inv == Types /\ Truth /\ Noted

--------------------
(* The wire *)

LEMMA PushFacts ==
    ASSUME channel \in Seq(Events), NEW e \in Events, channel' = Append(channel, e)
    PROVE  /\ channel' \in Seq(Events)
           /\ \A i \in DOMAIN channel : i \in DOMAIN channel' /\ channel'[i] = channel[i]
           /\ \A i \in DOMAIN channel' : i \in DOMAIN channel \/ (channel'[i] = e /\ i = Len(channel) + 1)
           /\ \A i, j \in DOMAIN channel' : j < i => j \in DOMAIN channel
           /\ Len(channel) + 1 \in DOMAIN channel'
           /\ channel'[Len(channel) + 1] = e
  BY AppendProperties, LenProperties

LEMMA ReadFacts ==
    ASSUME channel \in Seq(Events), channel # <<>>, channel' = Tail(channel)
    PROVE  /\ channel' \in Seq(Events)
           /\ 1 \in DOMAIN channel /\ Head(channel) = channel[1] /\ channel[1] \in Events
           /\ \A i \in DOMAIN channel' :
                  i \in Nat \ {0} /\ i + 1 \in DOMAIN channel /\ channel'[i] = channel[i + 1]
           /\ \A i \in DOMAIN channel :
                  i # 1 => i \in Nat /\ i - 1 \in DOMAIN channel' /\ channel'[i - 1] = channel[i]
  BY HeadTailProperties, LenProperties, ElementOfSeq

LEMMA EmptyWire == ASSUME channel' = <<>> PROVE channel' \in Seq(Events) /\ DOMAIN channel' = {}
  OBVIOUS

LEMMA EventType ==
    ASSUME NEW kind \in Kinds, NEW m \in Messages \cup {None}, NEW t \in Threads \cup {None}
    PROVE  /\ Event(kind, m, t) \in Events
           /\ Event(kind, m, t).kind = kind
           /\ Event(kind, m, t).message = m
           /\ Event(kind, m, t).thread = t
  BY DEF Event, Events

LEMMA OpFacts ==
    ASSUME NEW op \in Ops
    PROVE  /\ op = Op(op.kind, op.thread)
           /\ op.kind \in {"list", "full", "quick", "count"}
           /\ op.kind # "list" => op.thread \in Threads
           /\ op.thread \in Threads \cup {None}
  BY DEF Ops, List, OpenOps, Op

LEMMA OpIsOp ==
    ASSUME NEW t \in Threads, NEW kind \in {"full", "quick", "count"}
    PROVE  /\ Op(kind, t) \in Ops /\ Op(kind, t).kind = kind /\ Op(kind, t).thread = t
           /\ List \in Ops /\ List.kind = "list"
  BY DEF Ops, List, OpenOps, Op

--------------------
(* What a step leaves alone, and what a push and a read keep. *)

LEMMA QueryKept ==
    ASSUME QueryOK, query' = query, born \subseteq born'
    PROVE  QueryOK'
  BY DEF QueryOK, Listing

LEMMA QueryDone ==
    ASSUME query' = NoQuery
    PROVE  QueryOK' /\ query'.phase = "none" /\ Listing' = FALSE
  BY DEF QueryOK, Listing, NoQuery, Phases, Taken

LEMMA PushKeeps ==
    ASSUME Types, NEW e \in Events, Push(e), e.kind # "answer", query' = query, born \subseteq born',
           e.kind = "new" => e.message \in born',
           e.kind = "thread_deleted" => e.thread \in Threads
    PROVE  /\ ChannelOK' /\ QueryOK' /\ AnswerOK'
           /\ (~connected) => channel' = channel
<1>1. CASE connected
  <2>1. channel' = Append(channel, e) BY <1>1 DEF Push
  <2>2. ChannelOK' BY <2>1, PushFacts DEF Types, ChannelOK
  <2>3. Answers' = Answers BY <2>1, PushFacts DEF Types, ChannelOK, Answers
  <2>4. AnswerOK' BY <2>3 DEF Types, AnswerOK
  <2> QED BY <1>1, <2>2, <2>4, QueryKept DEF Types
<1>2. CASE ~connected BY <1>2, QueryKept DEF Types, Push, ChannelOK, AnswerOK, Answers
<1> QED BY <1>1, <1>2

LEMMA ReadKeeps ==
    ASSUME Types, channel # <<>>, channel' = Tail(channel), born' = born
    PROVE  /\ ChannelOK'
           /\ Head(channel).kind # "answer" /\ query' = query => AnswerOK'
           /\ Head(channel).kind = "answer" => Answers' = {}
<1>1. ChannelOK' BY ReadFacts DEF Types, ChannelOK
<1>2. ASSUME Head(channel).kind # "answer", query' = query PROVE AnswerOK'
  <2>1. \A i \in Answers' : i \in Nat /\ i + 1 \in Answers
    BY ReadFacts DEF Types, ChannelOK, Answers
  <2>2. \A i \in Answers : i - 1 \in Answers' BY <1>2, ReadFacts DEF Types, ChannelOK, Answers
  <2>3. (\A i, j \in Answers : i = j) /\ (query.phase = "answered" => Answers # {})
        /\ (Answers # {} => query.phase = "answered")
    BY DEF Types, AnswerOK
  <2>4. \A i, j \in Answers' : i = j BY <2>1, <2>3
  <2>5. query'.phase = "answered" => Answers' # {} BY <1>2, <2>2, <2>3
  <2>6. Answers' # {} => query'.phase = "answered" BY <1>2, <2>1, <2>3
  <2> QED BY <2>4, <2>5, <2>6 DEF AnswerOK
<1>3. ASSUME Head(channel).kind = "answer" PROVE Answers' = {}
  <2>1. 1 \in Answers BY <1>3, ReadFacts DEF Types, ChannelOK, Answers
  <2>2. \A i \in Answers' : i \in Nat \ {0} /\ i + 1 \in Answers
    BY ReadFacts DEF Types, ChannelOK, Answers
  <2>3. \A i \in Answers : i = 1 BY <2>1 DEF Types, AnswerOK
  <2> QED BY <2>2, <2>3
<1> QED BY <1>1, <1>2, <1>3

LEMMA WireKept ==
    ASSUME Types, channel' = channel, query'.phase = query.phase, born \subseteq born'
    PROVE  ChannelOK' /\ AnswerOK'
  BY DEF Types, ChannelOK, AnswerOK, Answers

(* As long as no answer is on its way, the query may change. *)
LEMMA WireWithoutAnswer ==
    ASSUME Types, channel' = channel, query.phase # "answered", query'.phase # "answered", born' = born
    PROVE  ChannelOK' /\ AnswerOK' /\ Answers = {}
  BY DEF Types, ChannelOK, AnswerOK, Answers

--------------------
(* Types *)

LEMMA PhoneTypes ==
    ASSUME Types, PhoneChanges
    PROVE  Types'
<1> USE MessageAssumption
<1>1. PipelineOK' /\ query' = query BY DEF PhoneChanges, progress, Types, PipelineOK
<1>2. ASSUME NEW m \in Messages, NewMessage(m) PROVE Types'
  <2>1. DatabaseOK' BY <1>2 DEF NewMessage, PhoneChanges, database, listener, Types, DatabaseOK
  <2>2. Event("new", m, ThreadOf[m]) \in Events /\ Event("new", m, ThreadOf[m]).kind = "new"
        /\ Event("new", m, ThreadOf[m]).message = m
    BY EventType DEF Kinds
  <2>3. /\ ChannelOK' /\ QueryOK' /\ AnswerOK' /\ (~connected => channel' = channel)
    BY <1>1, <1>2, <2>2, PushKeeps DEF NewMessage
  <2>4. LinkOK' BY <2>3 DEF PhoneChanges, listener, Types, LinkOK
  <2> QED BY <1>1, <2>1, <2>3, <2>4 DEF Types
<1>3. ASSUME NEW m \in Messages, DeleteMessage(m) PROVE Types'
  <2>1. DatabaseOK' BY <1>3 DEF DeleteMessage, PhoneChanges, database, listener, Types, DatabaseOK
  <2>2. Event("deleted", m, ThreadOf[m]) \in Events /\ Event("deleted", m, ThreadOf[m]).kind = "deleted"
    BY EventType DEF Kinds
  <2>3. /\ ChannelOK' /\ QueryOK' /\ AnswerOK' /\ (~connected => channel' = channel)
    BY <1>1, <1>3, <2>2, PushKeeps DEF DeleteMessage
  <2>4. LinkOK' BY <2>3 DEF PhoneChanges, listener, Types, LinkOK
  <2> QED BY <1>1, <2>1, <2>3, <2>4 DEF Types
<1>4. ASSUME NEW t \in Threads, DeleteThread(t) PROVE Types'
  <2>1. DatabaseOK' BY <1>4 DEF DeleteThread, PhoneChanges, database, listener, Types, DatabaseOK
  <2>2. Event("thread_deleted", None, t) \in Events
        /\ Event("thread_deleted", None, t).kind = "thread_deleted"
        /\ Event("thread_deleted", None, t).thread = t
    BY EventType DEF Kinds
  <2>3. /\ ChannelOK' /\ QueryOK' /\ AnswerOK' /\ (~connected => channel' = channel)
    BY <1>1, <1>4, <2>2, PushKeeps DEF DeleteThread
  <2>4. LinkOK' BY <2>3 DEF PhoneChanges, listener, Types, LinkOK
  <2> QED BY <1>1, <2>1, <2>3, <2>4 DEF Types
<1> QED BY <1>2, <1>3, <1>4 DEF PhoneChanges

(* The fields of the query when the phone takes the snapshot. *)
LEMMA Answering ==
    ASSUME Types, PhoneAnswers
    PROVE  /\ query.phase = "asked" /\ query.op \in Ops
           /\ query'.op = query.op /\ query'.phase = "answering" /\ query'.existing = born
           /\ query'.answer \in Snapshots(query.op)
           /\ query' = [op |-> query'.op, phase |-> query'.phase, answer |-> query'.answer,
                         existing |-> query'.existing]
<1>1. PICK a \in Snapshots(query.op) :
          query' = [query EXCEPT !.phase = "answering", !.answer = a, !.existing = born]
  BY DEF PhoneAnswers
<1>2. query = [op |-> query.op, phase |-> query.phase, answer |-> query.answer,
               existing |-> query.existing]
  BY DEF Types, QueryOK
<1>3. query.phase = "asked" /\ query.op \in Ops BY DEF PhoneAnswers, Types, QueryOK
<1> HIDE DEF Snapshots
<1>4. query' = [op |-> query.op, phase |-> "answering", answer |-> a, existing |-> born]
  BY <1>1, <1>2
<1> QED BY <1>3, <1>4

LEMMA Sending ==
    ASSUME Types, PhoneSendsLastPage
    PROVE  /\ query.phase = "answering" /\ query.op \in Ops
           /\ query'.op = query.op /\ query'.phase = "answered" /\ query'.existing = query.existing
           /\ query'.answer = query.answer
           /\ query' = [op |-> query'.op, phase |-> query'.phase, answer |-> query'.answer,
                         existing |-> query'.existing]
           /\ Event("answer", None, query.op.thread) \in Events
           /\ Event("answer", None, query.op.thread).kind = "answer"
<1>1. query = [op |-> query.op, phase |-> query.phase, answer |-> query.answer,
               existing |-> query.existing]
  BY DEF Types, QueryOK
<1>2. query.phase = "answering" /\ query.op \in Ops BY DEF PhoneSendsLastPage, Types, QueryOK
<1>3. query' = [op |-> query.op, phase |-> "answered", answer |-> query.answer,
                existing |-> query.existing]
  BY <1>1 DEF PhoneSendsLastPage
<1>4. query.op.thread \in Threads \cup {None} BY <1>2, OpFacts
<1> QED BY <1>2, <1>3, <1>4, EventType DEF Kinds

LEMMA SnapshotTypes ==
    ASSUME Types, NEW op \in Ops, NEW a \in Snapshots(op)
    PROVE  /\ op.kind \in {"full", "quick"} => a \subseteq born
           /\ op.kind = "list" => a \subseteq Threads
  BY OpFacts DEF Snapshots, In, Types, DatabaseOK

LEMMA AnsweringTypes ==
    ASSUME Types, PhoneAnswers
    PROVE  Types'
<1>1. QueryOK'
  <2>1. query'.answer \in Snapshots(query'.op) /\ query'.op \in Ops BY Answering
  <2>2. /\ query'.op.kind \in {"full", "quick"} => query'.answer \subseteq born
        /\ query'.op.kind = "list" => query'.answer \subseteq Threads
    BY <2>1, SnapshotTypes
  <2>3. born' = born BY DEF PhoneAnswers
  <2> QED BY <2>1, <2>2, <2>3, Answering DEF QueryOK, Listing, Phases
<1>2. ChannelOK' /\ AnswerOK' BY Answering, WireWithoutAnswer DEF PhoneAnswers
<1>3. DatabaseOK' /\ PipelineOK'
  BY DEF PhoneAnswers, Types, DatabaseOK, PipelineOK, database, listener, progress
<1>4. LinkOK'
  <2>1. connected BY DEF PhoneAnswers, Types, LinkOK, NoQuery
  <2> QED BY <2>1 DEF PhoneAnswers, Types, LinkOK, listener
<1> QED BY <1>1, <1>2, <1>3, <1>4 DEF Types

LEMMA SendingTypes ==
    ASSUME Types, PhoneSendsLastPage
    PROVE  Types'
<1> DEFINE e == Event("answer", None, query.op.thread)
<1>1. channel' = Append(channel, e) /\ e \in Events /\ e.kind = "answer"
  BY Sending DEF PhoneSendsLastPage
<1> HIDE DEF e
<1>2. QueryOK' BY Sending DEF PhoneSendsLastPage, Types, QueryOK, Listing, Phases, Taken
<1>3. ChannelOK' BY <1>1, PushFacts DEF PhoneSendsLastPage, Types, ChannelOK
<1>4. AnswerOK'
  <2>1. Answers = {} BY Sending DEF Types, AnswerOK
  <2>2. Answers' = {Len(channel) + 1} BY <1>1, <2>1, PushFacts DEF Types, ChannelOK, Answers
  <2> QED BY <2>2, Sending DEF AnswerOK
<1>5. DatabaseOK' /\ PipelineOK'
  BY DEF PhoneSendsLastPage, Types, DatabaseOK, PipelineOK, database, listener, progress
<1>6. LinkOK' BY Sending DEF PhoneSendsLastPage, Types, LinkOK, database, listener, NoQuery
<1> QED BY <1>2, <1>3, <1>4, <1>5, <1>6 DEF Types

LEMMA EventTypes ==
    ASSUME Types, ReceiveEvent
    PROVE  Types'
<1> USE MessageAssumption
<1> DEFINE e == Head(channel)
<1>1. e \in Events /\ e = channel[1] /\ 1 \in DOMAIN channel
  BY ReadFacts DEF ReceiveEvent, Types, ChannelOK
<1>2. e.kind \in {"new", "deleted", "thread_deleted"} BY DEF ReceiveEvent
<1>3. ChannelOK' /\ AnswerOK' BY <1>2, ReadKeeps DEF ReceiveEvent
<1>4. QueryOK' BY QueryKept DEF ReceiveEvent, Types
<1>5. LinkOK' BY DEF ReceiveEvent, Types, LinkOK
<1>6. DatabaseOK' /\ PipelineOK'
  <2>1. CASE e.kind = "new" /\ NewMessageEvent(e.message)
    <3>1. e.message \in born BY <1>1, <2>1 DEF Types, ChannelOK
    <3>2. ThreadOf[e.message] \in Threads BY <3>1 DEF Types, DatabaseOK
    <3> HIDE DEF e
    <3>3. DatabaseOK' BY <2>1, <3>1, <3>2 DEF ReceiveEvent, NewMessageEvent, Types, DatabaseOK
    <3>4. PipelineOK' BY <2>1 DEF ReceiveEvent, NewMessageEvent, InsertPriorityOp, Types, PipelineOK, Ops
    <3> QED BY <3>3, <3>4
  <2>2. CASE e.kind = "deleted" /\ DeletedEvent(e.message)
    BY <2>2 DEF ReceiveEvent, DeletedEvent, Types, DatabaseOK, PipelineOK
  <2>3. CASE e.kind = "thread_deleted" /\ ThreadDeletedEvent(e.thread)
    BY <2>3 DEF ReceiveEvent, ThreadDeletedEvent, DeleteConversation, Types, DatabaseOK,
      PipelineOK
  <2> QED BY <2>1, <2>2, <2>3 DEF ReceiveEvent
<1> QED BY <1>3, <1>4, <1>5, <1>6 DEF Types

(* An answer that arrives is the one of the query in progress. *)
LEMMA Answered ==
    ASSUME Types, ReceiveAnswer
    PROVE  /\ query.phase = "answered" /\ query.op \in Ops /\ query' = NoQuery
           /\ Answers' = {}
<1>1. 1 \in Answers BY ReadFacts DEF ReceiveAnswer, Types, ChannelOK, Answers
<1>2. query.phase = "answered" BY <1>1 DEF Types, AnswerOK
<1>3. query.op \in Ops BY <1>2 DEF Types, QueryOK
<1>4. Answers' = {} BY ReadKeeps DEF ReceiveAnswer
<1> QED BY <1>2, <1>3, <1>4 DEF ReceiveAnswer

LEMMA AnswerTypes ==
    ASSUME Types, ReceiveAnswer
    PROVE  Types'
<1>1. ChannelOK' BY ReadKeeps DEF ReceiveAnswer
<1>2. QueryOK' /\ query'.phase = "none" BY QueryDone DEF ReceiveAnswer
<1>3. AnswerOK' BY <1>2, Answered DEF AnswerOK
<1>4. LinkOK' BY DEF ReceiveAnswer, Types, LinkOK, listener
<1>5. query.phase \in Taken /\ query.op \in Ops BY Answered DEF Taken
<1>6. DatabaseOK' /\ PipelineOK'
  <2>1. CASE /\ query.op.kind = "full"
             /\ FullThreadSync(query.op.thread, query.answer, query.existing)
    <3>1. query.op.thread \in Threads BY <1>5, <2>1, OpFacts
    <3>2. query.answer \subseteq born /\ query.existing \subseteq born
      BY <1>5, <2>1 DEF Types, QueryOK, Listing
    <3>3. local' \subseteq born BY <2>1, <3>2 DEF FullThreadSync, NoLongerOnPhone, Types, DatabaseOK
    <3>4. fully' \subseteq convs' /\ convs' = convs
      BY <2>1 DEF FullThreadSync, MarkThreadFullySynced, Types, DatabaseOK
    <3>5. covered' \in [Threads -> SUBSET born]
      BY <2>1, <3>1, <3>2 DEF FullThreadSync, Types, DatabaseOK
    <3> QED BY <2>1, <3>3, <3>4, <3>5
            DEF ReceiveAnswer, FullThreadSync, listener, Types, DatabaseOK, PipelineOK
  <2>2. CASE query.op.kind = "quick" /\ QuickMessageSync(query.op.thread, query.answer)
    <3>1. query.answer \subseteq born BY <1>5, <2>2 DEF Types, QueryOK, Listing
    <3> QED BY <2>2, <3>1
            DEF ReceiveAnswer, QuickMessageSync, listener, Types, DatabaseOK, PipelineOK
  <2>3. CASE query.op.kind = "list" /\ ThreadListSync(query.answer)
    <3>1. query.answer \subseteq Threads BY <1>5, <2>3 DEF Types, QueryOK
    <3> QED BY <2>3, <3>1
            DEF ReceiveAnswer, ThreadListSync, listener, Types, DatabaseOK, PipelineOK
  <2>4. CASE query.op.kind = "count" /\ VerifyThreadCount(query.op.thread, query.answer)
    <3>1. Op("full", query.op.thread) \in Ops BY <1>5, <2>4, OpFacts, OpIsOp
    <3>2. due' \subseteq Ops /\ fully' \subseteq fully
      BY <2>4, <3>1 DEF VerifyThreadCount, Types, PipelineOK
    <3> QED BY <2>4, <3>2
            DEF ReceiveAnswer, VerifyThreadCount, listener, Types, DatabaseOK, PipelineOK
  <2> QED BY <2>1, <2>2, <2>3, <2>4 DEF ReceiveAnswer
<1> QED BY <1>1, <1>2, <1>3, <1>4, <1>6 DEF Types

(* Asking takes an operation from the queue; the count of a thread without a *)
(* row is not asked for. *)
LEMMA AskFacts ==
    ASSUME Types, NEW op \in due, Ask(op)
    PROVE  /\ op \in Ops /\ query = NoQuery /\ connected /\ due' = due \ {op}
           /\ \/ query' = NoQuery /\ op.kind = "count"
              \/ query' = [op |-> op, phase |-> "asked", answer |-> {}, existing |-> {}]
  BY DEF Ask, NoQuery, Types, PipelineOK

LEMMA AskBatchFacts ==
    ASSUME Types, NEW t \in batch, AskBatch(t)
    PROVE  /\ t \in Threads /\ Op("quick", t) \in Ops /\ query = NoQuery /\ connected
           /\ query' = [op |-> Op("quick", t), phase |-> "asked", answer |-> {}, existing |-> {}]
<1>1. t \in Threads /\ stage # "off" BY DEF AskBatch, Types, PipelineOK
<1> QED BY <1>1, OpIsOp DEF AskBatch, NoQuery, Types, LinkOK

LEMMA AskBatchTypes ==
    ASSUME Types, NEW t \in batch, AskBatch(t)
    PROVE  Types'
<1>1. QueryOK' /\ query'.phase # "answered"
  BY AskBatchFacts DEF QueryOK, Listing, Phases, Taken
<1>2. ChannelOK' /\ AnswerOK'
  <2>1. query.phase # "answered" BY AskBatchFacts DEF NoQuery
  <2> QED BY <1>1, <2>1, WireWithoutAnswer DEF AskBatch
<1>3. DatabaseOK' /\ PipelineOK'
  BY DEF AskBatch, database, listener, Types, DatabaseOK, PipelineOK
<1>4. LinkOK' BY AskBatchFacts DEF AskBatch, listener, Types, LinkOK
<1> QED BY <1>1, <1>2, <1>3, <1>4 DEF Types

(* A failed query leaves the wire as it was, but for its answer. *)
LEMMA FailFacts ==
    ASSUME Types, QueryFails
    PROVE  /\ query' = NoQuery /\ connected
           /\ channel' \in Seq(Events) /\ DOMAIN channel' = DOMAIN channel /\ Answers' = {}
           /\ \A i \in DOMAIN channel :
                  channel'[i] = channel[i] \/ (channel[i].kind = "answer" /\ channel'[i].kind = "late")
           /\ missed' = missed \cup Lost
<1>1. query' = NoQuery /\ connected /\ missed' = missed \cup Lost BY DEF QueryFails, Types, LinkOK
<1>2. DOMAIN channel' = DOMAIN channel
      /\ \A i \in DOMAIN channel : channel'[i] = IF channel[i].kind = "answer"
                                                 THEN Event("late", None, None) ELSE channel[i]
  BY DEF QueryFails
<1>3. Event("late", None, None) \in Events /\ Event("late", None, None).kind = "late"
  BY EventType DEF Kinds
<1>4. channel' \in Seq(Events)
  <2>1. \A i \in DOMAIN channel : channel[i] \in Events /\ channel'[i] \in Events
    BY <1>2, <1>3, ElementOfSeq, LenProperties DEF Types, ChannelOK
  <2>2. Len(channel) \in Nat /\ DOMAIN channel = 1..Len(channel) BY LenProperties DEF Types, ChannelOK
  <2>3. channel' = [i \in 1..Len(channel) |-> channel'[i]] BY <1>2, <2>2 DEF QueryFails
  <2> QED BY <2>1, <2>2, <2>3, IsASeq
<1> QED BY <1>1, <1>2, <1>3, <1>4 DEF Answers

LEMMA FailTypes ==
    ASSUME Types, QueryFails
    PROVE  Types'
<1>1. QueryOK' /\ query'.phase = "none" BY FailFacts, QueryDone
<1>2. AnswerOK' BY <1>1, FailFacts DEF AnswerOK
<1>3. ChannelOK' BY FailFacts DEF QueryFails, Types, ChannelOK
<1>4. DatabaseOK' BY DEF QueryFails, database, listener, Types, DatabaseOK
<1>5. PipelineOK'
  <2>1. Lost \subseteq Threads BY DEF Lost, Types, DatabaseOK
  <2> QED BY <2>1, FailFacts DEF QueryFails, Types, PipelineOK
<1>6. LinkOK' BY FailFacts DEF QueryFails, listener, Types, LinkOK
<1> QED BY <1>1, <1>2, <1>3, <1>4, <1>5, <1>6 DEF Types

LEMMA LateTypes ==
    ASSUME Types, ReceiveLate
    PROVE  Types'
<1>1. ChannelOK' /\ AnswerOK' BY ReadKeeps DEF ReceiveLate
<1>2. QueryOK' BY QueryKept DEF ReceiveLate, Types
<1>3. DatabaseOK' /\ PipelineOK' /\ LinkOK'
  BY DEF ReceiveLate, database, listener, progress, Types, DatabaseOK, PipelineOK, LinkOK
<1> QED BY <1>1, <1>2, <1>3 DEF Types

LEMMA AskTypes ==
    ASSUME Types, NEW op \in due, Ask(op)
    PROVE  Types'
<1>1. QueryOK' /\ query'.phase # "answered"
  <2>1. CASE query' = NoQuery BY <2>1, QueryDone
  <2>2. CASE query' = [op |-> op, phase |-> "asked", answer |-> {}, existing |-> {}]
    BY <2>2, AskFacts DEF QueryOK, Listing, Phases, Taken
  <2> QED BY <2>1, <2>2, AskFacts
<1>2. ChannelOK' /\ AnswerOK'
  <2>1. query.phase # "answered" BY AskFacts DEF NoQuery
  <2> QED BY <1>1, <2>1, WireWithoutAnswer DEF Ask
<1>3. DatabaseOK' /\ PipelineOK'
  BY AskFacts DEF Ask, database, listener, progress, Types, DatabaseOK, PipelineOK
<1>4. LinkOK' BY AskFacts DEF Ask, listener, Types, LinkOK
<1> QED BY <1>1, <1>2, <1>3, <1>4 DEF Types

(* What moves the pipeline on without a query or an event. *)
Pipeline ==
    Advance \/ InterruptExpires \/ RequestThreadListResync \/ \E t \in Threads : OpenThread(t)

LEMMA PipelineFrame ==
    ASSUME Pipeline
    PROVE  /\ phone' = phone /\ born' = born /\ channel' = channel /\ connected' = connected
           /\ local' = local /\ convs' = convs /\ fully' = fully /\ covered' = covered
           /\ query' = query /\ (stage' = stage \/ stage # "off")
  BY DEF Pipeline, Advance, BatchStarts, BatchEnds, QueueEnds, InterruptExpires,
      RequestThreadListResync, OpenThread, database

LEMMA PipelineTypes ==
    ASSUME Types, Pipeline
    PROVE  Types'
<1>1. QueryOK' BY PipelineFrame, QueryKept DEF Types
<1>2. ChannelOK' /\ AnswerOK' BY PipelineFrame, WireKept
<1>3. flagged' \subseteq flagged /\ syncActive' \in BOOLEAN
  BY PipelineFrame DEF Pipeline, Advance, BatchStarts, BatchEnds, QueueEnds, InterruptExpires,
      RequestThreadListResync, OpenThread, listener, Types, LinkOK
<1>4. DatabaseOK' BY <1>3, PipelineFrame DEF Types, DatabaseOK
<1>5. LinkOK' BY <1>3, PipelineFrame DEF Types, LinkOK
<1>6. PipelineOK'
  <2>1. BackgroundFullSyncs \subseteq Ops /\ FlaggedSyncs \subseteq Ops
    BY OpIsOp DEF BackgroundFullSyncs, FlaggedSyncs, Types, DatabaseOK
  <2>2. CASE BatchStarts
    BY <2>2 DEF BatchStarts, Batch, Types, DatabaseOK, PipelineOK
  <2>3. CASE BatchEnds BY <2>1, <2>3 DEF BatchEnds, Types, PipelineOK
  <2>4. CASE QueueEnds BY <2>1, <2>4 DEF QueueEnds, progress, Types, PipelineOK
  <2>5. CASE InterruptExpires BY <2>5 DEF InterruptExpires, Types, PipelineOK
  <2>6. CASE RequestThreadListResync
    BY <2>6 DEF RequestThreadListResync, InsertPriorityOp, Ops, Types, PipelineOK
  <2>7. ASSUME NEW t \in Threads, OpenThread(t) PROVE PipelineOK'
    <3>1. Op("full", t) \in Ops /\ Op("quick", t) \in Ops /\ Op("count", t) \in Ops BY OpIsOp
    <3> QED BY <2>7, <3>1 DEF OpenThread, InsertPriorityOp, Types, PipelineOK
  <2> QED BY <2>2, <2>3, <2>4, <2>5, <2>6, <2>7 DEF Pipeline, Advance
<1> QED BY <1>1, <1>2, <1>4, <1>5, <1>6 DEF Types

LEMMA ConnectTypes ==
    ASSUME Types, Connect
    PROVE  Types'
<1>1. QueryOK' BY QueryKept DEF Connect, Types
<1>2. ChannelOK' /\ AnswerOK' BY WireKept DEF Connect
<1>3. DatabaseOK' BY DEF Connect, Types, DatabaseOK
<1>4. LinkOK' BY DEF Connect, Types, LinkOK
<1>5. PipelineOK'
  <2>1. \A t \in Threads : Op("count", t) \in Ops /\ List \in Ops BY OpIsOp
  <2>2. List \in Ops BY DEF Ops
  <2>3. due' \subseteq Ops BY <2>1, <2>2 DEF Connect
  <2> QED BY <2>3 DEF Connect, progress, Types, PipelineOK
<1> QED BY <1>1, <1>2, <1>3, <1>4, <1>5 DEF Types

LEMMA BreakTypes ==
    ASSUME Types, LinkBreaks
    PROVE  Types'
<1>1. QueryOK' /\ query'.phase = "none" BY QueryDone DEF LinkBreaks
<1>2. ChannelOK' /\ AnswerOK' BY <1>1, EmptyWire DEF LinkBreaks, ChannelOK, AnswerOK, Answers
<1>3. DatabaseOK' BY DEF LinkBreaks, database, Types, DatabaseOK
<1>4. LinkOK' BY DEF LinkBreaks, Types, LinkOK
<1>5. PipelineOK' BY DEF LinkBreaks, Types, PipelineOK
<1> QED BY <1>1, <1>2, <1>3, <1>4, <1>5 DEF Types

LEMMA TypesStep ==
    ASSUME Types, [Next]_vars
    PROVE  Types'
<1>1. CASE UNCHANGED vars
  <2>1. QueryOK' BY <1>1, QueryKept DEF vars, Types
  <2>2. ChannelOK' /\ AnswerOK' BY <1>1, WireKept DEF vars
  <2>3. DatabaseOK' /\ PipelineOK' /\ LinkOK'
    BY <1>1 DEF vars, database, listener, progress, Types, DatabaseOK, PipelineOK, LinkOK
  <2> QED BY <2>1, <2>2, <2>3 DEF Types
<1> QED BY <1>1, PhoneTypes, AnsweringTypes, SendingTypes, EventTypes, AnswerTypes, LateTypes, AskTypes,
           AskBatchTypes, FailTypes, PipelineTypes, ConnectTypes, BreakTypes
        DEF Next, Pipeline

LEMMA TypesInit == ASSUME Init PROVE Types
<1>1. ChannelOK /\ AnswerOK BY DEF Init, ChannelOK, AnswerOK, Answers, NoQuery
<1>2. QueryOK BY DEF Init, QueryOK, Listing, NoQuery, Phases, Taken
<1>3. DatabaseOK /\ PipelineOK /\ LinkOK BY DEF Init, DatabaseOK, PipelineOK, LinkOK
<1> QED BY <1>1, <1>2, <1>3 DEF Types

LEMMA TypesImplyTypeOK == ASSUME Types PROVE TypeOK
<1>1. query.op \in Ops \cup {None} /\ query.phase \in {"none", "asked", "answering", "answered"}
  BY DEF Types, QueryOK, NoQuery, Phases
<1>2. (query.phase = "answered") <=> (\E i \in DOMAIN channel : channel[i].kind = "answer")
  BY DEF Types, AnswerOK, Answers
<1>3. connected \in BOOLEAN /\ syncActive \in BOOLEAN
      /\ ((~connected) => (channel = <<>> /\ query = NoQuery /\ stage = "off"))
  BY DEF Types, LinkOK
<1>4. /\ phone \subseteq born /\ born \subseteq Messages /\ local \subseteq born
      /\ fully \subseteq convs /\ convs \subseteq Threads /\ flagged \subseteq Threads
      /\ covered \in [Threads -> SUBSET Messages]
  BY DEF Types, DatabaseOK
<1>5. stage \in {"off", "list", "batch", "background", "ready"} /\ due \subseteq Ops
      /\ batch \subseteq Threads /\ missed \subseteq Threads /\ interrupted \in BOOLEAN
  BY DEF Types, PipelineOK
<1> QED BY <1>1, <1>2, <1>3, <1>4, <1>5 DEF TypeOK

--------------------
(* Truth *)

(* All that the wire brings exists. *)
LEMMA BroughtIsBorn ==
    ASSUME Types, NEW i \in DOMAIN channel, NEW m \in Brings(channel[i])
    PROVE  m \in born
  BY DEF Brings, Types, ChannelOK, QueryOK

(* The phone only loses what existed, and the wire says so. *)
LEMMA PhoneTruth ==
    ASSUME Types, Truth, PhoneChanges
    PROVE  Truth'
<1> USE MessageAssumption
<1>1. query' = query /\ local' = local /\ Listing' = Listing BY DEF PhoneChanges, database, Listing
<1>2. SnapshotIsTrue'
  <2>1. \A m \in query.existing : m \in phone' => m \in phone
    BY DEF PhoneChanges, NewMessage, DeleteMessage, DeleteThread, Types, QueryOK
  <2> QED BY <1>1, <2>1 DEF Truth, SnapshotIsTrue
<1>3. ASSUME NEW e \in Events, Push(e),
             e.kind = "deleted" => e.message \in born' \ phone',
             e.kind = "thread_deleted" => \A m \in phone' : ThreadOf[m] # e.thread,
             born \subseteq born',
             \A m \in born : m \in phone' => m \in phone
      PROVE  DeletedIsGone' /\ ThreadIsGone'
  <2>1. CASE ~connected
    <3>1. DOMAIN channel' = {} BY <1>3, <2>1 DEF Push, Types, LinkOK
    <3> QED BY <3>1 DEF DeletedIsGone, ThreadIsGone
  <2>2. CASE connected
    <3>1. channel' = Append(channel, e) BY <1>3, <2>2 DEF Push
    <3>2. DeletedIsGone' BY <1>3, <3>1, PushFacts DEF Truth, DeletedIsGone, Types, ChannelOK
    <3>3. ASSUME NEW i \in DOMAIN channel', channel'[i].kind = "thread_deleted"
          PROVE  \A m \in local' : ThreadOf[m] = channel'[i].thread => m \notin phone'
      <4>1. CASE channel'[i] = e BY <1>3, <3>3, <4>1
      <4>2. CASE i \in DOMAIN channel
        <5>1. channel'[i] = channel[i] BY <3>1, <4>2, PushFacts DEF Types, ChannelOK
        <5> QED BY <1>1, <1>3, <3>3, <4>2, <5>1 DEF Truth, ThreadIsGone, Types, DatabaseOK
      <4> QED BY <3>1, <4>1, <4>2, PushFacts DEF Types, ChannelOK
    <3>4. ASSUME NEW i \in DOMAIN channel', channel'[i].kind = "thread_deleted",
                 NEW j \in DOMAIN channel', j < i, NEW m \in Brings(channel[j])',
                 ThreadOf[m] = channel'[i].thread
          PROVE  m \notin phone'
      <4>1. CASE channel'[i] = e BY <1>3, <3>4, <4>1
      <4>2. CASE i \in DOMAIN channel
        <5>1. j \in DOMAIN channel BY <3>1, <3>4, PushFacts DEF Types, ChannelOK
        <5>2. channel'[i] = channel[i] /\ channel'[j] = channel[j]
          BY <3>1, <4>2, <5>1, PushFacts DEF Types, ChannelOK
        <5>3. m \in Brings(channel[j]) BY <1>1, <3>4, <5>2 DEF Brings
        <5>4. m \in born BY <5>1, <5>3, BroughtIsBorn
        <5>5. m \notin phone BY <3>4, <4>2, <5>1, <5>2, <5>3 DEF Truth, ThreadIsGone
        <5> QED BY <1>3, <5>4, <5>5
      <4> QED BY <3>1, <4>1, <4>2, PushFacts DEF Types, ChannelOK
    <3> QED BY <3>2, <3>3, <3>4 DEF ThreadIsGone
  <2> QED BY <2>1, <2>2
<1>4. ASSUME NEW m \in Messages, NewMessage(m) PROVE DeletedIsGone' /\ ThreadIsGone'
  <2>1. Event("new", m, ThreadOf[m]) \in Events /\ Event("new", m, ThreadOf[m]).kind = "new"
    BY EventType DEF Kinds
  <2>2. Push(Event("new", m, ThreadOf[m])) /\ born \subseteq born'
        /\ \A n \in born : n \in phone' => n \in phone
    BY <1>4 DEF NewMessage
  <2> QED BY <1>3, <2>1, <2>2
<1>5. ASSUME NEW m \in Messages, DeleteMessage(m) PROVE DeletedIsGone' /\ ThreadIsGone'
  <2>1. Event("deleted", m, ThreadOf[m]) \in Events
        /\ Event("deleted", m, ThreadOf[m]).kind = "deleted"
        /\ Event("deleted", m, ThreadOf[m]).message = m
    BY EventType DEF Kinds
  <2>2. Push(Event("deleted", m, ThreadOf[m])) /\ born' = born /\ m \in born' \ phone'
        /\ \A n \in born : n \in phone' => n \in phone
    BY <1>5 DEF DeleteMessage, Types, DatabaseOK
  <2> QED BY <1>3, <2>1, <2>2
<1>6. ASSUME NEW t \in Threads, DeleteThread(t) PROVE DeletedIsGone' /\ ThreadIsGone'
  <2>1. Event("thread_deleted", None, t) \in Events
        /\ Event("thread_deleted", None, t).kind = "thread_deleted"
        /\ Event("thread_deleted", None, t).thread = t
    BY EventType DEF Kinds
  <2>2. Push(Event("thread_deleted", None, t)) /\ born' = born
        /\ (\A m \in phone' : ThreadOf[m] # t)
        /\ \A n \in born : n \in phone' => n \in phone
    BY <1>6 DEF DeleteThread, In
  <2> QED BY <1>3, <2>1, <2>2
<1> QED BY <1>2, <1>4, <1>5, <1>6 DEF PhoneChanges, Truth

(* What a step that leaves the phone and the wire alone keeps. *)
LEMMA TruthKept ==
    ASSUME Types, Truth, channel' = channel, phone' = phone, born' = born, local' = local,
           (Listing' = Listing /\ query'.answer = query.answer) \/ Answers = {}
    PROVE  DeletedIsGone' /\ ThreadIsGone'
<1>1. DeletedIsGone' BY DEF Truth, DeletedIsGone
<1>2. \A i \in DOMAIN channel : Brings(channel[i])' = Brings(channel[i]) BY DEF Brings, Answers
<1>3. ThreadIsGone' BY <1>2 DEF Truth, ThreadIsGone
<1> QED BY <1>1, <1>3

LEMMA NoWireTruth ==
    ASSUME channel' = <<>>
    PROVE  DeletedIsGone' /\ ThreadIsGone'
  BY EmptyWire DEF DeletedIsGone, ThreadIsGone

LEMMA AnsweringTruth ==
    ASSUME Types, Truth, PhoneAnswers
    PROVE  Truth'
<1>1. Answers = {} BY Answering DEF Types, AnswerOK
<1>2. DeletedIsGone' /\ ThreadIsGone' BY <1>1, TruthKept DEF PhoneAnswers, database
<1>3. SnapshotIsTrue'
  <2>1. ASSUME query'.op.kind = "full" PROVE query'.answer = In(query'.op.thread, phone)
    BY <2>1, Answering DEF Snapshots
  <2>2. phone' = phone BY DEF PhoneAnswers
  <2> QED BY <2>1, <2>2 DEF SnapshotIsTrue, In, Types, DatabaseOK
<1> QED BY <1>2, <1>3 DEF Truth

LEMMA SendingTruth ==
    ASSUME Types, Truth, PhoneSendsLastPage
    PROVE  Truth'
<1> DEFINE e == Event("answer", None, query.op.thread)
<1>1. channel' = Append(channel, e) /\ e \in Events /\ e.kind = "answer"
  BY Sending DEF PhoneSendsLastPage
<1>2. phone' = phone /\ born' = born /\ local' = local BY DEF PhoneSendsLastPage, database
<1>3. Listing' = Listing /\ query'.answer = query.answer BY Sending DEF Listing, Taken
<1> HIDE DEF e
<1>4. DeletedIsGone' BY <1>1, <1>2, PushFacts DEF Truth, DeletedIsGone, Types, ChannelOK
<1>5. ASSUME NEW i \in DOMAIN channel', channel'[i].kind = "thread_deleted"
      PROVE  /\ i \in DOMAIN channel /\ channel'[i] = channel[i]
             /\ \A j \in DOMAIN channel' : j < i =>
                    /\ j \in DOMAIN channel
                    /\ Brings(channel[j])' = Brings(channel[j])
  <2>1. i \in DOMAIN channel /\ channel'[i] = channel[i]
    BY <1>1, <1>5, PushFacts DEF Types, ChannelOK
  <2>2. \A j \in DOMAIN channel' : j < i => j \in DOMAIN channel /\ channel'[j] = channel[j]
    BY <1>1, PushFacts DEF Types, ChannelOK
  <2> QED BY <1>3, <2>1, <2>2 DEF Brings
<1>6. ThreadIsGone' BY <1>2, <1>5 DEF Truth, ThreadIsGone
<1>7. SnapshotIsTrue' BY <1>2, Sending DEF Truth, SnapshotIsTrue, Taken
<1> QED BY <1>4, <1>6, <1>7 DEF Truth

(* Reading an event: the others move up, and what it brought is now local. *)
LEMMA ReadTruth ==
    ASSUME Types, Truth, channel # <<>>, channel' = Tail(channel), phone' = phone, born' = born,
           \A m \in local' : m \in local \/ m \in Brings(channel[1]),
           \/ query' = query
           \/ query' = NoQuery
    PROVE  DeletedIsGone' /\ ThreadIsGone'
<1>1. DeletedIsGone' BY ReadFacts DEF Truth, DeletedIsGone, Types, ChannelOK
<1>2. \A i \in DOMAIN channel' : i + 1 \in DOMAIN channel /\ i + 1 > 1 /\ channel'[i] = channel[i + 1]
  BY ReadFacts DEF Types, ChannelOK
<1>3. \A i \in DOMAIN channel' : Brings(channel[i])' \subseteq Brings(channel[i + 1])
  <2>1. CASE query' = query BY <1>2, <2>1 DEF Brings, Listing
  <2>2. CASE query' = NoQuery BY <1>2, <2>2, QueryDone DEF Brings
  <2> QED BY <2>1, <2>2
<1>4. \A i, j \in DOMAIN channel' : j < i => j + 1 < i + 1 BY ReadFacts DEF Types, ChannelOK
<1>5. 1 \in DOMAIN channel BY ReadFacts DEF Types, ChannelOK
<1>6. ThreadIsGone'
  <2>1. SUFFICES ASSUME NEW i \in DOMAIN channel', channel'[i].kind = "thread_deleted"
                 PROVE  /\ \A m \in local' : ThreadOf[m] = channel'[i].thread => m \notin phone
                        /\ \A j \in DOMAIN channel' : j < i =>
                               \A m \in Brings(channel[j])' : ThreadOf[m] = channel'[i].thread => m \notin phone
    BY DEF ThreadIsGone
  <2>2. /\ i + 1 \in DOMAIN channel /\ 1 < i + 1
        /\ channel[i + 1].kind = "thread_deleted" /\ channel[i + 1].thread = channel'[i].thread
    BY <1>2, <2>1, ReadFacts DEF Types, ChannelOK
  <2>3. /\ \A m \in local : ThreadOf[m] = channel[i + 1].thread => m \notin phone
        /\ \A j \in DOMAIN channel : j < i + 1 =>
               \A m \in Brings(channel[j]) : ThreadOf[m] = channel[i + 1].thread => m \notin phone
    BY <2>2 DEF Truth, ThreadIsGone
  <2>4. \A m \in local' : ThreadOf[m] = channel'[i].thread => m \notin phone BY <1>5, <2>2, <2>3
  <2>5. ASSUME NEW j \in DOMAIN channel', j < i, NEW m \in Brings(channel[j])',
               ThreadOf[m] = channel'[i].thread
        PROVE  m \notin phone
    <3>1. j + 1 \in DOMAIN channel /\ j + 1 < i + 1 /\ m \in Brings(channel[j + 1])
      BY <1>2, <1>3, <1>4, <2>5
    <3> QED BY <2>2, <2>3, <2>5, <3>1
  <2> QED BY <2>4, <2>5
<1> QED BY <1>1, <1>6

LEMMA EventTruth ==
    ASSUME Types, Truth, ReceiveEvent
    PROVE  Truth'
<1>1. \A m \in local' : m \in local \/ m \in Brings(channel[1])
  BY ReadFacts DEF ReceiveEvent, NewMessageEvent, DeletedEvent, ThreadDeletedEvent, Brings, Types,
    ChannelOK
<1>2. DeletedIsGone' /\ ThreadIsGone' BY <1>1, ReadTruth DEF ReceiveEvent
<1>3. SnapshotIsTrue' BY DEF ReceiveEvent, Truth, SnapshotIsTrue
<1> QED BY <1>2, <1>3 DEF Truth

LEMMA AnswerTruth ==
    ASSUME Types, Truth, ReceiveAnswer
    PROVE  Truth'
<1>1. channel[1].kind = "answer" /\ query.phase \in Taken
  BY Answered, ReadFacts DEF ReceiveAnswer, Types, ChannelOK, Taken
<1>2. \A m \in local' : m \in local \/ m \in Brings(channel[1])
  BY <1>1 DEF ReceiveAnswer, FullThreadSync, QuickMessageSync, ThreadListSync, VerifyThreadCount,
              Brings, Listing
<1>3. DeletedIsGone' /\ ThreadIsGone' BY <1>2, ReadTruth DEF ReceiveAnswer
<1>4. SnapshotIsTrue' BY Answered DEF SnapshotIsTrue, NoQuery, Taken
<1> QED BY <1>3, <1>4 DEF Truth

LEMMA AskTruth ==
    ASSUME Types, Truth, NEW op \in due, Ask(op)
    PROVE  Truth'
<1>1. query.phase # "answered" /\ query'.phase \notin Taken BY AskFacts DEF NoQuery, Taken
<1>2. Answers = {} BY <1>1 DEF Types, AnswerOK
<1>3. DeletedIsGone' /\ ThreadIsGone' BY <1>2, TruthKept DEF Ask, database
<1>4. SnapshotIsTrue' BY <1>1 DEF SnapshotIsTrue
<1> QED BY <1>3, <1>4 DEF Truth

LEMMA AskBatchTruth ==
    ASSUME Types, Truth, NEW t \in batch, AskBatch(t)
    PROVE  Truth'
<1>1. query.phase # "answered" /\ query'.phase \notin Taken BY AskBatchFacts DEF NoQuery, Taken
<1>2. Answers = {} BY <1>1 DEF Types, AnswerOK
<1>3. DeletedIsGone' /\ ThreadIsGone' BY <1>2, TruthKept DEF AskBatch, database
<1>4. SnapshotIsTrue' BY <1>1 DEF SnapshotIsTrue
<1> QED BY <1>3, <1>4 DEF Truth

LEMMA FailTruth ==
    ASSUME Types, Truth, QueryFails
    PROVE  Truth'
<1>1. phone' = phone /\ born' = born /\ local' = local BY DEF QueryFails, database
<1>2. SnapshotIsTrue' BY FailFacts DEF SnapshotIsTrue, NoQuery, Taken
<1>3. DeletedIsGone' BY <1>1, FailFacts DEF Truth, DeletedIsGone
<1>4. \A i \in DOMAIN channel : Brings(channel[i])' \subseteq Brings(channel[i])
  BY FailFacts, QueryDone DEF Brings
<1>5. ThreadIsGone'
  <2>1. \A i \in DOMAIN channel' : channel'[i].kind = "thread_deleted" => channel'[i] = channel[i]
    BY FailFacts
  <2> QED BY <1>1, <1>4, <2>1, FailFacts DEF Truth, ThreadIsGone
<1> QED BY <1>2, <1>3, <1>5 DEF Truth

LEMMA LateTruth ==
    ASSUME Types, Truth, ReceiveLate
    PROVE  Truth'
<1>1. DeletedIsGone' /\ ThreadIsGone' BY ReadTruth DEF ReceiveLate, database
<1>2. SnapshotIsTrue' BY DEF ReceiveLate, Truth, SnapshotIsTrue
<1> QED BY <1>1, <1>2 DEF Truth

LEMMA PipelineTruth ==
    ASSUME Types, Truth, channel' = channel, phone' = phone, born' = born, local' = local, query' = query
    PROVE  Truth'
<1>1. Listing' = Listing BY DEF Listing
<1>2. DeletedIsGone' /\ ThreadIsGone' BY <1>1, TruthKept
<1>3. SnapshotIsTrue' BY DEF Truth, SnapshotIsTrue
<1> QED BY <1>2, <1>3 DEF Truth

LEMMA BreakTruth ==
    ASSUME LinkBreaks
    PROVE  Truth'
<1>1. DeletedIsGone' /\ ThreadIsGone' BY NoWireTruth DEF LinkBreaks
<1>2. SnapshotIsTrue' BY DEF LinkBreaks, SnapshotIsTrue, NoQuery, Taken
<1> QED BY <1>1, <1>2 DEF Truth

LEMMA TruthStep ==
    ASSUME Types, Truth, [Next]_vars
    PROVE  Truth'
<1>1. CASE UNCHANGED vars BY <1>1, PipelineTruth DEF vars, database
<1>2. CASE Pipeline BY <1>2, PipelineFrame, PipelineTruth
<1>3. CASE Connect BY <1>3, PipelineTruth DEF Connect
<1> QED
  BY <1>1, <1>2, <1>3, PhoneTruth, AnsweringTruth, SendingTruth, EventTruth, AnswerTruth,
           LateTruth, AskTruth, AskBatchTruth, FailTruth, BreakTruth
        DEF Next, Pipeline

LEMMA TruthInit == ASSUME Init PROVE Truth
  BY DEF Init, Truth, DeletedIsGone, ThreadIsGone, SnapshotIsTrue, NoQuery, Taken

(* What a step removes from the database is gone from the phone: the message *)
(* of a deletion, the messages of a deleted thread, and the messages that *)
(* existed when a full sync took its snapshot and are not in it. *)
LEMMA RemovedIsGone ==
    ASSUME Types, Truth, [Next]_vars
    PROVE  \A m \in local \ local' : m \notin phone
<1>1. CASE ReceiveEvent
  <2>1. channel[1] = Head(channel) /\ 1 \in DOMAIN channel
    BY <1>1, ReadFacts DEF ReceiveEvent, Types, ChannelOK
  <2>2. channel[1].kind = "deleted" => channel[1].message \notin phone
    BY <2>1 DEF Truth, DeletedIsGone
  <2>3. channel[1].kind = "thread_deleted" => \A m \in local : ThreadOf[m] = channel[1].thread => m \notin phone
    BY <2>1 DEF Truth, ThreadIsGone
  <2> QED
    BY <1>1, <2>1, <2>2, <2>3 DEF ReceiveEvent, NewMessageEvent, DeletedEvent, ThreadDeletedEvent,
      In
<1>2. CASE ReceiveAnswer
  <2>1. query.phase \in Taken BY <1>2, Answered DEF Taken
  <2> QED
    BY <1>2, <2>1 DEF ReceiveAnswer, FullThreadSync, NoLongerOnPhone, QuickMessageSync,
      ThreadListSync,
                            VerifyThreadCount, In, Truth, SnapshotIsTrue
<1>3. CASE local' = local BY <1>3
<1> QED BY <1>1, <1>2, <1>3, PipelineFrame
        DEF Next, vars, PhoneChanges, PhoneAnswers, PhoneSendsLastPage, Ask, AskBatch, QueryFails,
            ReceiveLate, Pipeline, Connect, LinkBreaks, database

--------------------
(* Noted *)

(* Announcements stay on the wire until they are read. *)
LEMMA AnnouncedKept ==
    ASSUME Types, channel' = channel, NEW m, Announced(m)
    PROVE  Announced(m)'
  BY DEF Announced

LEMMA AnnouncedPushed ==
    ASSUME Types, NEW e \in Events, channel' = Append(channel, e)
    PROVE  /\ \A m : Announced(m) => Announced(m)'
           /\ e.kind = "new" => Announced(e.message)'
  BY PushFacts DEF Announced, Types, ChannelOK

LEMMA AnnouncedRead ==
    ASSUME Types, channel # <<>>, channel' = Tail(channel), NEW m, Announced(m)
    PROVE  Announced(m)' \/ (Head(channel).kind = "new" /\ Head(channel).message = m)
<1>1. PICK i \in DOMAIN channel : channel[i].kind = "new" /\ channel[i].message = m BY DEF Announced
<1>2. CASE i = 1 BY <1>1, <1>2, ReadFacts DEF Types, ChannelOK
<1>3. CASE i # 1
  <2>1. i - 1 \in DOMAIN channel' /\ channel'[i - 1] = channel[i]
    BY <1>3, ReadFacts DEF Types, ChannelOK
  <2> QED BY <1>1, <2>1 DEF Announced
<1> QED BY <1>2, <1>3

LEMMA PhoneNoted ==
    ASSUME Types, Noted, PhoneChanges
    PROVE  Noted'
<1> USE MessageAssumption
<1>1. /\ query' = query /\ local' = local /\ fully' = fully /\ covered' = covered
      /\ batch' = batch /\ missed' = missed /\ stage' = stage
  BY DEF PhoneChanges, database, progress
<1>2. ASSUME NEW e \in Events, Push(e) PROVE \A m : Announced(m) => Announced(m)'
  <2>1. CASE connected BY <1>2, <2>1, AnnouncedPushed DEF Push
  <2>2. CASE ~connected BY <1>2, <2>2, AnnouncedKept DEF Push
  <2> QED BY <2>1, <2>2
<1>3. ASSUME \A m : Announced(m) => Announced(m)', phone' \subseteq phone
      PROVE  Noted'
  BY <1>1, <1>3 DEF Noted, CoveredIsHere, YoungerIsAnnounced, QuickIsComplete, MissingIsNoted, Asked
<1>4. ASSUME NEW m \in Messages, NewMessage(m) PROVE Noted'
  <2>1. /\ Event("new", m, ThreadOf[m]) \in Events /\ Event("new", m, ThreadOf[m]).kind = "new"
        /\ Event("new", m, ThreadOf[m]).message = m
        /\ Push(Event("new", m, ThreadOf[m]))
    BY <1>4, EventType DEF Kinds, NewMessage
  <2>2. \A n : Announced(n) => Announced(n)' BY <1>2, <2>1
  <2>3. connected => Announced(m)' BY <2>1, AnnouncedPushed DEF Push
  <2>4. (~connected) => query.phase = "none" /\ stage = "off" BY DEF Types, LinkOK, NoQuery
  <2>5. phone' = phone \cup {m} /\ m \notin born BY <1>4 DEF NewMessage
  <2>6. CoveredIsHere' BY <1>1, <2>5 DEF Noted, CoveredIsHere, Types, DatabaseOK
  <2>7. YoungerIsAnnounced' BY <1>1, <2>2, <2>3, <2>4, <2>5 DEF Noted, YoungerIsAnnounced, Taken
  <2>8. MissingIsNoted' BY <1>1, <2>2, <2>3, <2>4, <2>5 DEF Noted, MissingIsNoted, Asked
  <2>9. QuickIsComplete' BY <1>1, <2>2, <2>3, <2>4, <2>5 DEF Noted, QuickIsComplete, Taken
  <2> QED BY <2>6, <2>7, <2>8, <2>9 DEF Noted
<1>5. ASSUME NEW m \in Messages, DeleteMessage(m) PROVE Noted'
  <2>1. Event("deleted", m, ThreadOf[m]) \in Events BY EventType DEF Kinds
  <2> QED BY <1>2, <1>3, <1>5, <2>1 DEF DeleteMessage
<1>6. ASSUME NEW t \in Threads, DeleteThread(t) PROVE Noted'
  <2>1. Event("thread_deleted", None, t) \in Events BY EventType DEF Kinds
  <2> QED BY <1>2, <1>3, <1>6, <2>1 DEF DeleteThread
<1> QED BY <1>4, <1>5, <1>6 DEF PhoneChanges

(* A full sync lists all there is; a quick one, what the desktop can lack. *)
LEMMA AnsweringNoted ==
    ASSUME Types, Noted, PhoneAnswers
    PROVE  Noted'
<1>1. /\ phone' = phone /\ born' = born /\ local' = local /\ fully' = fully /\ covered' = covered
      /\ batch' = batch /\ missed' = missed /\ stage' = stage /\ channel' = channel
  BY DEF PhoneAnswers, database, progress
<1>2. \A m : Announced(m) => Announced(m)' BY <1>1, AnnouncedKept
<1>3. CoveredIsHere' BY <1>1 DEF Noted, CoveredIsHere
<1>4. YoungerIsAnnounced' BY <1>1, Answering DEF YoungerIsAnnounced, Types, DatabaseOK
<1>5. QuickIsComplete'
  <2>1. SUFFICES ASSUME query.op.kind = "quick", query.op.thread \in fully,
                        NEW m \in phone, ThreadOf[m] = query.op.thread, m \notin local
                 PROVE  m \in query'.answer
    BY <1>1, Answering DEF QuickIsComplete
  <2>2. \/ query'.answer = In(query.op.thread, phone)
        \/ query'.answer = In(query.op.thread, phone \ covered[query.op.thread])
    BY <2>1, Answering DEF Snapshots
  <2>3. m \notin covered[query.op.thread] BY <2>1 DEF Noted, CoveredIsHere
  <2> QED BY <2>1, <2>2, <2>3 DEF In
<1>6. MissingIsNoted' BY <1>1, <1>2, Answering DEF Noted, MissingIsNoted, Asked
<1> QED BY <1>3, <1>4, <1>5, <1>6 DEF Noted

LEMMA SendingNoted ==
    ASSUME Types, Noted, PhoneSendsLastPage
    PROVE  Noted'
<1>1. /\ phone' = phone /\ born' = born /\ local' = local /\ fully' = fully /\ covered' = covered
      /\ batch' = batch /\ missed' = missed /\ stage' = stage
  BY DEF PhoneSendsLastPage, database, progress
<1>2. \A m : Announced(m) => Announced(m)' BY Sending, AnnouncedPushed DEF PhoneSendsLastPage
<1> QED
  BY <1>1, <1>2, Sending DEF Noted, CoveredIsHere, YoungerIsAnnounced, QuickIsComplete, MissingIsNoted,
    Asked, Taken

LEMMA EventNoted ==
    ASSUME Types, Truth, Noted, ReceiveEvent
    PROVE  Noted'
<1>1. /\ phone' = phone /\ born' = born /\ covered' = covered /\ query' = query /\ stage' = stage
      /\ fully' \subseteq fully /\ batch' = batch /\ missed' = missed
  BY DEF ReceiveEvent, NewMessageEvent, DeletedEvent, ThreadDeletedEvent, DeleteConversation
<1>2. \A m \in phone : m \in local => m \in local' BY <1>1, RemovedIsGone DEF Next
<1>3. \A m : Announced(m) => Announced(m)' \/ m \in local'
  <2>1. Head(channel).kind = "new" => Head(channel).message \in local'
    BY DEF ReceiveEvent, NewMessageEvent
  <2> QED BY <2>1, AnnouncedRead DEF ReceiveEvent
<1>4. CoveredIsHere' BY <1>1, <1>2 DEF Noted, CoveredIsHere
<1>5. YoungerIsAnnounced' BY <1>1, <1>2, <1>3 DEF Noted, YoungerIsAnnounced
<1>6. MissingIsNoted' BY <1>1, <1>2, <1>3 DEF Noted, MissingIsNoted, Asked
<1>7. QuickIsComplete' BY <1>1, <1>2, <1>3 DEF Noted, QuickIsComplete
<1> QED BY <1>4, <1>5, <1>6, <1>7 DEF Noted

LEMMA AnswerNoted ==
    ASSUME Types, Truth, Noted, ReceiveAnswer
    PROVE  Noted'
<1>1. phone' = phone /\ stage' = stage /\ batch' = batch BY DEF ReceiveAnswer
<1>2. query.phase = "answered" /\ query.op \in Ops /\ query'.phase = "none" BY Answered DEF NoQuery
<1>3. \A m \in phone : m \in local => m \in local' BY RemovedIsGone DEF Next
<1>4. \A m : Announced(m) => Announced(m)' BY AnnouncedRead DEF ReceiveAnswer
<1>5. YoungerIsAnnounced' /\ QuickIsComplete' BY <1>2 DEF YoungerIsAnnounced, QuickIsComplete, Taken
<1>6. CASE /\ query.op.kind = "full"
           /\ FullThreadSync(query.op.thread, query.answer, query.existing)
  <2> DEFINE t == query.op.thread
  <2>1. t \in Threads BY <1>2, <1>6, OpFacts
  <2>2. \A m \in query.existing \cap phone : ThreadOf[m] = t => m \in local'
    BY <1>2, <1>6 DEF FullThreadSync, Truth, SnapshotIsTrue, Taken
  <2>3. \A m \in phone \ query.existing : ThreadOf[m] = t => m \in local' \/ Announced(m)'
    BY <1>2, <1>3, <1>4, <1>6 DEF Noted, YoungerIsAnnounced, Taken
  <2>4. /\ fully' \subseteq fully \cup {t} /\ missed' = missed \ {t}
        /\ covered'[t] = query.existing
        /\ \A s \in Threads : s # t => covered'[s] = covered[s]
    BY <1>6, <2>1 DEF FullThreadSync, MarkThreadFullySynced, Types, DatabaseOK
  <2>5. fully' \subseteq Threads BY <2>1, <2>4 DEF Types, DatabaseOK
  <2>6. \A s \in Threads : query.op # Op("quick", s) BY <1>6, OpIsOp
  <2> HIDE DEF t
  <2>7. CoveredIsHere' BY <1>1, <1>3, <2>2, <2>4, <2>5 DEF Noted, CoveredIsHere
  <2>8. MissingIsNoted'
    BY <1>1, <1>3, <1>4, <2>2, <2>3, <2>4, <2>5, <2>6 DEF Noted, MissingIsNoted, Asked
  <2> QED BY <1>5, <2>7, <2>8 DEF Noted
<1>7. CASE query.op.kind = "quick" /\ QuickMessageSync(query.op.thread, query.answer)
  <2> DEFINE t == query.op.thread
  <2>1. /\ fully' = fully /\ covered' = covered /\ query.answer \subseteq local'
        /\ missed' = missed \ {t}
    BY <1>7 DEF QuickMessageSync
  <2>2. CoveredIsHere' BY <1>1, <1>3, <2>1 DEF Noted, CoveredIsHere
  <2>3. t \in fully => \A m \in phone : ThreadOf[m] = t => m \in local' \/ Announced(m)'
    BY <1>2, <1>3, <1>4, <1>7, <2>1 DEF Noted, QuickIsComplete, Taken
  <2>4. \A s \in Threads : query.op = Op("quick", s) => s = t BY OpIsOp
  <2> HIDE DEF t
  <2>5. MissingIsNoted'
    BY <1>1, <1>3, <1>4, <2>1, <2>3, <2>4 DEF Noted, MissingIsNoted, Asked, Types, DatabaseOK
  <2> QED BY <1>5, <2>2, <2>5 DEF Noted
<1>8. CASE \/ query.op.kind = "list" /\ ThreadListSync(query.answer)
           \/ query.op.kind = "count" /\ VerifyThreadCount(query.op.thread, query.answer)
  <2>1. fully' \subseteq fully /\ covered' = covered /\ missed' = missed
    BY <1>8 DEF ThreadListSync, VerifyThreadCount
  <2>2. \A s \in Threads : query.op # Op("quick", s) BY <1>8, OpIsOp
  <2>3. CoveredIsHere' BY <1>1, <1>3, <2>1 DEF Noted, CoveredIsHere
  <2>4. MissingIsNoted'
    BY <1>1, <1>3, <1>4, <2>1, <2>2 DEF Noted, MissingIsNoted, Asked, Types, DatabaseOK
  <2> QED BY <1>5, <2>3, <2>4 DEF Noted
<1> QED BY <1>6, <1>7, <1>8 DEF ReceiveAnswer

(* Outside the batch a query says nothing of what is missing; a thread of the *)
(* batch that is asked for is the one of the query. *)
LEMMA AskNoted ==
    ASSUME Types, Noted, (\E op \in due : Ask(op)) \/ (\E t \in batch : AskBatch(t))
    PROVE  Noted'
<1>1. /\ phone' = phone /\ local' = local /\ fully' = fully /\ covered' = covered
      /\ stage' = stage /\ channel' = channel /\ missed' = missed
  BY DEF Ask, AskBatch, database, progress
<1>2. \A m : Announced(m) => Announced(m)' BY <1>1, AnnouncedKept
<1>3. query'.phase \notin Taken /\ query.phase = "none" BY AskFacts, AskBatchFacts DEF NoQuery, Taken
<1>4. CoveredIsHere' /\ YoungerIsAnnounced' /\ QuickIsComplete'
  BY <1>1, <1>3 DEF Noted, CoveredIsHere, YoungerIsAnnounced, QuickIsComplete
<1>5. \A t \in Threads : Asked(t) => Asked(t)'
  <2>1. SUFFICES ASSUME NEW t \in Threads, stage = "batch", t \in batch
                 PROVE  t \in batch' \/ (query'.phase # "none" /\ query'.op = Op("quick", t))
    BY <1>1, <1>3 DEF Asked
  <2>2. PICK s \in batch : AskBatch(s) BY <2>1 DEF Ask
  <2>3. query'.op = Op("quick", s) /\ query'.phase = "asked" /\ batch' = batch \ {s}
    BY <2>2, AskBatchFacts DEF AskBatch
  <2> QED BY <2>1, <2>3
<1>6. MissingIsNoted' BY <1>1, <1>2, <1>5 DEF Noted, MissingIsNoted, Types, DatabaseOK
<1> QED BY <1>4, <1>6 DEF Noted

(* A thread whose query fails is missed, or is not one of the batch. *)
LEMMA FailNoted ==
    ASSUME Types, Noted, QueryFails
    PROVE  Noted'
<1>1. /\ phone' = phone /\ local' = local /\ fully' = fully /\ covered' = covered
      /\ stage' = stage /\ batch' = batch
  BY DEF QueryFails, database
<1>2. \A m : Announced(m) => Announced(m)' BY FailFacts DEF Announced
<1>3. query'.phase \notin Taken BY FailFacts DEF NoQuery, Taken
<1>4. CoveredIsHere' /\ YoungerIsAnnounced' /\ QuickIsComplete'
  BY <1>1, <1>3 DEF Noted, CoveredIsHere, YoungerIsAnnounced, QuickIsComplete
<1>5. \A t \in Threads : Asked(t) => Asked(t)'
  <2>1. \A t \in Threads : Op("quick", t).thread = t BY OpIsOp
  <2> QED BY <1>1, <2>1, FailFacts DEF Asked, Lost
<1>6. MissingIsNoted' BY <1>1, <1>2, <1>5 DEF Noted, MissingIsNoted, Types, DatabaseOK
<1> QED BY <1>4, <1>6 DEF Noted

LEMMA LateNoted ==
    ASSUME Types, Noted, ReceiveLate
    PROVE  Noted'
<1>1. /\ phone' = phone /\ local' = local /\ fully' = fully /\ covered' = covered /\ query' = query
      /\ stage' = stage /\ batch' = batch /\ missed' = missed
  BY DEF ReceiveLate, database, progress
<1>2. \A m : Announced(m) => Announced(m)' BY AnnouncedRead DEF ReceiveLate
<1> QED
  BY <1>1, <1>2 DEF Noted, CoveredIsHere, YoungerIsAnnounced, QuickIsComplete, MissingIsNoted, Asked

(* The batch has a turn for every fully synced thread but the missed ones; *)
(* what remains of an interrupted one is missed. *)
LEMMA PipelineNoted ==
    ASSUME Types, Noted, Pipeline
    PROVE  Noted'
<1>1. /\ phone' = phone /\ local' = local /\ fully' = fully /\ covered' = covered
      /\ query' = query /\ channel' = channel
  BY PipelineFrame
<1>2. \A m : Announced(m) => Announced(m)' BY <1>1, AnnouncedKept
<1>3. CoveredIsHere' /\ YoungerIsAnnounced' /\ QuickIsComplete'
  BY <1>1, <1>2 DEF Noted, CoveredIsHere, YoungerIsAnnounced, QuickIsComplete
<1>4. \A t \in fully : Asked(t) => Asked(t)'
  <2>1. CASE BatchStarts BY <2>1 DEF BatchStarts, Batch, Asked, Types, DatabaseOK
  <2>2. CASE BatchEnds BY <2>2 DEF BatchEnds, NoQuery, Asked
  <2>3. CASE QueueEnds BY <2>3 DEF QueueEnds, progress, Asked
  <2>4. CASE InterruptExpires BY <2>4 DEF InterruptExpires, Asked
  <2>5. CASE RequestThreadListResync BY <2>5 DEF RequestThreadListResync, Asked
  <2>6. ASSUME NEW t \in Threads, OpenThread(t) PROVE \A s \in fully : Asked(s) => Asked(s)'
    BY <2>6 DEF OpenThread, Asked
  <2> QED BY <2>1, <2>2, <2>3, <2>4, <2>5, <2>6 DEF Pipeline, Advance
<1>5. MissingIsNoted' BY <1>1, <1>2, <1>4 DEF Noted, MissingIsNoted
<1> QED BY <1>3, <1>5 DEF Noted

(* A new connection asks for everything again, and a broken one will. *)
LEMMA LinkNoted ==
    ASSUME Types, Noted, Connect \/ LinkBreaks
    PROVE  Noted'
<1>1. /\ phone' = phone /\ local' = local /\ covered' = covered /\ fully' \subseteq fully
      /\ stage' \in {"off", "list"}
  BY DEF Connect, LinkBreaks, database
<1>2. query'.phase \notin Taken BY DEF Connect, LinkBreaks, Types, LinkOK, NoQuery, Taken
<1>3. CoveredIsHere' BY <1>1 DEF Noted, CoveredIsHere
<1> QED BY <1>1, <1>2, <1>3 DEF Noted, YoungerIsAnnounced, QuickIsComplete, MissingIsNoted, Asked

LEMMA NotedStep ==
    ASSUME Types, Truth, Noted, [Next]_vars
    PROVE  Noted'
<1>1. CASE UNCHANGED vars
  <2>1. \A m : Announced(m) => Announced(m)' BY <1>1, AnnouncedKept DEF vars
  <2> QED
    BY <1>1, <2>1 DEF vars, database, progress, Noted, CoveredIsHere, YoungerIsAnnounced,
      QuickIsComplete, MissingIsNoted, Asked
<1> QED BY <1>1, PhoneNoted, AnsweringNoted, SendingNoted, EventNoted, AnswerNoted, LateNoted, AskNoted,
           FailNoted, PipelineNoted, LinkNoted
        DEF Next, Pipeline

LEMMA NotedInit == ASSUME Init PROVE Noted
  BY DEF Init, Noted, CoveredIsHere, YoungerIsAnnounced, QuickIsComplete, MissingIsNoted, NoQuery, Taken

--------------------
(* The theorems *)

LEMMA InvImpliesNothingMissing == ASSUME Inv PROVE NothingMissing
<1>1. SUFFICES ASSUME Settled, NEW t \in fully \ missed, NEW m \in phone, ThreadOf[m] = t
               PROVE  m \in local
  BY DEF NothingMissing, In
<1>2. ~Announced(m) BY <1>1 DEF Settled, Announced
<1>3. ~Asked(t) BY <1>1 DEF Settled, Asked
<1> QED BY <1>1, <1>2, <1>3 DEF Inv, Noted, MissingIsNoted

LEMMA Inductive == Spec => []Inv
<1>1. Init => Inv BY TypesInit, TruthInit, NotedInit DEF Inv
<1>2. Inv /\ [Next]_vars => Inv' BY TypesStep, TruthStep, NotedStep DEF Inv
<1> QED BY <1>1, <1>2, PTL DEF Spec

(* The state of the phone, the wire and the desktop is well formed: what the *)
(* desktop has existed, at most one query is out, and an answer is on the *)
(* wire exactly when the phone has sent the last page of the one in progress. *)
THEOREM TypeCorrect == Spec => []TypeOK
<1>1. Inv => TypeOK BY TypesImplyTypeOK DEF Inv
<1> QED BY <1>1, Inductive, PTL

(* No step of the event handlers or of a sync operation removes a message *)
(* that the phone still has (event-handler.ts, full-thread-sync.ts:103-114). *)
THEOREM NoneRemovedWrongly == Spec => OnlyDeletedIsRemoved
<1>1. Inv /\ [Next]_vars => [\A m \in local \ local' : m \notin phone]_vars BY RemovedIsGone DEF Inv
<1> QED BY <1>1, Inductive, PTL DEF Spec, OnlyDeletedIsRemoved

(* When the pipeline is ready and nothing is under way, the desktop has every *)
(* message the phone has of each fully synced thread whose turn in the batch *)
(* was not lost (sync-orchestrator.ts:507, 516, 539), or made up for since. *)
THEOREM SettledIsComplete == Spec => []NothingMissing
<1>1. Inv => NothingMissing BY InvImpliesNothingMissing
<1> QED BY <1>1, Inductive, PTL

--------------------
(* MessageStore *)

MsgNames == Msgs \union {Storage!One}
StatementKinds == {"message", "attachment", "media", "conversation", "synced", "unlink", "attachments", "row",
        "thread attachments", "thread messages", "thread", "both", "wipe files", "wipe rows"}
Statements == [op : StatementKinds, m : MsgNames]
News == [kind : {"new", "deleted", "thread"}, m : MsgNames]
Does(op, m) == [op |-> op, m |-> m]
NewsOf(m) == [kind |-> "new", m |-> m]

StoreTypes ==
    /\ phone \subseteq Msgs /\ msgs \subseteq Msgs /\ files \subseteq Msgs /\ fetching \subseteq Msgs
    /\ doomed \subseteq Msgs /\ listed \subseteq Msgs /\ atts \in [Msgs -> {"none", "row", "done"}]
    /\ kept \in Seq(News) /\ handled \in 0..Len(kept)
    /\ \A i \in DOMAIN kept : kept[i].kind # "thread" => kept[i].m \in Msgs
    /\ conv \in BOOLEAN /\ synced \in BOOLEAN /\ (synced => conv)
    /\ toPhone \in Seq(Msgs) /\ todo \in Seq(Statements)
    /\ \A i \in DOMAIN todo :
          todo[i].op \in {"message", "attachment", "media", "unlink", "attachments", "row", "both"} =>
              todo[i].m \in Msgs
    /\ page = <<>> \/ \E S, B \in SUBSET Msgs : page = <<S, B>>

(* What the statements of a program need before them and behind them: an *)
(* attachment follows the row of its message; the row of a message goes after *)
(* its attachments, and so do the rows of a conversation. *)
Follows(s, i) ==
    /\ s[i].op = "attachment" => s[i - 1] = Does("message", s[i].m)
    /\ s[i].op = "row" => s[i - 1] = Does("attachments", s[i].m)
    /\ s[i].op = "thread messages" => s[i - 1].op = "thread attachments"
Leads(s, i) == s[i].op = "message" => i + 1 \in DOMAIN s /\ s[i + 1] = Does("attachment", s[i].m)
Dependent == {"attachment", "row", "thread messages"}
WellOrdered(s) ==
    \A i \in DOMAIN s : /\ i = 1 => s[i].op \notin Dependent
                        /\ i # 1 => Follows(s, i)
                        /\ Leads(s, i)

(* The same of a program under way, whose first statement finds the database *)
(* as the one before it left it. *)
Prepared ==
    todo # <<>> =>
        /\ todo[1].op = "attachment" => todo[1].m \in msgs
        /\ todo[1].op = "row" => atts[todo[1].m] = "none"
        /\ todo[1].op = "thread messages" => \A m \in msgs : atts[m] = "none"
UnderWay ==
    /\ Prepared
    /\ \A i \in DOMAIN todo : (i # 1 => Follows(todo, i)) /\ Leads(todo, i)

(* A message is settled when no full synchronisation to come completes it: *)
(* the conversation counts as synchronised, or the message is newer than the *)
(* query whose answer is on its way. *)
IsSettled(m) == synced \/ (page # <<>> /\ m \notin page[2])

(* Why a statement may be made: a message that is settled has an event that *)
(* is kept; nobody wants what is deleted; and the flag is set last, when all *)
(* messages have their pictures listed or are to come. *)
Known(m) == m \in doomed \/ \E j \in DOMAIN kept : kept[j] = NewsOf(m)
Coming(m) == m \in doomed \/ \E j \in DOMAIN kept : j > handled /\ kept[j] = NewsOf(m)
ListedBefore(m, i) ==
    \E j \in DOMAIN todo : j < i /\ todo[j] \in {Does("attachment", m), Does("both", m)}
Grounds(i) ==
    LET s == todo[i] IN
    /\ s.op = "message" => s.m \in phone \union doomed /\ (IsSettled(s.m) => Known(s.m))
    /\ s.op \in {"attachments", "row"} => s.m \in doomed
    /\ s.op = "thread attachments" =>
          /\ \A j \in DOMAIN todo : todo[j].op # "message"
          /\ \A m \in msgs : Coming(m)
    /\ s.op = "media" =>
          s.m \in msgs \union listed /\ \A j \in DOMAIN todo : j < i => todo[j].op = "media"
    /\ s.op = "synced" =>
          /\ ~synced /\ page = <<>> /\ i = Len(todo)
          /\ \A j \in DOMAIN todo : j < i => todo[j].op \in {"message", "attachment", "both"}
          /\ \A m \in msgs : atts[m] = "none" => ListedBefore(m, i) \/ Coming(m)
Grounded == \A i \in DOMAIN todo : Grounds(i)

(* A deletion of the conversation is kept before the messages that came after *)
(* it; what the phone is told to delete is not wanted; and the answer to the *)
(* query of a full synchronisation finds a conversation without the flag. *)
Foretold ==
    /\ msgs \subseteq phone \union doomed
    /\ \A i \in DOMAIN kept :
          /\ kept[i].kind = "new" => kept[i].m \in phone \union doomed
          /\ kept[i].kind = "deleted" => kept[i].m \in doomed
          /\ kept[i].kind = "thread" =>
                \A m \in phone \ doomed : \E j \in DOMAIN kept : i < j /\ kept[j] = NewsOf(m)
    /\ \A i \in DOMAIN toPhone : toPhone[i] \in doomed
    /\ page # <<>> => ~synced /\ page[1] \subseteq phone \union doomed

(* Rows of attachments have their messages, or a media list brought them; and a settled message without one *)
(* is not wanted, or its event is to be handled, or is being handled. *)
Attached == \A m \in Msgs : atts[m] # "none" => m \in msgs \union listed
Owed ==
    \A m \in msgs : IsSettled(m) /\ atts[m] = "none" =>
        \/ Coming(m)
        \/ Known(m) /\ \E i \in DOMAIN todo : todo[i] = Does("attachment", m)

StoreInv == StoreTypes /\ UnderWay /\ Grounded /\ Foretold /\ Attached /\ Owed

LEMMA StoreInit == Storage!Init => StoreInv
<1> SUFFICES ASSUME Storage!Init PROVE StoreInv
  OBVIOUS
<1>1. /\ <<>> \in Seq(News) /\ <<>> \in Seq(Statements) /\ <<>> \in Seq(Msgs)
      /\ DOMAIN <<>> = {} /\ Len(<<>>) = 0
  OBVIOUS
<1>2. StoreTypes
  <2>1. kept = <<>> /\ todo = <<>> /\ toPhone = <<>> /\ page = <<>> BY DEF Storage!Init
  <2>2. /\ phone = {} /\ msgs = {} /\ files = {} /\ fetching = {} /\ doomed = {} /\ listed = {}
        /\ atts \in [Msgs -> {"none", "row", "done"}] /\ conv = FALSE /\ synced = FALSE
        /\ handled = 0
    BY DEF Storage!Init
  <2>3. handled \in 0..Len(kept) BY <1>1, <2>1, <2>2
  <2>4. todo \in Seq(Statements) /\ DOMAIN todo = {} /\ DOMAIN kept = {} BY <1>1, <2>1
  <2>5. kept \in Seq(News) /\ toPhone \in Seq(Msgs) BY <1>1, <2>1
  <2> QED BY <2>1, <2>2, <2>3, <2>4, <2>5 DEF StoreTypes
<1>3. UnderWay /\ Grounded /\ Foretold /\ Attached /\ Owed
  BY <1>1 DEF Storage!Init, UnderWay, Prepared, Grounded, Foretold, Attached, Owed
<1> QED BY <1>2, <1>3 DEF StoreInv

(* Programs *)
LEMMA OrderedConcat ==
    ASSUME NEW s \in Seq(Statements), NEW t \in Seq(Statements), WellOrdered(s), WellOrdered(t)
    PROVE  s \o t \in Seq(Statements) /\ WellOrdered(s \o t)
<1> DEFINE u == s \o t
<1>1. /\ u \in Seq(Statements) /\ Len(u) = Len(s) + Len(t) /\ DOMAIN u = 1..(Len(s) + Len(t))
      /\ \A i \in 1..Len(s) : u[i] = s[i]
      /\ \A i \in (Len(s) + 1)..(Len(s) + Len(t)) : u[i] = t[i - Len(s)]
  OBVIOUS
<1>2. DOMAIN s = 1..Len(s) /\ DOMAIN t = 1..Len(t) /\ Len(s) \in Nat /\ Len(t) \in Nat OBVIOUS
<1> HIDE DEF u
<1>3. ASSUME NEW i \in DOMAIN u
      PROVE  (i = 1 => u[i].op \notin Dependent) /\ (i # 1 => Follows(u, i)) /\ Leads(u, i)
  <2>1. CASE i \in 1..Len(s)
    <3>1. u[i] = s[i] /\ i \in DOMAIN s BY <1>1, <1>2, <2>1
    <3>2. i # 1 => u[i - 1] = s[i - 1]
      <4>1. i # 1 => i - 1 \in 1..Len(s) BY <2>1
      <4> QED BY <1>1, <4>1
    <3>3. i + 1 \in DOMAIN s => i + 1 \in DOMAIN u /\ u[i + 1] = s[i + 1] BY <1>1, <1>2
    <3> QED BY <3>1, <3>2, <3>3 DEF WellOrdered, Follows, Leads
  <2>2. CASE i \notin 1..Len(s)
    <3> DEFINE k == i - Len(s)
    <3>1. k \in DOMAIN t /\ u[i] = t[k] /\ i \in Nat /\ i = k + Len(s) BY <1>1, <1>2, <2>2
    <3>2. k # 1 => i # 1 /\ u[i - 1] = t[k - 1]
      <4>1. k # 1 => i - 1 \in (Len(s) + 1)..(Len(s) + Len(t)) /\ (i - 1) - Len(s) = k - 1
        BY <1>2, <3>1
      <4> QED BY <1>1, <1>2, <3>1, <4>1
    <3>3. k + 1 \in DOMAIN t => i + 1 \in DOMAIN u /\ u[i + 1] = t[k + 1]
      <4>1. k + 1 \in DOMAIN t => i + 1 \in (Len(s) + 1)..(Len(s) + Len(t))
                                  /\ (i + 1) - Len(s) = k + 1
        BY <1>2, <3>1
      <4> QED BY <1>1, <1>2, <4>1
    <3> HIDE DEF k
    <3>4. (k = 1 => t[k].op \notin Dependent) /\ (k # 1 => Follows(t, k)) /\ Leads(t, k)
      BY <3>1 DEF WellOrdered
    <3>5. Leads(u, i) BY <3>1, <3>3, <3>4 DEF Leads
    <3>6. k = 1 => u[i].op \notin Dependent BY <3>1, <3>4
    <3>7. k # 1 => Follows(u, i) BY <3>1, <3>2, <3>4 DEF Follows
    <3>8. k = 1 => Follows(u, i) BY <3>6 DEF Follows, Dependent
    <3>9. i = 1 => k = 1 BY <1>2, <3>1
    <3> QED BY <3>5, <3>6, <3>7, <3>8, <3>9
  <2> QED BY <2>1, <2>2
<1> QED BY <1>1, <1>3 DEF WellOrdered, u

(* One statement of a kind that needs no other, and two that belong together. *)
LEMMA OneLong ==
    ASSUME NEW S, NEW a \in S
    PROVE  <<a>> \in Seq(S) /\ Len(<<a>>) = 1 /\ DOMAIN <<a>> = {1} /\ <<a>>[1] = a
  OBVIOUS

LEMMA TwoLong ==
    ASSUME NEW S, NEW s \in Seq(S), NEW t \in Seq(S), Len(s) = 1, Len(t) = 1
    PROVE  /\ s \o t \in Seq(S) /\ DOMAIN (s \o t) = {1, 2}
           /\ (s \o t)[1] = s[1] /\ (s \o t)[2] = t[1]
<1>1. s \o t \in Seq(S) /\ Len(s \o t) = 2 OBVIOUS
<1>2. \A i \in 1..2 : (s \o t)[i] = IF i <= Len(s) THEN s[i] ELSE t[i - Len(s)] BY ConcatProperties
<1>3. DOMAIN (s \o t) = 1..2 BY <1>1
<1> QED BY <1>1, <1>2, <1>3

Single == StatementKinds \ ({"message"} \union Dependent)
LEMMA OneOrdered ==
    ASSUME NEW op \in Single, NEW m \in MsgNames
    PROVE  LET s == Storage!Do(op, m)
           IN  s \in Seq(Statements) /\ WellOrdered(s) /\ DOMAIN s = {1} /\ s[1] = Does(op, m)
<1> DEFINE a == Does(op, m)
<1>1. a \in Statements /\ a.op = op /\ Storage!Do(op, m) = <<a>>
  BY DEF Single, Statements, Does, Storage!Do
<1> HIDE DEF a
<1>2. <<a>> \in Seq(Statements) /\ DOMAIN <<a>> = {1} /\ <<a>>[1] = a BY <1>1, OneLong
<1>3. WellOrdered(<<a>>) BY <1>1, <1>2 DEF WellOrdered, Leads, Single
<1> QED BY <1>1, <1>2, <1>3 DEF a

Together(op, next) ==
    \/ op = "message" /\ next = "attachment"
    \/ op = "attachments" /\ next = "row"
    \/ op = "thread attachments" /\ next = "thread messages"
LEMMA TogetherOrdered ==
    ASSUME NEW s, DOMAIN s = {1, 2}, NEW m,
           NEW op, NEW next, Together(op, next), s[1] = Does(op, m), s[2] = Does(next, m)
    PROVE  WellOrdered(s)
<1>1. s[1].op = op /\ s[1].m = m /\ s[2].op = next /\ s[2].m = m BY DEF Does
<1>2. Leads(s, 1) BY <1>1 DEF Leads, Together
<1>3. Leads(s, 2) BY <1>1 DEF Leads, Together
<1>4. Follows(s, 2)
  <2>1. s[2 - 1] = s[1] OBVIOUS
  <2> QED BY <1>1, <2>1 DEF Follows, Together
<1>5. s[1].op \notin Dependent BY <1>1 DEF Together, Dependent
<1> QED BY <1>2, <1>3, <1>4, <1>5 DEF WellOrdered

LEMMA TwoOrdered ==
    ASSUME NEW op, NEW next, NEW m \in MsgNames, Together(op, next)
    PROVE  LET s == Storage!Do(op, m) \o Storage!Do(next, m)
           IN  /\ s \in Seq(Statements) /\ WellOrdered(s) /\ DOMAIN s = {1, 2}
               /\ s[1] = Does(op, m) /\ s[2] = Does(next, m)
<1>1. Does(op, m) \in Statements /\ Does(next, m) \in Statements
  BY DEF Does, Statements, StatementKinds, Together
<1>2. Storage!Do(op, m) = <<Does(op, m)>> /\ Storage!Do(next, m) = <<Does(next, m)>>
  BY DEF Storage!Do, Does
<1>3. /\ Storage!Do(op, m) \in Seq(Statements) /\ Len(Storage!Do(op, m)) = 1
      /\ Storage!Do(op, m)[1] = Does(op, m)
      /\ Storage!Do(next, m) \in Seq(Statements) /\ Len(Storage!Do(next, m)) = 1
      /\ Storage!Do(next, m)[1] = Does(next, m)
  BY <1>1, <1>2, OneLong
<1> DEFINE s == Storage!Do(op, m) \o Storage!Do(next, m)
<1>4. s \in Seq(Statements) /\ DOMAIN s = {1, 2} BY <1>3, TwoLong
<1>5. s[1] = Does(op, m) /\ s[2] = Does(next, m) BY <1>3, TwoLong
<1> HIDE DEF s
<1>6. WellOrdered(s) BY <1>4, <1>5, TogetherOrdered
<1> QED BY <1>4, <1>5, <1>6 DEF s

LEMMA SetToSeqLists ==
    ASSUME NEW S \in SUBSET Msgs, IsFiniteSet(S)
    PROVE  /\ Storage!SetToSeq(S) \in [1..Cardinality(S) -> S] /\ Cardinality(S) \in Nat
           /\ \A m \in S : \E i \in 1..Cardinality(S) : Storage!SetToSeq(S)[i] = m
           /\ Storage!Cardinality(S) = Cardinality(S)
<1> DEFINE n == Cardinality(S)
           s == Storage!SetToSeq(S)
<1>1. n \in Nat BY FS_CardinalityType
<1>2. s = CHOOSE f \in [1..n -> S] : \A a, b \in DOMAIN f : f[a] = f[b] => a = b
  BY DEF Storage!SetToSeq, Storage!IsInjective, Storage!Cardinality, Cardinality,
         Storage!IsFiniteSet, IsFiniteSet
<1>3. \E f \in [1..n -> S] : \A a, b \in DOMAIN f : f[a] = f[b] => a = b
  <2>1. ExistsBijection(1..n, S) BY FS_NatBijection, FS_CountingElements, <1>1
  <2> QED BY <2>1 DEF ExistsBijection, Bijection, Injection, IsInjective
<1> HIDE DEF s, n
<1>4. s \in [1..n -> S] /\ \A a, b \in DOMAIN s : s[a] = s[b] => a = b BY <1>2, <1>3
<1>5. IsFiniteSet(1..n) /\ Cardinality(1..n) = n BY <1>1, FS_Interval
<1>6. ASSUME NEW m \in S, \A i \in 1..n : s[i] # m PROVE FALSE
  <2>1. s \in Injection(1..n, S \ {m}) BY <1>4, <1>6 DEF Injection, IsInjective
  <2>2. IsFiniteSet(S \ {m}) /\ Cardinality(S \ {m}) = n - 1 BY FS_RemoveElement DEF n
  <2>3. n <= n - 1 BY <1>5, <2>1, <2>2, FS_Injection
  <2> QED BY <1>1, <2>3
<1>7. Storage!Cardinality(S) = n
  BY DEF Storage!Cardinality, Cardinality, Storage!IsFiniteSet, IsFiniteSet, n
<1> QED BY <1>1, <1>4, <1>6, <1>7 DEF s, n

(* A program is an ordered sequence of statements out of a set. *)
Program(s, E) == s \in Seq(Statements) /\ WellOrdered(s) /\ \A i \in DOMAIN s : s[i] \in E
Has(s, x) == \E i \in DOMAIN s : s[i] = x

LEMMA ProgramConcat ==
    ASSUME NEW s, NEW t, NEW E, Program(s, E), Program(t, E)
    PROVE  /\ Program(s \o t, E)
           /\ \A x : Has(s, x) \/ Has(t, x) => Has(s \o t, x)
           /\ Len(s \o t) = Len(s) + Len(t)
           /\ \A i \in DOMAIN t : (s \o t)[Len(s) + i] = t[i]
           /\ \A i \in DOMAIN s : (s \o t)[i] = s[i]
<1>1. s \in Seq(Statements) /\ t \in Seq(Statements) BY DEF Program
<1> DEFINE u == s \o t
<1>2. u \in Seq(Statements) /\ WellOrdered(u) BY <1>1, OrderedConcat DEF Program
<1>3. /\ Len(u) = Len(s) + Len(t)
      /\ \A i \in 1..(Len(s) + Len(t)) : u[i] = IF i <= Len(s) THEN s[i] ELSE t[i - Len(s)]
  BY <1>1, ConcatProperties
<1> HIDE DEF u
<1>4. DOMAIN u = 1..(Len(s) + Len(t)) /\ DOMAIN s = 1..Len(s) /\ DOMAIN t = 1..Len(t)
      /\ Len(s) \in Nat /\ Len(t) \in Nat
  BY <1>1, <1>2, <1>3
<1>5. ASSUME NEW i \in DOMAIN u PROVE u[i] \in E
  <2>1. CASE i <= Len(s)
    <3>1. i \in DOMAIN s /\ u[i] = s[i] BY <1>3, <1>4, <2>1
    <3> QED BY <3>1 DEF Program
  <2>2. CASE ~(i <= Len(s))
    <3>1. i - Len(s) \in DOMAIN t /\ u[i] = t[i - Len(s)] BY <1>3, <1>4, <2>2
    <3> QED BY <3>1 DEF Program
  <2> QED BY <2>1, <2>2
<1>6. \A i \in DOMAIN t : Len(s) + i \in DOMAIN u /\ u[Len(s) + i] = t[i]
  <2> TAKE i \in DOMAIN t
  <2>1. Len(s) + i \in 1..(Len(s) + Len(t)) /\ ~(Len(s) + i <= Len(s)) /\ (Len(s) + i) - Len(s) = i
    BY <1>4
  <2> QED BY <1>3, <1>4, <2>1
<1>7. \A i \in DOMAIN s : i \in DOMAIN u /\ u[i] = s[i] BY <1>3, <1>4
<1> QED BY <1>2, <1>3, <1>5, <1>6, <1>7 DEF Program, Has, u

LEMMA OneProgram ==
    ASSUME NEW op \in Single, NEW m \in MsgNames, NEW E, Does(op, m) \in E
    PROVE  /\ Program(Storage!Do(op, m), E) /\ Has(Storage!Do(op, m), Does(op, m))
           /\ Len(Storage!Do(op, m)) = 1 /\ DOMAIN Storage!Do(op, m) = {1}
           /\ Storage!Do(op, m)[1] = Does(op, m)
<1>1. Len(Storage!Do(op, m)) = 1 BY DEF Storage!Do
<1> QED BY <1>1, OneOrdered DEF Program, Has

LEMMA TwoProgram ==
    ASSUME NEW op, NEW next, NEW m \in MsgNames, Together(op, next),
           NEW E, Does(op, m) \in E, Does(next, m) \in E
    PROVE  /\ Program(Storage!Do(op, m) \o Storage!Do(next, m), E)
           /\ Has(Storage!Do(op, m) \o Storage!Do(next, m), Does(next, m))
<1> DEFINE s == Storage!Do(op, m) \o Storage!Do(next, m)
<1>1. /\ s \in Seq(Statements) /\ WellOrdered(s) /\ DOMAIN s = {1, 2}
      /\ s[1] = Does(op, m) /\ s[2] = Does(next, m)
  BY TwoOrdered
<1> HIDE DEF s
<1>2. Program(s, E) /\ Has(s, Does(next, m)) BY <1>1 DEF Program, Has
<1> QED BY <1>2 DEF s

LEMMA ForEachProgram ==
    ASSUME NEW S \in SUBSET Msgs, IsFiniteSet(S), NEW op \in {"unlink", "both", "media"},
           NEW E, \A m \in S : Does(op, m) \in E
    PROVE  /\ Program(Storage!ForEach(op, S), E)
           /\ \A m \in S : Has(Storage!ForEach(op, S), Does(op, m))
<1> DEFINE n == Cardinality(S)
           f == Storage!ForEach(op, S)
           q == Storage!SetToSeq(S)
<1>1. q \in [1..n -> S] /\ n \in Nat /\ \A m \in S : \E i \in 1..n : q[i] = m BY SetToSeqLists
<1>2. f = [i \in 1..n |-> Does(op, q[i])] BY SetToSeqLists DEF Storage!ForEach, Does
<1> HIDE DEF n, f, q
<1>3. \A m \in S : Does(op, m) \in Statements /\ Does(op, m).op = op
  BY DEF Does, Statements, MsgNames, StatementKinds
<1>4. \A i \in 1..n : f[i] \in Statements /\ f[i] \in E /\ f[i].op = op BY <1>1, <1>2, <1>3
<1>5. f \in Seq(Statements) /\ DOMAIN f = 1..n BY <1>1, <1>2, <1>4
<1>6. WellOrdered(f) BY <1>4, <1>5 DEF WellOrdered, Follows, Leads, Dependent
<1>7. \A m \in S : Has(f, Does(op, m)) BY <1>1, <1>2, <1>5 DEF Has
<1> QED BY <1>4, <1>5, <1>6, <1>7 DEF Program, f

LEMMA Halves ==
    ASSUME NEW n \in Nat, NEW i \in 1..(2 * n)
    PROVE  /\ (i + 1) \div 2 \in 1..n /\ i % 2 \in {0, 1}
           /\ i % 2 = 1 => /\ i + 1 \in 1..(2 * n) /\ (i + 1) % 2 = 0
                           /\ ((i + 1) + 1) \div 2 = (i + 1) \div 2
           /\ i % 2 = 0 => /\ i # 1 /\ i - 1 \in 1..(2 * n) /\ (i - 1) % 2 = 1
                           /\ ((i - 1) + 1) \div 2 = (i + 1) \div 2
  OBVIOUS

LEMMA RowsProgram ==
    ASSUME NEW S \in SUBSET Msgs, IsFiniteSet(S), NEW E,
           \A m \in S : Does("message", m) \in E /\ Does("attachment", m) \in E
    PROVE  /\ Program(Storage!RowsOf(S), E)
           /\ \A m \in S : Has(Storage!RowsOf(S), Does("attachment", m))
<1> DEFINE n == Cardinality(S)
           f == Storage!RowsOf(S)
           q == Storage!SetToSeq(S)
<1>1. q \in [1..n -> S] /\ n \in Nat /\ \A m \in S : \E i \in 1..n : q[i] = m BY SetToSeqLists
<1>2. f = [i \in 1..(2 * n) |-> Does(IF i % 2 = 1 THEN "message" ELSE "attachment",
                                     q[(i + 1) \div 2])]
  BY SetToSeqLists DEF Storage!RowsOf, Does
<1> HIDE DEF n, f, q
<1>3. \A m \in S : /\ Does("message", m) \in Statements /\ Does("attachment", m) \in Statements
                   /\ Does("message", m).op = "message" /\ Does("message", m).m = m
                   /\ Does("attachment", m).op = "attachment" /\ Does("attachment", m).m = m
  BY DEF Does, Statements, MsgNames, StatementKinds
<1>4. ASSUME NEW i \in 1..(2 * n)
      PROVE  /\ q[(i + 1) \div 2] \in S /\ i % 2 \in {0, 1}
             /\ i % 2 = 1 => f[i] = Does("message", q[(i + 1) \div 2])
             /\ i % 2 = 0 => f[i] = Does("attachment", q[(i + 1) \div 2])
  <2>1. (i + 1) \div 2 \in 1..n /\ i % 2 \in {0, 1} BY <1>1, Halves
  <2>2. f[i] = Does(IF i % 2 = 1 THEN "message" ELSE "attachment", q[(i + 1) \div 2]) BY <1>2
  <2>3. i % 2 = 0 => ~(i % 2 = 1) OBVIOUS
  <2> QED BY <1>1, <2>1, <2>2, <2>3
<1>5. \A i \in 1..(2 * n) : f[i] \in Statements /\ f[i] \in E BY <1>3, <1>4
<1>6. f \in Seq(Statements) /\ DOMAIN f = 1..(2 * n) BY <1>1, <1>2, <1>5
<1>7. ASSUME NEW i \in 1..(2 * n), i % 2 = 1
      PROVE  f[i].op \notin Dependent /\ Leads(f, i)
  <2>1. f[i].op = "message" /\ f[i].m = q[(i + 1) \div 2] BY <1>3, <1>4, <1>7
  <2>2. i + 1 \in 1..(2 * n) /\ (i + 1) % 2 = 0 /\ ((i + 1) + 1) \div 2 = (i + 1) \div 2
    BY <1>1, <1>7, Halves
  <2>3. f[i + 1] = Does("attachment", q[(i + 1) \div 2]) BY <1>4, <2>2
  <2> QED BY <1>6, <2>1, <2>2, <2>3 DEF Leads, Dependent
<1>8. ASSUME NEW i \in 1..(2 * n), i % 2 = 0
      PROVE  i # 1 /\ Follows(f, i) /\ Leads(f, i)
  <2>1. f[i].op = "attachment" /\ f[i].m = q[(i + 1) \div 2] BY <1>3, <1>4, <1>8
  <2>2. i # 1 /\ i - 1 \in 1..(2 * n) /\ (i - 1) % 2 = 1 /\ ((i - 1) + 1) \div 2 = (i + 1) \div 2
    BY <1>1, <1>8, Halves
  <2>3. f[i - 1] = Does("message", q[(i + 1) \div 2]) BY <1>4, <2>2
  <2> QED BY <2>1, <2>2, <2>3 DEF Leads, Follows
<1>9. WellOrdered(f)
  <2>1. \A i \in 1..(2 * n) : i % 2 = 1 \/ i % 2 = 0 BY <1>4
  <2>2. \A i \in 1..(2 * n) : f[i].op \notin Dependent => Follows(f, i) BY DEF Follows, Dependent
  <2> QED BY <1>6, <1>7, <1>8, <2>1, <2>2 DEF WellOrdered
<1>10. \A m \in S : Has(f, Does("attachment", m))
  <2> TAKE m \in S
  <2>1. PICK k \in 1..n : q[k] = m BY <1>1
  <2>2. 2 * k \in 1..(2 * n) /\ (2 * k) % 2 = 0 /\ (2 * k + 1) \div 2 = k BY <1>1
  <2>3. f[2 * k] = Does("attachment", m) BY <1>4, <2>1, <2>2
  <2> QED BY <1>6, <2>2, <2>3 DEF Has
<1> QED BY <1>5, <1>6, <1>9, <1>10 DEF Program, f

(* A program that starts finds the database as it may be. *)
LEMMA Starts ==
    ASSUME StoreInv, NEW p, p \in Seq(Statements), WellOrdered(p), todo' = p
    PROVE  UnderWay'
<1>1. /\ todo' \in Seq(Statements) /\ WellOrdered(todo') BY Zenon
<1>2. todo' # <<>> => 1 \in DOMAIN todo' BY <1>1
<1>3. Prepared' BY <1>1, <1>2 DEF Prepared, WellOrdered, Dependent
<1>4. \A i \in DOMAIN todo' : (i # 1 => Follows(todo', i)) /\ Leads(todo', i)
  BY <1>1 DEF WellOrdered
<1> QED BY <1>3, <1>4 DEF UnderWay, Follows, Leads

(* A statement is made. *)
LEMMA StepFrame ==
    ASSUME StoreInv, Storage!Step
    PROVE  /\ todo \in Seq(Statements) /\ todo # <<>> /\ todo[1] = Head(todo) /\ 1 \in DOMAIN todo
           /\ todo' \in Seq(Statements) /\ Len(todo') = Len(todo) - 1 /\ Len(todo) \in Nat
           /\ \A i \in DOMAIN todo' : i \in Nat /\ i + 1 \in DOMAIN todo /\ todo'[i] = todo[i + 1]
           /\ \A k \in DOMAIN todo : k # 1 => k \in Nat /\ k - 1 \in DOMAIN todo' /\ todo'[k - 1] = todo[k]
           /\ UNCHANGED <<phone, kept, handled, page, toPhone, fetching, doomed, listed>>
<1>1. todo \in Seq(Statements) /\ todo # <<>> /\ todo' = Tail(todo)
  BY DEF StoreInv, StoreTypes, Storage!Step, Storage!Idle
<1>2. UNCHANGED <<phone, kept, handled, page, toPhone, fetching, doomed, listed>>
  BY DEF Storage!Step, Storage!line
<1>3. /\ todo[1] = Head(todo) /\ 1 \in DOMAIN todo /\ Len(todo) \in Nat
      /\ Tail(todo) \in Seq(Statements) /\ Len(Tail(todo)) = Len(todo) - 1
  BY <1>1
<1>4. \A i \in DOMAIN Tail(todo) : i \in Nat /\ i + 1 \in DOMAIN todo /\ Tail(todo)[i] = todo[i + 1]
  BY <1>1
<1>5. \A k \in DOMAIN todo : k # 1 => k \in Nat /\ k - 1 \in DOMAIN Tail(todo)
                                      /\ Tail(todo)[k - 1] = todo[k]
  BY <1>1
<1> QED BY <1>1, <1>2, <1>3, <1>4, <1>5

LEMMA StepShape ==
    ASSUME StoreInv, Storage!Step
    PROVE  /\ \A i \in DOMAIN todo' : (i # 1 => Follows(todo', i)) /\ Leads(todo', i)
           /\ \A i \in DOMAIN todo' :
                 todo'[i].op \in {"message", "attachment", "media", "unlink", "attachments", "row", "both"} =>
                     todo'[i].m \in Msgs
           /\ todo' # <<>> => 1 \in DOMAIN todo' /\ todo'[1] = todo[2] /\ Follows(todo, 2)
<1>1. \A i \in DOMAIN todo : (i # 1 => Follows(todo, i)) /\ Leads(todo, i) BY DEF StoreInv, UnderWay
<1>2. ASSUME NEW i \in DOMAIN todo', i # 1 PROVE Follows(todo', i)
  <2>1. i + 1 \in DOMAIN todo /\ i \in Nat /\ todo'[i] = todo[i + 1] BY StepFrame
  <2>2. i \in DOMAIN todo /\ todo'[i - 1] = todo[i]
    <3>1. i + 1 # 1 /\ i \in 1..Len(todo') BY <2>1, StepFrame
    <3>2. i \in 1..Len(todo) BY <3>1, StepFrame
    <3> QED BY <1>2, <3>2, StepFrame
  <2>3. i + 1 # 1 /\ (i + 1) - 1 = i
    <3>1. i \in 1..Len(todo') /\ Len(todo') \in Nat BY StepFrame
    <3> QED BY <3>1
  <2>4. Follows(todo, i + 1) BY <1>1, <2>1, <2>3
  <2> QED BY <2>1, <2>2, <2>3, <2>4 DEF Follows
<1>3. ASSUME NEW i \in DOMAIN todo' PROVE Leads(todo', i)
  <2>1. i + 1 \in DOMAIN todo /\ i \in Nat /\ todo'[i] = todo[i + 1] BY StepFrame
  <2>2. Leads(todo, i + 1) BY <1>1, <2>1
  <2>3. (i + 1) + 1 \in DOMAIN todo => i + 1 \in DOMAIN todo' /\ todo'[i + 1] = todo[(i + 1) + 1]
    <3>1. (i + 1) + 1 # 1 /\ ((i + 1) + 1) - 1 = i + 1 BY <2>1
    <3> QED BY <3>1, StepFrame
  <2> QED BY <2>1, <2>2, <2>3 DEF Leads
<1>4. todo' # <<>> => 1 \in DOMAIN todo' BY StepFrame
<1>5. 1 \in DOMAIN todo' => todo'[1] = todo[2] /\ Follows(todo, 2)
  <2> SUFFICES ASSUME 1 \in DOMAIN todo' PROVE todo'[1] = todo[2] /\ Follows(todo, 2)
    OBVIOUS
  <2>1. 1 + 1 \in DOMAIN todo /\ todo'[1] = todo[1 + 1] /\ 1 + 1 = 2 BY StepFrame
  <2> QED BY <1>1, <2>1
<1>6. \A i \in DOMAIN todo :
         todo[i].op \in {"message", "attachment", "media", "unlink", "attachments", "row", "both"} =>
             todo[i].m \in Msgs
  BY DEF StoreInv, StoreTypes
<1> QED BY <1>2, <1>3, <1>4, <1>5, <1>6, StepFrame

(* What a statement does to the rows. *)
Effect(s) ==
    \/ s.op = "message" /\ s.m \in Msgs /\ msgs' = msgs \union {s.m} /\ UNCHANGED <<atts, synced>>
    \/ /\ s.op \in {"attachment", "media"} /\ s.m \in Msgs /\ UNCHANGED <<msgs, synced>>
       /\ atts' = [atts EXCEPT ![s.m] = IF @ = "none" THEN "row" ELSE @]
    \/ s.op \in {"conversation", "unlink", "wipe files"} /\ UNCHANGED <<msgs, atts, synced>>
    \/ s.op = "synced" /\ UNCHANGED <<msgs, atts>>
    \/ /\ s.op = "attachments" /\ s.m \in Msgs /\ UNCHANGED <<msgs, synced>>
       /\ atts' = [atts EXCEPT ![s.m] = "none"]
    \/ s.op = "row" /\ s.m \in Msgs /\ msgs' = msgs \ {s.m} /\ UNCHANGED <<atts, synced>>
    \/ /\ s.op = "thread attachments" /\ UNCHANGED <<msgs, synced>>
       /\ atts' = [m \in Msgs |-> IF m \in msgs THEN "none" ELSE atts[m]]
    \/ s.op = "thread messages" /\ msgs' = {} /\ UNCHANGED <<atts, synced>>
    \/ s.op = "thread" /\ synced' = FALSE /\ UNCHANGED <<msgs, atts>>
    \/ /\ s.op = "both" /\ s.m \in Msgs /\ UNCHANGED synced
       /\ msgs' = msgs \ {s.m} /\ atts' = [atts EXCEPT ![s.m] = "none"]
    \/ /\ s.op = "wipe rows" /\ msgs' = {} /\ atts' = [m \in Msgs |-> "none"] /\ synced' = FALSE

LEMMA StepEffect ==
    ASSUME StoreInv, Storage!Step
    PROVE  /\ Effect(todo[1]) /\ conv' \in BOOLEAN /\ synced' \in BOOLEAN /\ (synced' => conv')
           /\ files' \subseteq Msgs
<1>1. /\ todo[1] = Head(todo)
      /\ todo[1].op \in {"message", "attachment", "media", "unlink", "attachments", "row", "both"} =>
             todo[1].m \in Msgs
  BY StepFrame DEF StoreInv, StoreTypes
<1>2. conv \in BOOLEAN /\ synced \in BOOLEAN /\ (synced => conv) /\ files \subseteq Msgs
  BY DEF StoreInv, StoreTypes
<1> DEFINE s == Head(todo)
<1>3. \/ s.op = "message" /\ Storage!UpsertMessage(s.m)
      \/ s.op \in {"attachment", "media"} /\ Storage!UpsertAttachment(s.m)
      \/ s.op = "conversation" /\ Storage!UpsertConversation
      \/ s.op = "synced" /\ Storage!MarkSynced
      \/ s.op = "unlink" /\ Storage!Unlink(s.m)
      \/ s.op = "attachments" /\ Storage!DeleteAttachments(s.m)
      \/ s.op = "row" /\ Storage!DeleteMessageRow(s.m)
      \/ s.op = "thread attachments" /\ Storage!DeleteThreadAttachments
      \/ s.op = "thread messages" /\ Storage!DeleteThreadMessages
      \/ s.op = "thread" /\ Storage!DeleteConversation
      \/ s.op = "both" /\ Storage!DeleteBoth(s.m)
      \/ s.op = "wipe files" /\ Storage!WipeFiles
      \/ s.op = "wipe rows" /\ Storage!WipeAllData
  BY DEF Storage!Step
<1>4. s = todo[1] BY <1>1
<1> HIDE DEF s
<1>5. Effect(s)
  BY <1>1, <1>3, <1>4
     DEF Effect, Storage!UpsertMessage, Storage!UpsertAttachment, Storage!UpsertConversation,
         Storage!MarkSynced, Storage!Unlink, Storage!DeleteAttachments, Storage!DeleteMessageRow,
         Storage!DeleteThreadAttachments, Storage!DeleteThreadMessages,
         Storage!DeleteConversation, Storage!DeleteBoth, Storage!WipeFiles, Storage!WipeAllData
<1>6. conv' \in BOOLEAN /\ synced' \in BOOLEAN /\ (synced' => conv')
  <2>1. CASE UNCHANGED <<conv, synced>> BY <1>2, <2>1, Zenon
  <2>2. CASE conv' = TRUE /\ synced' = synced BY <1>2, <2>2
  <2>3. CASE synced' = conv /\ conv' = conv BY <1>2, <2>3, Zenon
  <2>4. CASE conv' = FALSE /\ synced' = FALSE BY <2>4
  <2> QED
    BY <1>3, <2>1, <2>2, <2>3, <2>4
       DEF Storage!UpsertMessage, Storage!UpsertAttachment, Storage!UpsertConversation,
           Storage!MarkSynced, Storage!Unlink, Storage!DeleteAttachments,
           Storage!DeleteMessageRow, Storage!DeleteThreadAttachments,
           Storage!DeleteThreadMessages, Storage!DeleteConversation, Storage!DeleteBoth,
           Storage!WipeFiles, Storage!WipeAllData
<1>7. files' \subseteq files
  <2>1. Storage!Unlink(s.m) => files' \subseteq files BY DEF Storage!Unlink
  <2> QED
    BY <1>3, <2>1
       DEF Storage!UpsertMessage, Storage!UpsertAttachment, Storage!UpsertConversation,
           Storage!MarkSynced, Storage!DeleteAttachments, Storage!DeleteMessageRow,
           Storage!DeleteThreadAttachments, Storage!DeleteThreadMessages,
           Storage!DeleteConversation, Storage!DeleteBoth, Storage!WipeFiles, Storage!WipeAllData
<1> QED BY <1>2, <1>4, <1>5, <1>6, <1>7

LEMMA StepTypes == ASSUME StoreInv, Storage!Step PROVE StoreTypes'
<1>1. /\ phone \subseteq Msgs /\ msgs \subseteq Msgs /\ fetching \subseteq Msgs /\ doomed \subseteq Msgs
      /\ listed \subseteq Msgs
      /\ atts \in [Msgs -> {"none", "row", "done"}]
      /\ kept \in Seq(News) /\ handled \in 0..Len(kept) /\ toPhone \in Seq(Msgs)
      /\ \A i \in DOMAIN kept : kept[i].kind # "thread" => kept[i].m \in Msgs
      /\ page = <<>> \/ \E S, B \in SUBSET Msgs : page = <<S, B>>
  BY DEF StoreInv, StoreTypes
<1>2. msgs' \subseteq Msgs BY <1>1, StepEffect DEF Effect
<1>3. atts' \in [Msgs -> {"none", "row", "done"}] BY <1>1, StepEffect DEF Effect
<1>4. /\ UNCHANGED <<phone, kept, handled, page, toPhone, fetching, doomed, listed>>
      /\ todo' \in Seq(Statements)
  BY StepFrame
<1>5. conv' \in BOOLEAN /\ synced' \in BOOLEAN /\ (synced' => conv') /\ files' \subseteq Msgs
  BY StepEffect
<1>6. \A i \in DOMAIN todo' :
         todo'[i].op \in {"message", "attachment", "media", "unlink", "attachments", "row", "both"} =>
             todo'[i].m \in Msgs
  BY StepShape
<1>7. \A i \in DOMAIN kept' : kept'[i].kind # "thread" => kept'[i].m \in Msgs BY <1>1, <1>4
<1>8. kept' \in Seq(News) /\ handled' \in 0..Len(kept') /\ toPhone' \in Seq(Msgs) BY <1>1, <1>4
<1>9. page' = <<>> \/ \E S, B \in SUBSET Msgs : page' = <<S, B>> BY <1>1, <1>4
<1>10. phone' \subseteq Msgs /\ fetching' \subseteq Msgs /\ doomed' \subseteq Msgs /\ listed' \subseteq Msgs
  BY <1>1, <1>4
<1> QED BY <1>2, <1>3, <1>4, <1>5, <1>6, <1>7, <1>8, <1>9, <1>10 DEF StoreTypes

LEMMA StepUnderWay == ASSUME StoreInv, Storage!Step PROVE UnderWay' /\ Attached'
<1>1. atts \in [Msgs -> {"none", "row", "done"}] /\ msgs \subseteq Msgs /\ Attached
      /\ Prepared /\ todo # <<>>
  BY StepFrame DEF StoreInv, StoreTypes, UnderWay
<1>2. Effect(todo[1]) BY StepEffect
<1>3. Prepared'
  <2> SUFFICES ASSUME todo' # <<>>
               PROVE  /\ todo'[1].op = "attachment" => todo'[1].m \in msgs'
                      /\ todo'[1].op = "row" => atts'[todo'[1].m] = "none"
                      /\ todo'[1].op = "thread messages" => \A m \in msgs' : atts'[m] = "none"
    BY DEF Prepared
  <2>1. todo'[1] = todo[2] /\ Follows(todo, 2) /\ 2 - 1 = 1 /\ 1 \in DOMAIN todo' BY StepShape
  <2>2. ASSUME todo'[1].op = "attachment" PROVE todo'[1].m \in msgs'
    <3>1. todo[1].op = "message" /\ todo[1].m = todo'[1].m BY <2>1, <2>2 DEF Follows, Does
    <3> QED BY <1>2, <3>1 DEF Effect
  <2>3. ASSUME todo'[1].op = "row" PROVE atts'[todo'[1].m] = "none"
    <3>1. todo[1].op = "attachments" /\ todo[1].m = todo'[1].m BY <2>1, <2>3 DEF Follows, Does
    <3> QED BY <1>1, <1>2, <3>1 DEF Effect
  <2>4. ASSUME todo'[1].op = "thread messages" PROVE \A m \in msgs' : atts'[m] = "none"
    <3>1. todo[1].op = "thread attachments" BY <2>1, <2>4 DEF Follows
    <3> QED BY <1>1, <1>2, <3>1 DEF Effect
  <2> QED BY <2>2, <2>3, <2>4
<1>4. Attached'
  <2>6. listed' = listed BY StepFrame
  <2> SUFFICES ASSUME NEW m \in Msgs, atts'[m] # "none" PROVE m \in msgs' \union listed
    BY <2>6 DEF Attached
  <2>1. /\ todo[1].op = "attachment" => todo[1].m \in msgs
        /\ todo[1].op = "media" => todo[1].m \in msgs \union listed
        /\ todo[1].op = "row" => atts[todo[1].m] = "none"
        /\ todo[1].op = "thread messages" => \A x \in msgs : atts[x] = "none"
    BY <1>1, StepFrame DEF Prepared, StoreInv, Grounded, Grounds
  <2>2. atts[m] # "none" => m \in msgs \union listed BY <1>1 DEF Attached
  <2>3. CASE msgs \subseteq msgs' BY <1>1, <1>2, <2>1, <2>2, <2>3 DEF Effect
  <2>4. CASE todo[1].op \in {"row", "both"}
    <3>1. todo[1].m # m BY <1>1, <1>2, <2>1, <2>4 DEF Effect
    <3>2. msgs' = msgs \ {todo[1].m} /\ atts'[m] = atts[m] BY <1>1, <1>2, <2>4, <3>1 DEF Effect
    <3> QED BY <2>2, <3>1, <3>2
  <2>5. CASE todo[1].op \in {"thread messages", "wipe rows"} BY <1>1, <1>2, <2>1, <2>2, <2>5 DEF Effect
  <2> QED BY <1>2, <2>3, <2>4, <2>5 DEF Effect
<1>5. UnderWay' BY <1>3, StepShape DEF UnderWay, Follows, Leads
<1> QED BY <1>4, <1>5

LEMMA StepForetold == ASSUME StoreInv, Storage!Step PROVE Foretold'
<1>1. Foretold /\ Grounds(1) /\ UNCHANGED <<phone, kept, page, toPhone, doomed>>
  BY StepFrame DEF StoreInv, Grounded
<1>2. Effect(todo[1]) BY StepEffect
<1>3. msgs' \subseteq phone \union doomed BY <1>1, <1>2 DEF Effect, Foretold, Grounds
<1>4. page # <<>> => ~synced' BY <1>1, <1>2 DEF Effect, Foretold, Grounds
<1> QED BY <1>1, <1>3, <1>4 DEF Foretold, NewsOf

LEMMA StepGrounded == ASSUME StoreInv, Storage!Step PROVE Grounded'
<1> SUFFICES ASSUME NEW i \in DOMAIN todo' PROVE Grounds(i)'
  BY DEF Grounded
<1> DEFINE k == i + 1
           s == todo[k]
<1>1. /\ k \in DOMAIN todo /\ todo'[i] = s /\ i \in Nat /\ k # 1 /\ Len(todo') = Len(todo) - 1
      /\ UNCHANGED <<phone, kept, handled, page, doomed>> /\ Len(todo) \in Nat
  <2>1. i \in 1..Len(todo') BY StepFrame
  <2> QED BY <2>1, StepFrame
<1>2. Grounds(k) /\ Grounds(1) /\ 1 \in DOMAIN todo BY <1>1, StepFrame DEF StoreInv, Grounded
<1>3. Effect(todo[1]) BY StepEffect
<1>4. todo[1].op = "synced" => FALSE
  <2>1. todo[1].op = "synced" => 1 = Len(todo) BY <1>2 DEF Grounds
  <2> QED BY <1>1, <2>1
<1>5. synced' => synced BY <1>3, <1>4 DEF Effect
<1>7. \A m : Coming(m)' <=> Coming(m) BY <1>1 DEF Coming, NewsOf
<1>8. ASSUME s.op = "message"
      PROVE  /\ s.m \in phone' \union doomed'
             /\ synced' \/ (page' # <<>> /\ s.m \notin page'[2]) =>
                   s.m \in doomed' \/ \E j \in DOMAIN kept' : kept'[j] = NewsOf(s.m)
  BY <1>1, <1>2, <1>5, <1>8 DEF Grounds, Known, IsSettled
<1>9. ASSUME s.op \in {"attachments", "row"} PROVE s.m \in doomed'
  BY <1>1, <1>2, <1>9 DEF Grounds
<1>10. ASSUME s.op = "thread attachments"
       PROVE  /\ \A j \in DOMAIN todo' : todo'[j].op # "message"
              /\ \A m \in msgs' : Coming(m)'
  <2>1. /\ \A j \in DOMAIN todo : todo[j].op # "message"
        /\ \A m \in msgs : Coming(m)
    BY <1>2, <1>10 DEF Grounds
  <2>2. \A j \in DOMAIN todo' : todo'[j].op # "message" BY <2>1, StepFrame
  <2>3. msgs' \subseteq msgs BY <1>2, <1>3, <2>1 DEF Effect
  <2> QED BY <1>7, <2>1, <2>2, <2>3
<1>11. ASSUME s.op = "synced"
       PROVE  /\ ~synced' /\ page' = <<>> /\ i = Len(todo')
              /\ \A j \in DOMAIN todo' : j < i => todo'[j].op \in {"message", "attachment", "both"}
              /\ \A m \in msgs' : atts'[m] = "none" => ListedBefore(m, i)' \/ Coming(m)'
  <2>1. /\ ~synced /\ page = <<>> /\ k = Len(todo)
        /\ \A j \in DOMAIN todo : j < k => todo[j].op \in {"message", "attachment", "both"}
        /\ \A m \in msgs : atts[m] = "none" => ListedBefore(m, k) \/ Coming(m)
    BY <1>2, <1>11 DEF Grounds
  <2>2. ~synced' /\ page' = <<>> /\ i = Len(todo') BY <1>1, <1>5, <2>1
  <2>3. \A j \in DOMAIN todo' : j < i => todo'[j].op \in {"message", "attachment", "both"}
    <3> SUFFICES ASSUME NEW j \in DOMAIN todo', j < i
                 PROVE  todo'[j].op \in {"message", "attachment", "both"}
      OBVIOUS
    <3>1. j + 1 \in DOMAIN todo /\ todo'[j] = todo[j + 1] /\ j \in Nat BY StepFrame
    <3>2. j + 1 < k BY <1>1, <3>1
    <3> QED BY <2>1, <3>1, <3>2
  <2>4. todo[1].op \in {"message", "attachment", "both"}
    <3>1. 1 < k BY <1>1
    <3> QED BY <1>2, <2>1, <3>1
  <2>5. ASSUME NEW m \in msgs', atts'[m] = "none",
               NEW j \in DOMAIN todo, j # 1, j < k,
               todo[j] \in {Does("attachment", m), Does("both", m)}
        PROVE  ListedBefore(m, i)'
    <3>1. j - 1 \in DOMAIN todo' /\ todo'[j - 1] = todo[j] /\ j \in Nat BY <2>5, StepFrame
    <3>2. j - 1 < i BY <1>1, <2>5, <3>1
    <3> QED BY <2>5, <3>1, <3>2 DEF ListedBefore, Does
  <2>6. ASSUME NEW m \in msgs', atts'[m] = "none" PROVE ListedBefore(m, i)' \/ Coming(m)'
    <3>3. CASE Coming(m) BY <1>7, <3>3
    <3>1. CASE m \in msgs /\ atts[m] = "none" /\ ~Coming(m)
      <4>1. PICK j \in DOMAIN todo : j < k /\ todo[j] \in {Does("attachment", m), Does("both", m)}
        BY <2>1, <3>1 DEF ListedBefore
      <4>2. j # 1
        <5>1. ASSUME j = 1, todo[1] = Does("attachment", m) PROVE FALSE
          <6>1. todo[1].op = "attachment" /\ todo[1].m = m BY <5>1 DEF Does
          <6>2. atts'[m] = "row" BY <1>3, <3>1, <6>1 DEF Effect, StoreInv, StoreTypes
          <6> QED BY <2>6, <6>2
        <5>2. ASSUME j = 1, todo[1] = Does("both", m) PROVE FALSE
          <6>1. todo[1].op = "both" /\ todo[1].m = m BY <5>2 DEF Does
          <6> QED BY <1>3, <2>6, <6>1 DEF Effect
        <5> QED BY <4>1, <5>1, <5>2
      <4> QED BY <2>5, <2>6, <4>1, <4>2
    <3>2. CASE ~(m \in msgs /\ atts[m] = "none")
      <4>1. todo[1].op = "message" /\ todo[1].m = m
        BY <1>3, <2>4, <2>6, <3>2 DEF Effect, StoreInv, StoreTypes, Attached
      <4>2. 2 \in DOMAIN todo /\ todo[2] = Does("attachment", m)
        <5>1. Leads(todo, 1) /\ 1 + 1 = 2 BY <1>2 DEF StoreInv, UnderWay
        <5> QED BY <4>1, <5>1 DEF Leads
      <4>3. 2 < k
        <5>1. 2 <= k BY <1>1
        <5>2. k # 2 BY <1>11, <4>2 DEF Does
        <5> QED BY <1>1, <5>1, <5>2
      <4> QED BY <2>5, <2>6, <4>2, <4>3
    <3> QED BY <3>1, <3>2, <3>3
  <2> QED BY <2>2, <2>3, <2>6
<1>12. /\ todo'[i].op = "message" =>
             /\ todo'[i].m \in phone' \union doomed'
             /\ synced' \/ (page' # <<>> /\ todo'[i].m \notin page'[2]) =>
                   todo'[i].m \in doomed' \/ \E j \in DOMAIN kept' : kept'[j] = NewsOf(todo'[i].m)
       /\ todo'[i].op \in {"attachments", "row"} => todo'[i].m \in doomed'
  BY <1>1, <1>8, <1>9
<1>13. ASSUME s.op = "media"
       PROVE  /\ s.m \in msgs' \union listed'
              /\ \A j \in DOMAIN todo' : j < i => todo'[j].op = "media"
  <2>1. s.m \in msgs \union listed /\ \A j \in DOMAIN todo : j < k => todo[j].op = "media"
    BY <1>2, <1>13 DEF Grounds
  <2>2. 1 < k BY <1>1
  <2>3. msgs' = msgs /\ listed' = listed BY <1>2, <1>3, <2>1, <2>2, StepFrame DEF Effect
  <2>4. \A j \in DOMAIN todo' : j < i => j + 1 \in DOMAIN todo /\ j + 1 < k /\ todo'[j] = todo[j + 1]
    BY <1>1, StepFrame
  <2> QED BY <2>1, <2>3, <2>4
<1> QED BY <1>1, <1>10, <1>11, <1>12, <1>13 DEF Grounds, Known, NewsOf, IsSettled

LEMMA StepOwed == ASSUME StoreInv, Storage!Step PROVE Owed'
<1> SUFFICES ASSUME NEW m \in msgs', IsSettled(m)', atts'[m] = "none"
             PROVE  \/ Coming(m)'
                    \/ Known(m)' /\ \E i \in DOMAIN todo' : todo'[i] = Does("attachment", m)
  BY DEF Owed, Does
<1>1. /\ UNCHANGED <<phone, kept, handled, doomed>> /\ 1 \in DOMAIN todo /\ Grounds(1)
      /\ Leads(todo, 1) /\ Prepared /\ todo # <<>> /\ Owed
      /\ atts \in [Msgs -> {"none", "row", "done"}] /\ msgs \subseteq Msgs
  BY StepFrame DEF StoreInv, Grounded, UnderWay, StoreTypes
<1>2. Effect(todo[1]) BY StepEffect
<1>3. (Known(m)' <=> Known(m)) /\ (Coming(m)' <=> Coming(m)) BY <1>1 DEF Known, Coming, NewsOf
<1>4. CASE todo[1].op = "synced"
  <2>1. m \in msgs /\ atts[m] = "none" => ListedBefore(m, 1) \/ Coming(m) BY <1>1, <1>4 DEF Grounds
  <2>2. ~ListedBefore(m, 1)
    <3>1. \A j \in DOMAIN todo : ~(j < 1) BY StepFrame
    <3> QED BY <3>1 DEF ListedBefore
  <2> QED BY <1>2, <1>3, <1>4, <2>1, <2>2 DEF Effect
<1>5. CASE todo[1].op # "synced" /\ m \in msgs /\ atts[m] = "none"
  <2>1. IsSettled(m) BY <1>2, <1>5, StepFrame DEF Effect, IsSettled
  <2>2. CASE Coming(m) BY <1>3, <2>2
  <2>3. CASE Known(m) /\ \E i \in DOMAIN todo : todo[i] = Does("attachment", m)
    <3>1. PICK i \in DOMAIN todo : todo[i] = Does("attachment", m) BY <2>3
    <3>2. i # 1
      <4>1. ASSUME i = 1 PROVE FALSE
        <5>1. todo[1].op = "attachment" /\ todo[1].m = m BY <3>1, <4>1 DEF Does
        <5>2. atts'[m] = "row" BY <1>1, <1>2, <1>5, <5>1 DEF Effect
        <5> QED BY <5>2
      <4> QED BY <4>1
    <3>3. i - 1 \in DOMAIN todo' /\ todo'[i - 1] = todo[i] BY <3>2, StepFrame
    <3> QED BY <1>3, <2>3, <3>1, <3>3
  <2> QED BY <1>1, <1>5, <2>1, <2>2, <2>3 DEF Owed
<1>6. CASE m \notin msgs
  <2>1. todo[1].op = "message" /\ todo[1].m = m /\ IsSettled(m)
    BY <1>2, <1>6, StepFrame DEF Effect, IsSettled
  <2>2. Known(m) BY <1>1, <2>1 DEF Grounds
  <2>3. 2 \in DOMAIN todo /\ todo[2] = Does("attachment", m)
    <3>1. 1 + 1 = 2 OBVIOUS
    <3> QED BY <1>1, <2>1, <3>1 DEF Leads
  <2>4. 2 - 1 \in DOMAIN todo' /\ todo'[2 - 1] = todo[2] BY <2>3, StepFrame
  <2> QED BY <1>3, <2>2, <2>3, <2>4
<1>7. CASE todo[1].op # "synced" /\ m \in msgs /\ atts[m] # "none"
  <2>1. \/ todo[1].op = "attachments" /\ todo[1].m = m
        \/ todo[1].op = "thread attachments"
    BY <1>1, <1>2, <1>7 DEF Effect
  <2>2. CASE todo[1].op = "attachments" /\ todo[1].m = m
    <3>1. m \in doomed BY <1>1, <2>2 DEF Grounds
    <3> QED BY <1>3, <3>1 DEF Coming
  <2>3. CASE todo[1].op = "thread attachments"
    <3>1. Coming(m) BY <1>1, <1>7, <2>3 DEF Grounds
    <3> QED BY <1>3, <3>1
  <2> QED BY <2>1, <2>2, <2>3
<1> QED BY <1>4, <1>5, <1>6, <1>7

LEMMA StepKeeps == ASSUME StoreInv, Storage!Step PROVE StoreInv'
  BY StepTypes, StepUnderWay, StepForetold, StepGrounded, StepOwed DEF StoreInv

(* A program is begun, with the rows as they are. *)
LEMMA GroundedBy ==
    ASSUME NEW E, Program(todo', E),
           \A s \in E :
              /\ s.op # "synced"
              /\ s.op = "message" => s.m \in phone' \union doomed' /\ Known(s.m)'
              /\ s.op \in {"attachments", "row"} => s.m \in doomed'
              /\ s.op = "thread attachments" =>
                    (\A t \in E : t.op # "message") /\ \A m \in msgs' : Coming(m)'
              /\ s.op = "media" => s.m \in msgs' \union listed' /\ \A t \in E : t.op = "media"
    PROVE  Grounded'
<1>1. \A i \in DOMAIN todo' : todo'[i] \in E BY DEF Program
<1> QED BY <1>1 DEF Grounded, Grounds, Known, Coming, NewsOf

LEMMA Begins ==
    ASSUME StoreInv, NEW E, Program(todo', E), UNCHANGED <<conv, synced, msgs, atts, files>>,
           listed \subseteq listed',
           \A s \in E : s.op \in {"message", "attachment", "media", "unlink", "attachments", "row", "both"} =>
                            s.m \in Msgs
    PROVE  /\ UnderWay' /\ Attached'
           /\ todo' \in Seq(Statements)
           /\ \A i \in DOMAIN todo' :
                 todo'[i].op \in {"message", "attachment", "media", "unlink", "attachments", "row", "both"} =>
                     todo'[i].m \in Msgs
<1>1. todo' \in Seq(Statements) /\ WellOrdered(todo') /\ \A i \in DOMAIN todo' : todo'[i] \in E
  BY DEF Program
<1>2. UnderWay' BY <1>1, Starts
<1>3. Attached' BY DEF StoreInv, Attached
<1> QED BY <1>1, <1>2, <1>3

LEMMA StoreProgram ==
    ASSUME NEW m \in Msgs, NEW E,
           {Does("message", m), Does("attachment", m), Does("conversation", m)} \subseteq E
    PROVE  Program(Storage!Store(m), E) /\ Has(Storage!Store(m), Does("attachment", m))
<1> DEFINE a == Storage!Do("message", m) \o Storage!Do("attachment", m)
           b == Storage!Do("conversation", m)
<1>1. m \in MsgNames /\ Together("message", "attachment") BY DEF MsgNames, Together
<1>2. Program(a, E) /\ Has(a, Does("attachment", m)) BY <1>1, TwoProgram
<1>3. "conversation" \in Single BY DEF Single, StatementKinds, Dependent
<1>4. Program(b, E) BY <1>1, <1>3, OneProgram
<1>5. Storage!Store(m) = a \o b BY DEF Storage!Store
<1> HIDE DEF a, b
<1> QED BY <1>2, <1>4, <1>5, ProgramConcat

LEMMA Regrouped ==
    ASSUME NEW s \in Seq(Statements), NEW t \in Seq(Statements), NEW u \in Seq(Statements)
    PROVE  (s \o t) \o u = s \o (t \o u)
  BY ConcatAssociative

LEMMA DeleteProgram ==
    ASSUME NEW m \in Msgs, NEW E,
           {Does("unlink", m), Does("attachments", m), Does("row", m)} \subseteq E
    PROVE  Program(Storage!Delete(m), E)
<1> DEFINE a == Storage!Do("unlink", m)
           b == Storage!Do("attachments", m)
           c == Storage!Do("row", m)
<1>1. m \in MsgNames /\ Together("attachments", "row") BY DEF MsgNames, Together
<1>2. "unlink" \in Single BY DEF Single, StatementKinds, Dependent
<1>3. Program(a, E) BY <1>1, <1>2, OneProgram
<1>4. Program(b \o c, E) BY <1>1, TwoProgram
<1>5. Storage!Delete(m) = a \o (b \o c)
  <2>1. a \in Seq(Statements) /\ b \in Seq(Statements) /\ c \in Seq(Statements)
    <3>1. Does("attachments", m) \in Statements /\ Does("row", m) \in Statements
      BY <1>1 DEF Does, Statements, StatementKinds
    <3>2. b = <<Does("attachments", m)>> /\ c = <<Does("row", m)>> BY DEF Does, Storage!Do
    <3>3. b \in Seq(Statements) /\ c \in Seq(Statements)
      <4> HIDE DEF b, c
      <4> QED BY <3>1, <3>2, OneLong
    <3> QED BY <1>3, <3>3 DEF Program
  <2>2. Storage!Delete(m) = (a \o b) \o c BY DEF Storage!Delete
  <2> HIDE DEF a, b, c
  <2> QED BY <2>1, <2>2, Regrouped
<1> HIDE DEF a, b, c
<1> QED BY <1>3, <1>4, <1>5, ProgramConcat

LEMMA DeleteThreadProgram ==
    ASSUME Storage!StoreConstants, msgs \subseteq Msgs, NEW E,
           \A m \in msgs : Does("unlink", m) \in E,
           Does("thread attachments", Storage!One) \in E,
           Does("thread messages", Storage!One) \in E, Does("thread", Storage!One) \in E
    PROVE  Program(Storage!DeleteThread, E)
<1> DEFINE o == Storage!One
           a == Storage!ForEach("unlink", msgs)
           b == Storage!Do("thread attachments", o)
           c == Storage!Do("thread messages", o)
           d == Storage!Do("thread", o)
<1>1. o \in MsgNames /\ Together("thread attachments", "thread messages") BY DEF MsgNames, Together
<1>2. "thread" \in Single BY DEF Single, StatementKinds, Dependent
<1>3. IsFiniteSet(msgs)
  <2>1. IsFiniteSet(Msgs) BY DEF Storage!StoreConstants, Storage!IsFiniteSet, IsFiniteSet
  <2> QED BY <2>1, FS_Subset
<1>4. Program(a, E) BY <1>3, ForEachProgram
<1>5. Program(b \o c, E) BY <1>1, TwoProgram
<1>6. Program(d, E) BY <1>1, <1>2, OneProgram
<1>7. b \in Seq(Statements) /\ c \in Seq(Statements)
  <2>1. Does("thread attachments", o) \in Statements /\ Does("thread messages", o) \in Statements
    BY <1>1 DEF Does, Statements, StatementKinds
  <2>2. b = <<Does("thread attachments", o)>> /\ c = <<Does("thread messages", o)>>
    BY DEF Does, Storage!Do
  <2> HIDE DEF b, c, o
  <2> QED BY <2>1, <2>2, OneLong
<1>8. Storage!DeleteThread = (a \o (b \o c)) \o d
  <2>1. Storage!DeleteThread = ((a \o b) \o c) \o d BY DEF Storage!DeleteThread
  <2>2. a \in Seq(Statements) BY <1>4 DEF Program
  <2> HIDE DEF a, b, c, d
  <2>3. (a \o b) \o c = a \o (b \o c) BY <1>7, <2>2, Regrouped
  <2> QED BY <2>1, <2>3
<1> HIDE DEF a, b, c, d
<1>9. Program(a \o (b \o c), E) BY <1>4, <1>5, ProgramConcat
<1> QED BY <1>6, <1>8, <1>9, ProgramConcat

(* What was owed while nothing ran still is when a program begins. *)
LEMMA OwedOnIdle ==
    ASSUME StoreInv, todo = <<>>, UNCHANGED <<synced, msgs, atts>>, page' = page \/ page' = <<>>,
           \A m \in msgs : Coming(m) => Coming(m)'
    PROVE  Owed'
<1>1. \A m \in msgs : IsSettled(m) /\ atts[m] = "none" => Coming(m) BY DEF StoreInv, Owed
<1>2. \A m : IsSettled(m)' => IsSettled(m) BY DEF IsSettled
<1> QED BY <1>1, <1>2 DEF Owed, Coming, NewsOf, IsSettled

LEMMA NewStarts ==
    ASSUME StoreInv, Storage!HandleEvent, kept[handled + 1].kind = "new"
    PROVE  StoreInv'
<1> DEFINE k == handled + 1
<1> USE DEF Storage!store
<1>1. /\ todo = <<>> /\ k \in DOMAIN kept /\ handled' = k /\ handled \in Nat
      /\ todo' = Storage!ProgramOf(kept[k])
      /\ UNCHANGED <<phone, kept, page, toPhone, fetching, doomed, conv, synced, listed, msgs, atts, files>>
  BY DEF Storage!HandleEvent, Storage!Idle, StoreInv, StoreTypes
<1>2. PICK m \in Msgs : kept[k] = NewsOf(m)
  <2>1. kept[k] \in News /\ kept[k].kind = "new" /\ kept[k].m \in Msgs
    BY <1>1 DEF StoreInv, StoreTypes
  <2>2. kept[k] = [kind |-> kept[k].kind, m |-> kept[k].m]
    <3> HIDE DEF k
    <3> QED BY <2>1 DEF News
  <2> QED BY <2>1, <2>2 DEF NewsOf
<1> DEFINE E == {Does("message", m), Does("attachment", m), Does("conversation", m)}
           s == Storage!Store(m)
<1>3. Program(s, E) /\ Has(s, Does("attachment", m)) BY StoreProgram
<1>4. todo' = s \o s BY <1>1, <1>2 DEF Storage!ProgramOf, NewsOf
<1> HIDE DEF s
<1>5. Program(todo', E) /\ Has(todo', Does("attachment", m)) BY <1>3, <1>4, ProgramConcat
<1>6. \A x \in E : x.m = m /\ x.op \in {"message", "attachment", "conversation"} BY DEF Does
<1> HIDE DEF E
<1>7. /\ UnderWay' /\ Attached' /\ todo' \in Seq(Statements)
      /\ \A i \in DOMAIN todo' : todo'[i].m = m
  <2>1. UnderWay' /\ Attached' /\ todo' \in Seq(Statements) BY <1>1, <1>5, <1>6, Begins
  <2> QED BY <1>5, <1>6, <2>1 DEF Program
<1>8. StoreTypes'
  <2>1. handled' \in 0..Len(kept') BY <1>1 DEF StoreInv, StoreTypes
  <2> QED BY <1>1, <1>7, <2>1 DEF StoreInv, StoreTypes
<1>9. Foretold' BY <1>1 DEF StoreInv, Foretold, NewsOf
<1>10. Known(m)' BY <1>1, <1>2 DEF Known, NewsOf
<1>11. m \in phone' \union doomed'
  <2>1. kept[k].kind = "new" /\ kept[k].m = m BY <1>2 DEF NewsOf
  <2> QED BY <1>1, <2>1 DEF StoreInv, Foretold
<1>12. Grounded'
  <2>1. \A x \in E : x.op = "message" => x.m \in phone' \union doomed' /\ Known(x.m)'
    BY <1>6, <1>10, <1>11
  <2> QED BY <1>5, <1>6, <2>1, GroundedBy
<1>13. Owed'
  <2> SUFFICES ASSUME NEW x \in msgs', IsSettled(x)', atts'[x] = "none"
               PROVE  \/ Coming(x)'
                      \/ Known(x)' /\ \E i \in DOMAIN todo' : todo'[i] = Does("attachment", x)
    BY DEF Owed, Does
  <2>1. Coming(x) BY <1>1 DEF StoreInv, Owed, IsSettled
  <2>2. CASE x \in doomed BY <1>1, <2>2 DEF Coming
  <2>3. CASE x \notin doomed
    <3>1. PICK j \in DOMAIN kept : j > handled /\ kept[j] = NewsOf(x) BY <2>1, <2>3 DEF Coming
    <3>2. CASE j = k
      <4>1. x = m BY <1>2, <3>1, <3>2 DEF NewsOf
      <4> QED BY <1>5, <1>10, <4>1 DEF Has
    <3>3. CASE j # k
      <4>2. j \in Nat BY DEF StoreInv, StoreTypes
      <4>1. j > k BY <1>1, <3>1, <3>3, <4>2
      <4> QED BY <1>1, <3>1, <4>1 DEF Coming, NewsOf
    <3> QED BY <3>2, <3>3
  <2> QED BY <2>2, <2>3
<1> QED BY <1>7, <1>8, <1>9, <1>12, <1>13 DEF StoreInv

(* A deletion that is handled was not about a message that is still to come. *)
LEMMA LaterStays ==
    ASSUME StoreInv, handled + 1 \in DOMAIN kept, kept[handled + 1].kind # "new",
           handled' = handled + 1, UNCHANGED <<kept, doomed>>, NEW m, Coming(m)
    PROVE  Coming(m)'
<1>1. CASE m \in doomed BY <1>1 DEF Coming
<1>2. CASE m \notin doomed
  <2>1. PICK j \in DOMAIN kept : j > handled /\ kept[j] = NewsOf(m) BY <1>2 DEF Coming
  <2>2. j # handled + 1 BY <2>1 DEF NewsOf
  <2>3. j > handled + 1 BY <2>1, <2>2 DEF StoreInv, StoreTypes
  <2> QED BY <2>1, <2>3 DEF Coming, NewsOf
<1> QED BY <1>1, <1>2

LEMMA DeletedStarts ==
    ASSUME StoreInv, Storage!HandleEvent, kept[handled + 1].kind = "deleted"
    PROVE  StoreInv'
<1> DEFINE k == handled + 1
<1>1. /\ todo = <<>> /\ k \in DOMAIN kept /\ handled' = k /\ handled \in Nat
      /\ todo' = Storage!ProgramOf(kept[k])
      /\ UNCHANGED <<phone, kept, page, toPhone, fetching, doomed, conv, synced, listed, msgs, atts, files>>
  BY DEF Storage!HandleEvent, Storage!Idle, StoreInv, StoreTypes, Storage!store
<1>2. PICK m \in Msgs : kept[k].m = m /\ m \in doomed BY <1>1 DEF StoreInv, StoreTypes, Foretold
<1> DEFINE E == {Does("unlink", m), Does("attachments", m), Does("row", m), Does("both", m)}
           s == Storage!Delete(m)
           t == Storage!Do("both", m)
<1>3. Program(s, E) BY DeleteProgram
<1>4. Program(t, E)
  <2>1. "both" \in Single /\ m \in MsgNames BY DEF Single, StatementKinds, Dependent, MsgNames
  <2> QED BY <2>1, OneProgram
<1>5. todo' = s \o t BY <1>1, <1>2 DEF Storage!ProgramOf
<1> HIDE DEF s, t
<1>6. Program(todo', E) BY <1>3, <1>4, <1>5, ProgramConcat
<1>7. \A x \in E : x.m = m /\ x.op \in {"unlink", "attachments", "row", "both"} BY DEF Does
<1> HIDE DEF E
<1>8. UnderWay' /\ Attached' /\ todo' \in Seq(Statements) BY <1>1, <1>6, <1>7, Begins
<1>9. \A i \in DOMAIN todo' : todo'[i].m = m BY <1>6, <1>7 DEF Program
<1>10. StoreTypes'
  <2>1. handled' \in 0..Len(kept') BY <1>1 DEF StoreInv, StoreTypes
  <2> QED BY <1>1, <1>8, <1>9, <2>1 DEF StoreInv, StoreTypes
<1>11. Foretold' BY <1>1 DEF StoreInv, Foretold, NewsOf
<1>12. Grounded' BY <1>1, <1>2, <1>6, <1>7, GroundedBy
<1>13. Owed'
  <2>1. \A x \in msgs : Coming(x) => Coming(x)' BY <1>1, LaterStays
  <2> QED BY <1>1, <2>1, OwedOnIdle
<1> QED BY <1>8, <1>10, <1>11, <1>12, <1>13 DEF StoreInv

(* The programs that delete the conversation. *)
Removals == {Does("unlink", m) : m \in msgs}
            \union {Does("thread attachments", Storage!One), Does("thread messages", Storage!One),
                    Does("thread", Storage!One)}
LEMMA RemovalsAre ==
    ASSUME StoreInv, NEW x \in Removals
    PROVE  /\ x.op \in {"unlink", "thread attachments", "thread messages", "thread"}
           /\ x.op = "unlink" => x.m \in Msgs
<1>1. \A m : \A op : Does(op, m).op = op /\ Does(op, m).m = m BY DEF Does
<1>2. msgs \subseteq Msgs BY DEF StoreInv, StoreTypes
<1>3. CASE \E m \in msgs : x = Does("unlink", m)
  <2>1. PICK m \in msgs : x = Does("unlink", m) BY <1>3
  <2>2. x.op = "unlink" /\ x.m = m BY <1>1, <2>1
  <2> QED BY <1>2, <2>2
<1>4. CASE \E op \in {"thread attachments", "thread messages", "thread"} :
              x = Does(op, Storage!One)
  BY <1>1, <1>4
<1> QED BY <1>3, <1>4 DEF Removals

LEMMA RemovalGrounded ==
    ASSUME StoreInv, UNCHANGED msgs, Program(todo', Removals), \A m \in msgs : Coming(m)'
    PROVE  Grounded'
<1> DEFINE E == Removals
<1>1. \A x \in E : x.op \in {"unlink", "thread attachments", "thread messages", "thread"}
  BY RemovalsAre
<1>2. \A m \in msgs' : Coming(m)' OBVIOUS
<1>3. Program(todo', E) OBVIOUS
<1> HIDE DEF E
<1> QED BY <1>1, <1>2, <1>3, GroundedBy

LEMMA ThreadDeletedStarts ==
    ASSUME Storage!StoreConstants, StoreInv, Storage!HandleEvent,
           kept[handled + 1].kind = "thread"
    PROVE  StoreInv'
<1> DEFINE k == handled + 1
           E == Removals
           s == Storage!DeleteThread
           t == Storage!Do("thread", Storage!One)
<1>1. /\ todo = <<>> /\ k \in DOMAIN kept /\ handled' = k /\ handled \in Nat
      /\ todo' = Storage!ProgramOf(kept[k])
      /\ UNCHANGED <<phone, kept, page, toPhone, fetching, doomed, conv, synced, listed, msgs, atts, files>>
  BY DEF Storage!HandleEvent, Storage!Idle, StoreInv, StoreTypes, Storage!store
<1>2. msgs \subseteq Msgs BY DEF StoreInv, StoreTypes
<1>3. Program(s, E) BY <1>2, DeleteThreadProgram DEF Removals
<1>4. Program(t, E)
  <2>1. "thread" \in Single /\ Storage!One \in MsgNames
    BY DEF Single, StatementKinds, Dependent, MsgNames
  <2> QED BY <2>1, OneProgram DEF Removals
<1>5. todo' = s \o t BY <1>1 DEF Storage!ProgramOf
<1> HIDE DEF s, t
<1>6. Program(todo', E) BY <1>3, <1>4, <1>5, ProgramConcat
<1>7. \A x \in E : /\ x.op \in {"unlink", "thread attachments", "thread messages", "thread"}
                   /\ x.op = "unlink" => x.m \in Msgs
  BY RemovalsAre
<1> HIDE DEF E
<1>8. /\ UnderWay' /\ Attached' /\ todo' \in Seq(Statements)
      /\ \A i \in DOMAIN todo' :
            todo'[i].op \in {"message", "attachment", "media", "unlink", "attachments", "row", "both"} =>
                todo'[i].m \in Msgs
  BY <1>1, <1>6, <1>7, Begins
<1>9. StoreTypes'
  <2>1. handled' \in 0..Len(kept') BY <1>1 DEF StoreInv, StoreTypes
  <2> QED BY <1>1, <1>8, <2>1 DEF StoreInv, StoreTypes
<1>10. Foretold' BY <1>1 DEF StoreInv, Foretold, NewsOf
<1>11. Owed'
  <2>1. \A x \in msgs : Coming(x) => Coming(x)' BY <1>1, LaterStays
  <2> QED BY <1>1, <2>1, OwedOnIdle
<1>12. \A m \in msgs : Coming(m)'
  <2> TAKE m \in msgs
  <2>1. CASE m \in doomed BY <1>1, <2>1 DEF Coming
  <2>2. CASE m \notin doomed
    <3>1. m \in phone \ doomed BY <2>2 DEF StoreInv, Foretold
    <3>2. PICK j \in DOMAIN kept : k < j /\ kept[j] = NewsOf(m) BY <1>1, <3>1 DEF StoreInv, Foretold
    <3>3. j > handled' BY <1>1, <3>2
    <3> QED BY <1>1, <3>2, <3>3 DEF Coming, NewsOf
  <2> QED BY <2>1, <2>2
<1>13. Grounded' BY <1>1, <1>6, <1>12, RemovalGrounded DEF E
<1> QED BY <1>8, <1>9, <1>10, <1>11, <1>13 DEF StoreInv

LEMMA SnapshotProgramIs ==
    ASSUME Storage!StoreConstants, StoreInv, NEW S \in SUBSET Msgs, NEW B \in SUBSET Msgs, NEW p,
           p = Storage!SnapshotProgram(S, B)
    PROVE  /\ p \in Seq(Statements) /\ WellOrdered(p)
           /\ p[Len(p)] = Does("synced", Storage!One)
           /\ \A i \in DOMAIN p : i # Len(p) => \/ \E m \in S : p[i] \in {Does("message", m), Does("attachment", m)}
                                                \/ \E m \in Msgs : p[i] = Does("both", m)
           /\ \A m \in msgs \cap (S \union B) : \E i \in DOMAIN p : i < Len(p)
                                 /\ p[i] \in {Does("attachment", m), Does("both", m)}
<1> DEFINE E == {Does("message", m) : m \in S} \union {Does("attachment", m) : m \in S}
                \union {Does("both", m) : m \in Msgs}
           F == E \union {Does("synced", Storage!One)}
           a == Storage!RowsOf(S)
           b == Storage!ForEach("both", (msgs \ S) \cap B)
           c == Storage!Do("synced", Storage!One)
           q == a \o b
<1>1. IsFiniteSet(S) /\ IsFiniteSet((msgs \ S) \cap B) /\ (msgs \ S) \cap B \in SUBSET Msgs
  <2>1. IsFiniteSet(Msgs) BY DEF Storage!StoreConstants, Storage!IsFiniteSet, IsFiniteSet
  <2>2. msgs \subseteq Msgs BY DEF StoreInv, StoreTypes
  <2> QED BY <2>1, <2>2, FS_Subset
<1>2. Program(a, E) /\ \A m \in S : Has(a, Does("attachment", m)) BY <1>1, RowsProgram
<1>3. Program(b, E) /\ \A m \in (msgs \ S) \cap B : Has(b, Does("both", m))
  <2> DEFINE D == (msgs \ S) \cap B
  <2>1. D \in SUBSET Msgs /\ IsFiniteSet(D) /\ \A m \in D : Does("both", m) \in E BY <1>1
  <2> HIDE DEF D, E
  <2> QED BY <2>1, ForEachProgram DEF D
<1>4. /\ Program(c, F) /\ Len(c) = 1 /\ DOMAIN c = {1} /\ c[1] = Does("synced", Storage!One)
  <2>1. "synced" \in Single /\ Storage!One \in MsgNames
    BY DEF Single, StatementKinds, Dependent, MsgNames
  <2> QED BY <2>1, OneProgram
<1>5. p = q \o c BY DEF Storage!SnapshotProgram
<1>6. E \subseteq F OBVIOUS
<1>7. \A x \in E : \/ \E m \in S : x \in {Does("message", m), Does("attachment", m)}
                   \/ \E m \in Msgs : x = Does("both", m)
  OBVIOUS
<1> HIDE DEF E, F, a, b, c
<1>8. /\ Program(q, E)
      /\ \A m \in S : Has(q, Does("attachment", m))
      /\ \A m \in (msgs \ S) \cap B : Has(q, Does("both", m))
  BY <1>2, <1>3, ProgramConcat
<1> HIDE DEF q
<1>9. Program(q, F) BY <1>6, <1>8 DEF Program
<1>10. /\ Program(p, F) /\ Len(p) = Len(q) + Len(c)
       /\ \A i \in DOMAIN c : p[Len(q) + i] = c[i]
       /\ \A i \in DOMAIN q : p[i] = q[i]
  <2>1. /\ Program(q \o c, F) /\ Len(q \o c) = Len(q) + Len(c)
        /\ \A i \in DOMAIN c : (q \o c)[Len(q) + i] = c[i]
        /\ \A i \in DOMAIN q : (q \o c)[i] = q[i]
    <3>1. Program(q, F) /\ Program(c, F) BY <1>4, <1>9
    <3>2. Program(q \o c, F) BY <3>1, ProgramConcat
    <3>3. Len(q \o c) = Len(q) + Len(c) BY <3>1, ProgramConcat
    <3>4. \A i \in DOMAIN c : (q \o c)[Len(q) + i] = c[i] BY <3>1, ProgramConcat
    <3>5. \A i \in DOMAIN q : (q \o c)[i] = q[i] BY <3>1, ProgramConcat
    <3> QED BY <3>2, <3>3, <3>4, <3>5
  <2> QED BY <1>5, <2>1
<1>11. /\ q \in Seq(Statements) /\ Len(q) \in Nat /\ DOMAIN q = 1..Len(q) /\ p \in Seq(Statements)
       /\ Len(p) = Len(q) + 1 /\ DOMAIN p = 1..(Len(q) + 1) /\ p[Len(q) + 1] = c[1]
  <2>1. q \in Seq(Statements) /\ p \in Seq(Statements) /\ Len(p) = Len(q) + 1 /\ p[Len(q) + 1] = c[1]
    BY <1>4, <1>9, <1>10 DEF Program
  <2> QED BY <2>1
<1>12. \A i \in DOMAIN p : i # Len(p) => i \in DOMAIN q /\ p[i] = q[i] /\ q[i] \in E
  BY <1>8, <1>10, <1>11 DEF Program
<1>13. ASSUME NEW m \in msgs \cap (S \union B)
       PROVE  \E i \in DOMAIN p : i < Len(p) /\ p[i] \in {Does("attachment", m), Does("both", m)}
  <2>1. PICK i \in DOMAIN q : q[i] \in {Does("attachment", m), Does("both", m)} BY <1>8 DEF Has
  <2>2. i \in DOMAIN p /\ i < Len(p) /\ p[i] = q[i] BY <1>10, <1>11
  <2> QED BY <2>1, <2>2
<1> QED BY <1>4, <1>7, <1>10, <1>11, <1>12, <1>13 DEF Program

LEMMA SnapshotStarts ==
    ASSUME Storage!StoreConstants, StoreInv, Storage!ApplySnapshot
    PROVE  StoreInv'
<1>1. /\ todo = <<>> /\ page # <<>> /\ page' = <<>> /\ ~synced /\ page[1] \subseteq phone \union doomed
      /\ todo' = Storage!SnapshotProgram(page[1], page[2])
      /\ UNCHANGED <<phone, kept, handled, toPhone, fetching, doomed, conv, synced, listed, msgs, atts, files>>
  BY DEF Storage!ApplySnapshot, Storage!Idle, StoreInv, Foretold, Storage!store
<1>2. PICK S \in SUBSET Msgs, B \in SUBSET Msgs : page = <<S, B>> /\ S \subseteq phone \union doomed
  BY <1>1 DEF StoreInv, StoreTypes
<1>3. todo' = Storage!SnapshotProgram(S, B) BY <1>1, <1>2
<1> DEFINE n == Len(todo')
<1>4. /\ todo' \in Seq(Statements) /\ WellOrdered(todo')
      /\ todo'[n] = Does("synced", Storage!One)
      /\ \A i \in DOMAIN todo' : i # n =>
            \/ \E m \in S : todo'[i] \in {Does("message", m), Does("attachment", m)}
            \/ \E m \in Msgs : todo'[i] = Does("both", m)
      /\ \A m \in msgs \cap (S \union B) : \E i \in DOMAIN todo' : i < n
                            /\ todo'[i] \in {Does("attachment", m), Does("both", m)}
  BY <1>3, SnapshotProgramIs
<1>5. \A op, m : Does(op, m).op = op /\ Does(op, m).m = m BY DEF Does
<1>6. \A i \in DOMAIN todo' : i \in 1..n /\ n \in Nat BY <1>4
<1>7. UnderWay' BY <1>4, Starts
<1>8. StoreTypes'
  <2>1. \A i \in DOMAIN todo' :
           todo'[i].op \in {"message", "attachment", "media", "unlink", "attachments", "row", "both"} =>
               todo'[i].m \in Msgs
    BY <1>4, <1>5
  <2> QED BY <1>1, <1>4, <2>1 DEF StoreInv, StoreTypes
<1>9. Foretold' BY <1>1 DEF StoreInv, Foretold, NewsOf
<1>10. Attached' BY <1>1 DEF StoreInv, Attached
<1>11. Owed' BY <1>1 DEF Owed, IsSettled
<1>12. ASSUME NEW i \in DOMAIN todo', i # n PROVE Grounds(i)'
  <2>1. todo'[i].op \in {"message", "attachment", "both"} BY <1>4, <1>5, <1>12
  <2>2. todo'[i].op = "message" => todo'[i].m \in S BY <1>4, <1>5, <1>12
  <2> QED BY <1>1, <1>2, <2>1, <2>2 DEF Grounds, IsSettled
<1>13. ASSUME NEW i \in DOMAIN todo', i = n PROVE Grounds(i)'
  <2>1. todo'[i].op = "synced" BY <1>4, <1>5, <1>13
  <2>2. \A j \in DOMAIN todo' : j < i => todo'[j].op \in {"message", "attachment", "both"}
    <3> SUFFICES ASSUME NEW j \in DOMAIN todo', j < i
                 PROVE  todo'[j].op \in {"message", "attachment", "both"}
      OBVIOUS
    <3>1. j # n BY <1>6, <1>13
    <3> QED BY <1>4, <1>5, <3>1
  <2>3. \A m \in msgs \cap (S \union B) : \E j \in DOMAIN todo' : j < i
                           /\ todo'[j] \in {Does("attachment", m), Does("both", m)}
    BY <1>4, <1>13
  <2>5. ASSUME NEW m \in msgs, m \notin S \union B, atts[m] = "none" PROVE Coming(m)'
    <3>1. IsSettled(m) BY <1>1, <1>2, <2>5 DEF IsSettled
    <3>2. Coming(m) BY <1>1, <2>5, <3>1 DEF StoreInv, Owed
    <3> QED BY <1>1, <3>2 DEF Coming, NewsOf
  <2>4. ~synced' /\ page' = <<>> /\ i = Len(todo') /\ msgs' = msgs BY <1>1, <1>13
  <2>6. \A m \in msgs' : atts'[m] = "none" => ListedBefore(m, i)' \/ Coming(m)'
    BY <1>1, <2>3, <2>5 DEF ListedBefore, Does
  <2> QED BY <2>1, <2>2, <2>4, <2>6 DEF Grounds
<1>14. Grounded' BY <1>12, <1>13 DEF Grounded
<1> QED BY <1>7, <1>8, <1>9, <1>10, <1>11, <1>14 DEF StoreInv

LEMMA ListStarts == ASSUME StoreInv, Storage!ThreadListSync PROVE StoreInv'
<1> DEFINE o == Storage!One
           E == {Does("conversation", o), Does("thread", o)}
<1>1. /\ todo = <<>>
      /\ todo' = Storage!Do("conversation", o) \/ todo' = Storage!Do("thread", o)
      /\ UNCHANGED <<phone, kept, handled, page, toPhone, fetching, doomed, conv, synced, listed, msgs,
                     atts, files>>
  BY DEF Storage!ThreadListSync, Storage!Idle, Storage!store, Storage!line
<1>2. Program(todo', E)
  <2>1. {"conversation", "thread"} \subseteq Single /\ o \in MsgNames
    BY DEF Single, StatementKinds, Dependent, MsgNames
  <2>2. Program(Storage!Do("conversation", o), E) /\ Program(Storage!Do("thread", o), E)
    BY <2>1, OneProgram
  <2> QED BY <1>1, <2>2
<1>3. \A x \in E : x.op \in {"conversation", "thread"} BY DEF Does
<1> HIDE DEF E
<1>4. /\ UnderWay' /\ Attached' /\ todo' \in Seq(Statements)
      /\ \A i \in DOMAIN todo' :
            todo'[i].op \in {"message", "attachment", "media", "unlink", "attachments", "row", "both"} =>
                todo'[i].m \in Msgs
  BY <1>1, <1>2, <1>3, Begins
<1>5. StoreTypes' BY <1>1, <1>4 DEF StoreInv, StoreTypes
<1>6. Foretold' BY <1>1 DEF StoreInv, Foretold, NewsOf
<1>7. Grounded' BY <1>2, <1>3, GroundedBy
<1>8. Owed'
  <2>1. \A x \in msgs : Coming(x) => Coming(x)' BY <1>1 DEF Coming, NewsOf
  <2> QED BY <1>1, <2>1, OwedOnIdle
<1> QED BY <1>4, <1>5, <1>6, <1>7, <1>8 DEF StoreInv

(* A media list stores only rows, and names those it brings. *)
LEMMA MediaStarts == ASSUME Storage!StoreConstants, StoreInv, Storage!ThreadMedia PROVE StoreInv'
<1>1. PICK S \in SUBSET (phone \union doomed) :
          todo' = Storage!ForEach("media", S) /\ listed' = listed \union (S \ msgs)
  BY DEF Storage!ThreadMedia
<1> DEFINE E == {Does("media", m) : m \in S}
<1>2. /\ todo = <<>>
      /\ UNCHANGED <<phone, kept, handled, page, toPhone, fetching, doomed, conv, synced, msgs, atts, files>>
  BY DEF Storage!ThreadMedia, Storage!Idle
<1>3. S \in SUBSET Msgs /\ listed \subseteq Msgs BY DEF StoreInv, StoreTypes
<1>4. IsFiniteSet(S)
  <2>1. IsFiniteSet(Msgs) BY DEF Storage!StoreConstants, Storage!IsFiniteSet, IsFiniteSet
  <2> QED BY <1>3, <2>1, FS_Subset
<1>5. Program(todo', E) BY <1>1, <1>3, <1>4, ForEachProgram
<1>6. \A x \in E : x.op = "media" /\ x.m \in Msgs /\ x.m \in msgs' \union listed'
  BY <1>1, <1>2, <1>3 DEF Does
<1> HIDE DEF E
<1>7. /\ UnderWay' /\ Attached' /\ todo' \in Seq(Statements)
      /\ \A i \in DOMAIN todo' :
            todo'[i].op \in {"message", "attachment", "media", "unlink", "attachments", "row", "both"} =>
                todo'[i].m \in Msgs
  BY <1>1, <1>2, <1>5, <1>6, Begins
<1>8. StoreTypes' BY <1>1, <1>2, <1>3, <1>7 DEF StoreInv, StoreTypes
<1>9. Foretold' BY <1>2 DEF StoreInv, Foretold, NewsOf
<1>10. Grounded' BY <1>5, <1>6, GroundedBy
<1>11. Owed'
  <2>1. \A x \in msgs : Coming(x) => Coming(x)' BY <1>2 DEF Coming, NewsOf
  <2> QED BY <1>2, <2>1, OwedOnIdle
<1> QED BY <1>7, <1>8, <1>9, <1>10, <1>11 DEF StoreInv

LEMMA DeleteStarts ==
    ASSUME StoreInv, NEW m \in Msgs, Storage!DeleteMessage(m) PROVE StoreInv'
<1> DEFINE E == {Does("unlink", m), Does("attachments", m), Does("row", m)}
<1>1. /\ todo = <<>> /\ todo' = Storage!Delete(m) /\ doomed' = doomed \union {m}
      /\ toPhone' = toPhone \/ toPhone' = Append(toPhone, m)
      /\ UNCHANGED <<phone, kept, handled, page, fetching, conv, synced, listed, msgs, atts, files>>
  BY DEF Storage!DeleteMessage, Storage!Idle, Storage!store
<1>2. Program(todo', E) BY <1>1, DeleteProgram
<1>3. \A x \in E : x.m = m /\ x.op \in {"unlink", "attachments", "row"} BY DEF Does
<1> HIDE DEF E
<1>4. UnderWay' /\ Attached' /\ todo' \in Seq(Statements) BY <1>1, <1>2, <1>3, Begins
<1>5. \A i \in DOMAIN todo' : todo'[i].m = m BY <1>2, <1>3 DEF Program
<1>6. toPhone \in Seq(Msgs) /\ \A i \in DOMAIN toPhone : toPhone[i] \in doomed
  BY DEF StoreInv, StoreTypes, Foretold
<1>7. toPhone' \in Seq(Msgs) /\ \A i \in DOMAIN toPhone' : toPhone'[i] \in doomed' BY <1>1, <1>6
<1>8. StoreTypes' BY <1>1, <1>4, <1>5, <1>7 DEF StoreInv, StoreTypes
<1>9. Foretold'
  <2>1. msgs' \subseteq phone' \union doomed' BY <1>1 DEF StoreInv, Foretold
  <2>2. ASSUME NEW i \in DOMAIN kept'
        PROVE  /\ kept'[i].kind = "new" => kept'[i].m \in phone' \union doomed'
               /\ kept'[i].kind = "deleted" => kept'[i].m \in doomed'
               /\ kept'[i].kind = "thread" =>
                     \A x \in phone' \ doomed' :
                         \E j \in DOMAIN kept' : i < j /\ kept'[j] = NewsOf(x)
    BY <1>1 DEF StoreInv, Foretold
  <2>3. page' # <<>> => ~synced' /\ page'[1] \subseteq phone' \union doomed'
    BY <1>1 DEF StoreInv, Foretold
  <2> QED BY <1>7, <2>1, <2>2, <2>3 DEF Foretold, NewsOf
<1>10. Grounded' BY <1>1, <1>2, <1>3, GroundedBy
<1>11. Owed'
  <2>1. \A x \in msgs : Coming(x) => Coming(x)' BY <1>1 DEF Coming, NewsOf
  <2> QED BY <1>1, <2>1, OwedOnIdle
<1> QED BY <1>4, <1>8, <1>9, <1>10, <1>11 DEF StoreInv

LEMMA ThreadDeleteStarts ==
    ASSUME Storage!StoreConstants, StoreInv, Storage!DeleteConversationByUser PROVE StoreInv'
<1> DEFINE E == Removals
<1>1. /\ todo = <<>> /\ todo' = Storage!DeleteThread /\ doomed' = doomed \union msgs
      /\ toPhone' = toPhone \/ toPhone' = toPhone \o Storage!SetToSeq(msgs)
      /\ UNCHANGED <<phone, kept, handled, page, fetching, conv, synced, listed, msgs, atts, files>>
  BY DEF Storage!DeleteConversationByUser, Storage!Idle, Storage!store
<1>2. msgs \subseteq Msgs BY DEF StoreInv, StoreTypes
<1>3. Program(todo', E) BY <1>1, <1>2, DeleteThreadProgram DEF Removals
<1>4. \A x \in E : /\ x.op \in {"unlink", "thread attachments", "thread messages", "thread"}
                   /\ x.op = "unlink" => x.m \in Msgs
  BY RemovalsAre
<1>5. \A m \in msgs : Coming(m)' BY <1>1 DEF Coming
<1>6. Grounded' BY <1>1, <1>3, <1>5, RemovalGrounded
<1> HIDE DEF E
<1>7. /\ UnderWay' /\ Attached' /\ todo' \in Seq(Statements)
      /\ \A i \in DOMAIN todo' :
            todo'[i].op \in {"message", "attachment", "media", "unlink", "attachments", "row", "both"} =>
                todo'[i].m \in Msgs
  BY <1>1, <1>3, <1>4, Begins
<1>8. toPhone \in Seq(Msgs) /\ \A i \in DOMAIN toPhone : toPhone[i] \in doomed
  BY DEF StoreInv, StoreTypes, Foretold
<1>9. toPhone' \in Seq(Msgs) /\ \A i \in DOMAIN toPhone' : toPhone'[i] \in doomed'
  <2> DEFINE q == Storage!SetToSeq(msgs)
  <2>1. IsFiniteSet(Msgs) BY DEF Storage!StoreConstants, Storage!IsFiniteSet, IsFiniteSet
  <2>2. IsFiniteSet(msgs) BY <1>2, <2>1, FS_Subset
  <2>3. q \in [1..Cardinality(msgs) -> msgs] /\ Cardinality(msgs) \in Nat
    BY <1>2, <2>2, SetToSeqLists
  <2> HIDE DEF q
  <2>4. q \in Seq(Msgs) /\ \A i \in DOMAIN q : q[i] \in msgs BY <1>2, <2>3
  <2>5. toPhone \o q \in Seq(Msgs) /\ \A i \in DOMAIN (toPhone \o q) :
            (toPhone \o q)[i] \in doomed \union msgs
    BY <1>8, <2>4
  <2> QED BY <1>1, <1>8, <2>5 DEF q
<1>10. StoreTypes' BY <1>1, <1>2, <1>7, <1>9 DEF StoreInv, StoreTypes
<1>11. Foretold'
  <2>1. msgs' \subseteq phone' \union doomed' BY <1>1 DEF StoreInv, Foretold
  <2>2. ASSUME NEW i \in DOMAIN kept'
        PROVE  /\ kept'[i].kind = "new" => kept'[i].m \in phone' \union doomed'
               /\ kept'[i].kind = "deleted" => kept'[i].m \in doomed'
               /\ kept'[i].kind = "thread" =>
                     \A x \in phone' \ doomed' :
                         \E j \in DOMAIN kept' : i < j /\ kept'[j] = NewsOf(x)
    BY <1>1 DEF StoreInv, Foretold
  <2>3. page' # <<>> => ~synced' /\ page'[1] \subseteq phone' \union doomed'
    BY <1>1 DEF StoreInv, Foretold
  <2> QED BY <1>9, <2>1, <2>2, <2>3 DEF Foretold, NewsOf
<1>12. Owed' BY <1>1, <1>5, OwedOnIdle
<1> QED BY <1>6, <1>7, <1>10, <1>11, <1>12 DEF StoreInv

LEMMA WipeStarts == ASSUME StoreInv, Storage!Wipe PROVE StoreInv'
<1> DEFINE o == Storage!One
           E == {Does("wipe files", o), Does("wipe rows", o)}
           a == Storage!Do("wipe files", o)
           b == Storage!Do("wipe rows", o)
<1>1. /\ todo = <<>> /\ todo' = a \o b /\ page' = <<>> /\ handled' = 0
      /\ UNCHANGED <<phone, kept, toPhone, fetching, doomed, conv, synced, listed, msgs, atts, files>>
  BY DEF Storage!Wipe, Storage!Idle, Storage!store
<1>2. Program(a, E) /\ Program(b, E)
  <2>1. {"wipe files", "wipe rows"} \subseteq Single /\ o \in MsgNames
    BY DEF Single, StatementKinds, Dependent, MsgNames
  <2> QED BY <2>1, OneProgram
<1>3. \A x \in E : x.op \in {"wipe files", "wipe rows"}
  <2>1. \A op, m : Does(op, m).op = op BY DEF Does
  <2> QED BY <2>1
<1> HIDE DEF E, a, b
<1>4. Program(todo', E) BY <1>1, <1>2, ProgramConcat
<1>5. /\ UnderWay' /\ Attached' /\ todo' \in Seq(Statements)
      /\ \A i \in DOMAIN todo' :
            todo'[i].op \in {"message", "attachment", "media", "unlink", "attachments", "row", "both"} =>
                todo'[i].m \in Msgs
  BY <1>1, <1>3, <1>4, Begins
<1>6. StoreTypes'
  <2>1. handled' \in 0..Len(kept') BY <1>1 DEF StoreInv, StoreTypes
  <2> QED BY <1>1, <1>5, <2>1 DEF StoreInv, StoreTypes
<1>7. Foretold' BY <1>1 DEF StoreInv, Foretold, NewsOf
<1>8. Grounded' BY <1>3, <1>4, GroundedBy
<1>9. Owed'
  <2>1. \A x \in msgs : Coming(x) => Coming(x)'
    <3>1. \A j \in DOMAIN kept : j > 0 BY DEF StoreInv, StoreTypes
    <3> QED BY <1>1, <3>1 DEF Coming, NewsOf
  <2> QED BY <1>1, <2>1, OwedOnIdle
<1> QED BY <1>5, <1>6, <1>7, <1>8, <1>9 DEF StoreInv

(* Nothing of the rows and of the program changes. *)
LEMMA SameRows ==
    ASSUME StoreInv, UNCHANGED <<conv, synced, listed, msgs, atts, files, todo>>
    PROVE  /\ UnderWay' /\ Attached' /\ conv' \in BOOLEAN /\ synced' \in BOOLEAN /\ (synced' => conv')
           /\ msgs' \subseteq Msgs /\ files' \subseteq Msgs /\ atts' \in [Msgs -> {"none", "row", "done"}]
           /\ listed' \subseteq Msgs /\ todo' \in Seq(Statements)
           /\ \A i \in DOMAIN todo' :
                 todo'[i].op \in {"message", "attachment", "media", "unlink", "attachments", "row", "both"} =>
                     todo'[i].m \in Msgs
<1>1. UnderWay /\ Attached BY DEF StoreInv
<1>2. UnderWay' BY <1>1 DEF UnderWay, Prepared, Follows, Leads, Does
<1>3. Attached' BY <1>1 DEF Attached
<1>4. conv' \in BOOLEAN /\ synced' \in BOOLEAN /\ (synced' => conv')
  <2>1. conv \in BOOLEAN /\ synced \in BOOLEAN /\ (synced => conv) BY DEF StoreInv, StoreTypes
  <2> QED BY <2>1, Zenon
<1> QED BY <1>2, <1>3, <1>4 DEF StoreInv, StoreTypes

(* The phone and the wire may go on while a program runs, as long as its *)
(* grounds stay. *)
LEMMA GroundsStay ==
    ASSUME StoreInv, UNCHANGED <<synced, listed, msgs, atts, todo>>,
           phone \union doomed \subseteq phone' \union doomed', doomed \subseteq doomed',
           \/ page' = page \/ page' = <<>>
           \/ todo = <<>> /\ ~synced /\ msgs \subseteq page'[2],
           \A m : Known(m) => Known(m)',
           \A m \in msgs : Coming(m) => Coming(m)'
    PROVE  Grounded' /\ Owed'
<1>1. ASSUME NEW i \in DOMAIN todo PROVE Grounds(i)'
  <2>1. Grounds(i) BY DEF StoreInv, Grounded
  <2>2. todo # <<>>
    <3>1. todo \in Seq(Statements) BY DEF StoreInv, StoreTypes
    <3> QED BY <3>1
  <2>3. \A m : ListedBefore(m, i)' <=> ListedBefore(m, i) BY DEF ListedBefore, Does
  <2>4. \A m : Known(m) => m \in doomed' \/ \E j \in DOMAIN kept' : kept'[j] = NewsOf(m)
    BY DEF Known, NewsOf
  <2> DEFINE s == todo[i]
  <2>5. s.op = "message" =>
           /\ s.m \in phone' \union doomed'
           /\ synced' \/ (page' # <<>> /\ s.m \notin page'[2]) =>
                 s.m \in doomed' \/ \E j \in DOMAIN kept' : kept'[j] = NewsOf(s.m)
    BY <2>1, <2>2, <2>4 DEF Grounds, IsSettled
  <2>6. s.op \in {"attachments", "row"} => s.m \in doomed' BY <2>1 DEF Grounds
  <2>7. s.op = "thread attachments" => /\ \A j \in DOMAIN todo : todo[j].op # "message"
                                       /\ \A m \in msgs' : Coming(m)'
    BY <2>1 DEF Grounds
  <2>8. s.op = "synced" =>
           /\ ~synced' /\ page' = <<>> /\ i = Len(todo)
           /\ \A j \in DOMAIN todo : j < i => todo[j].op \in {"message", "attachment", "both"}
           /\ \A m \in msgs' : atts'[m] = "none" => ListedBefore(m, i)' \/ Coming(m)'
    BY <2>1, <2>2, <2>3 DEF Grounds
  <2>9. todo'[i] = s /\ todo' = todo OBVIOUS
  <2>10. s.op = "media" => /\ s.m \in msgs' \union listed'
                           /\ \A j \in DOMAIN todo : j < i => todo[j].op = "media"
    BY <2>1 DEF Grounds
  <2> HIDE DEF s
  <2> QED BY <2>5, <2>6, <2>7, <2>8, <2>9, <2>10 DEF Grounds, Known, NewsOf, IsSettled
<1>2. Grounded' BY <1>1 DEF Grounded
<1>3. Owed'
  <2> SUFFICES ASSUME NEW m \in msgs', IsSettled(m)', atts'[m] = "none"
               PROVE  \/ Coming(m)'
                      \/ Known(m)' /\ \E i \in DOMAIN todo' : todo'[i] = Does("attachment", m)
    BY DEF Owed, Does
  <2>1. \/ Coming(m)
        \/ Known(m) /\ \E i \in DOMAIN todo : todo[i] = Does("attachment", m)
    BY DEF StoreInv, Owed, IsSettled
  <2> QED BY <2>1
<1> QED BY <1>2, <1>3

LEMMA FetchKeeps ==
    ASSUME StoreInv, NEW m \in Msgs, Storage!StartFetch(m) PROVE StoreInv'
<1>1. /\ fetching' = fetching \union {m}
      /\ UNCHANGED <<phone, kept, handled, page, toPhone, doomed, conv, synced, listed, msgs, atts, files,
                     todo>>
  BY DEF Storage!StartFetch, Storage!store, Storage!line
<1>2. UnderWay' /\ Attached' BY <1>1, SameRows
<1>3. (\A x : Known(x) => Known(x)') /\ (\A x \in msgs : Coming(x) => Coming(x)')
  BY <1>1 DEF Known, Coming, NewsOf
<1>4. Grounded' /\ Owed' BY <1>1, <1>3, GroundsStay
<1>5. Foretold' BY <1>1 DEF StoreInv, Foretold, NewsOf
<1>6. StoreTypes' BY <1>1, SameRows DEF StoreInv, StoreTypes
<1> QED BY <1>2, <1>4, <1>5, <1>6 DEF StoreInv

LEMMA DownloadKeeps ==
    ASSUME StoreInv, NEW m \in Msgs, Storage!MarkAttachmentDownloaded(m) PROVE StoreInv'
<1>1. /\ todo = <<>> /\ fetching' = fetching \ {m} /\ files' = files \union {m}
      /\ atts' = [atts EXCEPT ![m] = IF @ = "none" THEN @ ELSE "done"]
      /\ UNCHANGED <<phone, kept, handled, page, toPhone, doomed, conv, synced, listed, msgs, todo>>
  BY DEF Storage!MarkAttachmentDownloaded, Storage!Idle, Storage!line
<1>2. atts \in [Msgs -> {"none", "row", "done"}] /\ todo \in Seq(Statements)
  BY DEF StoreInv, StoreTypes
<1>3. \A x \in Msgs : atts'[x] = "none" <=> atts[x] = "none" BY <1>1, <1>2
<1>4. DOMAIN todo' = {} /\ todo' = <<>>
  <2>1. DOMAIN <<>> = {} OBVIOUS
  <2> QED BY <1>1, <2>1
<1>5. UnderWay' /\ Grounded' BY <1>4 DEF UnderWay, Prepared, Grounded
<1>6. Attached' BY <1>1, <1>3 DEF StoreInv, Attached
<1>7. Foretold' BY <1>1 DEF StoreInv, Foretold, NewsOf
<1>8. Owed'
  <2>1. \A x \in msgs : IsSettled(x) /\ atts[x] = "none" => Coming(x)
    <3>1. DOMAIN todo = {} BY <1>1, <1>4
    <3> QED BY <3>1 DEF StoreInv, Owed
  <2>2. \A x \in msgs : Coming(x) => Coming(x)' BY <1>1 DEF Coming, NewsOf
  <2>3. msgs \subseteq Msgs BY DEF StoreInv, StoreTypes
  <2> QED BY <1>1, <1>3, <2>1, <2>2, <2>3 DEF Owed, IsSettled
<1>9. StoreTypes'
  <2>1. atts' \in [Msgs -> {"none", "row", "done"}] BY <1>1, <1>2
  <2>2. conv' \in BOOLEAN /\ synced' \in BOOLEAN /\ (synced' => conv')
    <3>1. conv \in BOOLEAN /\ synced \in BOOLEAN /\ (synced => conv) BY DEF StoreInv, StoreTypes
    <3>2. conv' = conv /\ synced' = synced BY <1>1
    <3> QED BY <3>1, <3>2, Zenon
  <2>3. fetching' \subseteq Msgs /\ files' \subseteq Msgs BY <1>1 DEF StoreInv, StoreTypes
  <2> QED BY <1>1, <1>2, <1>4, <2>1, <2>2, <2>3 DEF StoreInv, StoreTypes
<1> QED BY <1>5, <1>6, <1>7, <1>8, <1>9 DEF StoreInv

(* The phone keeps one event more. *)
LEMMA OneMoreKept ==
    ASSUME StoreInv, NEW e \in News, e.kind # "thread" => e.m \in Msgs, kept' = Append(kept, e),
           UNCHANGED handled, doomed \subseteq doomed'
    PROVE  /\ kept' \in Seq(News) /\ handled' \in 0..Len(kept')
           /\ \A i \in DOMAIN kept : i \in DOMAIN kept' /\ kept'[i] = kept[i] /\ i < Len(kept) + 1
           /\ \A i \in DOMAIN kept' : i = Len(kept) + 1 \/ i \in DOMAIN kept
           /\ Len(kept) + 1 \in DOMAIN kept' /\ kept'[Len(kept) + 1] = e
           /\ \A i \in DOMAIN kept' : kept'[i].kind # "thread" => kept'[i].m \in Msgs
           /\ \A m : Known(m) => Known(m)'
           /\ \A m : Coming(m) => Coming(m)'
<1>1. /\ kept \in Seq(News) /\ handled \in 0..Len(kept)
      /\ \A i \in DOMAIN kept : kept[i].kind # "thread" => kept[i].m \in Msgs
  BY DEF StoreInv, StoreTypes
<1>2. /\ kept' \in Seq(News) /\ Len(kept') = Len(kept) + 1 /\ Len(kept) \in Nat
      /\ \A i \in DOMAIN kept : i \in DOMAIN kept' /\ kept'[i] = kept[i] /\ i < Len(kept) + 1
      /\ \A i \in DOMAIN kept' : i = Len(kept) + 1 \/ i \in DOMAIN kept
      /\ Len(kept) + 1 \in DOMAIN kept' /\ kept'[Len(kept) + 1] = e
  BY <1>1
<1>3. handled' \in 0..Len(kept') BY <1>1, <1>2
<1>4. \A i \in DOMAIN kept' : kept'[i].kind # "thread" => kept'[i].m \in Msgs BY <1>1, <1>2
<1>5. \A m : Known(m) => Known(m)' BY <1>2 DEF Known, NewsOf
<1>6. \A m : Coming(m) => Coming(m)' BY <1>2 DEF Coming, NewsOf
<1> QED BY <1>2, <1>3, <1>4, <1>5, <1>6

LEMMA PhoneMessageKeeps ==
    ASSUME StoreInv, NEW m \in Msgs, Storage!PhoneMessage(m) PROVE StoreInv'
<1> DEFINE e == NewsOf(m)
           k == Len(kept) + 1
<1>1. /\ m \notin phone /\ m \notin doomed /\ phone' = phone \union {m} /\ kept' = Append(kept, e)
      /\ UNCHANGED <<handled, page, toPhone, doomed, fetching, conv, synced, listed, msgs, atts, files, todo>>
  BY DEF Storage!PhoneMessage, Storage!store, NewsOf
<1>2. e \in News /\ e.kind = "new" /\ e.m = m BY DEF NewsOf, News, MsgNames
<1> HIDE DEF e
<1>3. /\ kept' \in Seq(News) /\ handled' \in 0..Len(kept')
      /\ \A i \in DOMAIN kept : i \in DOMAIN kept' /\ kept'[i] = kept[i] /\ i < k
      /\ \A i \in DOMAIN kept' : i = k \/ i \in DOMAIN kept
      /\ k \in DOMAIN kept' /\ kept'[k] = e
      /\ \A i \in DOMAIN kept' : kept'[i].kind # "thread" => kept'[i].m \in Msgs
      /\ \A x : Known(x) => Known(x)'
      /\ \A x : Coming(x) => Coming(x)'
  BY <1>1, <1>2, OneMoreKept
<1> HIDE DEF k
<1>4. Grounded' /\ Owed' BY <1>1, <1>3, GroundsStay
<1>5. UnderWay' /\ Attached' BY <1>1, SameRows
<1>6. StoreTypes' BY <1>1, <1>3, SameRows DEF StoreInv, StoreTypes
<1>7. Foretold'
  <2>1. msgs' \subseteq phone' \union doomed' BY <1>1 DEF StoreInv, Foretold
  <2>2. ASSUME NEW i \in DOMAIN kept'
        PROVE  /\ kept'[i].kind = "new" => kept'[i].m \in phone' \union doomed'
               /\ kept'[i].kind = "deleted" => kept'[i].m \in doomed'
    BY <1>1, <1>2, <1>3 DEF StoreInv, Foretold
  <2>3. ASSUME NEW i \in DOMAIN kept', kept'[i].kind = "thread", NEW x \in phone' \ doomed'
        PROVE  \E j \in DOMAIN kept' : i < j /\ kept'[j] = NewsOf(x)
    <3>1. i \in DOMAIN kept /\ kept[i].kind = "thread" /\ i < k BY <1>2, <1>3, <2>3
    <3>2. CASE x = m BY <1>3, <3>1, <3>2 DEF e
    <3>3. CASE x # m
      <4>1. x \in phone \ doomed BY <1>1, <2>3, <3>3
      <4>2. PICK j \in DOMAIN kept : i < j /\ kept[j] = NewsOf(x)
        BY <3>1, <4>1 DEF StoreInv, Foretold
      <4> QED BY <1>3, <4>2
    <3> QED BY <3>2, <3>3
  <2>4. page' # <<>> => ~synced' /\ page'[1] \subseteq phone' \union doomed'
    BY <1>1 DEF StoreInv, Foretold
  <2>5. \A i \in DOMAIN toPhone' : toPhone'[i] \in doomed' BY <1>1 DEF StoreInv, Foretold
  <2> QED BY <2>1, <2>2, <2>3, <2>4, <2>5 DEF Foretold, NewsOf
<1> QED BY <1>4, <1>5, <1>6, <1>7 DEF StoreInv

(* The phone loses messages that are not wanted any more, and tells. *)
LEMMA PhoneLoses ==
    ASSUME StoreInv, NEW e \in News, kept' = Append(kept, e),
           e.kind # "thread" => e.m \in Msgs, e.kind # "new", e.kind = "deleted" => e.m \in doomed',
           e.kind = "thread" => phone' \subseteq doomed',
           phone' \subseteq phone, phone \subseteq phone' \union doomed',
           doomed \subseteq doomed', doomed' \subseteq Msgs,
           toPhone' \in Seq(Msgs), \A i \in DOMAIN toPhone' : toPhone'[i] \in doomed',
           UNCHANGED <<handled, page, fetching, conv, synced, listed, msgs, atts, files, todo>>
    PROVE  StoreInv'
<1> DEFINE k == Len(kept) + 1
<1>1. /\ kept' \in Seq(News) /\ handled' \in 0..Len(kept')
      /\ \A i \in DOMAIN kept : i \in DOMAIN kept' /\ kept'[i] = kept[i] /\ i < k
      /\ \A i \in DOMAIN kept' : i = k \/ i \in DOMAIN kept
      /\ k \in DOMAIN kept' /\ kept'[k] = e
      /\ \A i \in DOMAIN kept' : kept'[i].kind # "thread" => kept'[i].m \in Msgs
      /\ \A x : Known(x) => Known(x)'
      /\ \A x : Coming(x) => Coming(x)'
  BY OneMoreKept
<1> HIDE DEF k
<1>2. phone \union doomed \subseteq phone' \union doomed' OBVIOUS
<1>3. Grounded' /\ Owed' BY <1>1, <1>2, GroundsStay
<1>4. UnderWay' /\ Attached' BY SameRows
<1>5. StoreTypes'
  <2>1. phone' \subseteq Msgs /\ fetching' \subseteq Msgs BY DEF StoreInv, StoreTypes
  <2>2. page' = <<>> \/ \E S, B \in SUBSET Msgs : page' = <<S, B>> BY DEF StoreInv, StoreTypes
  <2> QED BY <1>1, <2>1, <2>2, SameRows DEF StoreTypes
<1>6. Foretold'
  <2>1. msgs' \subseteq phone' \union doomed' BY <1>2 DEF StoreInv, Foretold
  <2>2. ASSUME NEW i \in DOMAIN kept'
        PROVE  /\ kept'[i].kind = "new" => kept'[i].m \in phone' \union doomed'
               /\ kept'[i].kind = "deleted" => kept'[i].m \in doomed'
    <3>1. CASE i = k BY <1>1, <3>1
    <3>2. CASE i \in DOMAIN kept
      <4>1. /\ kept[i].kind = "new" => kept[i].m \in phone \union doomed
            /\ kept[i].kind = "deleted" => kept[i].m \in doomed
        BY <3>2 DEF StoreInv, Foretold
      <4> QED BY <1>1, <1>2, <3>2, <4>1
    <3> QED BY <1>1, <3>1, <3>2
  <2>3. ASSUME NEW i \in DOMAIN kept', kept'[i].kind = "thread", NEW x \in phone' \ doomed'
        PROVE  \E j \in DOMAIN kept' : i < j /\ kept'[j] = NewsOf(x)
    <3>1. i # k BY <1>1, <2>3
    <3>2. i \in DOMAIN kept /\ kept[i].kind = "thread" BY <1>1, <2>3, <3>1
    <3>3. x \in phone \ doomed OBVIOUS
    <3>4. PICK j \in DOMAIN kept : i < j /\ kept[j] = NewsOf(x) BY <3>2, <3>3 DEF StoreInv, Foretold
    <3> QED BY <1>1, <3>4
  <2>4. page' # <<>> => ~synced' /\ page'[1] \subseteq phone' \union doomed'
    BY <1>2 DEF StoreInv, Foretold
  <2> QED BY <2>1, <2>2, <2>3, <2>4 DEF Foretold, NewsOf
<1> QED BY <1>3, <1>4, <1>5, <1>6 DEF StoreInv

LEMMA PhoneDeletesKeeps ==
    ASSUME StoreInv, NEW m \in Msgs, Storage!PhoneDeletes(m) PROVE StoreInv'
<1> DEFINE e == [kind |-> "deleted", m |-> m]
<1>1. e \in News /\ e.kind = "deleted" /\ e.m = m BY DEF News, MsgNames
<1>2. /\ m \in phone /\ phone' = phone \ {m} /\ kept' = Append(kept, e)
      /\ doomed' = doomed \union {m}
      /\ UNCHANGED <<handled, page, toPhone, fetching, conv, synced, listed, msgs, atts, files, todo>>
  BY DEF Storage!PhoneDeletes, Storage!store
<1> HIDE DEF e
<1>3. toPhone' \in Seq(Msgs) /\ \A i \in DOMAIN toPhone' : toPhone'[i] \in doomed'
  BY <1>2 DEF StoreInv, StoreTypes, Foretold
<1>4. doomed' \subseteq Msgs /\ doomed \subseteq doomed' /\ phone' \subseteq phone
      /\ phone \subseteq phone' \union doomed'
  BY <1>2 DEF StoreInv, StoreTypes
<1>5. e.kind # "thread" /\ e.kind # "new" /\ e.m \in Msgs /\ e.m \in doomed' BY <1>1, <1>2
<1> QED BY <1>1, <1>2, <1>3, <1>4, <1>5, PhoneLoses

LEMMA PhoneDeletesThreadKeeps ==
    ASSUME StoreInv, Storage!PhoneDeletesThread PROVE StoreInv'
<1> DEFINE e == [kind |-> "thread", m |-> Storage!One]
<1>1. e \in News /\ e.kind = "thread" BY DEF News, MsgNames
<1>2. /\ phone' = {} /\ kept' = Append(kept, e) /\ doomed' = doomed \union phone
      /\ UNCHANGED <<handled, page, toPhone, fetching, conv, synced, listed, msgs, atts, files, todo>>
  BY DEF Storage!PhoneDeletesThread, Storage!store
<1> HIDE DEF e
<1>3. toPhone' \in Seq(Msgs) /\ \A i \in DOMAIN toPhone' : toPhone'[i] \in doomed'
  BY <1>2 DEF StoreInv, StoreTypes, Foretold
<1>4. /\ doomed' \subseteq Msgs /\ doomed \subseteq doomed' /\ phone' \subseteq phone
      /\ phone \subseteq phone' \union doomed' /\ phone' \subseteq doomed'
  BY <1>2 DEF StoreInv, StoreTypes
<1>5. e.kind # "new" /\ e.kind # "deleted" BY <1>1
<1> QED BY <1>1, <1>2, <1>3, <1>4, <1>5, PhoneLoses

LEMMA DeleteOnPhoneKeeps == ASSUME StoreInv, Storage!DeleteOnPhone PROVE StoreInv'
<1> DEFINE m == Head(toPhone)
           e == [kind |-> "deleted", m |-> m]
<1>1. /\ toPhone # <<>> /\ toPhone' = Tail(toPhone) /\ phone' = phone \ {m}
      /\ kept' = IF m \in phone THEN Append(kept, e) ELSE kept
      /\ UNCHANGED <<handled, page, fetching, doomed, conv, synced, listed, msgs, atts, files, todo>>
  BY DEF Storage!DeleteOnPhone, Storage!store
<1>2. toPhone \in Seq(Msgs) /\ \A i \in DOMAIN toPhone : toPhone[i] \in doomed
  BY DEF StoreInv, StoreTypes, Foretold
<1>3. m \in Msgs /\ m \in doomed BY <1>1, <1>2
<1>4. toPhone' \in Seq(Msgs) /\ \A i \in DOMAIN toPhone' : toPhone'[i] \in doomed' BY <1>1, <1>2
<1>5. e \in News /\ e.kind = "deleted" /\ e.m = m BY <1>3 DEF News, MsgNames
<1> HIDE DEF m, e
<1>6. doomed' \subseteq Msgs /\ doomed \subseteq doomed' /\ phone' \subseteq phone
      /\ phone \subseteq phone' \union doomed'
  BY <1>1, <1>3 DEF StoreInv, StoreTypes
<1>7. CASE m \in phone
  <2>1. kept' = Append(kept, e) BY <1>1, <1>7
  <2>2. e.kind # "thread" /\ e.kind # "new" /\ e.m \in Msgs /\ e.m \in doomed' BY <1>1, <1>3, <1>5
  <2> QED BY <1>1, <1>4, <1>5, <1>6, <2>1, <2>2, PhoneLoses
<1>8. CASE m \notin phone
  <2>1. UNCHANGED <<phone, kept>> BY <1>1, <1>8
  <2>2. UnderWay' /\ Attached' BY <1>1, SameRows
  <2>3. (\A x : Known(x) => Known(x)') /\ (\A x \in msgs : Coming(x) => Coming(x)')
    BY <1>1, <2>1 DEF Known, Coming, NewsOf
  <2>4. Grounded' /\ Owed' BY <1>1, <2>1, <2>3, GroundsStay
  <2>5. Foretold' BY <1>1, <1>4, <2>1 DEF StoreInv, Foretold, NewsOf
  <2>6. StoreTypes' BY <1>1, <1>4, <2>1, SameRows DEF StoreInv, StoreTypes
  <2> QED BY <2>2, <2>4, <2>5, <2>6 DEF StoreInv
<1> QED BY <1>7, <1>8

LEMMA QueryKeeps == ASSUME StoreInv, Storage!Query PROVE StoreInv'
<1>1. /\ todo = <<>> /\ ~synced /\ page' = <<phone, phone \union doomed>>
      /\ UNCHANGED <<phone, kept, handled, toPhone, fetching, doomed, conv, synced, listed, msgs, atts, files,
                     todo>>
  BY DEF Storage!Query, Storage!Idle, Storage!store
<1>2. UnderWay' /\ Attached' BY <1>1, SameRows
<1>3. (\A x : Known(x) => Known(x)') /\ (\A x \in msgs : Coming(x) => Coming(x)')
  BY <1>1 DEF Known, Coming, NewsOf
<1>5. page'[1] = phone /\ page'[2] = phone \union doomed BY <1>1
<1>9. msgs \subseteq page'[2] BY <1>5 DEF StoreInv, Foretold
<1>4. Grounded' /\ Owed' BY <1>1, <1>3, <1>9, GroundsStay
<1>6. Foretold' BY <1>1, <1>5 DEF StoreInv, Foretold, NewsOf
<1>7. \E S, B \in SUBSET Msgs : page' = <<S, B>> BY <1>1 DEF StoreInv, StoreTypes
<1>8. StoreTypes' BY <1>1, <1>7, SameRows DEF StoreInv, StoreTypes
<1> QED BY <1>2, <1>4, <1>6, <1>8 DEF StoreInv

(* The oldest events are forgotten: nothing runs, and what is to come is not *)
(* among them. *)
LEMMA AcknowledgeKeeps == ASSUME StoreInv, Storage!Acknowledge PROVE StoreInv'
<1>1. /\ todo = <<>> /\ handled > 0 /\ kept' = SubSeq(kept, handled + 1, Len(kept)) /\ handled' = 0
      /\ UNCHANGED <<phone, page, toPhone, fetching, doomed, conv, synced, listed, msgs, atts, files, todo>>
  BY DEF Storage!Acknowledge, Storage!Idle, Storage!store
<1>2. /\ kept \in Seq(News) /\ handled \in 0..Len(kept) /\ Len(kept) \in Nat
      /\ \A i \in DOMAIN kept : kept[i].kind # "thread" => kept[i].m \in Msgs
  BY DEF StoreInv, StoreTypes
<1>3. /\ kept' \in Seq(News) /\ Len(kept') = Len(kept) - handled
      /\ \A i \in DOMAIN kept' : i + handled \in DOMAIN kept /\ kept'[i] = kept[i + handled] /\ i \in Nat
      /\ \A j \in DOMAIN kept : j > handled => j - handled \in DOMAIN kept'
                                               /\ kept'[j - handled] = kept[j] /\ j - handled > 0
  <2>1. kept' \in Seq(News) /\ Len(kept') = Len(kept) - handled BY <1>1, <1>2
  <2>2. \A i \in 1..(Len(kept) - handled) : kept'[i] = kept[i + handled] BY <1>1, <1>2
  <2>3. DOMAIN kept' = 1..(Len(kept) - handled) /\ DOMAIN kept = 1..Len(kept) BY <1>2, <2>1
  <2>4. ASSUME NEW j \in DOMAIN kept, j > handled
        PROVE  j - handled \in DOMAIN kept' /\ kept'[j - handled] = kept[j] /\ j - handled > 0
    <3>1. j - handled \in 1..(Len(kept) - handled) /\ (j - handled) + handled = j
      BY <1>2, <2>3, <2>4
    <3> QED BY <2>2, <2>3, <3>1
  <2>5. \A i \in DOMAIN kept' : i + handled \in DOMAIN kept /\ i \in Nat BY <1>2, <2>3
  <2> QED BY <2>1, <2>2, <2>3, <2>4, <2>5
<1>4. ASSUME NEW m, Coming(m) PROVE Coming(m)'
  <2>1. CASE m \in doomed BY <1>1, <2>1 DEF Coming
  <2>2. CASE m \notin doomed
    <3>1. PICK j \in DOMAIN kept : j > handled /\ kept[j] = NewsOf(m) BY <1>4, <2>2 DEF Coming
    <3>2. j - handled \in DOMAIN kept' /\ kept'[j - handled] = NewsOf(m) /\ j - handled > handled'
      BY <1>1, <1>3, <3>1
    <3> QED BY <3>2 DEF Coming, NewsOf
  <2> QED BY <2>1, <2>2
<1>5. DOMAIN todo' = {}
  <2>1. DOMAIN <<>> = {} OBVIOUS
  <2> QED BY <1>1, <2>1
<1>6. Grounded' BY <1>5 DEF Grounded
<1>7. Owed' BY <1>1, <1>4, OwedOnIdle
<1>8. UnderWay' /\ Attached' BY <1>1, SameRows
<1>9. StoreTypes'
  <2>1. handled' \in 0..Len(kept') BY <1>1, <1>2, <1>3
  <2>2. \A i \in DOMAIN kept' : kept'[i].kind # "thread" => kept'[i].m \in Msgs BY <1>2, <1>3
  <2> QED BY <1>1, <1>3, <2>1, <2>2, SameRows DEF StoreInv, StoreTypes
<1>10. Foretold'
  <2>1. ASSUME NEW i \in DOMAIN kept'
        PROVE  /\ kept'[i].kind = "new" => kept'[i].m \in phone' \union doomed'
               /\ kept'[i].kind = "deleted" => kept'[i].m \in doomed'
    BY <1>1, <1>3 DEF StoreInv, Foretold
  <2>2. ASSUME NEW i \in DOMAIN kept', kept'[i].kind = "thread", NEW x \in phone' \ doomed'
        PROVE  \E j \in DOMAIN kept' : i < j /\ kept'[j] = NewsOf(x)
    <3>1. i + handled \in DOMAIN kept /\ kept[i + handled].kind = "thread" /\ x \in phone \ doomed
          /\ i \in Nat
      BY <1>1, <1>3, <2>2
    <3>2. PICK j \in DOMAIN kept : i + handled < j /\ kept[j] = NewsOf(x)
      BY <3>1 DEF StoreInv, Foretold
    <3>3. j \in Nat BY <1>2
    <3>4. j > handled /\ i < j - handled BY <1>2, <3>1, <3>2, <3>3
    <3>5. j - handled \in DOMAIN kept' /\ kept'[j - handled] = NewsOf(x) BY <1>3, <3>2, <3>4
    <3> QED BY <3>4, <3>5
  <2>3. /\ msgs' \subseteq phone' \union doomed'
        /\ page' # <<>> => ~synced' /\ page'[1] \subseteq phone' \union doomed'
        /\ \A i \in DOMAIN toPhone' : toPhone'[i] \in doomed'
    BY <1>1 DEF StoreInv, Foretold
  <2> QED BY <2>1, <2>2, <2>3 DEF Foretold, NewsOf
<1> QED BY <1>6, <1>7, <1>8, <1>9, <1>10 DEF StoreInv

(* The process is killed, wherever it is. *)
LEMMA KillKeeps == ASSUME StoreInv, Storage!Kill PROVE StoreInv'
<1>1. /\ todo' = <<>> /\ handled' = 0 /\ page' = <<>> /\ toPhone' = <<>> /\ fetching' = {}
      /\ UNCHANGED <<phone, kept, doomed>>
      /\ \/ UNCHANGED <<conv, synced, listed, msgs, atts, files>>
         \/ /\ conv' = FALSE /\ synced' = FALSE /\ msgs' = {} /\ atts' = [m \in Msgs |-> "none"]
            /\ UNCHANGED <<files, listed>>
  BY DEF Storage!Kill, Storage!WipeAllData, Storage!store
<1>2. /\ <<>> \in Seq(Statements) /\ <<>> \in Seq(Msgs) /\ DOMAIN <<>> = {} OBVIOUS
<1>3. UnderWay' /\ Grounded' BY <1>1, <1>2 DEF UnderWay, Prepared, Grounded
<1>4. Attached' BY <1>1 DEF StoreInv, Attached
<1>5. StoreTypes'
  <2>1. conv' \in BOOLEAN /\ synced' \in BOOLEAN /\ (synced' => conv')
    <3>1. conv \in BOOLEAN /\ synced \in BOOLEAN /\ (synced => conv) BY DEF StoreInv, StoreTypes
    <3>2. CASE conv' = conv /\ synced' = synced BY <3>1, <3>2, Zenon
    <3>3. CASE conv' = FALSE /\ synced' = FALSE BY <3>3
    <3> QED BY <1>1, <3>2, <3>3
  <2>2. /\ atts' \in [Msgs -> {"none", "row", "done"}]
        /\ msgs' \subseteq Msgs /\ files' \subseteq Msgs /\ listed' \subseteq Msgs
    BY <1>1 DEF StoreInv, StoreTypes
  <2>3. handled' \in 0..Len(kept') /\ kept' \in Seq(News)
        /\ \A i \in DOMAIN kept' : kept'[i].kind # "thread" => kept'[i].m \in Msgs
    BY <1>1 DEF StoreInv, StoreTypes
  <2>4. todo' \in Seq(Statements) /\ DOMAIN todo' = {} /\ toPhone' \in Seq(Msgs) BY <1>1, <1>2
  <2>5. phone' \subseteq Msgs /\ fetching' \subseteq Msgs /\ doomed' \subseteq Msgs
    BY <1>1 DEF StoreInv, StoreTypes
  <2> QED BY <1>1, <2>1, <2>2, <2>3, <2>4, <2>5 DEF StoreTypes
<1>6. Foretold'
  <2>1. msgs' \subseteq phone' \union doomed' BY <1>1 DEF StoreInv, Foretold
  <2>2. DOMAIN toPhone' = {} BY <1>1, <1>2
  <2>3. \A i \in DOMAIN kept' :
           /\ kept'[i].kind = "new" => kept'[i].m \in phone' \union doomed'
           /\ kept'[i].kind = "deleted" => kept'[i].m \in doomed'
           /\ kept'[i].kind = "thread" =>
                 \A x \in phone' \ doomed' : \E j \in DOMAIN kept' : i < j /\ kept'[j] = NewsOf(x)
    BY <1>1 DEF StoreInv, Foretold
  <2> QED BY <1>1, <2>1, <2>2, <2>3 DEF Foretold, NewsOf
<1>7. Owed'
  <2> SUFFICES ASSUME synced', NEW m \in msgs', atts'[m] = "none" PROVE Coming(m)'
    BY <1>1 DEF Owed, IsSettled
  <2>1. synced /\ m \in msgs /\ atts[m] = "none" BY <1>1
  <2>2. Known(m) BY <2>1 DEF StoreInv, Owed, Coming, Known, IsSettled
  <2>3. \A j \in DOMAIN kept : j > 0 BY DEF StoreInv, StoreTypes
  <2> QED BY <1>1, <2>2, <2>3 DEF Known, Coming, NewsOf
<1> QED BY <1>3, <1>4, <1>5, <1>6, <1>7 DEF StoreInv

LEMMA StoreKept ==
    ASSUME Storage!StoreConstants, StoreInv, [Storage!Next]_Storage!vars PROVE StoreInv'
<1>1. CASE Storage!HandleEvent
  <2> DEFINE n == kept[handled + 1]
  <2>1. n \in News
    <3>1. handled + 1 \in DOMAIN kept /\ kept \in Seq(News)
      BY <1>1 DEF Storage!HandleEvent, StoreInv, StoreTypes
    <3> QED BY <3>1
  <2>2. n.kind \in {"new", "deleted", "thread"}
    <3> HIDE DEF n
    <3> QED BY <2>1 DEF News
  <2> QED BY <1>1, <2>2, NewStarts, DeletedStarts, ThreadDeletedStarts
<1>2. CASE UNCHANGED Storage!vars
  <2>1. UNCHANGED <<phone, kept, handled, page, toPhone, fetching, doomed, conv, synced, listed, msgs, atts,
                    files, todo>>
    BY <1>2 DEF Storage!vars
  <2>2. UnderWay' /\ Attached' BY <2>1, SameRows
  <2>3. (\A x : Known(x) => Known(x)') /\ (\A x \in msgs : Coming(x) => Coming(x)')
    BY <2>1 DEF Known, Coming, NewsOf
  <2>4. Grounded' /\ Owed' BY <2>1, <2>3, GroundsStay
  <2>5. Foretold' BY <2>1 DEF StoreInv, Foretold, NewsOf
  <2>6. StoreTypes' BY <2>1, SameRows DEF StoreInv, StoreTypes
  <2> QED BY <2>2, <2>4, <2>5, <2>6 DEF StoreInv
<1> QED
  BY <1>1, <1>2, StepKeeps, SnapshotStarts, ListStarts, MediaStarts, DeleteStarts, ThreadDeleteStarts,
     WipeStarts, FetchKeeps, DownloadKeeps, PhoneMessageKeeps, PhoneDeletesKeeps,
     PhoneDeletesThreadKeeps, DeleteOnPhoneKeeps, QueryKeeps, AcknowledgeKeeps, KillKeeps
     DEF Storage!Next

(* Wherever the process is killed, no attachment is left without its message, *)
(* unless a media list brought it without (handlers.ts:639-661), and a synchronised conversation has every picture of its messages listed *)
(* or on the way (sms-handler.ts deleteMessage, deleteConversation; *)
(* event-handler.ts handleEvent; full-thread-sync.ts): for any messages, *)
(* events, deletions and kills. *)
THEOREM RowsStayWhole ==
    ASSUME Storage!StoreConstants
    PROVE  Storage!Spec => []Storage!RowsAreWhole
<1>1. StoreInv => Storage!RowsAreWhole
  <2> SUFFICES ASSUME StoreInv PROVE Storage!RowsAreWhole
    OBVIOUS
  <2>1. \A m \in Msgs : atts[m] # "none" => m \in msgs \union listed BY DEF StoreInv, Attached
  <2>2. ASSUME synced, todo = <<>>, NEW m \in (phone \cap msgs) \ doomed
        PROVE  atts[m] # "none" \/ \E i \in DOMAIN kept : kept[i] = [kind |-> "new", m |-> m]
    BY <2>2 DEF StoreInv, Owed, Coming, Known, NewsOf, IsSettled
  <2> QED BY <2>1, <2>2 DEF Storage!RowsAreWhole, Storage!Idle
<1> QED BY <1>1, StoreInit, StoreKept, PTL DEF Storage!Spec

(* Types of the rows, the wire and the program. *)
THEOREM StoreTypesHold ==
    ASSUME Storage!StoreConstants
    PROVE  Storage!Spec => []Storage!TypeOK
<1>1. StoreInv => Storage!TypeOK BY DEF StoreInv, StoreTypes, Storage!TypeOK
<1> QED BY <1>1, StoreInit, StoreKept, PTL DEF Storage!Spec

--------------------
(* Contacts: what one of the operations of the pipeline makes of the table, *)
(* beside the vCards that others asked for. *)

Cards == [name : Nat, photo : Nat]
PeopleRows == [name : Nat, photo : Nat, hash : Nat \union {-1}]
Books == UNION {[S -> Cards] : S \in SUBSET Uids}
PeopleTables == UNION {[S -> PeopleRows] : S \in SUBSET Uids}
PeopleOps == {"list", "photos", "uids", "vcards"}
PeopleQueries == [op : PeopleOps, by : Nat, uids : SUBSET Uids, rows : {<<>>}]
Brought == [op : PeopleOps, by : Nat, uids : SUBSET Uids, rows : Books]
Hashes == {<<>>} \union UNION {[S -> Nat] : S \in SUBSET Uids}
SyncRecords ==
    [pc : {"list", "photos", "done", "failed"}, hashes : Hashes, current : BOOLEAN]
AtWork(i) == syncs[i].pc \in {"list", "photos"}

PeopleTypes ==
    /\ contactPhone \in Books /\ db \in PeopleTables /\ changes \in Nat /\ asks \in Nat
    /\ contactUp \in BOOLEAN /\ settled \in BOOLEAN
    /\ contactOut \in Seq(PeopleQueries) /\ contactBack \in Seq(Brought) /\ syncs \in Seq(SyncRecords)
    /\ ~contactUp => contactOut = <<>> /\ contactBack = <<>> /\ \A i \in DOMAIN syncs : ~AtWork(i)

(* What travels for a synchronisation: its list query or answer, then its *)
(* photo query or answer, each of them once. *)
Requested(m) ==
    /\ m.op \in {"list", "photos"} => m.by \in DOMAIN syncs
    /\ m.op = "photos" =>
          /\ syncs[m.by].pc # "list" /\ m.uids \subseteq DOMAIN syncs[m.by].hashes
          /\ \A u \in m.uids : syncs[m.by].hashes[u] # 0
Pair(m, n) == m.op = n.op /\ m.by = n.by /\ m.op \in {"list", "photos"}
Travels ==
    /\ \A k \in DOMAIN contactOut : Requested(contactOut[k]) /\ (contactOut[k].op = "list" => syncs[contactOut[k].by].pc # "photos")
    /\ \A k \in DOMAIN contactBack : Requested(contactBack[k])
    /\ \A k, l \in DOMAIN contactOut : Pair(contactOut[k], contactOut[l]) => k = l
    /\ \A k, l \in DOMAIN contactBack : Pair(contactBack[k], contactBack[l]) => k = l
    /\ \A k \in DOMAIN contactOut, l \in DOMAIN contactBack : ~Pair(contactOut[k], contactBack[l])

(* A photo that the phone has now is no older than any that it has told of. *)
NotNewer(f) ==
    \A u \in DOMAIN f :
       /\ f[u].photo <= changes + 1 /\ f[u].name <= changes + 1
       /\ u \in DOMAIN contactPhone /\ contactPhone[u].photo # 0 => f[u].photo <= contactPhone[u].photo
HashesNotNewer(h) ==
    \A u \in DOMAIN h :
       /\ h[u] <= changes + 1
       /\ u \in DOMAIN contactPhone /\ contactPhone[u].photo # 0 => h[u] <= contactPhone[u].photo
BringsPhotos(m) ==
    m.op = "photos" =>
       \A u \in DOMAIN m.rows :
          u \in m.uids /\ m.rows[u].photo # 0 /\ syncs[m.by].hashes[u] <= m.rows[u].photo
Numbers ==
    /\ NotNewer(contactPhone) /\ NotNewer(db)
    /\ \A k \in DOMAIN contactBack : NotNewer(contactBack[k].rows) /\ BringsPhotos(contactBack[k])
    /\ \A i \in DOMAIN syncs : HashesNotNewer(syncs[i].hashes)
    /\ \A u \in DOMAIN db : /\ db[u].hash <= db[u].photo
                            /\ db[u].photo = 0 <=> db[u].hash = 0

(* What arrives is the phone's present state. *)
Agrees(m) ==
    /\ \A u \in DOMAIN m.rows : u \in DOMAIN contactPhone /\ m.rows[u] = contactPhone[u]
    /\ m.op = "list" => DOMAIN m.rows = DOMAIN contactPhone
SamePeople ==
    /\ \A k \in DOMAIN contactBack : Agrees(contactBack[k])
    /\ DOMAIN db = DOMAIN contactPhone
    /\ \A u \in DOMAIN db : db[u].name = contactPhone[u].name
SamePhoto(u) == contactPhone[u].photo # 0 => db[u].photo = contactPhone[u].photo
Fetched(i, u) ==
    \/ \E k \in DOMAIN contactOut : contactOut[k].op = "photos" /\ contactOut[k].by = i /\ u \in contactOut[k].uids
    \/ \E k \in DOMAIN contactBack : contactBack[k].op = "photos" /\ contactBack[k].by = i /\ u \in DOMAIN contactBack[k].rows
ListComes(i) ==
    \E k \in DOMAIN contactBack : /\ contactBack[k].op = "list" /\ contactBack[k].by = i
                                  /\ \A l \in DOMAIN contactBack : l >= k => Agrees(contactBack[l])
(* A synchronisation whose list is the phone's present one has it on the way, *)
(* or has the people and names, with every photo there or on the way; and one *)
(* that has succeeded has everything. *)
UpToDate(i) ==
    syncs[i].current =>
       /\ syncs[i].pc = "list" => ListComes(i)
       /\ syncs[i].pc = "photos" =>
             SamePeople /\ \A u \in DOMAIN contactPhone : SamePhoto(u) \/ Fetched(i, u)
Present ==
    /\ \A i \in DOMAIN syncs : UpToDate(i)
    /\ settled => SamePeople /\ \A u \in DOMAIN contactPhone : SamePhoto(u)

PeopleInv == PeopleTypes /\ Travels /\ Numbers /\ Present

(* What a sequence of messages is, one longer or one shorter. *)
LEMMA PeopleTail ==
    ASSUME NEW T, NEW s \in Seq(T), s # <<>>
    PROVE  /\ Tail(s) \in Seq(T) /\ 1 \in DOMAIN s /\ Head(s) = s[1] /\ s[1] \in T
           /\ \A k \in DOMAIN Tail(s) : k \in Nat /\ k + 1 \in DOMAIN s /\ Tail(s)[k] = s[k + 1]
           /\ \A k \in DOMAIN s : k # 1 => k - 1 \in DOMAIN Tail(s) /\ Tail(s)[k - 1] = s[k]
           /\ \A k \in DOMAIN s : k \in Nat /\ k >= 1
<1>1. Len(s) \in Nat /\ Len(s) > 0 /\ DOMAIN s = 1..Len(s) OBVIOUS
<1>2. /\ Tail(s) \in Seq(T) /\ Len(Tail(s)) = Len(s) - 1
      /\ \A k \in 1..Len(Tail(s)) : Tail(s)[k] = s[k + 1]
  BY HeadTailProperties
<1>3. DOMAIN Tail(s) = 1..(Len(s) - 1) BY <1>1, <1>2
<1> QED BY <1>1, <1>2, <1>3

LEMMA PeopleAppend ==
    ASSUME NEW T, NEW s \in Seq(T), NEW x \in T
    PROVE  /\ Append(s, x) \in Seq(T) /\ Len(s) + 1 \notin DOMAIN s
           /\ DOMAIN Append(s, x) = DOMAIN s \union {Len(s) + 1}
           /\ Append(s, x)[Len(s) + 1] = x
           /\ \A k \in DOMAIN s : Append(s, x)[k] = s[k] /\ k <= Len(s) + 1
<1>1. Len(s) \in Nat /\ DOMAIN s = 1..Len(s) OBVIOUS
<1>2. /\ Append(s, x) \in Seq(T) /\ Len(Append(s, x)) = Len(s) + 1
      /\ \A k \in 1..Len(s) : Append(s, x)[k] = s[k] /\ Append(s, x)[Len(s) + 1] = x
  BY AppendProperties
<1>3. DOMAIN Append(s, x) = 1..(Len(s) + 1) BY <1>1, <1>2
<1> QED BY <1>1, <1>2, <1>3

LEMMA EmptyBook == <<>> \in Books /\ <<>> \in PeopleTables /\ DOMAIN <<>> = {}
<1>1. <<>> \in [{} -> Cards] /\ <<>> \in [{} -> PeopleRows] OBVIOUS
<1> QED BY <1>1 DEF Books, PeopleTables

LEMMA BookIs ==
    ASSUME NEW f \in Books
    PROVE  /\ DOMAIN f \subseteq Uids
           /\ \A u \in DOMAIN f : f[u] \in Cards /\ f[u].name \in Nat /\ f[u].photo \in Nat
  BY DEF Books, Cards

LEMMA TableIs ==
    ASSUME NEW f \in PeopleTables
    PROVE  /\ DOMAIN f \subseteq Uids
           /\ \A u \in DOMAIN f : /\ f[u] \in PeopleRows /\ f[u].name \in Nat /\ f[u].photo \in Nat
                                  /\ f[u].hash \in Nat \union {-1}
  BY DEF PeopleTables, PeopleRows

LEMMA SyncIs ==
    ASSUME PeopleTypes, NEW i \in DOMAIN syncs
    PROVE  /\ syncs[i] \in SyncRecords /\ i \in Nat /\ i # 0
           /\ DOMAIN syncs[i].hashes \subseteq Uids
           /\ \A u \in DOMAIN syncs[i].hashes : syncs[i].hashes[u] \in Nat
<1>1. syncs[i] \in SyncRecords /\ i \in Nat /\ i # 0 BY DEF PeopleTypes
<1>2. syncs[i].hashes \in Hashes BY <1>1 DEF SyncRecords
<1> QED BY <1>1, <1>2, EmptyBook DEF Hashes

LEMMA PeopleInit == People!Init => PeopleInv
<1> SUFFICES ASSUME People!Init PROVE PeopleInv
  OBVIOUS
<1>1. PICK U \in SUBSET Uids : contactPhone = [u \in U |-> [name |-> 1, photo |-> 1]]
  BY DEF People!Init
<1>2. /\ changes = 0 /\ db = <<>> /\ contactUp = TRUE /\ contactOut = <<>> /\ contactBack = <<>>
      /\ syncs = <<>> /\ asks = 0 /\ settled = FALSE
  BY DEF People!Init
<1>3. contactPhone \in [U -> Cards] BY <1>1 DEF Cards
<1>4. contactPhone \in Books BY <1>3 DEF Books
<1>5. DOMAIN contactOut = {} /\ DOMAIN contactBack = {} /\ DOMAIN syncs = {} /\ DOMAIN db = {}
  BY <1>2, EmptyBook
<1>6. PeopleTypes
  <2>1. contactOut \in Seq(PeopleQueries) /\ contactBack \in Seq(Brought) /\ syncs \in Seq(SyncRecords)
    BY <1>2
  <2>2. db \in PeopleTables BY <1>2, EmptyBook
  <2>3. changes \in Nat /\ asks \in Nat /\ contactUp \in BOOLEAN /\ settled \in BOOLEAN /\ contactUp
    BY <1>2
  <2> QED BY <1>4, <2>1, <2>2, <2>3 DEF PeopleTypes
<1>7. Travels BY <1>5 DEF Travels
<1>8. \A u \in DOMAIN contactPhone : contactPhone[u].photo = 1 /\ contactPhone[u].name = 1 BY <1>1
<1>9. Numbers BY <1>2, <1>5, <1>8 DEF Numbers, NotNewer
<1>10. Present BY <1>2, <1>5 DEF Present
<1> QED BY <1>6, <1>7, <1>9, <1>10 DEF PeopleInv

--------------------
(* The phone's contacts change: whatever was told of them is older now. *)
LEMMA PhoneChangesKeeps ==
    ASSUME PeopleInv, NEW u \in Uids, People!PhoneChanges(u)
    PROVE  PeopleInv'
<1> DEFINE v == changes + 2
           with(c) == [x \in DOMAIN contactPhone \union {u} |-> IF x = u THEN c ELSE contactPhone[x]]
<1>0. PeopleTypes /\ Travels /\ Numbers /\ Present BY DEF PeopleInv
<1>1. /\ changes' = changes + 1 /\ settled' = FALSE
      /\ syncs' = [i \in DOMAIN syncs |-> [syncs[i] EXCEPT !.current = FALSE]]
      /\ UNCHANGED <<db, contactUp, contactOut, contactBack, asks>>
  BY DEF People!PhoneChanges
<1>2. contactPhone \in Books /\ changes \in Nat BY <1>0 DEF PeopleTypes
<1>3. /\ contactPhone' \in Books
      /\ \A x \in DOMAIN contactPhone' :
            /\ contactPhone'[x].name = changes + 2 \/ (x \in DOMAIN contactPhone /\ contactPhone'[x].name = contactPhone[x].name)
            /\ \/ contactPhone'[x].photo \in {0, changes + 2}
               \/ x \in DOMAIN contactPhone /\ contactPhone'[x].photo = contactPhone[x].photo
  <2>1. \/ u \notin DOMAIN contactPhone /\ contactPhone' = with([name |-> v, photo |-> 0])
        \/ u \in DOMAIN contactPhone /\ contactPhone' = with([contactPhone[u] EXCEPT !.name = v])
        \/ u \in DOMAIN contactPhone /\ contactPhone' = with([contactPhone[u] EXCEPT !.photo = v])
        \/ u \in DOMAIN contactPhone /\ contactPhone' = with([contactPhone[u] EXCEPT !.photo = 0])
        \/ u \in DOMAIN contactPhone /\ contactPhone' = [x \in DOMAIN contactPhone \ {u} |-> contactPhone[x]]
    BY DEF People!PhoneChanges
  <2>2. ASSUME NEW c \in Cards, contactPhone' = with(c)
        PROVE  /\ contactPhone' \in Books /\ DOMAIN contactPhone' = DOMAIN contactPhone \union {u}
               /\ \A x \in DOMAIN contactPhone' : contactPhone'[x] = IF x = u THEN c ELSE contactPhone[x]
    <3>1. contactPhone' \in [DOMAIN contactPhone \union {u} -> Cards] BY <1>2, <2>2, BookIs
    <3> QED BY <1>2, <2>2, <3>1, BookIs DEF Books
  <2>3. v \in Nat BY <1>2
  <2>4. CASE u \notin DOMAIN contactPhone /\ contactPhone' = with([name |-> v, photo |-> 0])
    <3>1. [name |-> v, photo |-> 0] \in Cards BY <2>3 DEF Cards
    <3> QED BY <2>2, <2>4, <3>1
  <2>5. ASSUME u \in DOMAIN contactPhone PROVE contactPhone[u] \in Cards BY <1>2, <2>5, BookIs
  <2>6. CASE u \in DOMAIN contactPhone /\ contactPhone' = with([contactPhone[u] EXCEPT !.name = v])
    <3> DEFINE c == [contactPhone[u] EXCEPT !.name = v]
    <3>1. c \in Cards /\ c.name = v /\ c.photo = contactPhone[u].photo BY <2>3, <2>5, <2>6 DEF Cards
    <3> HIDE DEF c
    <3>2. contactPhone' = with(c) BY <2>6 DEF c
    <3> QED BY <2>2, <2>6, <3>1, <3>2
  <2>7. CASE u \in DOMAIN contactPhone /\ contactPhone' = with([contactPhone[u] EXCEPT !.photo = v])
    <3> DEFINE c == [contactPhone[u] EXCEPT !.photo = v]
    <3>1. c \in Cards /\ c.name = contactPhone[u].name /\ c.photo = v BY <2>3, <2>5, <2>7 DEF Cards
    <3> HIDE DEF c
    <3>2. contactPhone' = with(c) BY <2>7 DEF c
    <3> QED BY <2>2, <2>7, <3>1, <3>2
  <2>8. CASE u \in DOMAIN contactPhone /\ contactPhone' = with([contactPhone[u] EXCEPT !.photo = 0])
    <3> DEFINE c == [contactPhone[u] EXCEPT !.photo = 0]
    <3>1. c \in Cards /\ c.name = contactPhone[u].name /\ c.photo = 0 BY <2>5, <2>8 DEF Cards
    <3> HIDE DEF c
    <3>2. contactPhone' = with(c) BY <2>8 DEF c
    <3> QED BY <2>2, <2>8, <3>1, <3>2
  <2>9. CASE u \in DOMAIN contactPhone /\ contactPhone' = [x \in DOMAIN contactPhone \ {u} |-> contactPhone[x]]
    <3>1. contactPhone' \in [DOMAIN contactPhone \ {u} -> Cards] BY <1>2, <2>9, BookIs
    <3>2. DOMAIN contactPhone \ {u} \in SUBSET Uids BY <1>2, BookIs
    <3>3. contactPhone' \in Books BY <3>1, <3>2 DEF Books
    <3> QED BY <2>9, <3>3
  <2> QED BY <2>1, <2>4, <2>6, <2>7, <2>8, <2>9
<1>4. /\ DOMAIN syncs' = DOMAIN syncs /\ syncs' \in Seq(SyncRecords)
      /\ \A i \in DOMAIN syncs : /\ syncs'[i].pc = syncs[i].pc /\ syncs'[i].hashes = syncs[i].hashes
                                 /\ ~syncs'[i].current
  <2>1. \A i \in DOMAIN syncs : syncs[i] \in SyncRecords BY <1>0, SyncIs
  <2>2. \A i \in DOMAIN syncs : syncs'[i] = [syncs[i] EXCEPT !.current = FALSE] BY <1>1
  <2>3. \A i \in DOMAIN syncs : /\ syncs'[i] \in SyncRecords /\ syncs'[i].pc = syncs[i].pc
                                /\ syncs'[i].hashes = syncs[i].hashes /\ syncs'[i].current = FALSE
    BY <2>1, <2>2 DEF SyncRecords
  <2>4. Len(syncs) \in Nat /\ DOMAIN syncs = 1..Len(syncs) BY <1>0 DEF PeopleTypes
  <2>5. syncs' \in [1..Len(syncs) -> SyncRecords] BY <1>1, <2>3, <2>4
  <2>6. syncs' \in Seq(SyncRecords) BY <2>4, <2>5, IsASeq
  <2> QED BY <1>1, <2>3, <2>6
<1>5. PeopleTypes'
  <2>1. \A i \in DOMAIN syncs' : AtWork(i)' <=> AtWork(i) BY <1>4 DEF AtWork
  <2>2. changes' \in Nat BY <1>1, <1>2
  <2> QED BY <1>0, <1>1, <1>3, <1>4, <2>1, <2>2 DEF PeopleTypes
<1>6. Travels'
  <2>1. \A m : Requested(m) => Requested(m)' BY <1>4 DEF Requested
  <2> QED BY <1>0, <1>1, <1>4, <2>1 DEF Travels, Requested, Pair
<1>7. Numbers'
  <2>1. NotNewer(contactPhone)'
    <3>1. \A x \in DOMAIN contactPhone : contactPhone[x].name \in Nat /\ contactPhone[x].photo \in Nat
      BY <1>2, BookIs
    <3>2. \A x \in DOMAIN contactPhone : contactPhone[x].photo <= changes + 1 /\ contactPhone[x].name <= changes + 1
      BY <1>0 DEF Numbers, NotNewer
    <3>3. \A x \in DOMAIN contactPhone' : contactPhone'[x].photo <= changes + 2 /\ contactPhone'[x].name <= changes + 2
      BY <1>2, <1>3, <3>1, <3>2
    <3>4. \A x \in DOMAIN contactPhone' : contactPhone'[x].photo \in Nat BY <1>3, BookIs
    <3> QED BY <1>1, <1>2, <3>3, <3>4 DEF NotNewer
  <2>2. ASSUME NEW f, NotNewer(f),
               \A x \in DOMAIN f : f[x].name \in Nat /\ f[x].photo \in Nat
        PROVE  \A x \in DOMAIN f :
                  /\ f[x].photo <= changes' + 1 /\ f[x].name <= changes' + 1
                  /\ x \in DOMAIN contactPhone' /\ contactPhone'[x].photo # 0 => f[x].photo <= contactPhone'[x].photo
    <3> SUFFICES ASSUME NEW x \in DOMAIN f
                 PROVE  /\ f[x].photo <= changes + 2 /\ f[x].name <= changes + 2
                        /\ x \in DOMAIN contactPhone' /\ contactPhone'[x].photo # 0 => f[x].photo <= contactPhone'[x].photo
      BY <1>1, <1>2
    <3>1. f[x].photo <= changes + 1 /\ f[x].name <= changes + 1 BY <2>2 DEF NotNewer
    <3>2. f[x].photo <= changes + 2 /\ f[x].name <= changes + 2 BY <1>2, <2>2, <3>1
    <3> QED BY <1>3, <2>2, <3>2 DEF NotNewer
  <2>3. NotNewer(db)'
    <3>1. NotNewer(db) /\ db \in PeopleTables BY <1>0 DEF Numbers, PeopleTypes
    <3>2. \A x \in DOMAIN db : db[x].name \in Nat /\ db[x].photo \in Nat BY <3>1, TableIs
    <3> QED BY <1>1, <2>2, <3>1, <3>2 DEF NotNewer
  <2>4. ASSUME NEW k \in DOMAIN contactBack' PROVE NotNewer(contactBack[k].rows)' /\ BringsPhotos(contactBack[k])'
    <3>1. k \in DOMAIN contactBack /\ contactBack'[k] = contactBack[k] /\ contactBack[k] \in Brought
      BY <1>0, <1>1 DEF PeopleTypes
    <3>2. NotNewer(contactBack[k].rows) /\ BringsPhotos(contactBack[k]) /\ Requested(contactBack[k])
      BY <1>0, <3>1 DEF Numbers, Travels
    <3>3. contactBack[k].rows \in Books BY <3>1 DEF Brought
    <3>4. \A x \in DOMAIN contactBack[k].rows : contactBack[k].rows[x].name \in Nat /\ contactBack[k].rows[x].photo \in Nat
      BY <3>3, BookIs
    <3>5. NotNewer(contactBack[k].rows)' BY <2>2, <3>1, <3>2, <3>4 DEF NotNewer
    <3>6. BringsPhotos(contactBack[k])' BY <1>4, <3>1, <3>2 DEF BringsPhotos, Requested
    <3> QED BY <3>5, <3>6
  <2>5. ASSUME NEW i \in DOMAIN syncs' PROVE HashesNotNewer(syncs[i].hashes)'
    <3>1. i \in DOMAIN syncs /\ syncs'[i].hashes = syncs[i].hashes BY <1>4
    <3>2. \A x \in DOMAIN syncs[i].hashes : syncs[i].hashes[x] \in Nat BY <1>0, <3>1, SyncIs
    <3>3. HashesNotNewer(syncs[i].hashes) BY <1>0, <3>1 DEF Numbers
    <3>4. \A x \in DOMAIN syncs[i].hashes :
             /\ syncs[i].hashes[x] <= changes + 1
             /\ x \in DOMAIN contactPhone /\ contactPhone[x].photo # 0 => syncs[i].hashes[x] <= contactPhone[x].photo
      BY <3>3 DEF HashesNotNewer
    <3>5. \A x \in DOMAIN syncs[i].hashes : syncs[i].hashes[x] <= changes + 2 BY <1>2, <3>2, <3>4
    <3>6. \A x \in DOMAIN syncs[i].hashes :
             x \in DOMAIN contactPhone' /\ contactPhone'[x].photo # 0 => syncs[i].hashes[x] <= contactPhone'[x].photo
      BY <1>3, <3>4, <3>5
    <3> QED BY <1>1, <1>2, <3>1, <3>5, <3>6 DEF HashesNotNewer
  <2>6. \A x \in DOMAIN db' : db'[x].hash <= db'[x].photo /\ (db'[x].photo = 0 <=> db'[x].hash = 0)
    BY <1>0, <1>1 DEF Numbers
  <2> QED BY <2>1, <2>3, <2>4, <2>5, <2>6 DEF Numbers
<1>8. Present' BY <1>1, <1>4 DEF Present, UpToDate
<1> QED BY <1>5, <1>6, <1>7, <1>8 DEF PeopleInv

(* What the phone answers with. *)
Photographed(U) == {u \in U \intersect DOMAIN contactPhone : contactPhone[u].photo # 0}
Served(m) ==
    [m EXCEPT !.rows =
       CASE m.op \in {"list", "uids"} -> contactPhone
         [] m.op = "photos" -> People!Only(Photographed(m.uids))
         [] m.op = "vcards" -> People!Only(m.uids)]

LEMMA OnlyIs ==
    ASSUME PeopleTypes, NEW U, U \subseteq Uids
    PROVE  /\ People!Only(U) \in Books /\ DOMAIN People!Only(U) = U \intersect DOMAIN contactPhone
           /\ \A u \in DOMAIN People!Only(U) : People!Only(U)[u] = contactPhone[u]
<1>1. contactPhone \in Books BY DEF PeopleTypes
<1>2. DOMAIN contactPhone \subseteq Uids /\ \A u \in DOMAIN contactPhone : contactPhone[u] \in Cards
  BY <1>1, BookIs
<1>3. People!Only(U) \in [U \intersect DOMAIN contactPhone -> Cards] BY <1>2 DEF People!Only
<1>4. U \intersect DOMAIN contactPhone \in SUBSET Uids OBVIOUS
<1> QED BY <1>3, <1>4 DEF Books, People!Only

LEMMA AnswerIs ==
    ASSUME PeopleTypes, NEW m \in PeopleQueries
    PROVE  /\ Served(m) \in Brought
           /\ Served(m).op = m.op /\ Served(m).by = m.by /\ Served(m).uids = m.uids
           /\ \A u \in DOMAIN Served(m).rows : u \in DOMAIN contactPhone /\ Served(m).rows[u] = contactPhone[u]
           /\ m.op = "list" => DOMAIN Served(m).rows = DOMAIN contactPhone
           /\ m.op = "photos" =>
                /\ \A u \in DOMAIN Served(m).rows : u \in m.uids /\ contactPhone[u].photo # 0
                /\ \A u \in m.uids \intersect DOMAIN contactPhone :
                      contactPhone[u].photo # 0 => u \in DOMAIN Served(m).rows
<1> DEFINE a(R) == [op |-> m.op, by |-> m.by, uids |-> m.uids, rows |-> R]
<1>1. contactPhone \in Books /\ m.op \in PeopleOps /\ m.uids \subseteq Uids /\ m.by \in Nat
  BY DEF PeopleTypes, PeopleQueries
<1>2. ASSUME NEW R \in Books PROVE a(R) \in Brought BY <1>1 DEF Brought
<1>3. \A R : [m EXCEPT !.rows = R] = a(R) BY DEF PeopleQueries
<1>4. CASE m.op \in {"list", "uids"}
  <2>1. Served(m) = [m EXCEPT !.rows = contactPhone] BY <1>4 DEF Served
  <2>2. Served(m) = a(contactPhone) BY <1>3, <2>1
  <2>3. Served(m) \in Brought BY <1>1, <1>2, <2>2
  <2> QED BY <1>4, <2>2, <2>3
<1>5. CASE m.op = "photos"
  <2> DEFINE R == People!Only(Photographed(m.uids))
  <2>1. Served(m) = [m EXCEPT !.rows = R] BY <1>5 DEF Served
  <2>2. Served(m) = a(R) BY <1>3, <2>1
  <2>3. Photographed(m.uids) \subseteq Uids /\ Photographed(m.uids) \subseteq DOMAIN contactPhone
    BY <1>1 DEF Photographed
  <2>4. /\ R \in Books /\ DOMAIN R = Photographed(m.uids) \intersect DOMAIN contactPhone
        /\ \A u \in DOMAIN R : R[u] = contactPhone[u]
    BY <2>3, OnlyIs
  <2> HIDE DEF R
  <2>5. Served(m) \in Brought /\ Served(m).rows = R BY <1>2, <2>2, <2>4
  <2> QED BY <1>5, <2>2, <2>4, <2>5 DEF Photographed
<1>6. CASE m.op = "vcards"
  <2> DEFINE R == People!Only(m.uids)
  <2>1. Served(m) = [m EXCEPT !.rows = R] BY <1>6 DEF Served
  <2>2. Served(m) = a(R) BY <1>3, <2>1
  <2>3. /\ R \in Books /\ DOMAIN R = m.uids \intersect DOMAIN contactPhone
        /\ \A u \in DOMAIN R : R[u] = contactPhone[u]
    BY <1>1, OnlyIs
  <2> HIDE DEF R
  <2>4. Served(m) \in Brought /\ Served(m).rows = R BY <1>2, <2>2, <2>3
  <2> QED BY <1>6, <2>2, <2>3, <2>4
<1> QED BY <1>1, <1>4, <1>5, <1>6 DEF PeopleOps

LEMMA PhoneServesKeeps ==
    ASSUME PeopleInv, People!PhoneServes
    PROVE  PeopleInv'
<1> DEFINE m == Head(contactOut)
           a == Served(m)
<1>0. PeopleTypes /\ Travels /\ Numbers /\ Present BY DEF PeopleInv
<1>1. /\ contactOut # <<>> /\ contactOut' = Tail(contactOut) /\ contactBack' = Append(contactBack, a)
      /\ syncs' = [i \in DOMAIN syncs |->
                     IF m.op = "list" /\ i = m.by THEN [syncs[i] EXCEPT !.current = TRUE] ELSE syncs[i]]
      /\ UNCHANGED <<contactPhone, changes, db, contactUp, asks, settled>>
  BY DEF People!PhoneServes, Served, Photographed
<1>2. /\ contactOut' \in Seq(PeopleQueries) /\ 1 \in DOMAIN contactOut /\ m = contactOut[1] /\ m \in PeopleQueries
      /\ \A k \in DOMAIN contactOut' : k \in Nat /\ k + 1 \in DOMAIN contactOut /\ contactOut'[k] = contactOut[k + 1]
      /\ \A k \in DOMAIN contactOut : k # 1 => k - 1 \in DOMAIN contactOut' /\ contactOut'[k - 1] = contactOut[k]
  BY <1>0, <1>1, PeopleTail DEF PeopleTypes
<1>3. /\ a \in Brought /\ a.op = m.op /\ a.by = m.by /\ a.uids = m.uids
      /\ \A u \in DOMAIN a.rows : u \in DOMAIN contactPhone /\ a.rows[u] = contactPhone[u]
      /\ m.op = "list" => DOMAIN a.rows = DOMAIN contactPhone
      /\ m.op = "photos" =>
           /\ \A u \in DOMAIN a.rows : u \in m.uids /\ contactPhone[u].photo # 0
           /\ \A u \in m.uids \intersect DOMAIN contactPhone : contactPhone[u].photo # 0 => u \in DOMAIN a.rows
  BY <1>0, <1>2, AnswerIs
<1> HIDE DEF m, a
<1>n. PICK n : n = Len(contactBack) + 1 OBVIOUS
<1>4. /\ contactBack' \in Seq(Brought) /\ n \notin DOMAIN contactBack /\ DOMAIN contactBack' = DOMAIN contactBack \union {n}
      /\ contactBack'[n] = a /\ \A k \in DOMAIN contactBack : contactBack'[k] = contactBack[k] /\ k <= n
  BY <1>0, <1>1, <1>n, <1>3, PeopleAppend DEF PeopleTypes
<1>5. /\ DOMAIN syncs' = DOMAIN syncs /\ syncs' \in Seq(SyncRecords)
      /\ \A i \in DOMAIN syncs :
            /\ syncs'[i].pc = syncs[i].pc /\ syncs'[i].hashes = syncs[i].hashes
            /\ ~(m.op = "list" /\ i = m.by) => syncs'[i] = syncs[i]
  <2>1. \A i \in DOMAIN syncs : syncs[i] \in SyncRecords BY <1>0, SyncIs
  <2>2. \A i \in DOMAIN syncs :
           /\ m.op = "list" /\ i = m.by => syncs'[i] = [syncs[i] EXCEPT !.current = TRUE]
           /\ ~(m.op = "list" /\ i = m.by) => syncs'[i] = syncs[i]
    BY <1>1
  <2>3. ASSUME NEW i \in DOMAIN syncs
        PROVE  /\ syncs'[i] \in SyncRecords /\ syncs'[i].pc = syncs[i].pc
               /\ syncs'[i].hashes = syncs[i].hashes
    <3>1. CASE m.op = "list" /\ i = m.by
      <4>1. syncs[i] \in SyncRecords /\ syncs'[i] = [syncs[i] EXCEPT !.current = TRUE]
        BY <2>1, <2>2, <3>1
      <4> QED BY <4>1 DEF SyncRecords
    <3>2. CASE ~(m.op = "list" /\ i = m.by) BY <2>1, <2>2, <3>2
    <3> QED BY <3>1, <3>2
  <2>4. Len(syncs) \in Nat /\ DOMAIN syncs = 1..Len(syncs) BY <1>0 DEF PeopleTypes
  <2>5. syncs' \in [1..Len(syncs) -> SyncRecords] BY <1>1, <2>3, <2>4
  <2>6. syncs' \in Seq(SyncRecords) BY <2>4, <2>5, IsASeq
  <2> QED BY <1>1, <2>2, <2>3, <2>6
<1>6. PeopleTypes'
  <2>1. \A i \in DOMAIN syncs' : AtWork(i)' <=> AtWork(i) BY <1>5 DEF AtWork
  <2> QED BY <1>0, <1>1, <1>2, <1>4, <1>5, <2>1 DEF PeopleTypes
<1>7. Travels'
  <2>1. \A x : Requested(x) => Requested(x)' BY <1>5 DEF Requested
  <2>2. Requested(a)
    <3>1. Requested(m) BY <1>0, <1>2 DEF Travels
    <3> QED BY <1>3, <3>1 DEF Requested
  <2>3. \A k \in DOMAIN contactOut' : Requested(contactOut[k])' /\ (contactOut'[k].op = "list" => syncs'[contactOut'[k].by].pc # "photos")
    <3> SUFFICES ASSUME NEW k \in DOMAIN contactOut'
                 PROVE  Requested(contactOut'[k]) /\ (contactOut'[k].op = "list" => syncs'[contactOut'[k].by].pc # "photos")
      BY <1>5 DEF Requested
    <3>1. k + 1 \in DOMAIN contactOut /\ contactOut'[k] = contactOut[k + 1] BY <1>2
    <3> QED BY <1>0, <1>5, <3>1 DEF Travels, Requested
  <2>4. \A k \in DOMAIN contactBack' : Requested(contactBack[k])'
    <3> SUFFICES ASSUME NEW k \in DOMAIN contactBack' PROVE Requested(contactBack'[k])
      BY <1>5 DEF Requested
    <3> QED BY <1>0, <1>4, <2>2 DEF Travels
  <2>5. ASSUME NEW k \in DOMAIN contactOut', NEW l \in DOMAIN contactOut', Pair(contactOut'[k], contactOut'[l]) PROVE k = l
    <3>1. k \in Nat /\ l \in Nat /\ k + 1 \in DOMAIN contactOut /\ l + 1 \in DOMAIN contactOut
          /\ contactOut'[k] = contactOut[k + 1] /\ contactOut'[l] = contactOut[l + 1]
      BY <1>2
    <3>2. k + 1 = l + 1 BY <1>0, <2>5, <3>1 DEF Travels
    <3> QED BY <3>1, <3>2
  <2>6. ASSUME NEW k \in DOMAIN contactBack', NEW l \in DOMAIN contactBack', Pair(contactBack'[k], contactBack'[l])
        PROVE  k = l
    <3>1. ASSUME NEW j \in DOMAIN contactBack PROVE ~Pair(a, contactBack[j]) /\ ~Pair(contactBack[j], a)
      BY <1>0, <1>2, <1>3 DEF Travels, Pair
    <3> QED BY <1>0, <1>4, <2>6, <3>1 DEF Travels
  <2>7. ASSUME NEW k \in DOMAIN contactOut', NEW l \in DOMAIN contactBack', Pair(contactOut'[k], contactBack'[l]) PROVE FALSE
    <3>1. k \in Nat /\ k + 1 \in DOMAIN contactOut /\ contactOut'[k] = contactOut[k + 1] BY <1>2
    <3>2. l = n BY <1>0, <1>4, <2>7, <3>1 DEF Travels
    <3>3. Pair(contactOut[k + 1], contactOut[1]) BY <1>2, <1>3, <1>4, <2>7, <3>1, <3>2 DEF Pair
    <3>4. k + 1 = 1 BY <1>0, <1>2, <3>1, <3>3 DEF Travels
    <3>5. k # 0 BY <1>2
    <3> QED BY <3>1, <3>4, <3>5
  <2> QED BY <2>3, <2>4, <2>5, <2>6, <2>7 DEF Travels, Pair
<1>8. Numbers'
  <2>1. NotNewer(contactPhone)' /\ NotNewer(db)' BY <1>0, <1>1 DEF Numbers, NotNewer
  <2>2. ASSUME NEW k \in DOMAIN contactBack' PROVE NotNewer(contactBack[k].rows)' /\ BringsPhotos(contactBack[k])'
    <3>1. CASE k \in DOMAIN contactBack
      <4>1. contactBack'[k] = contactBack[k] /\ NotNewer(contactBack[k].rows) /\ BringsPhotos(contactBack[k]) /\ Requested(contactBack[k])
        BY <1>0, <1>4, <3>1 DEF Numbers, Travels
      <4> QED BY <1>1, <1>5, <4>1 DEF NotNewer, BringsPhotos, Requested
    <3>2. CASE k = n
      <4>1. contactBack'[k] = a BY <1>4, <3>2
      <4>2. contactPhone \in Books BY <1>0 DEF PeopleTypes
      <4>3. NotNewer(a.rows)
        <5>1. \A u \in DOMAIN contactPhone : contactPhone[u].photo \in Nat BY <4>2, BookIs
        <5> QED BY <1>0, <1>3, <5>1 DEF Numbers, NotNewer
      <4>4. BringsPhotos(a)
        <5> SUFFICES ASSUME m.op = "photos", NEW u \in DOMAIN a.rows
                     PROVE  u \in a.uids /\ a.rows[u].photo # 0
                            /\ syncs[a.by].hashes[u] <= a.rows[u].photo
          BY <1>3 DEF BringsPhotos
        <5>1. Requested(m) BY <1>0, <1>2 DEF Travels
        <5>2. m.by \in DOMAIN syncs /\ m.uids \subseteq DOMAIN syncs[m.by].hashes
          BY <5>1 DEF Requested
        <5>3. u \in m.uids /\ u \in DOMAIN contactPhone /\ contactPhone[u].photo # 0 BY <1>3
        <5>4. syncs[m.by].hashes[u] <= contactPhone[u].photo
          BY <1>0, <5>2, <5>3 DEF Numbers, HashesNotNewer
        <5> QED BY <1>3, <5>3, <5>4
      <4>5. m.op = "photos" => m.by \in DOMAIN syncs BY <1>0, <1>2 DEF Travels, Requested
      <4> QED BY <1>1, <1>3, <1>5, <4>1, <4>3, <4>4, <4>5 DEF NotNewer, BringsPhotos
    <3> QED BY <1>4, <3>1, <3>2
  <2>3. \A i \in DOMAIN syncs' : HashesNotNewer(syncs[i].hashes)'
    BY <1>0, <1>1, <1>5 DEF Numbers, HashesNotNewer
  <2>4. \A u \in DOMAIN db' : db'[u].hash <= db'[u].photo /\ (db'[u].photo = 0 <=> db'[u].hash = 0)
    BY <1>0, <1>1 DEF Numbers
  <2> QED BY <2>1, <2>2, <2>3, <2>4 DEF Numbers
<1>9. Present'
  <2>1. Agrees(a) BY <1>3 DEF Agrees
  <2>2. ASSUME SamePeople PROVE SamePeople' BY <1>1, <1>4, <2>1, <2>2 DEF SamePeople, Agrees
  <2>3. ASSUME NEW i \in DOMAIN syncs' PROVE UpToDate(i)'
    <3> SUFFICES ASSUME syncs'[i].current
                 PROVE  /\ syncs'[i].pc = "list" => ListComes(i)'
                        /\ syncs'[i].pc = "photos" =>
                              SamePeople' /\ \A u \in DOMAIN contactPhone' : SamePhoto(u)' \/ Fetched(i, u)'
      BY DEF UpToDate
    <3>1. CASE m.op = "list" /\ i = m.by
      <4>1. syncs[i].pc # "photos" BY <1>0, <1>2, <3>1 DEF Travels
      <4>2. ListComes(i)'
        <5>1. n \in DOMAIN contactBack' /\ contactBack'[n].op = "list" /\ contactBack'[n].by = i
          BY <1>3, <1>4, <3>1
        <5>2. \A l \in DOMAIN contactBack' : l >= n => l = n
          <6>1. Len(contactBack) \in Nat /\ DOMAIN contactBack = 1..Len(contactBack)
            BY <1>0 DEF PeopleTypes
          <6> QED BY <1>n, <1>4, <6>1
        <5>3. Agrees(contactBack[n])' BY <1>1, <1>4, <2>1 DEF Agrees
        <5> QED BY <5>1, <5>2, <5>3 DEF ListComes
      <4> QED BY <1>5, <4>1, <4>2
    <3>2. CASE ~(m.op = "list" /\ i = m.by)
      <4>1. syncs'[i] = syncs[i] /\ UpToDate(i) BY <1>0, <1>5, <3>2 DEF Present
      <4>2. ASSUME syncs[i].pc = "list" PROVE ListComes(i)'
        <5>1. PICK k \in DOMAIN contactBack : /\ contactBack[k].op = "list" /\ contactBack[k].by = i
                                              /\ \A l \in DOMAIN contactBack : l >= k => Agrees(contactBack[l])
          BY <4>1, <4>2 DEF UpToDate, ListComes
        <5>2. \A l \in DOMAIN contactBack' : l >= k => Agrees(contactBack[l])'
          BY <1>1, <1>4, <2>1, <5>1 DEF Agrees
        <5> QED BY <1>4, <5>1, <5>2 DEF ListComes
      <4>3. ASSUME syncs[i].pc = "photos", NEW u \in DOMAIN contactPhone
            PROVE  SamePhoto(u)' \/ Fetched(i, u)'
        <5>1. CASE SamePhoto(u) BY <1>1, <5>1 DEF SamePhoto
        <5>2. CASE ~SamePhoto(u)
          <6>1. contactPhone[u].photo # 0 /\ Fetched(i, u)
            BY <4>1, <4>3, <5>2 DEF UpToDate, SamePhoto
          <6>2. ASSUME NEW k \in DOMAIN contactOut, contactOut[k].op = "photos", contactOut[k].by = i, u \in contactOut[k].uids
                PROVE  Fetched(i, u)'
            <7>1. CASE k # 1 BY <1>2, <6>2, <7>1 DEF Fetched
            <7>2. CASE k = 1 BY <1>2, <1>3, <1>4, <6>1, <6>2, <7>2 DEF Fetched
            <7> QED BY <7>1, <7>2
          <6>3. ASSUME NEW k \in DOMAIN contactBack, contactBack[k].op = "photos", contactBack[k].by = i,
                       u \in DOMAIN contactBack[k].rows
                PROVE  Fetched(i, u)'
            BY <1>4, <6>3 DEF Fetched
          <6> QED BY <6>1, <6>2, <6>3 DEF Fetched
        <5> QED BY <5>1, <5>2
      <4> QED BY <1>1, <2>2, <4>1, <4>2, <4>3 DEF UpToDate
    <3> QED BY <3>1, <3>2
  <2>4. ASSUME settled' PROVE SamePeople' /\ \A u \in DOMAIN contactPhone' : SamePhoto(u)'
    BY <1>0, <1>1, <2>2, <2>4 DEF Present, SamePhoto
  <2> QED BY <2>3, <2>4 DEF Present
<1> QED BY <1>6, <1>7, <1>8, <1>9 DEF PeopleInv

(* What travels still has its synchronisation, when those only go on. *)
GoOn ==
    /\ DOMAIN syncs \subseteq DOMAIN syncs'
    /\ \A i \in DOMAIN syncs :
          syncs[i].pc # "list" => syncs'[i].pc # "list" /\ syncs'[i].hashes = syncs[i].hashes

LEMMA AskedKept == ASSUME GoOn, NEW m, Requested(m) PROVE Requested(m)'
  BY DEF GoOn, Requested

(* The channels lose their heads, or the desktop asks for something new. *)
LEMMA TravelsKept ==
    ASSUME PeopleTypes, Travels, GoOn, contactOut' = contactOut,
           contactBack' = contactBack \/ (contactBack # <<>> /\ contactBack' = Tail(contactBack)),
           \A k \in DOMAIN contactOut : contactOut[k].op = "list" => syncs'[contactOut[k].by].pc # "photos"
    PROVE  Travels'
<1>1. \A m : Requested(m) => Requested(m)' BY AskedKept
<1>2. \A k \in DOMAIN contactOut' : Requested(contactOut[k])' BY <1>1 DEF Travels, Requested
<1>3. CASE contactBack' = contactBack
  <2>1. \A k \in DOMAIN contactBack' : Requested(contactBack[k])'
    BY <1>1, <1>3 DEF Travels, Requested
  <2> QED BY <1>2, <1>3, <2>1 DEF Travels, Pair
<1>4. CASE contactBack # <<>> /\ contactBack' = Tail(contactBack)
  <2>1. \A k \in DOMAIN contactBack' : k \in Nat /\ k + 1 \in DOMAIN contactBack /\ contactBack'[k] = contactBack[k + 1]
    BY <1>4, PeopleTail DEF PeopleTypes
  <2>2. \A k \in DOMAIN contactBack' : Requested(contactBack[k])'
    <3> SUFFICES ASSUME NEW k \in DOMAIN contactBack' PROVE Requested(contactBack[k])'
      OBVIOUS
    <3>1. Requested(contactBack[k + 1]) /\ contactBack'[k] = contactBack[k + 1] BY <2>1 DEF Travels
    <3> QED BY <3>1 DEF GoOn, Requested
  <2>3. ASSUME NEW k \in DOMAIN contactBack', NEW l \in DOMAIN contactBack', Pair(contactBack'[k], contactBack'[l])
        PROVE  k = l
    <3>1. k \in Nat /\ l \in Nat /\ k + 1 \in DOMAIN contactBack /\ l + 1 \in DOMAIN contactBack
          /\ contactBack'[k] = contactBack[k + 1] /\ contactBack'[l] = contactBack[l + 1]
      BY <2>1
    <3>2. k + 1 = l + 1 BY <2>3, <3>1 DEF Travels
    <3> QED BY <3>1, <3>2
  <2>4. \A k \in DOMAIN contactOut', l \in DOMAIN contactBack' : ~Pair(contactOut'[k], contactBack'[l])
    BY <2>1 DEF Travels
  <2> QED BY <1>2, <2>2, <2>3, <2>4 DEF Travels, Pair
<1> QED BY <1>3, <1>4

LEMMA TravelsGrown ==
    ASSUME PeopleTypes, Travels, GoOn, NEW x \in PeopleQueries, contactOut' = Append(contactOut, x),
           contactBack' = contactBack \/ (contactBack # <<>> /\ contactBack' = Tail(contactBack)),
           \A k \in DOMAIN contactOut : contactOut[k].op = "list" => syncs'[contactOut[k].by].pc # "photos",
           x.op \in {"list", "photos"} => x.by \in DOMAIN syncs',
           x.op = "list" => syncs'[x.by].pc # "photos",
           x.op = "photos" =>
              /\ syncs'[x.by].pc # "list" /\ x.uids \subseteq DOMAIN syncs'[x.by].hashes
              /\ \A u \in x.uids : syncs'[x.by].hashes[u] # 0,
           \A k \in DOMAIN contactOut : ~Pair(contactOut[k], x), \A k \in DOMAIN contactBack : ~Pair(contactBack[k], x)
    PROVE  Travels'
<1>n. PICK n : n = Len(contactOut) + 1 OBVIOUS
<1>1. /\ DOMAIN contactOut' = DOMAIN contactOut \union {n} /\ n \notin DOMAIN contactOut /\ contactOut'[n] = x
      /\ \A k \in DOMAIN contactOut : contactOut'[k] = contactOut[k]
  BY <1>n, PeopleAppend DEF PeopleTypes
<1>2. \A m : Requested(m) => Requested(m)' BY AskedKept
<1>3. \A k \in DOMAIN contactOut' : Requested(contactOut[k])' /\ (contactOut'[k].op = "list" => syncs'[contactOut'[k].by].pc # "photos")
  <2> SUFFICES ASSUME NEW k \in DOMAIN contactOut'
               PROVE  Requested(contactOut[k])' /\ (contactOut'[k].op = "list" => syncs'[contactOut'[k].by].pc # "photos")
    OBVIOUS
  <2>1. CASE k = n BY <1>1, <2>1 DEF Requested
  <2>2. CASE k \in DOMAIN contactOut
    <3>1. Requested(contactOut[k]) /\ contactOut'[k] = contactOut[k] BY <1>1, <2>2 DEF Travels
    <3> QED BY <2>2, <3>1 DEF GoOn, Requested
  <2> QED BY <1>1, <2>1, <2>2
<1>4. \A k, l \in DOMAIN contactOut' : Pair(contactOut'[k], contactOut'[l]) => k = l
  BY <1>1 DEF Travels, Pair
<1>5. CASE contactBack' = contactBack
  <2>1. \A k \in DOMAIN contactBack' : Requested(contactBack[k])'
    BY <1>2, <1>5 DEF Travels, Requested
  <2>2. \A k \in DOMAIN contactOut', l \in DOMAIN contactBack' : ~Pair(contactOut'[k], contactBack'[l])
    BY <1>1, <1>5 DEF Travels, Pair
  <2> QED BY <1>3, <1>4, <1>5, <2>1, <2>2 DEF Travels, Pair
<1>6. CASE contactBack # <<>> /\ contactBack' = Tail(contactBack)
  <2>1. \A k \in DOMAIN contactBack' : k \in Nat /\ k + 1 \in DOMAIN contactBack /\ contactBack'[k] = contactBack[k + 1]
    BY <1>6, PeopleTail DEF PeopleTypes
  <2>2. \A k \in DOMAIN contactBack' : Requested(contactBack[k])'
    <3> SUFFICES ASSUME NEW k \in DOMAIN contactBack' PROVE Requested(contactBack[k])'
      OBVIOUS
    <3>1. Requested(contactBack[k + 1]) /\ contactBack'[k] = contactBack[k + 1] BY <2>1 DEF Travels
    <3> QED BY <3>1 DEF GoOn, Requested
  <2>3. ASSUME NEW k \in DOMAIN contactBack', NEW l \in DOMAIN contactBack', Pair(contactBack'[k], contactBack'[l])
        PROVE  k = l
    <3>1. k \in Nat /\ l \in Nat /\ k + 1 \in DOMAIN contactBack /\ l + 1 \in DOMAIN contactBack
          /\ contactBack'[k] = contactBack[k + 1] /\ contactBack'[l] = contactBack[l + 1]
      BY <2>1
    <3>2. k + 1 = l + 1 BY <2>3, <3>1 DEF Travels
    <3> QED BY <3>1, <3>2
  <2>4. ASSUME NEW k \in DOMAIN contactOut', NEW l \in DOMAIN contactBack' PROVE ~Pair(contactOut'[k], contactBack'[l])
    <3>1. l + 1 \in DOMAIN contactBack /\ contactBack'[l] = contactBack[l + 1] BY <2>1
    <3>2. CASE k = n
      <4>1. ~Pair(contactBack[l + 1], x) BY <3>1
      <4> QED BY <1>1, <3>1, <3>2, <4>1 DEF Pair
    <3>3. CASE k \in DOMAIN contactOut
      <4>1. ~Pair(contactOut[k], contactBack[l + 1]) BY <3>1, <3>3 DEF Travels
      <4> QED BY <1>1, <3>1, <3>3, <4>1
    <3> QED BY <1>1, <3>2, <3>3
  <2> QED BY <1>3, <1>4, <2>2, <2>3, <2>4 DEF Travels, Pair
<1> QED BY <1>5, <1>6

LEMMA SyncStartsKeeps ==
    ASSUME PeopleInv, People!SyncStarts
    PROVE  PeopleInv'
<1>0. PeopleTypes /\ Travels /\ Numbers /\ Present BY DEF PeopleInv
<1>n. PICK n : n = Len(syncs) + 1 OBVIOUS
<1> DEFINE s == [pc |-> "list", hashes |-> <<>>, current |-> FALSE]
           x == [op |-> "list", by |-> n, uids |-> {}, rows |-> <<>>]
<1>1. /\ contactUp /\ syncs' = Append(syncs, s) /\ contactOut' = Append(contactOut, x)
      /\ UNCHANGED <<contactPhone, changes, db, contactUp, contactBack, asks, settled>>
  BY <1>n DEF People!SyncStarts, People!Query
<1>2. s \in SyncRecords BY DEF SyncRecords, Hashes
<1>3. /\ syncs' \in Seq(SyncRecords) /\ n \notin DOMAIN syncs /\ n \in Nat
      /\ DOMAIN syncs' = DOMAIN syncs \union {n} /\ syncs'[n] = s
      /\ \A i \in DOMAIN syncs : syncs'[i] = syncs[i]
  BY <1>0, <1>1, <1>2, <1>n, PeopleAppend DEF PeopleTypes
<1>4. x \in PeopleQueries BY <1>3 DEF PeopleQueries, PeopleOps
<1>5. x.op = "list" /\ x.by = n /\ s.pc = "list" /\ s.hashes = <<>> /\ ~s.current OBVIOUS
<1> HIDE DEF s, x
<1>6. contactOut' \in Seq(PeopleQueries) /\ \A k \in DOMAIN contactOut : k \in DOMAIN contactOut' /\ contactOut'[k] = contactOut[k]
  BY <1>0, <1>1, <1>4, PeopleAppend DEF PeopleTypes
<1>7. PeopleTypes' BY <1>0, <1>1, <1>3, <1>6 DEF PeopleTypes
<1>8. Travels'
  <2>1. GoOn BY <1>3 DEF GoOn
  <2>2. \A k \in DOMAIN contactOut : ~Pair(contactOut[k], x)
    BY <1>0, <1>3, <1>5 DEF Travels, Requested, Pair
  <2>3. \A k \in DOMAIN contactBack : ~Pair(contactBack[k], x)
    BY <1>0, <1>3, <1>5 DEF Travels, Requested, Pair
  <2>4. \A k \in DOMAIN contactOut : contactOut[k].op = "list" => syncs'[contactOut[k].by].pc # "photos"
    BY <1>0, <1>3 DEF Travels, Requested
  <2> QED BY <1>0, <1>1, <1>3, <1>4, <1>5, <2>1, <2>2, <2>3, <2>4, TravelsGrown
<1>9. Numbers'
  <2>1. \A i \in DOMAIN syncs' : HashesNotNewer(syncs[i].hashes)'
    <3> SUFFICES ASSUME NEW i \in DOMAIN syncs' PROVE HashesNotNewer(syncs[i].hashes)'
      OBVIOUS
    <3>1. CASE i = n
      <4>1. DOMAIN syncs'[i].hashes = {} BY <1>3, <1>5, <3>1, EmptyBook
      <4> QED BY <4>1 DEF HashesNotNewer
    <3>2. CASE i \in DOMAIN syncs BY <1>0, <1>1, <1>3, <3>2 DEF Numbers, HashesNotNewer
    <3> QED BY <1>3, <3>1, <3>2
  <2>2. \A k \in DOMAIN contactBack' : NotNewer(contactBack[k].rows)' /\ BringsPhotos(contactBack[k])'
    BY <1>0, <1>1, <1>3 DEF Numbers, NotNewer, BringsPhotos, Travels, Requested
  <2>3. NotNewer(contactPhone)' /\ NotNewer(db)' BY <1>0, <1>1 DEF Numbers, NotNewer
  <2> QED BY <1>0, <1>1, <2>1, <2>2, <2>3 DEF Numbers
<1>10. Present'
  <2>1. SamePeople' <=> SamePeople BY <1>1 DEF SamePeople, Agrees
  <2>2. \A u : SamePhoto(u) => SamePhoto(u)' BY <1>1 DEF SamePhoto
  <2>3. ASSUME NEW i \in DOMAIN syncs' PROVE UpToDate(i)'
    <3>1. CASE i = n BY <1>3, <1>5, <3>1 DEF UpToDate
    <3>2. CASE i \in DOMAIN syncs
      <4>1. UpToDate(i) /\ syncs'[i] = syncs[i] BY <1>0, <1>3, <3>2 DEF Present
      <4>2. ListComes(i) => ListComes(i)' BY <1>1 DEF ListComes, Agrees
      <4>3. \A u : Fetched(i, u) => Fetched(i, u)' BY <1>1, <1>6 DEF Fetched
      <4> QED BY <1>1, <2>1, <2>2, <4>1, <4>2, <4>3 DEF UpToDate
    <3> QED BY <1>3, <3>1, <3>2
  <2> QED BY <1>0, <1>1, <2>1, <2>2, <2>3 DEF Present
<1> QED BY <1>7, <1>8, <1>9, <1>10 DEF PeopleInv

LEMMA RequestAllUidsKeeps ==
    ASSUME PeopleInv, People!RequestAllUids
    PROVE  PeopleInv'
<1>0. PeopleTypes /\ Travels /\ Numbers /\ Present BY DEF PeopleInv
<1> DEFINE x == [op |-> "uids", by |-> 0, uids |-> {}, rows |-> <<>>]
<1>1. /\ contactUp /\ asks' = asks + 1 /\ contactOut' = Append(contactOut, x)
      /\ UNCHANGED <<contactPhone, changes, db, contactUp, contactBack, syncs, settled>>
  BY DEF People!RequestAllUids, People!Query
<1>2. x \in PeopleQueries /\ x.op = "uids" BY DEF PeopleQueries, PeopleOps
<1> HIDE DEF x
<1>3. contactOut' \in Seq(PeopleQueries) /\ \A k \in DOMAIN contactOut : k \in DOMAIN contactOut' /\ contactOut'[k] = contactOut[k]
  BY <1>0, <1>1, <1>2, PeopleAppend DEF PeopleTypes
<1>4. PeopleTypes' BY <1>0, <1>1, <1>3 DEF PeopleTypes
<1>5. Travels'
  <2>1. GoOn BY <1>1 DEF GoOn
  <2>2. \A y : ~Pair(y, x) BY <1>2 DEF Pair
  <2>3. \A k \in DOMAIN contactOut : contactOut[k].op = "list" => syncs'[contactOut[k].by].pc # "photos"
    BY <1>0, <1>1 DEF Travels
  <2> QED BY <1>0, <1>1, <1>2, <2>1, <2>2, <2>3, TravelsGrown
<1>6. Numbers' BY <1>0, <1>1 DEF Numbers, NotNewer, BringsPhotos, HashesNotNewer
<1>7. Present'
  <2>1. SamePeople' <=> SamePeople BY <1>1 DEF SamePeople, Agrees
  <2>2. \A u : SamePhoto(u) => SamePhoto(u)' BY <1>1 DEF SamePhoto
  <2>3. ASSUME NEW i \in DOMAIN syncs' PROVE UpToDate(i)'
    <3>1. UpToDate(i) BY <1>0, <1>1 DEF Present
    <3>2. ListComes(i) => ListComes(i)' BY <1>1 DEF ListComes, Agrees
    <3>3. \A u : Fetched(i, u) => Fetched(i, u)' BY <1>1, <1>3 DEF Fetched
    <3> QED BY <1>1, <2>1, <2>2, <3>1, <3>2, <3>3 DEF UpToDate
  <2> QED BY <1>0, <1>1, <2>1, <2>2, <2>3 DEF Present
<1> QED BY <1>4, <1>5, <1>6, <1>7 DEF PeopleInv

(* Synchronisations fail, one by one or with the connection. *)
LEMMA SyncFailsKeeps ==
    ASSUME PeopleInv, NEW i \in DOMAIN syncs, People!SyncFails(i)
    PROVE  PeopleInv'
<1>0. PeopleTypes /\ Travels /\ Numbers /\ Present BY DEF PeopleInv
<1>1. /\ syncs' = [syncs EXCEPT ![i].pc = "failed"] /\ settled' = FALSE
      /\ UNCHANGED <<contactPhone, changes, db, contactUp, contactOut, contactBack, asks>>
  BY DEF People!SyncFails
<1>2. /\ syncs' \in Seq(SyncRecords) /\ DOMAIN syncs' = DOMAIN syncs
      /\ syncs'[i].pc = "failed" /\ syncs'[i].hashes = syncs[i].hashes
      /\ \A j \in DOMAIN syncs : j # i => syncs'[j] = syncs[j]
  <2>1. syncs[i] \in SyncRecords BY <1>0, SyncIs
  <2>2. [syncs[i] EXCEPT !.pc = "failed"] \in SyncRecords BY <2>1 DEF SyncRecords
  <2>3. syncs' = [syncs EXCEPT ![i] = [syncs[i] EXCEPT !.pc = "failed"]] BY <1>1
  <2>4. syncs' \in Seq(SyncRecords) /\ DOMAIN syncs' = DOMAIN syncs
    BY <1>0, <2>2, <2>3, ExceptSeq DEF PeopleTypes
  <2>5. syncs'[i] = [syncs[i] EXCEPT !.pc = "failed"] BY <2>3
  <2>6. syncs'[i].pc = "failed" /\ syncs'[i].hashes = syncs[i].hashes BY <2>1, <2>5 DEF SyncRecords
  <2> QED BY <2>3, <2>4, <2>6
<1>3. PeopleTypes'
  <2>1. ~contactUp => \A j \in DOMAIN syncs' : ~AtWork(j)' BY <1>0, <1>2 DEF PeopleTypes, AtWork
  <2> QED BY <1>0, <1>1, <1>2, <2>1 DEF PeopleTypes
<1>4. Travels'
  <2>1. GoOn BY <1>2 DEF GoOn
  <2>2. \A k \in DOMAIN contactOut : contactOut[k].op = "list" => syncs'[contactOut[k].by].pc # "photos"
    BY <1>0, <1>2 DEF Travels, Requested
  <2> QED BY <1>0, <1>1, <2>1, <2>2, TravelsKept
<1>5. Numbers'
  <2>1. \A j \in DOMAIN syncs' : syncs'[j].hashes = syncs[j].hashes BY <1>2
  <2>2. \A j \in DOMAIN syncs' : HashesNotNewer(syncs[j].hashes)'
    BY <1>0, <1>1, <1>2, <2>1 DEF Numbers, HashesNotNewer
  <2>3. \A k \in DOMAIN contactBack' : NotNewer(contactBack[k].rows)' /\ BringsPhotos(contactBack[k])'
    BY <1>0, <1>1, <1>2, <2>1 DEF Numbers, NotNewer, BringsPhotos, Travels, Requested
  <2>4. NotNewer(contactPhone)' /\ NotNewer(db)' BY <1>0, <1>1 DEF Numbers, NotNewer
  <2> QED BY <1>0, <1>1, <2>2, <2>3, <2>4 DEF Numbers
<1>6. Present'
  <2>1. SamePeople' <=> SamePeople BY <1>1 DEF SamePeople, Agrees
  <2>2. \A u : SamePhoto(u) => SamePhoto(u)' BY <1>1 DEF SamePhoto
  <2>3. ASSUME NEW j \in DOMAIN syncs' PROVE UpToDate(j)'
    <3>1. CASE j = i BY <1>2, <3>1 DEF UpToDate
    <3>2. CASE j # i
      <4>1. UpToDate(j) /\ syncs'[j] = syncs[j] BY <1>0, <1>2, <3>2 DEF Present
      <4>2. ListComes(j) => ListComes(j)' BY <1>1 DEF ListComes, Agrees
      <4>3. \A u : Fetched(j, u) => Fetched(j, u)' BY <1>1 DEF Fetched
      <4> QED BY <1>1, <2>1, <2>2, <4>1, <4>2, <4>3 DEF UpToDate
    <3> QED BY <3>1, <3>2
  <2> QED BY <1>1, <2>3 DEF Present
<1> QED BY <1>3, <1>4, <1>5, <1>6 DEF PeopleInv

LEMMA PhoneDisconnectsKeeps ==
    ASSUME PeopleInv, People!Disconnect
    PROVE  PeopleInv'
<1>0. PeopleTypes /\ Travels /\ Numbers /\ Present BY DEF PeopleInv
<1>1. /\ contactUp' = FALSE /\ contactOut' = <<>> /\ contactBack' = <<>>
      /\ syncs' = [i \in DOMAIN syncs |->
                     IF i \in People!Running THEN [syncs[i] EXCEPT !.pc = "failed"] ELSE syncs[i]]
      /\ UNCHANGED <<contactPhone, changes, db, asks>>
  BY DEF People!Disconnect
<1>2. /\ syncs' \in Seq(SyncRecords) /\ DOMAIN syncs' = DOMAIN syncs
      /\ \A i \in DOMAIN syncs : ~AtWork(i)' /\ syncs'[i].hashes = syncs[i].hashes
  <2>1. ASSUME NEW i \in DOMAIN syncs
        PROVE  syncs'[i] \in SyncRecords /\ ~AtWork(i)' /\ syncs'[i].hashes = syncs[i].hashes
    <3>1. syncs[i] \in SyncRecords BY <1>0, SyncIs
    <3>2. CASE i \in People!Running
      <4>1. syncs'[i] = [syncs[i] EXCEPT !.pc = "failed"] BY <1>1, <3>2
      <4>2. syncs'[i] \in SyncRecords /\ syncs'[i].pc = "failed" /\ syncs'[i].hashes = syncs[i].hashes
        BY <3>1, <4>1 DEF SyncRecords
      <4> QED BY <4>2 DEF AtWork
    <3>3. CASE i \notin People!Running
      <4>1. syncs'[i] = syncs[i] BY <1>1, <3>3
      <4>2. ~AtWork(i) BY <3>3 DEF AtWork, People!Running
      <4> QED BY <3>1, <4>1, <4>2 DEF AtWork
    <3> QED BY <3>2, <3>3
  <2>2. Len(syncs) \in Nat /\ DOMAIN syncs = 1..Len(syncs) BY <1>0 DEF PeopleTypes
  <2>3. syncs' \in [1..Len(syncs) -> SyncRecords] BY <1>1, <2>1, <2>2
  <2>4. syncs' \in Seq(SyncRecords) BY <2>2, <2>3, IsASeq
  <2> QED BY <1>1, <2>1, <2>4
<1>3. DOMAIN contactOut' = {} /\ DOMAIN contactBack' = {} BY <1>1, EmptyBook
<1>4. settled' \in BOOLEAN /\ (settled' => settled) BY <1>0 DEF People!Disconnect, PeopleTypes
<1>5. PeopleTypes'
  <2>1. contactOut' \in Seq(PeopleQueries) /\ contactBack' \in Seq(Brought) BY <1>1
  <2> QED BY <1>0, <1>1, <1>2, <1>4, <2>1 DEF PeopleTypes
<1>6. Travels' BY <1>3 DEF Travels
<1>7. Numbers'
  <2>1. \A j \in DOMAIN syncs' : HashesNotNewer(syncs[j].hashes)'
    BY <1>0, <1>1, <1>2 DEF Numbers, HashesNotNewer
  <2>2. NotNewer(contactPhone)' /\ NotNewer(db)' BY <1>0, <1>1 DEF Numbers, NotNewer
  <2> QED BY <1>0, <1>1, <1>3, <2>1, <2>2 DEF Numbers
<1>8. Present'
  <2>1. \A i \in DOMAIN syncs' : UpToDate(i)' BY <1>2 DEF UpToDate, AtWork
  <2>2. ASSUME settled' PROVE SamePeople' /\ \A u \in DOMAIN contactPhone' : SamePhoto(u)'
    BY <1>0, <1>1, <1>3, <1>4, <2>2 DEF Present, SamePeople, SamePhoto
  <2> QED BY <2>1, <2>2 DEF Present
<1> QED BY <1>5, <1>6, <1>7, <1>8 DEF PeopleInv

LEMMA PeopleStay ==
    ASSUME PeopleInv, UNCHANGED <<contactPhone, changes, db, contactOut, contactBack, syncs, asks, settled>>,
           contactUp' = contactUp \/ (~contactUp /\ contactUp' = TRUE)
    PROVE  PeopleInv'
<1>1. PeopleTypes' BY DEF PeopleInv, PeopleTypes, AtWork
<1>2. Travels' BY DEF PeopleInv, Travels, Requested, Pair
<1>3. Numbers' BY DEF PeopleInv, Numbers, NotNewer, BringsPhotos, HashesNotNewer
<1>4. Present'
  BY DEF PeopleInv, Present, UpToDate, SamePeople, SamePhoto, Fetched, ListComes, Agrees
<1> QED BY <1>1, <1>2, <1>3, <1>4 DEF PeopleInv

--------------------
(* An answer is read. *)
Reads ==
    /\ contactBack # <<>> /\ contactBack' = Tail(contactBack)
    /\ UNCHANGED <<contactPhone, changes, contactUp, asks>>

LEMMA ReadIs ==
    ASSUME PeopleTypes, Reads
    PROVE  /\ contactBack' \in Seq(Brought) /\ 1 \in DOMAIN contactBack /\ Head(contactBack) = contactBack[1]
           /\ contactBack[1] \in Brought /\ contactBack[1].rows \in Books
           /\ \A k \in DOMAIN contactBack' : k \in Nat /\ k + 1 \in DOMAIN contactBack /\ contactBack'[k] = contactBack[k + 1]
           /\ \A k \in DOMAIN contactBack : k # 1 => k - 1 \in DOMAIN contactBack' /\ contactBack'[k - 1] = contactBack[k]
           /\ \A k \in DOMAIN contactBack : k \in Nat /\ k >= 1
<1>1. contactBack[1] \in Brought => contactBack[1].rows \in Books BY DEF Brought
<1> QED BY <1>1, PeopleTail DEF PeopleTypes, Reads

LEMMA ReadNumbers ==
    ASSUME PeopleTypes, Travels, Numbers, Reads, GoOn
    PROVE  /\ NotNewer(contactPhone)'
           /\ \A k \in DOMAIN contactBack' : NotNewer(contactBack[k].rows)' /\ BringsPhotos(contactBack[k])'
<1>1. NotNewer(contactPhone)' BY DEF Numbers, NotNewer, Reads
<1>2. ASSUME NEW k \in DOMAIN contactBack' PROVE NotNewer(contactBack[k].rows)' /\ BringsPhotos(contactBack[k])'
  <2>1. k + 1 \in DOMAIN contactBack /\ contactBack'[k] = contactBack[k + 1] BY ReadIs
  <2>2. NotNewer(contactBack[k + 1].rows) /\ BringsPhotos(contactBack[k + 1]) /\ Requested(contactBack[k + 1])
    BY <2>1 DEF Numbers, Travels
  <2>3. NotNewer(contactBack[k].rows)' BY <2>1, <2>2 DEF NotNewer, Reads
  <2>4. BringsPhotos(contactBack[k])' BY <2>1, <2>2 DEF BringsPhotos, Requested, GoOn
  <2> QED BY <2>3, <2>4
<1> QED BY <1>1, <1>2

(* The database still has the same people, when it takes what agrees. *)
SamePeopleRows == DOMAIN db = DOMAIN contactPhone /\ \A u \in DOMAIN db : db[u].name = contactPhone[u].name
KeepsSame ==
    SamePeople => SamePeopleRows' /\ \A u \in DOMAIN contactPhone : SamePhoto(u) => SamePhoto(u)'

LEMMA ReadSame ==
    ASSUME PeopleTypes, Reads, KeepsSame, SamePeople
    PROVE  SamePeople' /\ \A u \in DOMAIN contactPhone : SamePhoto(u) => SamePhoto(u)'
<1>1. ASSUME NEW k \in DOMAIN contactBack' PROVE Agrees(contactBack[k])'
  <2>1. Agrees(contactBack[k + 1]) /\ contactBack'[k] = contactBack[k + 1] BY ReadIs DEF SamePeople
  <2> QED BY <2>1 DEF Agrees, Reads
<1> QED BY <1>1 DEF SamePeople, SamePeopleRows, KeepsSame

LEMMA ReadOthers ==
    ASSUME PeopleTypes, Present, Reads, KeepsSame,
           \A k \in DOMAIN contactOut : k \in DOMAIN contactOut' /\ contactOut'[k] = contactOut[k],
           NEW i \in DOMAIN syncs, syncs'[i] = syncs[i],
           contactBack[1].op \in {"list", "photos"} => contactBack[1].by # i \/ ~AtWork(i)
    PROVE  UpToDate(i)'
<1> SUFFICES ASSUME syncs[i].current, AtWork(i)
             PROVE  /\ syncs[i].pc = "list" => ListComes(i)'
                    /\ syncs[i].pc = "photos" =>
                          SamePeople' /\ \A u \in DOMAIN contactPhone : SamePhoto(u)' \/ Fetched(i, u)'
  BY DEF UpToDate, AtWork, Reads
<1>1. UpToDate(i) BY DEF Present
<1>2. ASSUME syncs[i].pc = "list" PROVE ListComes(i)'
  <2>1. PICK k \in DOMAIN contactBack : /\ contactBack[k].op = "list" /\ contactBack[k].by = i
                                        /\ \A l \in DOMAIN contactBack : l >= k => Agrees(contactBack[l])
    BY <1>1, <1>2 DEF UpToDate, ListComes
  <2>2. k # 1 BY <2>1
  <2>3. k \in Nat /\ k - 1 \in DOMAIN contactBack' /\ contactBack'[k - 1] = contactBack[k]
    BY <2>2, ReadIs
  <2>4. ASSUME NEW l \in DOMAIN contactBack', l >= k - 1 PROVE Agrees(contactBack[l])'
    <3>1. l \in Nat /\ l + 1 \in DOMAIN contactBack /\ contactBack'[l] = contactBack[l + 1]
      BY ReadIs
    <3>2. l + 1 >= k BY <2>3, <2>4, <3>1
    <3>3. Agrees(contactBack[l + 1]) BY <2>1, <3>1, <3>2
    <3> QED BY <3>1, <3>3 DEF Agrees, Reads
  <2> QED BY <2>1, <2>3, <2>4 DEF ListComes
<1>3. ASSUME syncs[i].pc = "photos", NEW u \in DOMAIN contactPhone, Fetched(i, u) PROVE Fetched(i, u)'
  <2>1. ASSUME NEW k \in DOMAIN contactBack, contactBack[k].op = "photos", contactBack[k].by = i, u \in DOMAIN contactBack[k].rows
        PROVE  Fetched(i, u)'
    <3>1. k # 1 BY <2>1
    <3>2. k - 1 \in DOMAIN contactBack' /\ contactBack'[k - 1] = contactBack[k] BY <3>1, ReadIs
    <3> QED BY <2>1, <3>2 DEF Fetched
  <2>2. ASSUME NEW k \in DOMAIN contactOut, contactOut[k].op = "photos", contactOut[k].by = i, u \in contactOut[k].uids
        PROVE  Fetched(i, u)'
    BY <2>2 DEF Fetched
  <2> QED BY <1>3, <2>1, <2>2 DEF Fetched
<1>4. ASSUME syncs[i].pc = "photos"
      PROVE  SamePeople' /\ \A u \in DOMAIN contactPhone : SamePhoto(u)' \/ Fetched(i, u)'
  <2>1. SamePeople /\ \A u \in DOMAIN contactPhone : SamePhoto(u) \/ Fetched(i, u)
    BY <1>1, <1>4 DEF UpToDate
  <2> QED BY <1>3, <1>4, <2>1, ReadSame
<1> QED BY <1>2, <1>4

(* What the answers make of the database. *)
HashesAreBehind ==
    \A u \in DOMAIN db : /\ db[u].hash <= db[u].photo
                         /\ db[u].photo = 0 <=> db[u].hash = 0

LEMMA ListMerges ==
    ASSUME PeopleInv, UNCHANGED <<contactPhone, changes>>, NEW rows \in Books, NotNewer(rows),
           db' = [u \in DOMAIN rows |-> People!Merged(u, rows)]
    PROVE  /\ db' \in PeopleTables /\ NotNewer(db)' /\ HashesAreBehind' /\ DOMAIN db' = DOMAIN rows
           /\ \A u \in DOMAIN rows :
                 /\ db'[u].name = rows[u].name
                 /\ u \in DOMAIN db => db'[u].photo = db[u].photo
<1>1. db \in PeopleTables /\ DOMAIN rows \in SUBSET Uids BY BookIs DEF PeopleInv, PeopleTypes
<1>2. ASSUME NEW u \in DOMAIN rows
      PROVE  /\ db'[u] \in PeopleRows /\ db'[u].name = rows[u].name
             /\ u \in DOMAIN db => db'[u].photo = db[u].photo /\ db'[u].hash = db[u].hash
             /\ u \notin DOMAIN db => db'[u].photo = 0 /\ db'[u].hash = 0
  <2>1. rows[u].name \in Nat BY BookIs
  <2>2. CASE u \in DOMAIN db
    <3>1. db[u] \in PeopleRows BY <1>1, <2>2, TableIs
    <3>2. db'[u] = [db[u] EXCEPT !.name = rows[u].name] BY <2>2 DEF People!Merged
    <3> QED BY <2>1, <2>2, <3>1, <3>2 DEF PeopleRows
  <2>3. CASE u \notin DOMAIN db
    <3>1. db'[u] = [name |-> rows[u].name, photo |-> 0, hash |-> 0] BY <2>3 DEF People!Merged
    <3> QED BY <2>1, <2>3, <3>1 DEF PeopleRows
  <2> QED BY <2>2, <2>3
<1>3. db' \in [DOMAIN rows -> PeopleRows] BY <1>2
<1>4. db' \in PeopleTables /\ DOMAIN db' = DOMAIN rows BY <1>1, <1>3 DEF PeopleTables
<1>5. NotNewer(db) /\ HashesAreBehind /\ changes \in Nat /\ contactPhone \in Books
  BY DEF PeopleInv, Numbers, HashesAreBehind, PeopleTypes
<1>6. NotNewer(db)'
  <2> SUFFICES ASSUME NEW u \in DOMAIN rows
               PROVE  /\ db'[u].photo <= changes + 1 /\ db'[u].name <= changes + 1
                      /\ u \in DOMAIN contactPhone /\ contactPhone[u].photo # 0 => db'[u].photo <= contactPhone[u].photo
    BY <1>4 DEF NotNewer
  <2>1. rows[u].name <= changes + 1 BY DEF NotNewer
  <2>2. CASE u \in DOMAIN db BY <1>2, <1>5, <2>1, <2>2 DEF NotNewer
  <2>3. CASE u \notin DOMAIN db
    <3>1. u \in DOMAIN contactPhone => contactPhone[u].photo \in Nat BY <1>5, BookIs
    <3> QED BY <1>2, <1>5, <2>1, <2>3, <3>1
  <2> QED BY <2>2, <2>3
<1>7. HashesAreBehind' BY <1>2, <1>4, <1>5 DEF HashesAreBehind
<1> QED BY <1>2, <1>4, <1>6, <1>7

LEMMA PhotosMerge ==
    ASSUME PeopleInv, UNCHANGED <<contactPhone, changes>>, NEW rows \in Books, NotNewer(rows), NEW h,
           \A u \in DOMAIN rows : rows[u].photo # 0 /\ h[u] \in Nat /\ h[u] # 0 /\ h[u] <= rows[u].photo,
           db' = People!Upsert([u \in DOMAIN rows \intersect DOMAIN db |->
                                  [db[u] EXCEPT !.photo = rows[u].photo, !.hash = h[u]]])
    PROVE  /\ db' \in PeopleTables /\ NotNewer(db)' /\ HashesAreBehind' /\ DOMAIN db' = DOMAIN db
           /\ \A u \in DOMAIN db :
                 /\ db'[u].name = db[u].name
                 /\ db'[u].photo = IF u \in DOMAIN rows THEN rows[u].photo ELSE db[u].photo
<1>1. db \in PeopleTables /\ DOMAIN db \in SUBSET Uids BY TableIs DEF PeopleInv, PeopleTypes
<1>2. /\ DOMAIN db' = DOMAIN db
      /\ db' = [u \in DOMAIN db |-> IF u \in DOMAIN rows
                                    THEN [db[u] EXCEPT !.photo = rows[u].photo, !.hash = h[u]]
                                    ELSE db[u]]
  BY DEF People!Upsert
<1>3. ASSUME NEW u \in DOMAIN db
      PROVE  /\ db'[u] \in PeopleRows /\ db'[u].name = db[u].name
             /\ u \in DOMAIN rows => db'[u].photo = rows[u].photo /\ db'[u].hash = h[u]
             /\ u \notin DOMAIN rows => db'[u] = db[u]
  <2>1. db[u] \in PeopleRows BY <1>1, TableIs
  <2>2. CASE u \in DOMAIN rows
    <3>1. db'[u] = [db[u] EXCEPT !.photo = rows[u].photo, !.hash = h[u]] BY <1>2, <2>2
    <3>2. rows[u].photo \in Nat /\ h[u] \in Nat BY <2>2, BookIs
    <3> QED BY <2>1, <2>2, <3>1, <3>2 DEF PeopleRows
  <2>3. CASE u \notin DOMAIN rows BY <1>2, <2>1, <2>3
  <2> QED BY <2>2, <2>3
<1>4. db' \in [DOMAIN db -> PeopleRows] BY <1>2, <1>3
<1>5. db' \in PeopleTables BY <1>1, <1>4 DEF PeopleTables
<1>6. NotNewer(db) /\ HashesAreBehind BY DEF PeopleInv, Numbers, HashesAreBehind
<1>7. NotNewer(db)' BY <1>2, <1>3, <1>6 DEF NotNewer
<1>8. ASSUME NEW u \in DOMAIN db
      PROVE  db'[u].hash <= db'[u].photo /\ (db'[u].photo = 0 <=> db'[u].hash = 0)
  <2>1. CASE u \in DOMAIN rows
    <3>1. db'[u].photo = rows[u].photo /\ db'[u].hash = h[u] BY <1>3, <2>1
    <3> QED BY <2>1, <3>1
  <2>2. CASE u \notin DOMAIN rows BY <1>3, <1>6, <2>2 DEF HashesAreBehind
  <2> QED BY <2>1, <2>2
<1>9. HashesAreBehind' BY <1>2, <1>8 DEF HashesAreBehind
<1> QED BY <1>2, <1>3, <1>5, <1>7, <1>9

LEMMA CardsMerge ==
    ASSUME PeopleInv, UNCHANGED <<contactPhone, changes>>, NEW rows \in Books, NotNewer(rows),
           db' = People!Upsert([u \in DOMAIN rows |->
                                  [name |-> rows[u].name, photo |-> rows[u].photo,
                                   hash |-> IF rows[u].photo = 0 THEN 0 ELSE People!Mime]])
    PROVE  /\ db' \in PeopleTables /\ NotNewer(db)' /\ HashesAreBehind'
           /\ DOMAIN db' = DOMAIN db \union DOMAIN rows
           /\ \A u \in DOMAIN db' :
                 /\ u \in DOMAIN rows => db'[u].name = rows[u].name /\ db'[u].photo = rows[u].photo
                 /\ u \notin DOMAIN rows => db'[u] = db[u]
<1>1. db \in PeopleTables /\ DOMAIN db \union DOMAIN rows \in SUBSET Uids
  BY TableIs, BookIs DEF PeopleInv, PeopleTypes
<1>2. /\ DOMAIN db' = DOMAIN db \union DOMAIN rows
      /\ \A u \in DOMAIN rows : db'[u] = [name |-> rows[u].name, photo |-> rows[u].photo,
                                          hash |-> IF rows[u].photo = 0 THEN 0 ELSE -1]
      /\ \A u \in DOMAIN db : u \notin DOMAIN rows => db'[u] = db[u]
  BY DEF People!Upsert, People!Mime
<1>3. ASSUME NEW u \in DOMAIN rows
      PROVE  /\ db'[u] \in PeopleRows /\ db'[u].name = rows[u].name /\ db'[u].photo = rows[u].photo
             /\ db'[u].hash <= db'[u].photo /\ (db'[u].photo = 0 <=> db'[u].hash = 0)
  <2>1. rows[u].name \in Nat /\ rows[u].photo \in Nat BY BookIs
  <2>2. CASE rows[u].photo = 0
    <3>1. db'[u] = [name |-> rows[u].name, photo |-> rows[u].photo, hash |-> 0] BY <1>2, <2>2
    <3> QED BY <2>1, <2>2, <3>1 DEF PeopleRows
  <2>3. CASE rows[u].photo # 0
    <3>1. db'[u] = [name |-> rows[u].name, photo |-> rows[u].photo, hash |-> -1] BY <1>2, <2>3
    <3> QED BY <2>1, <2>3, <3>1 DEF PeopleRows
  <2> QED BY <2>2, <2>3
<1>4. \A u \in DOMAIN db : db[u] \in PeopleRows BY <1>1, TableIs
<1>5. db' \in [DOMAIN db \union DOMAIN rows -> PeopleRows]
  <2>1. db' = [u \in DOMAIN db' |-> db'[u]] BY DEF People!Upsert
  <2> QED BY <1>2, <1>3, <1>4, <2>1
<1>6. db' \in PeopleTables BY <1>1, <1>5 DEF PeopleTables
<1>7. NotNewer(db) /\ HashesAreBehind BY DEF PeopleInv, Numbers, HashesAreBehind
<1>8. NotNewer(db)' BY <1>2, <1>3, <1>7 DEF NotNewer
<1>9. HashesAreBehind' BY <1>2, <1>3, <1>7 DEF HashesAreBehind
<1> QED BY <1>2, <1>3, <1>6, <1>8, <1>9

--------------------
(* The answers, one by one. *)
LEMMA CurrentList ==
    ASSUME PeopleInv, NEW i \in DOMAIN syncs, syncs[i].pc = "list", syncs[i].current,
           1 \in DOMAIN contactBack, contactBack[1].op = "list", contactBack[1].by = i
    PROVE  \A k \in DOMAIN contactBack : Agrees(contactBack[k])
<1>1. ListComes(i) BY DEF PeopleInv, Present, UpToDate
<1>2. PICK k \in DOMAIN contactBack : /\ contactBack[k].op = "list" /\ contactBack[k].by = i
                                      /\ \A l \in DOMAIN contactBack : l >= k => Agrees(contactBack[l])
  BY <1>1 DEF ListComes
<1>3. k = 1 BY <1>2 DEF PeopleInv, Travels, Pair
<1>4. \A l \in DOMAIN contactBack : l >= 1 BY DEF PeopleInv, PeopleTypes
<1> QED BY <1>2, <1>3, <1>4

(* What the list leaves out of the photo query is there. *)
LEMMA NotNeeded ==
    ASSUME PeopleInv, NEW u \in DOMAIN contactPhone, contactPhone[u].photo # 0,
           NEW rows, u \in DOMAIN rows, rows[u] = contactPhone[u], u \notin People!NeedPhotos(rows)
    PROVE  u \in DOMAIN db /\ db[u].photo = contactPhone[u].photo
<1>1. u \in DOMAIN db /\ db[u].hash = contactPhone[u].photo BY DEF People!NeedPhotos
<1>2. db[u].hash <= db[u].photo /\ db[u].photo <= contactPhone[u].photo
  BY <1>1 DEF PeopleInv, Numbers, NotNewer
<1>3. contactPhone[u].photo \in Nat /\ db[u].photo \in Nat
  BY <1>1, BookIs, TableIs DEF PeopleInv, PeopleTypes
<1> QED BY <1>1, <1>2, <1>3

LEMMA ListRead ==
    ASSUME PeopleInv, Reads, contactBack[1].op = "list", People!ListAnswers(contactBack[1].by, contactBack[1].rows)
    PROVE  PeopleInv'
<1> DEFINE rows == contactBack[1].rows
<1>0. PeopleTypes /\ Travels /\ Numbers /\ Present BY DEF PeopleInv
<1>1. PICK i : i = contactBack[1].by OBVIOUS
<1>2. 1 \in DOMAIN contactBack /\ rows \in Books BY <1>0, ReadIs
<1>3. i \in DOMAIN syncs /\ syncs[i].pc = "list"
  BY <1>0, <1>1, <1>2 DEF Travels, Requested, People!ListAnswers
<1>4. syncs[i] \in SyncRecords /\ contactUp BY <1>0, <1>3, SyncIs DEF PeopleTypes, AtWork
<1>5. NotNewer(rows) BY <1>0, <1>2 DEF Numbers
<1>6. db' = [u \in DOMAIN rows |-> People!Merged(u, rows)] BY DEF People!ListAnswers
<1>7. /\ db' \in PeopleTables /\ NotNewer(db)' /\ HashesAreBehind' /\ DOMAIN db' = DOMAIN rows
      /\ \A u \in DOMAIN rows :
            /\ db'[u].name = rows[u].name
            /\ u \in DOMAIN db => db'[u].photo = db[u].photo
  BY <1>2, <1>5, <1>6, ListMerges DEF Reads
<1>8. ASSUME Agrees(contactBack[1])
      PROVE  SamePeopleRows' /\ \A u \in DOMAIN contactPhone : u \in DOMAIN db /\ SamePhoto(u) => SamePhoto(u)'
  <2>1. DOMAIN rows = DOMAIN contactPhone /\ \A u \in DOMAIN rows : rows[u] = contactPhone[u]
    BY <1>8 DEF Agrees
  <2>2. SamePeopleRows' BY <1>7, <2>1 DEF SamePeopleRows, Reads
  <2> QED BY <1>7, <2>1, <2>2 DEF SamePhoto, Reads
<1>9. KeepsSame BY <1>2, <1>8 DEF KeepsSame, SamePeople
<1>10. ASSUME syncs[i].current
       PROVE  /\ SamePeople' /\ \A u \in DOMAIN contactPhone : u \notin People!NeedPhotos(rows) => SamePhoto(u)'
  <2>1. \A k \in DOMAIN contactBack : Agrees(contactBack[k]) BY <1>1, <1>2, <1>3, <1>10, CurrentList
  <2>2. Agrees(contactBack[1]) BY <1>2, <2>1
  <2>3. SamePeople'
    <3>1. ASSUME NEW k \in DOMAIN contactBack' PROVE Agrees(contactBack[k])'
      <4>1. Agrees(contactBack[k + 1]) /\ contactBack'[k] = contactBack[k + 1] BY <1>0, <2>1, ReadIs
      <4> QED BY <4>1 DEF Agrees, Reads
    <3> QED BY <1>8, <2>2, <3>1 DEF SamePeople, SamePeopleRows
  <2>4. ASSUME NEW u \in DOMAIN contactPhone, u \notin People!NeedPhotos(rows), contactPhone[u].photo # 0
        PROVE  SamePhoto(u)'
    <3>1. u \in DOMAIN rows /\ rows[u] = contactPhone[u] BY <2>2 DEF Agrees
    <3>2. u \in DOMAIN db /\ db[u].photo = contactPhone[u].photo BY <2>4, <3>1, NotNeeded
    <3> QED BY <1>8, <2>2, <3>2 DEF SamePhoto
  <2>5. \A u \in DOMAIN contactPhone : contactPhone[u].photo = 0 => SamePhoto(u)'
    BY DEF SamePhoto, Reads
  <2> QED BY <2>3, <2>4, <2>5
<1>11. contactBack' \in Seq(Brought) BY <1>0, ReadIs
<1>12. CASE People!NeedPhotos(rows) = {}
  <2>1. /\ syncs' = [syncs EXCEPT ![i].pc = "done"] /\ settled' = syncs[i].current /\ contactOut' = contactOut
    BY <1>1, <1>12 DEF People!ListAnswers, People!Succeeds
  <2>2. [syncs[i] EXCEPT !.pc = "done"] \in SyncRecords BY <1>4 DEF SyncRecords
  <2>3. syncs' = [syncs EXCEPT ![i] = [syncs[i] EXCEPT !.pc = "done"]] BY <2>1
  <2>4. syncs' \in Seq(SyncRecords) /\ DOMAIN syncs' = DOMAIN syncs
    BY <1>0, <1>3, <2>2, <2>3, ExceptSeq DEF PeopleTypes
  <2>5. syncs'[i] = [syncs[i] EXCEPT !.pc = "done"] BY <1>3, <2>3
  <2>6. syncs'[i].pc = "done" /\ syncs'[i].hashes = syncs[i].hashes BY <1>4, <2>5 DEF SyncRecords
  <2>7. \A j \in DOMAIN syncs : j # i => syncs'[j] = syncs[j] BY <2>3
  <2>8. settled' \in BOOLEAN BY <1>4, <2>1 DEF SyncRecords
  <2>9. PeopleTypes' BY <1>0, <1>4, <1>7, <1>11, <2>1, <2>4, <2>8 DEF PeopleTypes, Reads
  <2>10. GoOn BY <1>3, <2>4, <2>6, <2>7 DEF GoOn
  <2>11. Travels'
    <3>1. \A k \in DOMAIN contactOut : contactOut[k].op = "list" => syncs'[contactOut[k].by].pc # "photos"
      BY <1>0, <2>6, <2>7 DEF Travels, Requested
    <3> QED BY <1>0, <2>1, <2>10, <3>1, TravelsKept DEF Reads
  <2>12. Numbers'
    <3>1. \A j \in DOMAIN syncs' : HashesNotNewer(syncs[j].hashes)'
      BY <1>0, <2>4, <2>6, <2>7 DEF Numbers, HashesNotNewer, Reads
    <3> QED BY <1>0, <1>7, <2>10, <3>1, ReadNumbers DEF Numbers, HashesAreBehind
  <2>13. Present'
    <3>1. ASSUME NEW j \in DOMAIN syncs' PROVE UpToDate(j)'
      <4>1. CASE j = i BY <2>6, <4>1 DEF UpToDate
      <4>2. CASE j # i BY <1>0, <1>1, <1>9, <2>1, <2>4, <2>7, <4>2, ReadOthers
      <4> QED BY <4>1, <4>2
    <3>2. ASSUME settled' PROVE SamePeople' /\ \A u \in DOMAIN contactPhone' : SamePhoto(u)'
      BY <1>10, <1>12, <2>1, <3>2 DEF Reads
    <3> QED BY <3>1, <3>2 DEF Present
  <2> QED BY <2>9, <2>11, <2>12, <2>13 DEF PeopleInv
<1>13. CASE People!NeedPhotos(rows) # {}
  <2> DEFINE h == [u \in DOMAIN rows |-> rows[u].photo]
             x == [op |-> "photos", by |-> i, uids |-> People!NeedPhotos(rows), rows |-> <<>>]
  <2>1. /\ syncs' = [syncs EXCEPT ![i].pc = "photos", ![i].hashes = h] /\ settled' = settled
        /\ contactOut' = Append(contactOut, x)
    BY <1>1, <1>13 DEF People!ListAnswers, People!Query
  <2>2. DOMAIN rows \subseteq Uids /\ \A u \in DOMAIN rows : rows[u].photo \in Nat BY <1>2, BookIs
  <2>3. h \in [DOMAIN rows -> Nat] BY <2>2
  <2>4. h \in Hashes /\ DOMAIN h = DOMAIN rows /\ \A u \in DOMAIN rows : h[u] = rows[u].photo
    BY <2>2, <2>3 DEF Hashes
  <2>5. People!NeedPhotos(rows) \subseteq DOMAIN rows
        /\ \A u \in People!NeedPhotos(rows) : rows[u].photo # 0
    BY DEF People!NeedPhotos
  <2>6. x \in PeopleQueries /\ x.op = "photos" /\ x.by = i /\ x.uids = People!NeedPhotos(rows)
    <3>1. i \in Nat BY <1>0, <1>3, SyncIs
    <3>2. People!NeedPhotos(rows) \in SUBSET Uids BY <2>2, <2>5
    <3> QED BY <3>1, <3>2 DEF PeopleQueries, PeopleOps
  <2> HIDE DEF h, x
  <2>7. [syncs[i] EXCEPT !.pc = "photos", !.hashes = h] \in SyncRecords
    BY <1>4, <2>4 DEF SyncRecords
  <2>8. syncs' = [syncs EXCEPT ![i] = [syncs[i] EXCEPT !.pc = "photos", !.hashes = h]] BY <2>1
  <2>9. syncs' \in Seq(SyncRecords) /\ DOMAIN syncs' = DOMAIN syncs
    BY <1>0, <1>3, <2>7, <2>8, ExceptSeq DEF PeopleTypes
  <2>10. syncs'[i] = [syncs[i] EXCEPT !.pc = "photos", !.hashes = h] BY <1>3, <2>8
  <2>11. syncs'[i].pc = "photos" /\ syncs'[i].hashes = h /\ syncs'[i].current = syncs[i].current
    BY <1>4, <2>10 DEF SyncRecords
  <2>12. \A j \in DOMAIN syncs : j # i => syncs'[j] = syncs[j] BY <2>8
  <2>n. PICK n : n = Len(contactOut) + 1 OBVIOUS
  <2>13. /\ contactOut' \in Seq(PeopleQueries) /\ n \in DOMAIN contactOut' /\ contactOut'[n] = x
         /\ \A k \in DOMAIN contactOut : k \in DOMAIN contactOut' /\ contactOut'[k] = contactOut[k]
    BY <1>0, <2>1, <2>6, <2>n, PeopleAppend DEF PeopleTypes
  <2>14. PeopleTypes' BY <1>0, <1>4, <1>7, <1>11, <2>1, <2>9, <2>13 DEF PeopleTypes, Reads
  <2>15. GoOn BY <1>3, <2>9, <2>12 DEF GoOn
  <2>16. Travels'
    <3>1. ASSUME NEW k \in DOMAIN contactOut, contactOut[k].op = "list" PROVE syncs'[contactOut[k].by].pc # "photos"
      <4>1. ~Pair(contactOut[k], contactBack[1]) BY <1>0, <1>2 DEF Travels
      <4>2. contactOut[k].by # i BY <1>1, <3>1, <4>1 DEF Pair
      <4>3. contactOut[k].by \in DOMAIN syncs /\ syncs[contactOut[k].by].pc # "photos"
        BY <1>0, <3>1 DEF Travels, Requested
      <4> QED BY <2>12, <4>2, <4>3
    <3>2. \A k \in DOMAIN contactOut : ~Pair(contactOut[k], x)
      BY <1>0, <1>3, <2>6 DEF Travels, Requested, Pair
    <3>3. \A k \in DOMAIN contactBack : ~Pair(contactBack[k], x)
      BY <1>0, <1>3, <2>6 DEF Travels, Requested, Pair
    <3>4. i \in DOMAIN syncs' /\ x.uids \subseteq DOMAIN h /\ \A u \in x.uids : h[u] # 0
      BY <1>3, <2>4, <2>5, <2>6, <2>9
    <3> QED BY <1>0, <2>1, <2>6, <2>11, <2>15, <3>1, <3>2, <3>3, <3>4, TravelsGrown DEF Reads
  <2>17. Numbers'
    <3>1. HashesNotNewer(h) BY <1>5, <2>4 DEF HashesNotNewer, NotNewer
    <3>2. ASSUME NEW j \in DOMAIN syncs' PROVE HashesNotNewer(syncs[j].hashes)'
      <4>1. HashesNotNewer(syncs'[j].hashes) BY <1>0, <2>9, <2>11, <2>12, <3>1 DEF Numbers
      <4> QED BY <4>1 DEF HashesNotNewer, Reads
    <3> QED BY <1>0, <1>7, <2>15, <3>2, ReadNumbers DEF Numbers, HashesAreBehind
  <2>18. Present'
    <3>1. ASSUME NEW j \in DOMAIN syncs' PROVE UpToDate(j)'
      <4>1. CASE j = i
        <5>1. ASSUME NEW u \in People!NeedPhotos(rows) PROVE Fetched(i, u)'
          BY <2>6, <2>13 DEF Fetched
        <5> QED BY <1>10, <2>11, <4>1, <5>1 DEF UpToDate, Reads
      <4>2. CASE j # i BY <1>0, <1>1, <1>9, <2>9, <2>12, <2>13, <4>2, ReadOthers
      <4> QED BY <4>1, <4>2
    <3>2. ASSUME settled' PROVE SamePeople' /\ \A u \in DOMAIN contactPhone' : SamePhoto(u)'
      BY <1>0, <1>9, <2>1, <3>2, ReadSame DEF Present, Reads
    <3> QED BY <3>1, <3>2 DEF Present
  <2> QED BY <2>14, <2>16, <2>17, <2>18 DEF PeopleInv
<1> QED BY <1>12, <1>13

LEMMA PhotosRead ==
    ASSUME PeopleInv, Reads, contactBack[1].op = "photos", People!PhotosAnswer(contactBack[1].by, contactBack[1].rows)
    PROVE  PeopleInv'
<1> DEFINE rows == contactBack[1].rows
<1>0. PeopleTypes /\ Travels /\ Numbers /\ Present BY DEF PeopleInv
<1>1. PICK i : i = contactBack[1].by OBVIOUS
<1>2. 1 \in DOMAIN contactBack /\ rows \in Books BY <1>0, ReadIs
<1>3. i \in DOMAIN syncs /\ syncs[i].pc = "photos"
  BY <1>0, <1>1, <1>2 DEF Travels, Requested, People!PhotosAnswer
<1>4. syncs[i] \in SyncRecords /\ contactUp BY <1>0, <1>3, SyncIs DEF PeopleTypes, AtWork
<1>h. PICK h : h = syncs[i].hashes OBVIOUS
<1>5. NotNewer(rows)
      /\ \A u \in DOMAIN rows : rows[u].photo # 0 /\ h[u] \in Nat /\ h[u] # 0 /\ h[u] <= rows[u].photo
  <2>1. NotNewer(rows) /\ BringsPhotos(contactBack[1]) /\ Requested(contactBack[1])
    BY <1>0, <1>2 DEF Numbers, Travels
  <2>2. \A u \in DOMAIN h : h[u] \in Nat BY <1>0, <1>3, <1>h, SyncIs
  <2> QED BY <1>1, <1>h, <2>1, <2>2 DEF BringsPhotos, Requested
<1>6. db' = People!Upsert([u \in DOMAIN rows \intersect DOMAIN db |->
                             [db[u] EXCEPT !.photo = rows[u].photo, !.hash = h[u]]])
  BY <1>1, <1>h DEF People!PhotosAnswer
<1>7. /\ db' \in PeopleTables /\ NotNewer(db)' /\ HashesAreBehind' /\ DOMAIN db' = DOMAIN db
      /\ \A u \in DOMAIN db :
            /\ db'[u].name = db[u].name
            /\ db'[u].photo = IF u \in DOMAIN rows THEN rows[u].photo ELSE db[u].photo
  <2> HIDE DEF rows
  <2> QED BY <1>2, <1>5, <1>6, PhotosMerge DEF Reads
<1>8. ASSUME SamePeople
      PROVE  /\ SamePeopleRows' /\ \A u \in DOMAIN contactPhone : SamePhoto(u) => SamePhoto(u)'
             /\ \A u \in DOMAIN rows : SamePhoto(u)'
  <2>1. \A u \in DOMAIN rows : u \in DOMAIN contactPhone /\ rows[u] = contactPhone[u]
    BY <1>2, <1>8 DEF SamePeople, Agrees
  <2>2. SamePeopleRows' BY <1>7, <1>8 DEF SamePeople, SamePeopleRows, Reads
  <2> QED BY <1>7, <1>8, <2>1, <2>2 DEF SamePeople, SamePhoto, Reads
<1>9. KeepsSame BY <1>8 DEF KeepsSame
<1>10. ASSUME syncs[i].current PROVE SamePeople' /\ \A u \in DOMAIN contactPhone : SamePhoto(u)'
  <2>1. SamePeople /\ \A u \in DOMAIN contactPhone : SamePhoto(u) \/ Fetched(i, u)
    BY <1>0, <1>3, <1>10 DEF Present, UpToDate
  <2>2. ASSUME NEW u \in DOMAIN contactPhone, Fetched(i, u) PROVE u \in DOMAIN rows
    <3>1. ASSUME NEW k \in DOMAIN contactOut, contactOut[k].op = "photos", contactOut[k].by = i PROVE FALSE
      BY <1>0, <1>1, <1>2, <3>1 DEF Travels, Pair
    <3>2. ASSUME NEW k \in DOMAIN contactBack, contactBack[k].op = "photos", contactBack[k].by = i PROVE k = 1
      BY <1>0, <1>1, <1>2, <3>2 DEF Travels, Pair
    <3> QED BY <2>2, <3>1, <3>2 DEF Fetched
  <2>3. SamePeople' BY <1>0, <1>9, <2>1, ReadSame
  <2> QED BY <1>8, <2>1, <2>2, <2>3
<1>11. contactBack' \in Seq(Brought) BY <1>0, ReadIs
<1>12. /\ syncs' = [syncs EXCEPT ![i].pc = "done"] /\ settled' = syncs[i].current /\ contactOut' = contactOut
  BY <1>1 DEF People!PhotosAnswer, People!Succeeds
<1>13. [syncs[i] EXCEPT !.pc = "done"] \in SyncRecords BY <1>4 DEF SyncRecords
<1>14. syncs' = [syncs EXCEPT ![i] = [syncs[i] EXCEPT !.pc = "done"]] BY <1>12
<1>15. syncs' \in Seq(SyncRecords) /\ DOMAIN syncs' = DOMAIN syncs
  BY <1>0, <1>3, <1>13, <1>14, ExceptSeq DEF PeopleTypes
<1>16. syncs'[i] = [syncs[i] EXCEPT !.pc = "done"] BY <1>3, <1>14
<1>17. syncs'[i].pc = "done" /\ syncs'[i].hashes = syncs[i].hashes BY <1>4, <1>16 DEF SyncRecords
<1>18. \A j \in DOMAIN syncs : j # i => syncs'[j] = syncs[j] BY <1>14
<1>19. settled' \in BOOLEAN BY <1>4, <1>12 DEF SyncRecords
<1>20. PeopleTypes' BY <1>0, <1>4, <1>7, <1>11, <1>12, <1>15, <1>19 DEF PeopleTypes, Reads
<1>21. GoOn BY <1>15, <1>17, <1>18 DEF GoOn
<1>22. Travels'
  <2>1. \A k \in DOMAIN contactOut : contactOut[k].op = "list" => syncs'[contactOut[k].by].pc # "photos"
    BY <1>0, <1>17, <1>18 DEF Travels, Requested
  <2> QED BY <1>0, <1>12, <1>21, <2>1, TravelsKept DEF Reads
<1>23. Numbers'
  <2>1. \A j \in DOMAIN syncs' : HashesNotNewer(syncs[j].hashes)'
    BY <1>0, <1>15, <1>17, <1>18 DEF Numbers, HashesNotNewer, Reads
  <2> QED BY <1>0, <1>7, <1>21, <2>1, ReadNumbers DEF Numbers, HashesAreBehind
<1>24. Present'
  <2>1. ASSUME NEW j \in DOMAIN syncs' PROVE UpToDate(j)'
    <3>1. CASE j = i BY <1>17, <3>1 DEF UpToDate
    <3>2. CASE j # i BY <1>0, <1>1, <1>9, <1>12, <1>15, <1>18, <3>2, ReadOthers
    <3> QED BY <3>1, <3>2
  <2>2. ASSUME settled' PROVE SamePeople' /\ \A u \in DOMAIN contactPhone' : SamePhoto(u)'
    BY <1>10, <1>12, <2>2 DEF Reads
  <2> QED BY <2>1, <2>2 DEF Present
<1> QED BY <1>20, <1>22, <1>23, <1>24 DEF PeopleInv

(* The other answers leave every synchronisation as it is. *)
LEMMA OtherRead ==
    ASSUME PeopleInv, Reads, UNCHANGED <<syncs, settled>>,
           contactBack[1].op \in {"list", "photos"} => contactBack[1].by \notin People!Running,
           \/ UNCHANGED contactOut
           \/ \E x \in PeopleQueries : x.op \notin {"list", "photos"} /\ contactOut' = Append(contactOut, x),
           db' \in PeopleTables, NotNewer(db)', HashesAreBehind', KeepsSame
    PROVE  PeopleInv'
<1>0. PeopleTypes /\ Travels /\ Numbers /\ Present BY DEF PeopleInv
<1>1. GoOn BY DEF GoOn
<1>2. \A k \in DOMAIN contactOut : contactOut[k].op = "list" => syncs'[contactOut[k].by].pc # "photos"
  BY <1>0 DEF Travels
<1>3. /\ contactOut' \in Seq(PeopleQueries) /\ Travels' /\ (~contactUp => contactOut' = contactOut)
      /\ \A k \in DOMAIN contactOut : k \in DOMAIN contactOut' /\ contactOut'[k] = contactOut[k]
  <2>u. contactUp BY <1>0 DEF PeopleTypes, Reads
  <2>1. CASE UNCHANGED contactOut BY <1>0, <1>1, <1>2, <2>1, TravelsKept DEF PeopleTypes, Reads
  <2>2. CASE \E x \in PeopleQueries : x.op \notin {"list", "photos"} /\ contactOut' = Append(contactOut, x)
    <3>1. PICK x \in PeopleQueries : x.op \notin {"list", "photos"} /\ contactOut' = Append(contactOut, x)
      BY <2>2
    <3>2. \A m : ~Pair(m, x) BY <3>1 DEF Pair
    <3>3. Travels' BY <1>0, <1>1, <1>2, <3>1, <3>2, TravelsGrown DEF Reads
    <3>4. /\ contactOut' \in Seq(PeopleQueries) /\ \A k \in DOMAIN contactOut : k \in DOMAIN contactOut' /\ contactOut'[k] = contactOut[k]
      BY <1>0, <3>1, PeopleAppend DEF PeopleTypes
    <3> QED BY <2>u, <3>3, <3>4
  <2> QED BY <2>1, <2>2
<1>4. PeopleTypes'
  <2>1. contactBack' \in Seq(Brought) /\ contactUp BY <1>0, ReadIs DEF PeopleTypes, Reads
  <2> QED BY <1>0, <1>3, <2>1 DEF PeopleTypes, Reads
<1>5. Numbers'
  <2>1. \A j \in DOMAIN syncs' : HashesNotNewer(syncs[j].hashes)'
    BY <1>0 DEF Numbers, HashesNotNewer, Reads
  <2> QED BY <1>0, <1>1, <2>1, ReadNumbers DEF Numbers, HashesAreBehind
<1>6. Present'
  <2>1. ASSUME NEW j \in DOMAIN syncs' PROVE UpToDate(j)'
    <3>1. contactBack[1].op \in {"list", "photos"} => contactBack[1].by # j \/ ~AtWork(j)
      BY <2>1 DEF People!Running, AtWork
    <3> QED BY <1>0, <1>3, <3>1, ReadOthers
  <2>2. ASSUME settled' PROVE SamePeople' /\ \A u \in DOMAIN contactPhone' : SamePhoto(u)'
    BY <1>0, <2>2, ReadSame DEF Present, Reads
  <2> QED BY <2>1, <2>2 DEF Present
<1> QED BY <1>3, <1>4, <1>5, <1>6 DEF PeopleInv

LEMMA SameDb ==
    ASSUME PeopleInv, UNCHANGED <<contactPhone, changes, db>>
    PROVE  db' \in PeopleTables /\ NotNewer(db)' /\ HashesAreBehind' /\ KeepsSame
  BY DEF PeopleInv, PeopleTypes, Numbers, NotNewer, HashesAreBehind, KeepsSame, SamePeople,
         SamePeopleRows, SamePhoto

LEMMA UidsRead ==
    ASSUME PeopleInv, Reads, contactBack[1].op = "uids", People!HandleUids(contactBack[1].rows)
    PROVE  PeopleInv'
<1> DEFINE rows == contactBack[1].rows
           x == [op |-> "vcards", by |-> 0, uids |-> DOMAIN rows, rows |-> <<>>]
<1>1. UNCHANGED <<db, syncs, settled>> /\ (contactOut' = contactOut \/ contactOut' = Append(contactOut, x))
  BY DEF People!HandleUids, People!Query
<1>2. rows \in Books BY ReadIs DEF PeopleInv
<1>3. x \in PeopleQueries /\ x.op = "vcards"
  <2>1. DOMAIN rows \in SUBSET Uids BY <1>2, BookIs
  <2> QED BY <2>1 DEF PeopleQueries, PeopleOps
<1> HIDE DEF x
<1>4. \/ UNCHANGED contactOut
      \/ \E y \in PeopleQueries : y.op \notin {"list", "photos"} /\ contactOut' = Append(contactOut, y)
  BY <1>1, <1>3
<1>5. db' \in PeopleTables /\ NotNewer(db)' /\ HashesAreBehind' /\ KeepsSame
  BY <1>1, SameDb DEF Reads
<1> QED BY <1>1, <1>4, <1>5, OtherRead

LEMMA VcardsRead ==
    ASSUME PeopleInv, Reads, contactBack[1].op = "vcards", People!HandleVcards(contactBack[1].rows)
    PROVE  PeopleInv'
<1> DEFINE rows == contactBack[1].rows
<1>1. UNCHANGED <<contactOut, syncs, settled>> BY DEF People!HandleVcards
<1>2. 1 \in DOMAIN contactBack /\ rows \in Books BY ReadIs DEF PeopleInv
<1>3. NotNewer(rows) BY <1>2 DEF PeopleInv, Numbers
<1>4. /\ db' \in PeopleTables /\ NotNewer(db)' /\ HashesAreBehind'
      /\ DOMAIN db' = DOMAIN db \union DOMAIN rows
      /\ \A u \in DOMAIN db' :
            /\ u \in DOMAIN rows => db'[u].name = rows[u].name /\ db'[u].photo = rows[u].photo
            /\ u \notin DOMAIN rows => db'[u] = db[u]
  <2> HIDE DEF rows
  <2>1. db' = People!Upsert([u \in DOMAIN rows |->
                               [name |-> rows[u].name, photo |-> rows[u].photo,
                                hash |-> IF rows[u].photo = 0 THEN 0 ELSE People!Mime]])
    BY DEF People!HandleVcards, rows
  <2> QED BY <1>2, <1>3, <2>1, CardsMerge DEF Reads
<1>5. KeepsSame
  <2> SUFFICES ASSUME SamePeople
               PROVE  SamePeopleRows' /\ \A u \in DOMAIN contactPhone : SamePhoto(u) => SamePhoto(u)'
    BY DEF KeepsSame
  <2>1. \A u \in DOMAIN rows : u \in DOMAIN contactPhone /\ rows[u] = contactPhone[u]
    BY <1>2 DEF SamePeople, Agrees
  <2>2. DOMAIN db' = DOMAIN contactPhone BY <1>4, <2>1 DEF SamePeople
  <2>3. SamePeopleRows' BY <1>4, <2>1, <2>2 DEF SamePeople, SamePeopleRows, Reads
  <2> QED BY <1>4, <2>1, <2>2, <2>3 DEF SamePeople, SamePhoto, Reads
<1> QED BY <1>1, <1>4, <1>5, OtherRead

LEMMA ReceiveKeeps ==
    ASSUME PeopleInv, People!Receive
    PROVE  PeopleInv'
<1>1. Reads BY DEF People!Receive, Reads
<1>2. Head(contactBack) = contactBack[1] BY <1>1, ReadIs DEF PeopleInv
<1>3. \/ contactBack[1].op = "list" /\ People!ListAnswers(contactBack[1].by, contactBack[1].rows)
      \/ contactBack[1].op = "photos" /\ People!PhotosAnswer(contactBack[1].by, contactBack[1].rows)
      \/ contactBack[1].op = "uids" /\ People!HandleUids(contactBack[1].rows)
      \/ contactBack[1].op = "vcards" /\ People!HandleVcards(contactBack[1].rows)
      \/ /\ contactBack[1].op \in {"list", "photos"} /\ contactBack[1].by \notin People!Running
         /\ UNCHANGED <<db, contactOut, syncs, settled>>
  BY <1>2 DEF People!Receive
<1>4. CASE contactBack[1].op \in {"list", "photos"} /\ contactBack[1].by \notin People!Running
           /\ UNCHANGED <<db, contactOut, syncs, settled>>
  <2>1. db' \in PeopleTables /\ NotNewer(db)' /\ HashesAreBehind' /\ KeepsSame
    BY <1>1, <1>4, SameDb DEF Reads
  <2> QED BY <1>1, <1>4, <2>1, OtherRead
<1> QED BY <1>1, <1>3, <1>4, ListRead, PhotosRead, UidsRead, VcardsRead

LEMMA PeopleKept == PeopleInv /\ [People!Next]_(People!vars) => PeopleInv'
<1> SUFFICES ASSUME PeopleInv, [People!Next]_(People!vars) PROVE PeopleInv'
  OBVIOUS
<1>1. CASE UNCHANGED People!vars BY <1>1, PeopleStay DEF People!vars
<1>2. CASE \E u \in Uids : People!PhoneChanges(u) BY <1>2, PhoneChangesKeeps
<1>3. CASE People!PhoneServes BY <1>3, PhoneServesKeeps
<1>4. CASE People!SyncStarts BY <1>4, SyncStartsKeeps
<1>5. CASE \E i \in DOMAIN syncs : People!SyncFails(i) BY <1>5, SyncFailsKeeps
<1>6. CASE People!RequestAllUids BY <1>6, RequestAllUidsKeeps
<1>7. CASE People!Receive BY <1>7, ReceiveKeeps
<1>8. CASE People!Disconnect BY <1>8, PhoneDisconnectsKeeps
<1>9. CASE People!Connect BY <1>9, PeopleStay DEF People!Connect
<1> QED BY <1>1, <1>2, <1>3, <1>4, <1>5, <1>6, <1>7, <1>8, <1>9 DEF People!Next

(* The hash that a contact's row keeps is never that of a newer photo than *)
(* the one on disk, however many synchronisations and vCards write the rows *)
(* of contacts (contactSync, the contacts handler) at once: a photo that is *)
(* out of date is asked for again. *)
THEOREM PhotosStayBehind == People!Spec => []People!PhotoIsNotAhead
<1>1. PeopleInv => People!PhotoIsNotAhead BY DEF PeopleInv, Numbers, People!PhotoIsNotAhead
<1> QED BY <1>1, PeopleInit, PeopleKept, PTL DEF People!Spec

(* After contactSync has succeeded, and until the phone's contacts change, *)
(* the table has the phone's people under their names, with the photo of each *)
(* who has one: for any number of contacts, of synchronisations that overlap, *)
(* of connections lost and of answers that come after the query was given up. *)
THEOREM SyncedStaysSame == People!Spec => []People!SyncedIsSame
<1>1. PeopleInv => People!SyncedIsSame
  BY DEF PeopleInv, Present, SamePeople, SamePhoto, People!SyncedIsSame
<1> QED BY <1>1, PeopleInit, PeopleKept, PTL DEF People!Spec

(* The types of Contacts.TypeOK, for any bounds: names and photos are *)
(* numbered by the changes on the phone, whoever passes them on, and a lost *)
(* connection leaves nothing on the wire and no synchronisation at work. *)
THEOREM PeopleTypesHold == People!ContactConstants => (People!Spec => []People!TypeOK)
<1> SUFFICES ASSUME People!ContactConstants PROVE People!Spec => []People!TypeOK
  OBVIOUS
<1> DEFINE Bounds == changes <= MaxChanges /\ asks <= MaxAsks
<1>1. MaxChanges \in Nat /\ MaxAsks \in Nat BY DEF People!ContactConstants
<1>2. People!Init => Bounds BY <1>1 DEF People!Init
<1>3. PeopleInv /\ Bounds /\ [People!Next]_(People!vars) => Bounds'
  <2> SUFFICES ASSUME PeopleInv, Bounds, [People!Next]_(People!vars) PROVE Bounds'
    OBVIOUS
  <2>1. changes \in Nat /\ asks \in Nat BY DEF PeopleInv, PeopleTypes
  <2>2. \/ UNCHANGED <<changes, asks>>
        \/ changes < MaxChanges /\ changes' = changes + 1 /\ asks' = asks
        \/ asks < MaxAsks /\ asks' = asks + 1 /\ changes' = changes
    BY DEF People!Next, People!vars, People!PhoneChanges, People!PhoneServes, People!SyncStarts,
           People!SyncFails, People!RequestAllUids, People!Receive, People!Disconnect, People!Connect
  <2> QED BY <1>1, <2>1, <2>2
<1>4. PeopleInv /\ Bounds => People!TypeOK
  <2> SUFFICES ASSUME PeopleInv, Bounds PROVE People!TypeOK
    OBVIOUS
  <2>0. PeopleTypes /\ NotNewer(contactPhone) /\ NotNewer(db) /\ HashesAreBehind
    BY DEF PeopleInv, Numbers, HashesAreBehind
  <2>1. changes \in 0..MaxChanges /\ asks \in 0..MaxAsks BY <1>1, <2>0 DEF PeopleTypes
  <2>2. ASSUME NEW n \in Nat, n <= changes + 1 PROVE n \in People!Versions
    BY <1>1, <2>1, <2>2 DEF People!Versions
  <2>3. ASSUME NEW u \in DOMAIN contactPhone
        PROVE  u \in Uids /\ contactPhone[u] \in [name : People!Versions, photo : People!Versions]
    <3>1. u \in Uids /\ contactPhone[u] \in Cards /\ contactPhone[u].name \in Nat /\ contactPhone[u].photo \in Nat
      BY <2>0, BookIs DEF PeopleTypes
    <3>2. contactPhone[u].name \in People!Versions /\ contactPhone[u].photo \in People!Versions
      BY <2>0, <2>2, <3>1 DEF NotNewer
    <3> QED BY <3>1, <3>2 DEF Cards
  <2>4. ASSUME NEW u \in DOMAIN db
        PROVE  /\ u \in Uids
               /\ db[u].photo = 0 <=> db[u].hash = 0
               /\ db[u] \in [name : People!Versions, photo : People!Versions,
                             hash : People!Versions \union {People!Mime}]
    <3>1. /\ u \in Uids /\ db[u] \in PeopleRows /\ db[u].name \in Nat /\ db[u].photo \in Nat
          /\ db[u].hash \in Nat \union {-1}
      BY <2>0, TableIs DEF PeopleTypes
    <3>2. db[u].name <= changes + 1 /\ db[u].photo <= changes + 1 /\ db[u].hash <= db[u].photo
      BY <2>0 DEF NotNewer, HashesAreBehind
    <3>3. db[u].hash \in Nat => db[u].hash <= changes + 1 BY <2>0, <3>1, <3>2 DEF PeopleTypes
    <3>4. db[u].name \in People!Versions /\ db[u].photo \in People!Versions BY <2>2, <3>1, <3>2
    <3>5. db[u].hash \in People!Versions \union {People!Mime} BY <2>2, <3>1, <3>3 DEF People!Mime
    <3> QED BY <2>0, <3>1, <3>4, <3>5 DEF PeopleRows, HashesAreBehind
  <2>5. /\ \A i \in DOMAIN syncs : syncs[i].pc \in {"list", "photos", "done", "failed"}
        /\ ~contactUp => People!Running = {}
    <3>1. \A i \in DOMAIN syncs : syncs[i] \in SyncRecords BY <2>0, SyncIs
    <3> QED BY <2>0, <3>1 DEF SyncRecords, PeopleTypes, AtWork, People!Running
  <2> QED BY <2>0, <2>1, <2>3, <2>4, <2>5 DEF PeopleTypes, People!TypeOK
<1> HIDE DEF Bounds
<1> QED BY <1>2, <1>3, <1>4, PeopleInit, PeopleKept, PTL DEF People!Spec
====================
