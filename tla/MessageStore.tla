---------- MODULE MessageStore ----------
(* The rows and the files of one conversation, statement by statement.  A *)
(* handler is a program of statements, each of them durable by itself; the *)
(* process can be killed between two.  What the phone still keeps comes again *)
(* and what a handler left half done is completed by the next one. *)
EXTENDS Integers, Sequences, SequencesExt

CONSTANTS
    Msgs,                       \* messages of the conversation, a picture each
    MaxEvents, MaxKills         \* bounds: events of the phone, ends of the process

VARIABLES
    phone,                      \* messages on the phone
    kept, handled,              \* its unacknowledged events, and how many of them came here
    page,                       \* the answer to a full query on its way, if any: its messages,
                                \* and those that the phone had or once had when it was made
    toPhone,                    \* deletions on their way to the phone
    conv, synced, msgs, atts,   \* rows: the conversation, its flag, messages, attachments
    files,                      \* pictures on disk
    todo,                       \* statements the process is about to make
    fetching,                   \* pictures being written
    doomed,                     \* messages somebody asked to delete
    listed,                     \* history: messages whose picture a media list brought first
    kills, events

vars == <<phone, kept, handled, page, toPhone, conv, synced, msgs, atts, files, todo, fetching,
          doomed, listed, kills, events>>

\* The phone has finitely many messages.
StoreConstants == IsFiniteSet(Msgs)

TypeOK ==
    /\ phone \subseteq Msgs /\ msgs \subseteq Msgs /\ files \subseteq Msgs /\ fetching \subseteq Msgs
    /\ doomed \subseteq Msgs /\ listed \subseteq Msgs /\ atts \in [Msgs -> {"none", "row", "done"}]
    /\ handled \in 0..Len(kept) /\ conv \in BOOLEAN /\ synced \in BOOLEAN
    /\ synced => conv

Init ==
    /\ phone = {} /\ kept = <<>> /\ handled = 0 /\ page = <<>> /\ toPhone = <<>>
    /\ conv = FALSE /\ synced = FALSE /\ msgs = {} /\ atts = [m \in Msgs |-> "none"]
    /\ files = {} /\ todo = <<>> /\ fetching = {} /\ doomed = {} /\ listed = {}
    /\ kills = 0 /\ events = 0

store == <<conv, synced, msgs, atts, files, listed>>
line == <<phone, kept, handled, page, toPhone, events>>

Do(op, m) == <<[op |-> op, m |-> m]>>
ForEach(op, S) == [i \in 1..Cardinality(S) |-> [op |-> op, m |-> SetToSeq(S)[i]]]
One == CHOOSE m \in Msgs : TRUE
Idle == todo = <<>>

--------------------
(* The statements *)
UpsertMessage(m) == msgs' = msgs \union {m} /\ UNCHANGED <<conv, synced, atts, files>>

\* A picture that is here stays here.
UpsertAttachment(m) ==
    /\ atts' = [atts EXCEPT ![m] = IF @ = "none" THEN "row" ELSE @]
    /\ UNCHANGED <<conv, synced, msgs, files>>

UpsertConversation == conv' = TRUE /\ UNCHANGED <<synced, msgs, atts, files>>
MarkSynced == synced' = conv /\ UNCHANGED <<conv, msgs, atts, files>>
Unlink(m) == files' = (IF atts[m] = "done" THEN files \ {m} ELSE files) /\ UNCHANGED <<conv, synced, msgs, atts>>
DeleteAttachments(m) == atts' = [atts EXCEPT ![m] = "none"] /\ UNCHANGED <<conv, synced, msgs, files>>
DeleteMessageRow(m) == msgs' = msgs \ {m} /\ UNCHANGED <<conv, synced, atts, files>>

\* Through the rows of the messages.
DeleteThreadAttachments ==
    /\ atts' = [m \in Msgs |-> IF m \in msgs THEN "none" ELSE atts[m]]
    /\ UNCHANGED <<conv, synced, msgs, files>>

DeleteThreadMessages == msgs' = {} /\ UNCHANGED <<conv, synced, atts, files>>
DeleteConversation == conv' = FALSE /\ synced' = FALSE /\ UNCHANGED <<msgs, atts, files>>

\* deleteMessagesByIds: both tables in one transaction, and no file.
DeleteBoth(m) ==
    msgs' = msgs \ {m} /\ atts' = [atts EXCEPT ![m] = "none"] /\ UNCHANGED <<conv, synced, files>>

WipeFiles == files' = {} /\ UNCHANGED <<conv, synced, msgs, atts>>

WipeAllData ==
    /\ conv' = FALSE /\ synced' = FALSE /\ msgs' = {} /\ atts' = [m \in Msgs |-> "none"]
    /\ UNCHANGED files

Step ==
    /\ ~Idle
    /\ todo' = Tail(todo)
    /\ LET s == Head(todo) IN
       \/ s.op = "message" /\ UpsertMessage(s.m)
       \/ s.op \in {"attachment", "media"} /\ UpsertAttachment(s.m)
       \/ s.op = "conversation" /\ UpsertConversation
       \/ s.op = "synced" /\ MarkSynced
       \/ s.op = "unlink" /\ Unlink(s.m)
       \/ s.op = "attachments" /\ DeleteAttachments(s.m)
       \/ s.op = "row" /\ DeleteMessageRow(s.m)
       \/ s.op = "thread attachments" /\ DeleteThreadAttachments
       \/ s.op = "thread messages" /\ DeleteThreadMessages
       \/ s.op = "thread" /\ DeleteConversation
       \/ s.op = "both" /\ DeleteBoth(s.m)
       \/ s.op = "wipe files" /\ WipeFiles
       \/ s.op = "wipe rows" /\ WipeAllData
    /\ UNCHANGED <<line, fetching, doomed, listed, kills>>

More == events < MaxEvents /\ events' = events + 1

--------------------
(* The programs *)
Store(m) == Do("message", m) \o Do("attachment", m) \o Do("conversation", m)
Delete(m) == Do("unlink", m) \o Do("attachments", m) \o Do("row", m)

\* A mutation of the next definition.
DeleteThreadRowsFirst ==
    ForEach("unlink", msgs) \o Do("thread messages", One) \o Do("thread attachments", One)
      \o Do("thread", One)

DeleteThread ==
    ForEach("unlink", msgs) \o Do("thread attachments", One) \o Do("thread messages", One)
      \o Do("thread", One)

\* Two handlers, one after the other.
ProgramOf(e) ==
    IF e.kind = "new" THEN Store(e.m) \o Store(e.m)
    ELSE IF e.kind = "deleted" THEN Delete(e.m) \o Do("both", e.m)
    ELSE DeleteThread \o Do("thread", One)

\* A full synchronisation: every message followed by its attachments, then what is gone and
\* is not newer than the query, then the flag.
RowsOf(S) == [i \in 1..(2 * Cardinality(S)) |->
               [op |-> IF i % 2 = 1 THEN "message" ELSE "attachment",
                m |-> SetToSeq(S)[(i + 1) \div 2]]]
SnapshotProgram(S, B) == RowsOf(S) \o ForEach("both", (msgs \ S) \cap B) \o Do("synced", One)

HandleEvent ==
    /\ Idle /\ handled < Len(kept)
    /\ handled' = handled + 1 /\ todo' = ProgramOf(kept[handled + 1])
    /\ UNCHANGED <<phone, kept, page, toPhone, events, store, fetching, doomed, kills>>

ApplySnapshot ==
    /\ Idle /\ page # <<>>
    /\ page' = <<>> /\ todo' = SnapshotProgram(page[1], page[2])
    /\ UNCHANGED <<phone, kept, handled, toPhone, events, store, fetching, doomed, kills>>

\* The list of conversations: it makes the row, and unmakes it with nothing else.
ThreadListSync ==
    /\ Idle
    /\ IF phone # {} THEN ~conv /\ todo' = Do("conversation", One)
       ELSE conv /\ todo' = Do("thread", One)
    /\ UNCHANGED <<line, store, fetching, doomed, kills>>

\* The media of the thread, for the gallery of the conversation or for WebDAV: a row for each
\* attachment the phone names, whether or not its message is here.
ThreadMedia ==
    /\ Idle /\ More
    /\ \E S \in SUBSET (phone \union doomed) :
          todo' = ForEach("media", S) /\ listed' = listed \union (S \ msgs)
    /\ UNCHANGED <<phone, kept, handled, page, toPhone, conv, synced, msgs, atts, files, fetching,
                   doomed, kills>>

\* On the phone too, when it is rooted and connected.
DeleteMessage(m) ==
    /\ Idle /\ More /\ m \in msgs
    /\ todo' = Delete(m) /\ doomed' = doomed \union {m}
    /\ toPhone' \in {toPhone, Append(toPhone, m)}
    /\ UNCHANGED <<phone, kept, handled, page, store, fetching, kills>>

DeleteConversationByUser ==
    /\ Idle /\ More /\ conv
    /\ todo' = DeleteThread /\ doomed' = doomed \union msgs
    /\ toPhone' \in {toPhone, toPhone \o SetToSeq(msgs)}
    /\ UNCHANGED <<phone, kept, handled, page, store, fetching, kills>>

\* Unpaired, or everything is fetched anew.
Wipe ==
    /\ Idle /\ kills < MaxKills /\ kills' = kills + 1
    /\ todo' = Do("wipe files", One) \o Do("wipe rows", One)
    /\ page' = <<>> /\ handled' = 0
    /\ UNCHANGED <<phone, kept, toPhone, events, store, fetching, doomed>>

--------------------
(* Pictures *)
StartFetch(m) ==
    /\ Idle /\ atts[m] # "none" /\ (atts[m] = "row" \/ m \notin files) /\ m \notin fetching
    /\ fetching' = fetching \union {m}
    /\ UNCHANGED <<line, store, todo, doomed, kills>>

\* The file is written whether or not its row is still there.
MarkAttachmentDownloaded(m) ==
    /\ Idle /\ m \in fetching
    /\ fetching' = fetching \ {m} /\ files' = files \union {m}
    /\ atts' = [atts EXCEPT ![m] = IF @ = "none" THEN @ ELSE "done"]
    /\ UNCHANGED <<line, conv, synced, msgs, listed, todo, doomed, kills>>

--------------------
(* The phone and the process *)
PhoneMessage(m) ==
    /\ More /\ m \notin phone /\ m \notin doomed
    /\ \A i \in DOMAIN kept : kept[i].m # m
    /\ phone' = phone \union {m} /\ kept' = Append(kept, [kind |-> "new", m |-> m])
    /\ UNCHANGED <<handled, page, toPhone, store, todo, fetching, doomed, kills>>

PhoneDeletes(m) ==
    /\ More /\ m \in phone
    /\ phone' = phone \ {m} /\ kept' = Append(kept, [kind |-> "deleted", m |-> m])
    /\ doomed' = doomed \union {m}
    /\ UNCHANGED <<handled, page, toPhone, store, todo, fetching, kills>>

PhoneDeletesThread ==
    /\ More /\ phone # {}
    /\ kept' = Append(kept, [kind |-> "thread", m |-> One])
    /\ doomed' = doomed \union phone /\ phone' = {}
    /\ UNCHANGED <<handled, page, toPhone, store, todo, fetching, kills>>

DeleteOnPhone ==
    /\ toPhone # <<>>
    /\ toPhone' = Tail(toPhone) /\ phone' = phone \ {Head(toPhone)}
    /\ kept' = IF Head(toPhone) \in phone
               THEN Append(kept, [kind |-> "deleted", m |-> Head(toPhone)]) ELSE kept
    /\ UNCHANGED <<handled, page, events, store, todo, fetching, doomed, kills>>

Query ==
    /\ page = <<>> /\ conv /\ ~synced /\ Idle /\ page' = <<phone, phone \union doomed>>
    /\ UNCHANGED <<phone, kept, handled, toPhone, events, store, todo, fetching, doomed, kills>>

\* The oldest events that came here are forgotten by the phone.
Acknowledge ==
    /\ Idle /\ handled > 0
    /\ kept' = SubSeq(kept, handled + 1, Len(kept)) /\ handled' = 0
    /\ UNCHANGED <<phone, page, toPhone, events, store, todo, fetching, doomed, kills>>

\* Killed and started again, with the same tables or, after an update that
\* changed them, with none; the files stay.
Kill ==
    /\ kills < MaxKills /\ kills' = kills + 1
    /\ todo' = <<>> /\ handled' = 0 /\ page' = <<>> /\ toPhone' = <<>> /\ fetching' = {}
    /\ \/ UNCHANGED store
       \/ WipeAllData /\ UNCHANGED listed
    /\ UNCHANGED <<phone, kept, events, doomed>>

Next ==
    \/ Step \/ HandleEvent \/ ApplySnapshot \/ ThreadListSync \/ ThreadMedia \/ DeleteConversationByUser
    \/ Wipe
    \/ \E m \in Msgs : \/ DeleteMessage(m) \/ StartFetch(m) \/ MarkAttachmentDownloaded(m)
                       \/ PhoneMessage(m) \/ PhoneDeletes(m)
    \/ PhoneDeletesThread \/ DeleteOnPhone \/ Query \/ Acknowledge \/ Kill

Spec == Init /\ [][Next]_vars

--------------------
\* Wherever the process is killed, no attachment is left without its message, but one that a
\* media list brought without it: such a row nothing takes away with a conversation. And when a
\* conversation counts as synchronised, every message it has from the phone has its picture
\* listed, unless the event that brings it is kept on the phone or somebody asked to delete it.
RowsAreWhole ==
    /\ \A m \in Msgs : atts[m] # "none" => m \in msgs \union listed
    /\ synced /\ Idle => \A m \in (phone \cap msgs) \ doomed :
                            atts[m] # "none" \/ \E i \in DOMAIN kept : kept[i] = [kind |-> "new", m |-> m]
====================
