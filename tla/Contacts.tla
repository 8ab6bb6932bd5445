---------- MODULE Contacts ----------
(* The contacts in the database: the sync operation that compares them with *)
(* the phone's list and fetches the photos whose hash differs, and the older *)
(* handler that writes the same rows and photo files from vCards.  Both may *)
(* run at once, and the pipeline's sync beside one the console started.  A *)
(* contact is the number of its name and of its photo; a photo's hash is its *)
(* number, and 0 is none. *)
EXTENDS Integers, Sequences

CONSTANTS
    Uids,
    MaxChanges, MaxSyncs, MaxAsks   \* bounds: changes on the phone, syncs, requests for vCards

VARIABLES
    phone, changes, \* the phone's contacts, and how often they changed
    db,             \* the rows: name, photo on disk, and the hash kept in photo_mime
    up, out, back,  \* the connection, and what travels each way
    syncs,          \* the syncs, in the order they were started
    asks,           \* how often all vCards were asked for
    settled         \* the last sync that ended succeeded, and the phone has not changed since it asked

vars == <<phone, changes, db, up, out, back, syncs, asks, settled>>

ContactConstants == MaxChanges \in Nat /\ MaxAsks \in Nat

Mime == -1          \* photo_mime as the vCard handler writes it
Versions == 0..(MaxChanges + 1)
Running == {i \in DOMAIN syncs : syncs[i].pc \in {"list", "photos"}}

TypeOK ==
    /\ \A u \in DOMAIN phone : u \in Uids /\ phone[u] \in [name : Versions, photo : Versions]
    /\ \A u \in DOMAIN db :
          /\ u \in Uids /\ db[u] \in [name : Versions, photo : Versions, hash : Versions \union {Mime}]
          /\ db[u].photo = 0 <=> db[u].hash = 0
    /\ \A i \in DOMAIN syncs : syncs[i].pc \in {"list", "photos", "done", "failed"}
    /\ ~up => out = <<>> /\ back = <<>> /\ Running = {}
    /\ changes \in 0..MaxChanges /\ asks \in 0..MaxAsks /\ settled \in BOOLEAN

Init ==
    /\ \E U \in SUBSET Uids : phone = [u \in U |-> [name |-> 1, photo |-> 1]]
    /\ changes = 0 /\ db = <<>> /\ up = TRUE /\ out = <<>> /\ back = <<>>
    /\ syncs = <<>> /\ asks = 0 /\ settled = FALSE

--------------------
(* The phone *)
\* A contact is added, renamed, photographed, bereft of its photo, or removed.
PhoneChanges(u) ==
    /\ changes < MaxChanges
    /\ LET v == changes + 2
           with(c) == [x \in DOMAIN phone \union {u} |-> IF x = u THEN c ELSE phone[x]]
       IN \/ u \notin DOMAIN phone /\ phone' = with([name |-> v, photo |-> 0])
          \/ u \in DOMAIN phone /\ phone' = with([phone[u] EXCEPT !.name = v])
          \/ u \in DOMAIN phone /\ phone' = with([phone[u] EXCEPT !.photo = v])
          \/ u \in DOMAIN phone /\ phone[u].photo # 0 /\ phone' = with([phone[u] EXCEPT !.photo = 0])
          \/ u \in DOMAIN phone /\ phone' = [x \in DOMAIN phone \ {u} |-> phone[x]]
    /\ changes' = changes + 1
    /\ syncs' = [i \in DOMAIN syncs |-> [syncs[i] EXCEPT !.current = FALSE]]
    /\ settled' = FALSE
    /\ UNCHANGED <<db, up, out, back, asks>>

Only(U) == [u \in U \intersect DOMAIN phone |-> phone[u]]

PhoneServes ==
    /\ out # <<>>
    /\ out' = Tail(out)
    /\ LET m == Head(out) IN
       /\ back' = Append(back, [m EXCEPT !.rows =
                     CASE m.op \in {"list", "uids"} -> phone
                       [] m.op = "photos" -> Only({u \in m.uids \intersect DOMAIN phone : phone[u].photo # 0})
                       [] m.op = "vcards" -> Only(m.uids)])
       /\ syncs' = [i \in DOMAIN syncs |->
                       IF m.op = "list" /\ i = m.by THEN [syncs[i] EXCEPT !.current = TRUE] ELSE syncs[i]]
    /\ UNCHANGED <<phone, changes, db, up, asks, settled>>

--------------------
(* contactSync() *)
Query(op, i, uids) == [op |-> op, by |-> i, uids |-> uids, rows |-> <<>>]
Upsert(rows) == [u \in DOMAIN db \union DOMAIN rows |-> IF u \in DOMAIN rows THEN rows[u] ELSE db[u]]

SyncStarts ==
    /\ up /\ Len(syncs) < MaxSyncs
    /\ syncs' = Append(syncs, [pc |-> "list", hashes |-> <<>>, current |-> FALSE])
    /\ out' = Append(out, Query("list", Len(syncs) + 1, {}))
    /\ UNCHANGED <<phone, changes, db, up, back, asks, settled>>

Succeeds(i) ==
    /\ syncs' = [syncs EXCEPT ![i].pc = "done"]
    /\ settled' = syncs[i].current

\* Mutations of the next two definitions.
MergedHash(u, rows) ==
    IF u \in DOMAIN db THEN [db[u] EXCEPT !.name = rows[u].name, !.hash = rows[u].photo]
    ELSE [name |-> rows[u].name, photo |-> 0, hash |-> rows[u].photo]
\* The list is compared with the database: rows are added, renamed and deleted
\* at once, and the photos are asked for whose hash is another.
Merged(u, rows) ==
    IF u \in DOMAIN db THEN [db[u] EXCEPT !.name = rows[u].name]
    ELSE [name |-> rows[u].name, photo |-> 0, hash |-> 0]

NeedPhotos(rows) ==
    {u \in DOMAIN rows : rows[u].photo # 0 /\ (u \notin DOMAIN db \/ db[u].hash # rows[u].photo)}

ListAnswers(i, rows) ==
    /\ syncs[i].pc = "list"
    /\ db' = [u \in DOMAIN rows |-> Merged(u, rows)]
    /\ IF NeedPhotos(rows) = {} THEN Succeeds(i) /\ UNCHANGED out
       ELSE /\ out' = Append(out, Query("photos", i, NeedPhotos(rows)))
            /\ syncs' = [syncs EXCEPT ![i].pc = "photos",
                                      ![i].hashes = [u \in DOMAIN rows |-> rows[u].photo]]
            /\ UNCHANGED settled

\* The photos are written, and each row that is still there remembers the hash of the list.
PhotosAnswer(i, rows) ==
    /\ syncs[i].pc = "photos"
    /\ db' = Upsert([u \in DOMAIN rows \intersect DOMAIN db |->
                       [db[u] EXCEPT !.photo = rows[u].photo, !.hash = syncs[i].hashes[u]]])
    /\ Succeeds(i)
    /\ UNCHANGED out

\* A query fails or runs into its timer; what the list brought stays.
SyncFails(i) ==
    /\ i \in Running
    /\ syncs' = [syncs EXCEPT ![i].pc = "failed"]
    /\ settled' = FALSE
    /\ UNCHANGED <<phone, changes, db, up, out, back, asks>>

--------------------
(* The vCard handler *)
RequestAllUids ==
    /\ up /\ asks < MaxAsks
    /\ asks' = asks + 1
    /\ out' = Append(out, Query("uids", 0, {}))
    /\ UNCHANGED <<phone, changes, db, up, back, syncs, settled>>

HandleUids(rows) ==
    /\ out' = IF rows = <<>> THEN out ELSE Append(out, Query("vcards", 0, DOMAIN rows))
    /\ UNCHANGED <<db, syncs, settled>>

\* A vCard with a photo leaves its type where the hash is kept, one without clears both.
HandleVcards(rows) ==
    /\ db' = Upsert([u \in DOMAIN rows |-> [name |-> rows[u].name, photo |-> rows[u].photo,
                                            hash |-> IF rows[u].photo = 0 THEN 0 ELSE Mime]])
    /\ UNCHANGED <<out, syncs, settled>>

\* An answer arrives; one to a query that was given up is dropped.
Receive ==
    /\ back # <<>>
    /\ back' = Tail(back)
    /\ LET m == Head(back) IN
       \/ m.op = "list" /\ ListAnswers(m.by, m.rows)
       \/ m.op = "photos" /\ PhotosAnswer(m.by, m.rows)
       \/ m.op = "uids" /\ HandleUids(m.rows)
       \/ m.op = "vcards" /\ HandleVcards(m.rows)
       \/ m.op \in {"list", "photos"} /\ m.by \notin Running /\ UNCHANGED <<db, out, syncs, settled>>
    /\ UNCHANGED <<phone, changes, up, asks>>

\* The connection is lost with all that travels, and its queries fail.
Disconnect ==
    /\ up
    /\ up' = FALSE /\ out' = <<>> /\ back' = <<>>
    /\ syncs' = [i \in DOMAIN syncs |-> IF i \in Running THEN [syncs[i] EXCEPT !.pc = "failed"] ELSE syncs[i]]
    /\ settled' = (settled /\ Running = {})
    /\ UNCHANGED <<phone, changes, db, asks>>

Connect == ~up /\ up' = TRUE /\ UNCHANGED <<phone, changes, db, out, back, syncs, asks, settled>>

Next ==
    \/ \E u \in Uids : PhoneChanges(u)
    \/ PhoneServes \/ SyncStarts
    \/ \E i \in DOMAIN syncs : SyncFails(i)
    \/ RequestAllUids \/ Receive \/ Disconnect \/ Connect

Spec == Init /\ [][Next]_vars

--------------------
\* The hash by which the next sync recognises a photo is never newer than the
\* photo on disk: a photo that is out of date is fetched again.
PhotoIsNotAhead == \A u \in DOMAIN db : db[u].hash # Mime => db[u].hash <= db[u].photo

\* After a sync that succeeded, and until the phone's contacts change, the
\* database has them: the same people under the same names, with the photos of
\* those who have one, whatever syncs and vCards are on the way.
SyncedIsSame ==
    settled =>
        /\ DOMAIN db = DOMAIN phone
        /\ \A u \in DOMAIN db :
              db[u].name = phone[u].name /\ (phone[u].photo # 0 => db[u].photo = phone[u].photo)
====================
