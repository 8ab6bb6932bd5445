---------- MODULE PhoneFiles ----------
(* The phone's files behind a local WebDAV server: each HTTP request is a *)
(* handler that asks the phone for one thing after another and awaits each *)
(* answer or its timer, and the attachments of a conversation are files of *)
(* their own, loaded when they are first looked at.  A file is a sequence of *)
(* chunks; the chunks a request sends are told apart by its number. *)
EXTENDS Integers, Sequences

CONSTANTS
    Paths, Media,               \* files on the phone, and attachments shown as files
    Chunks, MaxRequests, MaxCuts    \* bounds: the longest file, requests, lost connections

VARIABLES
    phone,      \* path -> file or directory on the phone
    up, out, back, cuts,    \* the connection, what travels each way, how often it was lost
    reqs,       \* the HTTP requests, in the order they began
    tfs, sized  \* the conversation's attachment list, and the attachments of known size

vars == <<phone, up, out, back, cuts, reqs, tfs, sized>>

\* The attachments have paths of their own, under a conversation.
FileConstants ==
    /\ Chunks \in Nat /\ MaxCuts \in Nat
    /\ Paths \intersect Media = {} /\ (Media # {} => Chunks > 0)

File(s) == [dir |-> FALSE, data |-> s]
Dir == [dir |-> TRUE, data |-> <<>>]
Files(i) == {[k \in 1..n |-> <<i, k>>] : n \in 0..Chunks}
Ops == {"GET", "PUT", "DELETE", "MKCOL", "MOVE", "COPY", "PROPFIND"}
Asks == {"stat", "readdir", "read", "write", "mkdir", "delete", "rename"}
Running == {i \in DOMAIN reqs : reqs[i].pc # "done"}

TypeOK ==
    /\ DOMAIN phone \subseteq Paths /\ up \in BOOLEAN /\ cuts \in 0..MaxCuts
    /\ \A p \in DOMAIN phone : phone[p].dir \in BOOLEAN /\ Len(phone[p].data) <= Chunks
    /\ ~up => out = <<>> /\ back = <<>>
    /\ \A i \in DOMAIN reqs :
          /\ reqs[i].op \in Ops /\ reqs[i].pc \in Asks \union {"done"}
          /\ reqs[i].status \in {0, 200, 201, 204, 207, 404, 405, 500}
          /\ (reqs[i].status = 0) <=> (reqs[i].pc # "done")
          /\ reqs[i].at \in 0..Chunks /\ Len(reqs[i].got) <= Chunks
    /\ tfs \in {"none", "loading", "loaded"} /\ sized \subseteq Media

Init ==
    /\ \E P \in SUBSET Paths : phone = [p \in P |-> File([k \in 1..Chunks |-> <<0, k>>])]
    /\ up = TRUE /\ out = <<>> /\ back = <<>> /\ cuts = 0
    /\ reqs = <<>> /\ tfs = "none" /\ sized = {}

--------------------
(* sendRequest() and its ends *)
\* Of a request that is over nothing is kept: answers that still come find nobody.
Over(r) ==
    [op |-> "PROPFIND", path |-> r.path, dest |-> r.path, body |-> <<>>, pc |-> "done", n |-> 0,
     at |-> 0, first |-> TRUE, eof |-> FALSE, exists |-> FALSE, size |-> 0, got |-> <<>>,
     cut |-> FALSE, status |-> 207, alone |-> r.alone]
Set(i, r) ==
    [k \in DOMAIN reqs \union {i} |->
        IF k = i THEN r ELSE IF k \in Running THEN reqs[k] ELSE Over(reqs[k])]
End(i, r, status) == reqs' = Set(i, [r EXCEPT !.pc = "done", !.status = status]) /\ UNCHANGED <<out, tfs>>

\* An error: 500, or, once the headers are sent, a body cut short by the text of the error.
Fail(i, r) ==
    LET begun == r.op = "GET" /\ r.pc = "read"
    IN End(i, [r EXCEPT !.cut = begun], IF begun THEN 200 ELSE 500)

Send(i, r, ask, p, data) ==
    IF ~up THEN Fail(i, r)
    ELSE /\ reqs' = Set(i, [r EXCEPT !.pc = ask, !.n = @ + 1])
         /\ out' = Append(out, [id |-> <<i, r.n + 1>>, ask |-> ask, path |-> p, dest |-> r.dest,
                                at |-> r.at, data |-> data, truncate |-> r.first])
         /\ UNCHANGED tfs

\* The attachments are read-only, and known once their list is loaded.
AskMedia(i, r, ask) ==
    IF ask \notin {"stat", "readdir", "read"} THEN Fail(i, r)
    ELSE /\ reqs' = Set(i, [r EXCEPT !.pc = ask])
         /\ tfs' = IF tfs = "none" THEN "loading" ELSE tfs
         /\ UNCHANGED out

Ask(i, r, ask, p, data) == IF p \in Media THEN AskMedia(i, r, ask) ELSE Send(i, r, ask, p, data)
Rename(i, r) == IF {r.path, r.dest} \intersect Media # {} THEN Fail(i, r) ELSE Send(i, r, "rename", r.path, <<>>)

--------------------
(* The handlers *)
Begin(op, p, d, body) ==
    /\ Len(reqs) < MaxRequests
    /\ d # p <=> op \in {"MOVE", "COPY"}
    /\ LET i == Len(reqs) + 1
           r == [op |-> op, path |-> p, dest |-> d, body |-> IF op = "PUT" THEN body ELSE <<>>,
                 pc |-> "stat", n |-> 0, at |-> 0, first |-> TRUE, eof |-> FALSE, exists |-> FALSE,
                 size |-> 0, got |-> <<>>, cut |-> FALSE, status |-> 0, alone |-> Running = {}]
       IN IF op = "MKCOL" THEN Ask(i, r, "mkdir", p, <<>>)
          ELSE Ask(i, r, "stat", IF op = "MOVE" THEN d ELSE p, <<>>)
    /\ UNCHANGED <<phone, up, back, cuts, sized>>

Created(r) == IF r.exists THEN 204 ELSE 201

\* A mutation of the next definition.
PutOnce(i, r) ==
    IF r.first THEN Ask(i, r, "write", r.path, IF r.body = <<>> THEN <<>> ELSE <<r.body[1]>>)
    ELSE End(i, r, Created(r))

\* The next chunk of the body of a PUT; one write makes an empty file.
PutMore(i, r) ==
    IF r.at < Len(r.body) THEN Ask(i, r, "write", r.path, <<r.body[r.at + 1]>>)
    ELSE IF r.first THEN Ask(i, r, "write", r.path, <<>>)
    ELSE End(i, r, Created(r))

ReadMore(i, r) ==
    IF r.at < r.size /\ ~r.eof THEN Ask(i, r, "read", r.path, <<>>)
    ELSE IF r.op = "GET" THEN End(i, r, 200)
    ELSE IF r.first THEN Ask(i, r, "write", r.dest, <<>>)
    ELSE End(i, r, 201)

AfterStat(i, r, a) ==
    LET found == [r EXCEPT !.exists = a.exists, !.size = a.size] IN
    \/ r.op = "PUT" /\ PutMore(i, found)
    \/ r.op = "MOVE" /\ Rename(i, found)
    \/ r.op \notin {"PUT", "MOVE"} /\ ~a.exists /\ End(i, r, 404)
    \/ r.op = "DELETE" /\ a.exists /\ Ask(i, found, "delete", r.path, <<>>)
    \/ r.op = "PROPFIND" /\ a.exists /\ (IF a.dir THEN Ask(i, found, "readdir", r.path, <<>>) ELSE End(i, r, 207))
    \/ r.op = "GET" /\ a.exists /\ (IF a.dir THEN End(i, r, 405) ELSE ReadMore(i, found))
    \/ r.op = "COPY" /\ a.exists /\ (IF a.dir THEN Ask(i, found, "mkdir", r.dest, <<>>) ELSE ReadMore(i, found))

AfterRead(i, r, a) ==
    LET last == [r EXCEPT !.eof = a.eof \/ a.data = <<>>] IN
    IF r.op = "GET" THEN ReadMore(i, [last EXCEPT !.at = @ + Len(a.data), !.got = @ \o a.data])
    ELSE IF a.data = <<>> THEN ReadMore(i, last)
    ELSE Ask(i, last, "write", r.dest, a.data)

AfterWrite(i, r) ==
    LET next == [r EXCEPT !.first = FALSE, !.at = IF @ < (IF r.op = "PUT" THEN Len(r.body) ELSE r.size) THEN @ + 1 ELSE @]
    IN IF r.op = "PUT" THEN PutMore(i, next) ELSE ReadMore(i, next)

After(i, r, a) ==
    \/ ~a.ok /\ Fail(i, r)
    \/ a.ok /\ r.pc = "stat" /\ AfterStat(i, r, a)
    \/ a.ok /\ r.pc = "read" /\ AfterRead(i, r, a)
    \/ a.ok /\ r.pc = "write" /\ AfterWrite(i, r)
    \/ a.ok /\ r.pc = "readdir" /\ End(i, r, 207)
    \/ a.ok /\ r.pc = "mkdir" /\ End(i, r, 201)
    \/ a.ok /\ r.pc = "delete" /\ End(i, r, 204)
    \/ a.ok /\ r.pc = "rename" /\ End(i, r, Created(r))

Awaits(i, id) == i \in Running /\ <<i, reqs[i].n>> = id

HandleResponse ==
    /\ back # <<>>
    /\ back' = Tail(back)
    /\ LET a == Head(back)
           i == a.id[1]
       IN IF Awaits(i, a.id) THEN After(i, reqs[i], a) ELSE UNCHANGED <<out, reqs, tfs>>
    /\ UNCHANGED <<phone, up, cuts, sized>>

OnPhone(i) ==
    \/ reqs[i].path \notin Media
    \/ reqs[i].op = "COPY" /\ reqs[i].pc = "write"
Timeout(i) == i \in Running /\ OnPhone(i) /\ Fail(i, reqs[i]) /\ UNCHANGED <<phone, up, back, cuts, sized>>

--------------------
(* Attachments as files *)
MediaChunk == <<0, 0>>
OnMedia(i) == i \in Running /\ ~OnPhone(i) /\ tfs = "loaded"
NoAnswer == [ok |-> TRUE, exists |-> TRUE, dir |-> FALSE, size |-> 0, data |-> <<>>, eof |-> FALSE]

LoadSettles(ok) ==
    /\ tfs = "loading"
    /\ tfs' = IF ok THEN "loaded" ELSE "none"
    /\ reqs' = [i \in DOMAIN reqs |->
                  IF ~ok /\ i \in Running /\ ~OnPhone(i)
                  THEN [reqs[i] EXCEPT !.pc = "done", !.status = 500] ELSE reqs[i]]
    /\ UNCHANGED <<phone, up, out, back, cuts, sized>>

MediaStat(i) ==
    /\ OnMedia(i) /\ reqs[i].pc = "stat"
    /\ AfterStat(i, reqs[i], [NoAnswer EXCEPT !.size = IF reqs[i].path \in sized THEN 1 ELSE 0])
    /\ UNCHANGED <<phone, up, back, cuts, sized>>

MediaRead(i, ok) ==
    /\ OnMedia(i) /\ reqs[i].pc = "read"
    /\ After(i, reqs[i], [NoAnswer EXCEPT !.ok = ok, !.data = <<MediaChunk>>, !.eof = TRUE])
    /\ UNCHANGED <<phone, up, back, cuts, sized>>

\* The window downloads an attachment, whose size is then in the database.
AppDownloads(m) == m \notin sized /\ sized' = sized \union {m} /\ UNCHANGED <<phone, up, out, back, cuts, reqs, tfs>>

--------------------
(* The phone, which serves one request after the other, and the connection *)
PhoneAnswer(m) ==
    LET there == m.path \in DOMAIN phone
        data == IF there THEN phone[m.path].data ELSE <<>>
    IN [ok |-> CASE m.ask = "read" -> there /\ ~phone[m.path].dir
                 [] m.ask = "write" -> m.truncate \/ (there /\ ~phone[m.path].dir /\ m.at <= Len(data))
                 [] m.ask = "mkdir" -> ~there
                 [] m.ask = "readdir" -> there /\ phone[m.path].dir
                 [] m.ask \in {"delete", "rename"} -> there
                 [] OTHER -> TRUE,
        id |-> m.id, exists |-> there, dir |-> there /\ phone[m.path].dir, size |-> Len(data),
        data |-> IF m.ask = "read" /\ m.at < Len(data) THEN <<data[m.at + 1]>> ELSE <<>>,
        eof |-> m.at + 1 >= Len(data)]

With(p, f) == [q \in DOMAIN phone \union {p} |-> IF q = p THEN f ELSE phone[q]]
Without(p) == [q \in DOMAIN phone \ {p} |-> phone[q]]

PhoneAfter(m) ==
    CASE m.ask = "write" ->
           With(m.path, File(IF m.truncate THEN m.data
                             ELSE LET old == phone[m.path].data
                                  IN SubSeq(old, 1, m.at) \o m.data \o SubSeq(old, m.at + 2, Len(old))))
      [] m.ask = "mkdir" -> With(m.path, Dir)
      [] m.ask = "delete" -> Without(m.path)
      [] m.ask = "rename" -> [q \in (DOMAIN phone \ {m.path}) \union {m.dest} |->
                                IF q = m.dest THEN phone[m.path] ELSE phone[q]]
      [] OTHER -> phone

PhoneServes ==
    /\ out # <<>>
    /\ out' = Tail(out)
    /\ LET a == PhoneAnswer(Head(out)) IN
       /\ back' = Append(back, a)
       /\ phone' = IF a.ok THEN PhoneAfter(Head(out)) ELSE phone
    /\ UNCHANGED <<up, cuts, reqs, tfs, sized>>

PhoneRefuses ==
    /\ out # <<>>
    /\ out' = Tail(out)
    /\ back' = Append(back, [PhoneAnswer(Head(out)) EXCEPT !.ok = FALSE])
    /\ UNCHANGED <<phone, up, cuts, reqs, tfs, sized>>

\* clearSendFunction(): what travels is lost, and the requests that wait go on waiting.
Disconnect ==
    /\ up /\ cuts < MaxCuts
    /\ up' = FALSE /\ cuts' = cuts + 1 /\ out' = <<>> /\ back' = <<>>
    /\ UNCHANGED <<phone, reqs, tfs, sized>>

Connect == ~up /\ up' = TRUE /\ UNCHANGED <<phone, out, back, cuts, reqs, tfs, sized>>

Next ==
    \/ \E op \in Ops, p, d \in Paths \union Media, body \in Files(Len(reqs) + 1) :
          (op # "PUT" => body = <<>>) /\ Begin(op, p, d, body)
    \/ HandleResponse
    \/ \E i \in Running : Timeout(i) \/ MediaStat(i) \/ (\E ok \in BOOLEAN : MediaRead(i, ok))
    \/ \E ok \in BOOLEAN : LoadSettles(ok)
    \/ \E m \in Media : AppDownloads(m)
    \/ PhoneServes \/ PhoneRefuses \/ Disconnect \/ Connect

Spec == Init /\ [][Next]_vars

--------------------
Done(i, statuses) == reqs[i].pc = "done" /\ reqs[i].status \in statuses

\* What the server says of the last request, had no other request been running
\* when it began, is what the phone's files say: a file that was put or copied
\* is whole, a file that was moved or deleted is gone, and a body that was not cut
\* short is the phone's file.  Requests before it may have failed halfway, with their
\* writes still on the way.
LastAnswerIsTrue ==
    \A i \in DOMAIN reqs :
        LET r == reqs[i]
            Is(p, s) == p \in DOMAIN phone /\ phone[p] = File(s)
        IN i = Len(reqs) /\ r.alone /\ r.path \in Paths /\ r.dest \in Paths =>
            /\ r.op = "PUT" /\ Done(i, {201, 204}) => Is(r.path, r.body)
            /\ r.op = "COPY" /\ Done(i, {201}) =>
                  {r.path, r.dest} \subseteq DOMAIN phone /\ phone[r.dest] = phone[r.path]
            /\ r.op \in {"MOVE", "DELETE"} /\ Done(i, {201, 204}) => r.path \notin DOMAIN phone
            /\ r.op = "GET" /\ Done(i, {200}) /\ ~r.cut => Is(r.path, r.got)

\* A GET of an attachment that succeeds, and whose body is not cut short, delivers the attachment.
\* The code does not keep this: see README.md, section 6.
MediaIsServed ==
    \A i \in DOMAIN reqs :
        reqs[i].op = "GET" /\ reqs[i].path \in Media /\ Done(i, {200}) /\ ~reqs[i].cut => reqs[i].got = <<MediaChunk>>
====================
