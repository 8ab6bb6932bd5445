---------- MODULE ThumbnailPool ----------
(* Thumbnails, through two pools of bounded size: the gallery store of the *)
(* renderer and the gallery handler of the daemon each ask for at most Limit *)
(* at a time and keep the rest in a queue of their own. Behind them are the *)
(* handler's cache and the phone; the image itself is fetched once more by *)
(* its URL, which the main process remembers. *)
(*                                                                            *)
(* A request has an identity of its own at both ends (the promise, the *)
(* requestId); identities are used again, so that runs may be endless. *)
EXTENDS Integers, Sequences, FiniteSets, SequencesExt

CONSTANTS
    Photos,
    Limit,          \* MAX_CONCURRENT_THUMBS and MAX_CONCURRENT_THUMBNAILS
    Requests,       \* identities: a bound on the calls in flight
    MaxTrouble,     \* bound on disconnections, wipes, evictions and resets
    None

Outcomes == {"ready", "failed", "error"}
InFlight == {"asked", "lost"}
Stages == {"made", "queued"} \cup InFlight \cup Outcomes
Made == [path : Photos, by : {"store", "image"}, at : Stages]

\* Of the constants; assumed where they are given values.
PoolAssumption ==
    /\ Limit \in Nat \ {0} /\ MaxTrouble \in Nat
    /\ Requests \subseteq Nat /\ IsFiniteSet(Requests)
    /\ None \notin Made

VARIABLES
    shown,      \* thumbnailStates
    wanted,     \* thumbQueue
    active,     \* activeThumbRequests
    call,       \* gallery.thumbnail calls, and how far each has come
    pool,       \* the handler's activeThumbnails and thumbnailQueue
    cache,      \* the cache's index: thumbnails, failures; the files on disk
    urls,       \* pathCache of the main process
    up,         \* the connection
    trouble

vars == <<shown, wanted, active, call, pool, cache, urls, up, trouble>>

TypeOK ==
    /\ shown \in [Photos -> {"idle", "loading", "ready", "failed"}]
    /\ wanted \in Seq(Photos)
    /\ active \in -Cardinality(Requests)..Limit
    /\ call \in [Requests -> {None} \cup Made]
    /\ pool.active \in 0..Limit /\ pool.queue \in Seq(Requests)
    /\ cache.thumbs \subseteq Photos /\ cache.failed \subseteq Photos /\ cache.files \subseteq Photos
    /\ urls \subseteq Photos
    /\ up \in BOOLEAN /\ trouble \in 0..MaxTrouble

Init ==
    /\ shown = [p \in Photos |-> "idle"]
    /\ wanted = <<>>
    /\ active = 0
    /\ call = [r \in Requests |-> None]
    /\ pool = [active |-> 0, queue |-> <<>>]
    /\ cache \in [thumbs : {{}}, failed : {{}}, files : {{}}]
    /\ urls = {}
    /\ up = TRUE /\ trouble = 0

Calls == {r \in Requests : call[r] # None}
At(stages) == {r \in Calls : call[r].at \in stages}
renderer == <<shown, wanted, active, urls>>
Troubled == trouble < MaxTrouble /\ trouble' = trouble + 1

--------------------
(* The renderer and the main process *)

\* The numbers of a set from the least to the greatest.
InOrder(S) ==
    CHOOSE s \in [1..Cardinality(S) -> S] : \A i, j \in DOMAIN s : i < j => s[i] < s[j]

Free(calls) == InOrder({r \in Requests : calls[r] = None})

\* fetchThumbnail() of the store for each path of a sequence: calls with free identities.
Fetch(calls, paths) ==
    LET free == Free(calls)
        New(r) == {i \in DOMAIN paths : free[i] = r}
    IN  /\ Len(paths) <= Len(free)
        /\ call' = [r \in Requests |->
                        IF New(r) = {} THEN calls[r]
                        ELSE [path |-> paths[CHOOSE i \in New(r) : TRUE], by |-> "store", at |-> "made"]]

\* requestThumbnail(), as a cell scrolls into view.
RequestThumbnail(p) ==
    /\ shown[p] = "idle"
    /\ \/ /\ active >= Limit
          /\ wanted' = IF \E i \in DOMAIN wanted : wanted[i] = p THEN wanted ELSE Append(wanted, p)
          /\ UNCHANGED <<shown, active, call>>
       \/ /\ active < Limit
          /\ Fetch(call, <<p>>)
          /\ shown' = [shown EXCEPT ![p] = "loading"]
          /\ active' = active + 1
          /\ UNCHANGED wanted
    /\ UNCHANGED <<pool, cache, urls, up, trouble>>

\* drainThumbQueue() goes on while there is room, over what has been loaded meanwhile:
\* the places of the queue it comes to.
Drained(states, room) ==
    {m \in DOMAIN wanted : Cardinality({i \in 1..(m - 1) : states[wanted[i]] = "idle"}) < room}

\* The reply to the store's call, and the queue behind it.
ThumbnailReply(r) ==
    /\ call[r].by = "store" /\ call[r].at \in Outcomes
    /\ LET now == [shown EXCEPT ![call[r].path] = IF call[r].at = "ready" THEN "ready" ELSE "failed"]
           drained == Drained(now, Limit - (active - 1))
           places == InOrder({i \in drained : now[wanted[i]] = "idle"})
           next == [i \in DOMAIN places |-> wanted[places[i]]]
       IN  /\ Fetch([call EXCEPT ![r] = None], next)
           /\ shown' = [p \in Photos |-> IF \E i \in DOMAIN next : next[i] = p THEN "loading" ELSE now[p]]
           /\ active' = active - 1 + Len(next)
           /\ wanted' = SubSeq(wanted, Cardinality(drained) + 1, Len(wanted))
    /\ UNCHANGED <<pool, cache, urls, up, trouble>>

\* The image of a ready thumbnail is loaded by its URL, from the file if the path is known.
LoadImage(p) ==
    /\ shown[p] = "ready" /\ p \notin urls
    /\ \A r \in Calls : call[r].path = p => call[r].by # "image"
    /\ \E r \in Requests :
        /\ call[r] = None /\ \A q \in Requests : q < r => call[q] # None
        /\ call' = [call EXCEPT ![r] = [path |-> p, by |-> "image", at |-> "made"]]
    /\ UNCHANGED <<renderer, pool, cache, up, trouble>>

ImageReply(r) ==
    /\ call[r].by = "image" /\ call[r].at \in Outcomes
    /\ urls' = IF call[r].at = "ready" THEN urls \cup {call[r].path} ELSE urls
    /\ call' = [call EXCEPT ![r] = None]
    /\ UNCHANGED <<shown, wanted, active, pool, cache, up, trouble>>

\* scanGallery() with no items, resetGallery(): the calls in flight go on.
ResetThumbnails ==
    /\ Troubled
    /\ shown' = [p \in Photos |-> "idle"]
    /\ wanted' = <<>>
    /\ active' = 0
    /\ UNCHANGED <<call, pool, cache, urls, up>>

--------------------
(* The daemon *)

Cached(p) == p \in cache.thumbs \cap cache.files
StoreThumbnail(p) ==
    [thumbs |-> cache.thumbs \cup {p}, failed |-> cache.failed \ {p}, files |-> cache.files \cup {p}]
MarkThumbnailFailed(p) == [cache EXCEPT !.thumbs = @ \cup {p}, !.failed = @ \cup {p}]

\* drainThumbnailQueue(), after a request has ended: as many of the queue as there is
\* room for are sent; without a connection each fails at once, and so do all.
Served(calls, p) ==
    LET n == IF up /\ Len(p.queue) > Limit - p.active THEN Limit - p.active ELSE Len(p.queue)
        taken == {p.queue[i] : i \in 1..n}
    IN  /\ call' = [r \in Requests |->
                        IF r \in taken THEN [calls[r] EXCEPT !.at = IF up THEN "asked" ELSE "error"]
                        ELSE calls[r]]
        /\ pool' = [active |-> IF up THEN p.active + n ELSE p.active,
                    queue |-> SubSeq(p.queue, n + 1, Len(p.queue))]

\* getThumbnail(): from the cache, a known failure, queued, or asked of the phone. Without
\* a connection the request fails before it is sent.
GetThumbnail(r) ==
    /\ call[r].at = "made"
    /\ LET p == call[r].path
           Become(at) == [call EXCEPT ![r].at = at]
       IN  CASE Cached(p) -> call' = Become("ready") /\ UNCHANGED pool
             [] ~Cached(p) /\ p \in cache.failed -> call' = Become("failed") /\ UNCHANGED pool
             [] OTHER ->
                  IF pool.active >= Limit
                  THEN call' = Become("queued") /\ pool' = [pool EXCEPT !.queue = Append(@, r)]
                  ELSE IF up THEN call' = Become("asked") /\ pool' = [pool EXCEPT !.active = @ + 1]
                  ELSE Served(Become("error"), pool)
    /\ UNCHANGED <<renderer, cache, up, trouble>>

\* Mutation of the next definition.
EndedUnserved(r, at) ==
    /\ call' = [call EXCEPT ![r].at = at]
    /\ pool' = [pool EXCEPT !.active = @ - 1]
\* A request to the phone has ended.
Ended(r, at) == Served([call EXCEPT ![r].at = at], [pool EXCEPT !.active = @ - 1])

\* The phone's answer: handleResponse(), and the rest of fetchThumbnail() of the handler.
ThumbnailAnswer(r, at) ==
    /\ call[r].at = "asked" /\ up
    /\ cache' = CASE at = "ready"  -> StoreThumbnail(call[r].path)
                  [] at = "failed" -> MarkThumbnailFailed(call[r].path)
                  [] OTHER         -> cache
    /\ Ended(r, at)
    /\ UNCHANGED <<renderer, up, trouble>>

\* The request's 15 s timer.
ThumbnailTimeout(r) ==
    /\ call[r].at \in InFlight
    /\ Ended(r, "error")
    /\ UNCHANGED <<renderer, cache, up, trouble>>

\* clearSendFunction(): the index is forgotten, the files and the requests stay, and the
\* phone that comes back knows nothing of them.
Disconnect ==
    /\ Troubled
    /\ up
    /\ up' = FALSE
    /\ cache' = [cache EXCEPT !.thumbs = {}, !.failed = {}]
    /\ call' = [r \in Requests |-> IF r \in At({"asked"}) THEN [call[r] EXCEPT !.at = "lost"] ELSE call[r]]
    /\ UNCHANGED <<renderer, pool>>

Connect ==
    /\ ~up
    /\ up' = TRUE
    /\ UNCHANGED <<renderer, call, pool, cache, trouble>>

\* resync(): the files are wiped; the connection and the requests on it stay.
Resync ==
    /\ Troubled
    /\ cache' = [thumbs |-> {}, failed |-> {}, files |-> {}]
    /\ UNCHANGED <<renderer, call, pool, up>>

\* runEviction(): thumbnails not used in this session.
Evict(p) ==
    /\ Troubled
    /\ p \in cache.thumbs
    /\ cache' = [thumbs |-> cache.thumbs \ {p}, failed |-> cache.failed \ {p}, files |-> cache.files \ {p}]
    /\ UNCHANGED <<renderer, call, pool, up>>

--------------------

Next ==
    \/ \E p \in Photos : RequestThumbnail(p) \/ LoadImage(p) \/ Evict(p)
    \/ \E r \in Calls :
         \/ GetThumbnail(r) \/ ThumbnailReply(r) \/ ImageReply(r) \/ ThumbnailTimeout(r)
         \/ \E at \in Outcomes : ThumbnailAnswer(r, at)
    \/ ResetThumbnails \/ Disconnect \/ Connect \/ Resync

Spec == Init /\ [][Next]_vars

--------------------
(* Properties *)

\* Neither pool leaks a slot or leaves its queue behind: the handler counts exactly the
\* requests at the phone, a request waits only while all slots are taken, and in the
\* store, which a reset makes forget its own calls, a path waits only while one of its
\* calls will come back and look at the queue.
PoolsAreServed ==
    /\ pool.active = Cardinality(At(InFlight))
    /\ pool.queue # <<>> => pool.active = Limit
    /\ ToSet(pool.queue) = At({"queued"})
    /\ wanted # <<>> => \E r \in Calls : call[r].by = "store"

\* src/gui/src/main/index.ts:940 "Attachment files are immutable (same partId always maps to
\* same file), so entries never need invalidation": the file a remembered URL leads to is
\* there.
\* The code does not keep this: see README.md, section 6.
UrlsLeadToFiles == urls \subseteq cache.files
====================
