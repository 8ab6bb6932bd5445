---------- MODULE LinkPreviews ----------
(* Previews of links: the renderer's store (stores/link-previews.svelte.ts), *)
(* the fetcher of the main process with its limit on fetches at a time *)
(* (link-preview-fetcher.ts) and its cache (link-preview-cache.ts), and the *)
(* preview of what is being typed (MessageThread.svelte), which follows the *)
(* text after 400 ms. *)
EXTENDS Integers, Sequences, FiniteSets, SequencesExt

CONSTANTS
    Links,          \* addresses of pages
    Refused,        \* those on the local network, or of files, that are not fetched
    Calls,          \* calls of window.api.fetchLinkPreview, by number
    MaxConcurrent,  \* MAX_CONCURRENT
    MaxResets,      \* bound on resets and expiries
    MaxEdits,       \* bound on what the user types
    None

\* Of the constants; assumed where they are given values.
LinkConstants ==
    /\ Links # {} /\ Refused \subseteq Links /\ None \notin Links
    /\ IsFiniteSet(Calls) /\ Calls = 1..Cardinality(Calls)
    /\ MaxConcurrent \in Nat \ {0} /\ {MaxResets, MaxEdits} \subseteq Nat

VARIABLES
    store,          \* renderer: [cache, pending]
    made,           \* how many calls were made
    url,            \* [Calls -> Links]: what each asks
    phase,          \* [Calls -> where it is]
    active,         \* activeFetches
    queue,          \* pendingQueue
    cached,         \* pages with a row that has not expired
    draft,          \* the composer: [text, shown, dismissed, timer]
    resets, edits

vars == <<store, made, url, phase, active, queue, cached, draft, resets, edits>>

Fetching == {"page", "image", "done"}
Under == {c \in 1..made : phase[c] # "settled"}

Init ==
    /\ store = [cache |-> {}, pending |-> {}]
    /\ made = 0 /\ url \in [Calls -> {CHOOSE l \in Links : TRUE}]
    /\ phase = [c \in Calls |-> "new"]
    /\ active = 0 /\ queue = <<>> /\ cached = {}
    /\ draft = [text |-> None, shown |-> None, dismissed |-> None, timer |-> FALSE]
    /\ resets = 0 /\ edits = 0

--------------------
(* The store. *)

\* A preview comes on the screen, in a message or in the composer.
FetchPreview(l) ==
    /\ l \notin store.cache \cup store.pending
    /\ made < Cardinality(Calls)
    /\ store' = [store EXCEPT !.pending = @ \cup {l}]
    /\ made' = made + 1
    /\ url' = [url EXCEPT ![made + 1] = l]
    /\ phase' = [phase EXCEPT ![made + 1] = "asked"]
    /\ UNCHANGED <<active, queue, cached, draft, resets, edits>>

\* The promise resolves; the fetcher turns every failure into an answer.
Answered(c) ==
    /\ phase[c] = "answered"
    /\ phase' = [phase EXCEPT ![c] = "settled"]
    /\ store' = [cache |-> store.cache \cup {url[c]}, pending |-> store.pending \ {url[c]}]
    /\ UNCHANGED <<made, url, active, queue, cached, draft, resets, edits>>

ResetLinkPreviews ==    \* unpaired
    /\ resets < MaxResets /\ resets' = resets + 1
    /\ store' = [cache |-> {}, pending |-> {}]
    /\ UNCHANGED <<made, url, phase, active, queue, cached, draft, edits>>

--------------------
(* The fetcher. *)

\* doFetch() up to its first wait: a page in the cache and one that is refused
\* need none.
Begins(c) == IF url[c] \in cached \cup Refused THEN "done" ELSE "page"

FetchLinkPreview(c) ==
    /\ phase[c] = "asked"
    /\ IF url[c] \in cached
       THEN phase' = [phase EXCEPT ![c] = "answered"] /\ UNCHANGED <<active, queue>>
       ELSE IF active < MaxConcurrent
       THEN /\ active' = active + 1
            /\ phase' = [phase EXCEPT ![c] = Begins(c)]
            /\ UNCHANGED queue
       ELSE /\ queue' = Append(queue, c)
            /\ phase' = [phase EXCEPT ![c] = "queued"]
            /\ UNCHANGED active
    /\ UNCHANGED <<store, made, url, cached, draft, resets, edits>>

\* The page arrives and names an image; or that is all, a failure included, and
\* it is remembered, except for a page without a body. Only the wait for the
\* head has a time limit.
PageArrives(c, named, kept) ==
    /\ phase[c] = "page"
    /\ phase' = [phase EXCEPT ![c] = IF named THEN "image" ELSE "done"]
    /\ cached' = IF kept /\ ~named THEN cached \cup {url[c]} ELSE cached
    /\ UNCHANGED <<store, made, url, active, queue, draft, resets, edits>>

ImageArrives(c) ==  \* or does not: the preview goes without
    /\ phase[c] = "image"
    /\ phase' = [phase EXCEPT ![c] = "done"]
    /\ cached' = cached \cup {url[c]}
    /\ UNCHANGED <<store, made, url, active, queue, draft, resets, edits>>

\* The "finally" of a fetch gives its place to the first that waits.
\* A mutation of the next definition.
ReleaseOnly(c) ==
    /\ phase' = [phase EXCEPT ![c] = "answered"]
    /\ active' = active - 1 /\ UNCHANGED queue
Release(c) ==
    IF queue = <<>>
    THEN /\ phase' = [phase EXCEPT ![c] = "answered"]
         /\ active' = active - 1 /\ UNCHANGED queue
    ELSE /\ phase' = [phase EXCEPT ![c] = "answered", ![Head(queue)] = Begins(Head(queue))]
         /\ queue' = Tail(queue) /\ UNCHANGED active

Fetched(c) ==
    /\ phase[c] = "done"
    /\ Release(c)
    /\ UNCHANGED <<store, made, url, cached, draft, resets, edits>>

\* A week passes, or for a failure an hour.
Expires(l) ==
    /\ resets < MaxResets /\ resets' = resets + 1
    /\ l \in cached
    /\ cached' = cached \ {l}
    /\ UNCHANGED <<store, made, url, phase, active, queue, draft, edits>>

--------------------
(* The composer. *)

Type(l) ==          \* every change of the text starts the wait again
    /\ edits < MaxEdits /\ edits' = edits + 1
    /\ l # draft.text
    /\ draft' = [draft EXCEPT !.text = l, !.timer = TRUE]
    /\ UNCHANGED <<store, made, url, phase, active, queue, cached, resets>>

Show(enabled) == [draft EXCEPT
    !.timer = FALSE,
    !.shown = IF enabled /\ draft.text # draft.dismissed THEN draft.text ELSE None,
    !.dismissed = IF enabled /\ draft.text = None THEN None ELSE @]

DebounceTimer(enabled) ==
    /\ draft.timer
    /\ draft' = Show(enabled)
    /\ UNCHANGED <<store, made, url, phase, active, queue, cached, resets, edits>>

Dismiss ==
    /\ draft.shown # None
    /\ draft' = [draft EXCEPT !.dismissed = draft.shown, !.shown = None]
    /\ UNCHANGED <<store, made, url, phase, active, queue, cached, resets, edits>>

Send ==
    /\ draft.text # None
    /\ draft' = [text |-> None, shown |-> None, dismissed |-> None, timer |-> TRUE]
    /\ UNCHANGED <<store, made, url, phase, active, queue, cached, resets, edits>>

Next ==
    \/ \E l \in Links : FetchPreview(l) \/ Expires(l) \/ Type(l)
    \/ \E c \in Calls : \/ Answered(c) \/ FetchLinkPreview(c) \/ ImageArrives(c)
                        \/ \E n, k \in BOOLEAN : PageArrives(c, n, k)
                        \/ Fetched(c)
    \/ Type(None) \/ Dismiss \/ Send \/ ResetLinkPreviews
    \/ \E e \in BOOLEAN : DebounceTimer(e)

Spec == Init /\ [][Next]_vars

--------------------
TypeOK ==
    /\ store \in [cache : SUBSET Links, pending : SUBSET Links]
    /\ made \in 0..Cardinality(Calls) /\ url \in [Calls -> Links]
    /\ phase \in [Calls -> Fetching \cup {"new", "asked", "queued", "answered", "settled"}]
    /\ active \in Nat /\ ToSet(queue) \subseteq Calls /\ cached \subseteq Links
    /\ {draft.text, draft.shown, draft.dismissed} \subseteq Links \cup {None}

\* The counter is the number of fetches under way and never above the limit, no
\* call waits while a place is free, and a preview that shows as loading has a
\* call that will end it, whatever was reset or expired meanwhile.
FetchesAreCounted ==
    /\ active = Cardinality({c \in Calls : phase[c] \in Fetching}) /\ active <= MaxConcurrent
    /\ queue # <<>> => active = MaxConcurrent
    /\ ToSet(queue) = {c \in Calls : phase[c] = "queued"}
    /\ \A l \in store.pending : \E c \in Under : url[c] = l

\* What the composer previews is the link being typed, once the typing rests,
\* and never one that was dismissed.
PreviewIsTyped ==
    draft.shown # None =>
        /\ draft.shown # draft.dismissed
        /\ ~draft.timer => draft.shown = draft.text

PreviewsAreSound == FetchesAreCounted /\ PreviewIsTyped
====================
