---------- MODULE ThreadLayout ----------
(* The virtual scroll of the open conversation *)
(* (gui/src/renderer/src/components/MessageThread.svelte): only the rows near *)
(* the viewport are rendered, between two pads; new messages keep a user who *)
(* is at the bottom there, and older ones, put above, keep a user who scrolled *)
(* up at the row on top of the viewport. *)
(*                                                                            *)
(* Scrolling is asynchronous: a frame moves the container later, and the *)
(* container tells the component of its new position by an event that comes *)
(* later still. Rows are as high as the component estimates; at most one *)
(* message is being sent, of height 1; the animated scroll of the button is *)
(* one jump. *)
EXTENDS Integers, Sequences, SequencesExt, FiniteSets

CONSTANTS
    Heights,        \* what a row may measure
    View,           \* containerHeight
    Buffer,         \* BUFFER_ITEMS
    Near,           \* within this distance of the end the user follows new messages
    MaxRows, MaxChanges, MaxClicks  \* bounds of the check

VARIABLES
    rows,           \* the messages, oldest first: [id, height]
    dom,            \* scrollContainer.scrollTop
    told,           \* the container has a scroll event to deliver
    scrollTop,      \* what the component knows of dom
    shouldAutoScroll,
    prevMessageCount,
    anchor,         \* the row on top of the viewport and where: [id, offset], id 0 for none
    depends,        \* the effect that scrolls runs again when shouldAutoScroll changes
    opened,         \* how the conversation was: "anew"; "again", left and opened before
                    \* another was loaded; "as many", with as many rows as the effect saw last
    waiting,        \* pendingMsgs: how many messages are being sent, below the rows
    opening,        \* another conversation is selected, and its rows are not here yet
    frames,         \* what the coming animation frames do: [in, to], to -1 for the end
    changes, clicks

vars == <<rows, dom, told, scrollTop, shouldAutoScroll, prevMessageCount, anchor, depends,
          opened, waiting, opening, frames, changes, clicks>>

--------------------
(* layout, visible, updateScrollAnchor *)

Height(rs) == FoldLeft(LAMBDA y, r : y + r.height, 0, rs)
Offset(rs, i) == Height(SubSeq(rs, 1, i - 1))
Bottom(rs, i) == Offset(rs, i) + rs[i].height

\* The first row of lo..hi in S, by halving, hi if there is none.
FirstFrom(lo, hi, S) ==
    LET search[l, h \in 0..MaxRows] ==
            IF l >= h THEN l
            ELSE LET mid == (l + h) \div 2
                 IN IF mid \in S THEN search[l, mid] ELSE search[mid + 1, h]
    IN search[lo, hi]

\* The last row of lo..hi in S, by halving, lo if there is none.
LastFrom(lo, hi, S) ==
    LET search[l, h \in 0..MaxRows] ==
            IF l >= h THEN l
            ELSE LET mid == (l + h + 1) \div 2
                 IN IF mid \in S THEN search[mid, h] ELSE search[l, mid - 1]
    IN search[lo, hi]

TopRow(rs, top) == FirstFrom(1, Len(rs), {i \in DOMAIN rs : Bottom(rs, i) >= top})
LastRow(rs, start, bottom) == LastFrom(start, Len(rs), {i \in DOMAIN rs : Offset(rs, i) <= bottom})

\* A mutation of the next definition.
VisibleUnbuffered(rs, top) ==
    LET start == TopRow(rs, top) IN [start |-> start, end |-> LastRow(rs, start, top)]

\* The rows that are rendered when the viewport begins at top.
Visible(rs, top) ==
    LET lo == TopRow(rs, top)
        start == IF lo > Buffer THEN lo - Buffer ELSE 1
        last == LastRow(rs, start, top + View)
    IN [start |-> start, end |-> IF last + Buffer < Len(rs) THEN last + Buffer ELSE Len(rs)]

\* How far rows rs and w messages that are being sent can be scrolled.
MaxTop(rs, w) == IF Height(rs) + w > View THEN Height(rs) + w - View ELSE 0
Clamped(rs, w, t) == IF t < 0 THEN 0 ELSE IF t > MaxTop(rs, w) THEN MaxTop(rs, w) ELSE t

--------------------
Init ==
    /\ rows = <<>> /\ dom = 0 /\ told = FALSE
    /\ scrollTop = 0 /\ shouldAutoScroll = TRUE /\ prevMessageCount = 0
    /\ anchor = [id |-> 0, offset |-> 0]
    /\ depends = FALSE /\ opened = "anew" /\ waiting = 0 /\ opening = FALSE
    /\ frames = <<>>
    /\ changes = 0 /\ clicks = 0

\* Two frames, so that the layout is there.
ScrollToBottom == <<[in |-> 2, to |-> -1]>>

Index(rs, id) == CHOOSE i \in DOMAIN rs : rs[i].id = id

\* A mutation of the next definition.
RestoreNothing(rs, auto, prev) == IF auto /\ rs # <<>> /\ Len(rs) # prev THEN ScrollToBottom ELSE <<>>
\* The frames the effect asks for when the rows are rs: to the end, or to where the
\* row that was on top is now.
AutoScroll(rs, auto, prev) ==
    IF rs = <<>> \/ Len(rs) = prev THEN <<>>
    ELSE IF auto THEN ScrollToBottom
    ELSE IF prev > 0 /\ \E i \in DOMAIN rs : rs[i].id = anchor.id
         THEN <<[in |-> 1, to |-> Offset(rs, Index(rs, anchor.id)) - anchor.offset]>>
         ELSE <<>>

\* The other effect, that w messages are being sent.
PendingScroll(w, auto) == IF w > 0 /\ auto THEN ScrollToBottom ELSE <<>>

\* shouldAutoScroll becomes auto, and w messages are being sent; "again" if the list of
\* them is another one.
Follow(auto, prev, w, again) ==
    LET runs == depends /\ auto # shouldAutoScroll
    IN /\ shouldAutoScroll' = auto
       /\ waiting' = w
       /\ frames' = frames \o (IF runs THEN AutoScroll(rows, auto, prev) ELSE <<>>)
                           \o (IF again \/ auto # shouldAutoScroll THEN PendingScroll(w, auto) ELSE <<>>)
       /\ depends' = IF runs THEN rows # <<>> /\ Len(rows) # prev ELSE depends
       /\ prevMessageCount' = IF runs THEN Len(rows) ELSE prev

\* The rows become rs, and a message that was being sent may be among them; the container
\* stays where it is, if that still exists. The effect that scrolls reads
\* shouldAutoScroll, and so depends on it, only when their number is new.
Display(rs) ==
    /\ rows' = rs
    /\ waiting' \in {0, waiting}
    /\ dom' = Clamped(rs, waiting', dom)
    /\ told' = (told \/ dom' # dom)
    /\ frames' = frames \o AutoScroll(rs, shouldAutoScroll, prevMessageCount)
    /\ depends' = (rs # <<>> /\ Len(rs) # prevMessageCount)
    /\ prevMessageCount' = Len(rs)
    /\ UNCHANGED <<scrollTop, shouldAutoScroll, anchor, clicks>>

Ids == {rows[i].id : i \in DOMAIN rows}
\* A message that was on the screen neither now nor when the anchor was set.
Row(h) == [id |-> CHOOSE n \in 1..(MaxRows + 2) : /\ n \notin Ids \cup {anchor.id}
                                                 /\ \A k \in 1..(n - 1) : k \in Ids \cup {anchor.id},
           height |-> h]

\* A message arrives at the end.
Appended(h) ==
    /\ ~opening /\ changes < MaxChanges /\ Len(rows) < MaxRows
    /\ Display(Append(rows, Row(h)))
    /\ changes' = changes + 1 /\ UNCHANGED <<opening, opened>>

\* A page of older messages is put above.
Prepended(h) ==
    /\ ~opening /\ changes < MaxChanges /\ Len(rows) \in 1..(MaxRows - 1)
    /\ Display(<<Row(h)>> \o rows)
    /\ changes' = changes + 1 /\ UNCHANGED <<opening, opened>>

\* The user opens another conversation; the old rows stay until its rows are here.
SelectThread ==
    /\ clicks < MaxClicks /\ rows # <<>>
    /\ opening' = TRUE
    /\ \E w \in 0..1 : Follow(TRUE, 0, w, TRUE) /\ dom' = Clamped(rows, w, dom)
    /\ told' = (told \/ dom' # dom) /\ scrollTop' = 0
    /\ clicks' = clicks + 1
    /\ UNCHANGED <<rows, anchor, opened, changes>>

\* A conversation none of whose messages was on the screen.
Conversation(n, h) ==
    LET IsNew(k) == \A i \in 1..n : i + k * MaxRows \notin Ids \cup {anchor.id}
        k == CHOOSE k \in 1..4 : IsNew(k) /\ \A l \in 1..(k - 1) : ~IsNew(l)
    IN [i \in 1..n |-> [id |-> i + k * MaxRows, height |-> h]]

\* Its rows are here.
LoadThread(n, h) ==
    /\ opening /\ opening' = FALSE
    /\ opened' = IF n = prevMessageCount THEN "as many" ELSE "anew"
    /\ Display(Conversation(n, h))
    /\ UNCHANGED changes

\* The user came back before the other conversation was loaded: the rows that come
\* are the ones that are here, and nothing is updated.
ReloadThread ==
    /\ opening /\ opening' = FALSE
    /\ opened' = "again"
    /\ UNCHANGED <<rows, dom, told, scrollTop, shouldAutoScroll, prevMessageCount, anchor, depends,
                   waiting, frames, changes, clicks>>

\* A message of the conversation is sent, or what was being sent has arrived or was
\* cancelled.
PendingChanges ==
    /\ rows # <<>> /\ changes < MaxChanges
    /\ Follow(shouldAutoScroll, prevMessageCount, 1 - waiting, TRUE)
    /\ dom' = Clamped(rows, waiting', dom) /\ told' = (told \/ dom' # dom)
    /\ changes' = changes + 1
    /\ UNCHANGED <<rows, scrollTop, anchor, opened, opening, clicks>>

\* The user scrolls.
UserScrolls(t) ==
    /\ clicks < MaxClicks /\ t # dom
    /\ dom' = t /\ told' = TRUE
    /\ clicks' = clicks + 1
    /\ UNCHANGED <<rows, scrollTop, shouldAutoScroll, prevMessageCount, anchor, depends, opened,
                   waiting, opening, frames, changes>>

\* The user presses the button that goes to the end.
AnimateScrollToBottom ==
    /\ clicks < MaxClicks /\ ~shouldAutoScroll
    /\ dom' = MaxTop(rows, waiting) /\ told' = (told \/ dom' # dom)
    /\ Follow(TRUE, prevMessageCount, waiting, FALSE)
    /\ clicks' = clicks + 1
    /\ UNCHANGED <<rows, scrollTop, anchor, opened, opening, changes>>

\* The container's event.
HandleScroll ==
    /\ told /\ told' = FALSE
    /\ scrollTop' = dom
    /\ Follow(MaxTop(rows, waiting) - dom < Near, prevMessageCount, waiting, FALSE)
    /\ anchor' = IF rows = <<>> THEN anchor
                 ELSE LET i == TopRow(rows, dom) IN [id |-> rows[i].id, offset |-> Offset(rows, i) - dom]
    /\ UNCHANGED <<rows, dom, opened, opening, changes, clicks>>

\* An animation frame.
Frame ==
    LET due == SelectSeq(frames, LAMBDA f : f.in = 1)
        restored == SelectSeq(due, LAMBDA f : f.to # -1)
        later == SelectSeq(frames, LAMBDA f : f.in > 1)
    IN /\ frames # <<>>
       /\ frames' = [k \in DOMAIN later |-> [later[k] EXCEPT !.in = @ - 1]]
       /\ dom' = IF due = <<>> THEN dom
                 ELSE IF Last(due).to = -1 THEN MaxTop(rows, waiting) ELSE Clamped(rows, waiting, Last(due).to)
       /\ scrollTop' = IF restored = <<>> THEN scrollTop ELSE Last(restored).to
       /\ told' = (told \/ dom' # dom)
       /\ UNCHANGED <<rows, shouldAutoScroll, prevMessageCount, anchor, depends, opened, waiting,
                      opening, changes, clicks>>

Next ==
    \/ \E h \in Heights : Appended(h) \/ Prepended(h)
    \/ SelectThread
    \/ \E n \in 1..MaxRows, h \in Heights : LoadThread(n, h)
    \/ ReloadThread
    \/ PendingChanges
    \/ \E t \in 0..MaxTop(rows, waiting) : UserScrolls(t)
    \/ AnimateScrollToBottom
    \/ HandleScroll
    \/ Frame

Spec == Init /\ [][Next]_vars

--------------------
TypeOK ==
    /\ Len(rows) <= MaxRows /\ \A i \in DOMAIN rows : rows[i].height \in Heights
    /\ dom \in 0..MaxTop(rows, waiting) /\ waiting \in 0..1
    /\ prevMessageCount \in 0..MaxRows
    /\ \A k \in DOMAIN frames : frames[k].in \in 1..2

\* Nothing is under way: no frame, no event, no load.
Settled == frames = <<>> /\ ~told /\ ~opening /\ rows # <<>>

\* Every row of which something is in the viewport is rendered.
\* The code does not keep this: see README.md, section 6.
RowsOnScreen ==
    Settled =>
        LET v == Visible(rows, scrollTop)
        IN \A i \in DOMAIN rows :
               Bottom(rows, i) > dom /\ Offset(rows, i) < dom + View => i \in v.start..v.end

\* A user who follows the conversation is at its end.
FollowersSeeTheEnd == Settled /\ shouldAutoScroll => MaxTop(rows, waiting) - dom < Near

\* A user who scrolled up still has the same row on top, where it was, as far as the
\* rows are high enough.
ReadersKeepTheirPlace ==
    Settled /\ ~shouldAutoScroll /\ anchor.id \in Ids
        => dom = Clamped(rows, waiting, Offset(rows, Index(rows, anchor.id)) - anchor.offset)

\* What is rendered is what is on the screen when the component knows where the
\* container is; and the screen moves only as the user would have it. Two openings the
\* code gets wrong are excepted (README.md, section 6): a conversation left and opened
\* again before another was loaded is where it was left, and one with as many rows as
\* the effect counted last does not go to its end.
PaneIsInPlace ==
    /\ scrollTop = dom => RowsOnScreen
    /\ opened = "anew" => FollowersSeeTheEnd
    /\ opened # "again" => ReadersKeepTheirPlace
====================
