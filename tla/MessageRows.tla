---------- MODULE MessageRows ----------
(* What the open conversation makes of its rows *)
(* (gui/src/renderer/src/stores/messages.svelte.ts, lib/tapback.ts, *)
(* components/MessageThread.svelte). A phone sends a reaction as a message of *)
(* its own that quotes the message it is about: the store finds that message, *)
(* hides the reaction and draws a badge, and puts a date above a message of *)
(* another day or that comes long after the last date. The component does the *)
(* same for the messages that are still being sent. *)
(*                                                                            *)
(* A body is what it says or the text it quotes; a long text is quoted by its *)
(* beginning, which other texts may share (Begins). A reaction quotes no *)
(* reaction. "about" is a ghost: the message a reaction was really made to. *)
EXTENDS Integers, Sequences, SequencesExt, FiniteSets, TLC

CONSTANTS
    Texts,      \* what messages say
    QuoteOf,    \* QuoteOf[t]: how a reaction quotes t, [text, cut]
    Begins,     \* Begins[t]: the quotes that t begins with
    People,     \* who writes, "me" among them
    Emojis,     \* what a reaction can be
    Span,       \* how far back a reaction looks for its message (200)
    Gap,        \* TIMESTAMP_GAP_MS
    DayLength,
    MaxDate, MaxRows, MaxPending    \* bounds of the check

VARIABLES
    phone,      \* the conversation's rows, oldest first
    first,      \* the rows from here on are in the store
    pending,    \* the messages that are still being sent
    pendingReactions,   \* pendingReactions[i]: the user's reactions to row i that have no row yet
    merged      \* what pendingReactions was when the display was last computed

vars == <<phone, first, pending, pendingReactions, merged>>

NoReactions == [i \in 1..MaxRows |-> {}]

Says(t, p, d) == [word |-> "says", text |-> t, cut |-> FALSE, emoji |-> "", from |-> p, date |-> d, about |-> 0]
Tapback(w, i, e, p, d) ==
    [word |-> w, text |-> QuoteOf[phone[i].text].text, cut |-> QuoteOf[phone[i].text].cut,
     emoji |-> e, from |-> p, date |-> d, about |-> i]

ParsesAsTapback(row) == row.word \in {"add", "remove"}

Day(d) == d \div DayLength

--------------------
(* The display *)

Quotes(tapback, row) ==
    row.word = "says" /\ (IF tapback.cut THEN tapback.text \in Begins[row.text] ELSE tapback.text = row.text)

\* The latest message before row i that it may be about, 0 if it has none.
Target(i) ==
    LET found == {j \in first..(i - 1) : j >= i - Span /\ Quotes(phone[i], phone[j])}
    IN IF found = {} THEN 0 ELSE CHOOSE j \in found : \A k \in found : k <= j

IsHidden(i) == ParsesAsTapback(phone[i]) /\ Target(i) # 0

Rows == [k \in 1..(Len(phone) + 1 - first) |-> first + k - 1]

\* A mutation of the next definition.
WithBadgeTwice(badges, b) == Append(badges, b)
WithBadge(badges, b) == IF b \in Range(badges) THEN badges ELSE Append(badges, b)
WithoutBadge(badges, e) ==
    LET same == {k \in DOMAIN badges : badges[k].emoji = e}
    IN IF same = {} THEN badges ELSE RemoveAt(badges, CHOOSE k \in same : \A l \in same : k <= l)

\* What the rows say of message m, in their order.
Synced(m) ==
    FoldLeft(LAMBDA badges, i :
                 IF phone[i].word = "add"
                 THEN WithBadge(badges, [emoji |-> phone[i].emoji, from |-> phone[i].from])
                 ELSE WithoutBadge(badges, phone[i].emoji),
             <<>>, SelectSeq(Rows, LAMBDA i : ParsesAsTapback(phone[i]) /\ Target(i) = m))

\* mergeReactions
Badges(m) == FoldLeft(LAMBDA badges, e : WithBadge(badges, [emoji |-> e, from |-> "me"]),
                      Synced(m), SetToSeq(merged[m]))

Shown == SelectSeq(Rows, LAMBDA i : ~IsHidden(i))

\* One more message under the dates: the date before it, the last date that was
\* shown, and whether each message has one.
Dated(acc, date) ==
    LET show == acc.prev = 0 \/ Day(acc.prev) # Day(date) \/ date - acc.last >= Gap
    IN [prev |-> date, last |-> IF show THEN date ELSE acc.last, shown |-> Append(acc.shown, show)]
Timestamps(dates) == FoldLeft(Dated, [prev |-> 0, last |-> 0, shown |-> <<>>], dates)
ShownDates == [k \in DOMAIN Shown |-> phone[Shown[k]].date]

PendingMsgs == SelectSeq(pending, LAMBDA p : ~ParsesAsTapback(p))
\* A mutation of the next definition.
PendingWithSeparatorsAnew == Timestamps([k \in DOMAIN PendingMsgs |-> PendingMsgs[k].date]).shown
\* The pending messages continue from the last message and the last date above it.
PendingWithSeparators ==
    LET real == Timestamps(ShownDates).shown
        dated == {k \in DOMAIN Shown : real[k]}
        prev0 == IF Shown = <<>> THEN 0 ELSE ShownDates[Len(Shown)]
        last0 == IF dated = {} THEN 0 ELSE ShownDates[CHOOSE k \in dated : \A l \in dated : l <= k]
    IN FoldLeft(Dated, [prev |-> prev0, last |-> last0, shown |-> <<>>],
                [k \in DOMAIN PendingMsgs |-> PendingMsgs[k].date]).shown

--------------------
LastDate == IF phone = <<>> THEN 1 ELSE phone[Len(phone)].date

Init ==
    /\ phone = <<>> /\ first = 1
    /\ pending = <<>>
    /\ pendingReactions = NoReactions /\ merged = NoReactions

\* The rows have changed and are loaded: the reactions drawn ahead are cleared, and
\* the display is computed again.
Loaded == pendingReactions' = NoReactions /\ merged' = NoReactions

Arrives(row) == phone' = Append(phone, row) /\ Loaded /\ UNCHANGED <<first, pending>>

\* Somebody writes; who it is matters to nothing here.
Writes(t, d) == Len(phone) < MaxRows /\ Arrives(Says(t, "me", d))

\* The last word of person p with emoji e on message i.
LastWord(i, p, e) ==
    LET said == {j \in DOMAIN phone : phone[j].about = i /\ phone[j].from = p /\ phone[j].emoji = e}
    IN IF said = {} THEN "none" ELSE phone[CHOOSE j \in said : \A k \in said : k <= j].word

\* Somebody reacts on another phone, or takes a reaction back.
Reacts(p, i, e, d) ==
    /\ Len(phone) < MaxRows
    /\ p # "me" /\ i \in DOMAIN phone /\ phone[i].word = "says"
    /\ Arrives(Tapback(IF LastWord(i, p, e) = "add" THEN "remove" ELSE "add", i, e, p, d))

\* The user reacts here: the reaction is noted and the message is sent. The notes
\* are a plain Map: the display depends on the rows, and is not computed again.
HandleReact(i, e) ==
    /\ Len(pending) < MaxPending
    /\ i \in Range(Shown) /\ phone[i].word = "says"
    /\ pendingReactions' = [pendingReactions EXCEPT ![i] = @ \cup {e}]
    /\ pending' = Append(pending, Tapback("add", i, e, "me", LastDate))
    /\ UNCHANGED <<phone, first, merged>>

\* The user writes: the message is shown with the pending ones.
HandleSend(t, d) ==
    /\ Len(pending) < MaxPending
    /\ pending' = Append(pending, Says(t, "me", d))
    /\ UNCHANGED <<phone, first, pendingReactions, merged>>

\* The phone has sent the first of them and its row arrives, with the phone's date.
Sent(d) ==
    /\ pending # <<>> /\ Len(phone) < MaxRows
    /\ phone' = Append(phone, [Head(pending) EXCEPT !.date = d])
    /\ pending' = Tail(pending)
    /\ Loaded
    /\ UNCHANGED first

\* The conversation is opened again with its latest rows only.
ResetMessages(n) ==
    /\ n \in DOMAIN phone
    /\ first' = n
    /\ Loaded
    /\ UNCHANGED <<phone, pending>>

\* A page of older rows is put before the loaded ones.
Older(n) ==
    /\ first > 1 /\ n \in 1..(first - 1)
    /\ first' = n
    /\ Loaded
    /\ UNCHANGED <<phone, pending>>

\* The user chooses another language: the names in the display are computed again.
SetLocale ==
    /\ merged' = pendingReactions
    /\ UNCHANGED <<phone, first, pending, pendingReactions>>

Next ==
    \/ \E d \in LastDate..MaxDate :
          \/ \E t \in Texts : Writes(t, d)
          \/ \E p \in People, e \in Emojis, i \in 1..MaxRows : Reacts(p, i, e, d)
          \/ Sent(d)
    \/ \E d \in 1..MaxDate, t \in Texts : HandleSend(t, d)
    \/ \E i \in 1..MaxRows, e \in Emojis : HandleReact(i, e)
    \/ \E n \in 1..MaxRows : ResetMessages(n) \/ Older(n)
    \/ SetLocale

Spec == Init /\ [][Next]_vars

--------------------
TypeOK ==
    /\ \A i \in DOMAIN phone : /\ phone[i].word \in {"says", "add", "remove"}
                               /\ phone[i].from \in People /\ phone[i].date \in 1..MaxDate
    /\ Len(phone) <= MaxRows /\ first \in 1..MaxRows
    /\ Len(pending) <= MaxPending
    /\ {pendingReactions, merged} \subseteq [1..MaxRows -> SUBSET Emojis]

\* A message still being sent has a date above it exactly when its row would have
\* one: the component's rule continues the store's.
PendingLooksSynced ==
    Timestamps(ShownDates \o [k \in DOMAIN PendingMsgs |-> PendingMsgs[k].date]).shown
        = Timestamps(ShownDates).shown \o PendingWithSeparators

\* The messages that row i could be about, as a reader sees them.
Meant(i) == {j \in first..(i - 1) : Quotes(phone[i], phone[j])}

\* No reaction to m can be mistaken for one to another message.
IsPlain(m) ==
    \A i \in DOMAIN phone :
        m \in Meant(i) \/ phone[i].about = m => phone[i].about = m /\ Meant(i) = {m} /\ i <= m + Span

\* A person's badge is on a message exactly when the person's last word on it was
\* to add it, or the display has the user's reaction ahead of its row: for a message no other message can
\* be mistaken for, near enough to its reactions, and an emoji that one person
\* used on it.
BadgesAreTrue ==
    \A m \in first..Len(phone), e \in Emojis, p \in People :
        LET about == {i \in DOMAIN phone : phone[i].about = m /\ phone[i].emoji = e}
        IN (/\ phone[m].word = "says"
            /\ IsPlain(m)
            /\ \A i \in about : phone[i].from = p)
           => (([emoji |-> e, from |-> p] \in Range(Badges(m)))
                  <=> (LastWord(m, p, e) = "add" \/ (p = "me" /\ e \in merged[m])))

\* What the pane shows is what was said: the dates above pending messages, the badges,
\* and nobody has the same badge twice, though it is in a row and pending as well.
ThreadIsTrue ==
    /\ PendingLooksSynced
    /\ BadgesAreTrue
    /\ \A m \in first..Len(phone) : IsInjective(Badges(m))

\* A reaction the user makes is shown at once, before its row.
\* The code does not keep this: see README.md, section 6.
ReactionIsShown ==
    \A m \in first..Len(phone), e \in Emojis :
        e \in pendingReactions[m] => [emoji |-> e, from |-> "me"] \in Range(Badges(m))
====================
