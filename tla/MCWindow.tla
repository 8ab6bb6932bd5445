---------- MODULE MCWindow ----------
(* The panes of the window, one at a time: they share no variable, so their *)
(* product would show nothing that each alone does not. "part" names the one *)
(* that runs; the others rest in their initial states. *)
EXTENDS Integers, Sequences, TLC

CONSTANTS t1, t2, a1, a2, None

MCThreads == {t1, t2}
MCSymmetry == Permutations(MCThreads)
MCAttachments == {a1, a2}

\* A message that is quoted in full, and two with the beginning by which both are quoted
MCQuoteOf == "x" :> [text |-> "x", cut |-> FALSE] @@ "wa" :> [text |-> "w", cut |-> TRUE]
               @@ "wb" :> [text |-> "w", cut |-> TRUE]
MCBegins == "x" :> {"x"} @@ "wa" :> {"wa", "w"} @@ "wb" :> {"wb", "w"}

VARIABLES
    part,
    \* MessageWindow
    winPhone, db, winUp, asked, winBatch, winInbox, winSel, win, due, loads, winNews, winClicks,
    \* ConversationList
    listRows, listBatch, listInbox, listCalls, replies, list, timer, listSel, shown, focus,
    bottom, attention, flash, clock, listNews, listClicks,
    \* AttachmentStates
    stored, attSel, flagged, range, states, attCalls, timers, notices, attUp, attClicks, trouble,
    \* MessageRows
    threadPhone, first, pending, pendingReactions, merged,
    \* ThreadLayout
    layoutRows, dom, told, scrollTop, shouldAutoScroll, prevMessageCount, anchor, depends,
    opened, waiting, opening, frames, changes, layoutClicks,
    \* Composer
    known, view, pane, main, picks, ghosts, picked, composeClicks,
    \* LinkPreviews
    store, made, url, phase, active, queue, cached, draft, resets, edits

windowVars == <<winPhone, db, winUp, asked, winBatch, winInbox, winSel, win, due, loads, winNews,
                winClicks>>
listVars == <<listRows, listBatch, listInbox, listCalls, replies, list, timer, listSel, shown,
              focus, bottom, attention, flash, clock, listNews, listClicks>>
attVars == <<stored, attSel, flagged, range, states, attCalls, timers, notices, attUp, attClicks,
             trouble>>
threadVars == <<threadPhone, first, pending, pendingReactions, merged>>
layoutVars == <<layoutRows, dom, told, scrollTop, shouldAutoScroll, prevMessageCount, anchor,
                depends, opened, waiting, opening, frames, changes, layoutClicks>>
composeVars == <<known, view, pane, main, picks, ghosts, picked, composeClicks>>
linksVars == <<store, made, url, phase, active, queue, cached, draft, resets, edits>>

Window == INSTANCE MessageWindow WITH
        Threads <- MCThreads, Ids <- 1..3, MaxNews <- 2, MaxClicks <- 2, MaxNotices <- 2,
        MaxLoads <- 2, phone <- winPhone, up <- winUp, batch <- winBatch, inbox <- winInbox,
        sel <- winSel, news <- winNews, clicks <- winClicks
List == INSTANCE ConversationList WITH
        Threads <- MCThreads, MaxNews <- 2, MaxClicks <- 2, rows <- listRows, batch <- listBatch,
        inbox <- listInbox, calls <- listCalls, sel <- listSel, news <- listNews,
        clicks <- listClicks
Attachments == INSTANCE AttachmentStates WITH
        Attachments <- MCAttachments, Rows <- (a1 :> 1 @@ a2 :> 2), MaxRetries <- 1,
        MaxClicks <- 2, MaxTrouble <- 2, MaxCalls <- 2, sel <- attSel, calls <- attCalls,
        up <- attUp, clicks <- attClicks
Dates == INSTANCE MessageRows WITH
        Texts <- {"x"}, People <- {"me", "A"}, Emojis <- {}, Span <- 2, Gap <- 2, DayLength <- 3,
        MaxDate <- 4, MaxRows <- 4, MaxPending <- 2, QuoteOf <- MCQuoteOf, Begins <- MCBegins,
        phone <- threadPhone
Badges == INSTANCE MessageRows WITH
        Texts <- {"wa", "wb"}, People <- {"me", "A"}, Emojis <- {"h"}, Span <- 2, Gap <- 1,
        DayLength <- 3, MaxDate <- 1, MaxRows <- 5, MaxPending <- 1, QuoteOf <- MCQuoteOf,
        Begins <- MCBegins, phone <- threadPhone
Layout == INSTANCE ThreadLayout WITH
        Heights <- {1, 3}, View <- 2, Buffer <- 1, Near <- 2, MaxRows <- 4, MaxChanges <- 2,
        MaxClicks <- 2, rows <- layoutRows, clicks <- layoutClicks
Composing == INSTANCE Composer WITH
        Addresses <- MCThreads, Drafts <- 1..3, Size <- <<1, 2, 1>>, MaxTotal <- 2, MaxCount <- 2,
        MaxClicks <- 3, MaxPicks <- 1, clicks <- composeClicks
Fetcher == INSTANCE LinkPreviews WITH
        Links <- 1..3, Refused <- {3}, Calls <- 1..3, MaxConcurrent <- 1, MaxResets <- 1,
        MaxEdits <- 0
Line == INSTANCE LinkPreviews WITH
        Links <- 1..3, Refused <- {3}, Calls <- 1..1, MaxConcurrent <- 1, MaxResets <- 1,
        MaxEdits <- 3

ASSUME PartConstants ==
    /\ Window!WindowConstants /\ List!ListConstants /\ Attachments!AttachmentConstants
    /\ Composing!ComposerConstants /\ Fetcher!LinkConstants /\ Line!LinkConstants

Init ==
    /\ part \in {"Window", "List", "Attachments", "Dates", "Badges", "Layout", "Composing",
                "Fetcher", "Line"}
    /\ Window!Init /\ List!Init /\ Attachments!Init /\ Layout!Init /\ Composing!Init
    /\ part # "List" => ~focus
    /\ part # "Attachments" => ~attUp
    /\ part # "Composing" => known = {}
    /\ IF part = "Dates" THEN Dates!Init ELSE Badges!Init
    /\ IF part = "Line" THEN Line!Init ELSE Fetcher!Init

Next ==
    \/ /\ part = "Window" /\ Window!Next
       /\ UNCHANGED <<part, listVars, attVars, threadVars, layoutVars, composeVars, linksVars>>
    \/ /\ part = "List" /\ List!Next
       /\ UNCHANGED <<part, windowVars, attVars, threadVars, layoutVars, composeVars, linksVars>>
    \/ /\ part = "Attachments" /\ Attachments!Next
       /\ UNCHANGED <<part, windowVars, listVars, threadVars, layoutVars, composeVars, linksVars>>
    \/ /\ part = "Dates" /\ Dates!Next
       /\ UNCHANGED <<part, windowVars, listVars, attVars, layoutVars, composeVars, linksVars>>
    \/ /\ part = "Badges" /\ Badges!Next
       /\ UNCHANGED <<part, windowVars, listVars, attVars, layoutVars, composeVars, linksVars>>
    \/ /\ part = "Layout" /\ Layout!Next
       /\ UNCHANGED <<part, windowVars, listVars, attVars, threadVars, composeVars, linksVars>>
    \/ /\ part = "Composing" /\ Composing!Next
       /\ UNCHANGED <<part, windowVars, listVars, attVars, threadVars, layoutVars, linksVars>>
    \/ /\ part = "Fetcher" /\ Fetcher!Next
       /\ UNCHANGED <<part, windowVars, listVars, attVars, threadVars, layoutVars, composeVars>>
    \/ /\ part = "Line" /\ Line!Next
       /\ UNCHANGED <<part, windowVars, listVars, attVars, threadVars, layoutVars, composeVars>>

vars == <<part, windowVars, listVars, attVars, threadVars, layoutVars, composeVars, linksVars>>
Spec == Init /\ [][Next]_vars

\* Every part keeps its types.
TypeOK ==
    /\ part = "Window" => Window!TypeOK
    /\ part = "List" => List!TypeOK
    /\ part = "Attachments" => Attachments!TypeOK
    /\ part = "Dates" => Dates!TypeOK
    /\ part = "Badges" => Badges!TypeOK
    /\ part = "Layout" => Layout!TypeOK
    /\ part = "Composing" => Composing!TypeOK
    /\ part = "Fetcher" => Fetcher!TypeOK
    /\ part = "Line" => Line!TypeOK

\* What the database has and a pane lacks is on its way to it (MessageWindow, ConversationList).
NewsIsNoticed ==
    /\ part = "Window" => Window!MissingIsNoticed
    /\ part = "List" => List!StaleIsNoticed

\* What a pane shows is what was said, where the user looks, and can be sent
\* (MessageRows, ThreadLayout, Composer). Two openings of a conversation that the code
\* does not scroll are excepted from the second: see ThreadLayout!PaneIsInPlace.
PaneIsTrue ==
    /\ part = "Dates" => Dates!ThreadIsTrue
    /\ part = "Badges" => Badges!ThreadIsTrue
    /\ part = "Layout" => Layout!PaneIsInPlace
    /\ part = "Composing" => Composing!DraftsAreSound

\* What shows that something is under way has something under way behind it
\* (ConversationList, AttachmentStates, LinkPreviews).
SignsHaveACause ==
    /\ part = "List" => List!FlashEnds
    /\ part = "Attachments" => Attachments!SpinnersHaveACause
    /\ part = "Fetcher" => Fetcher!PreviewsAreSound
    /\ part = "Line" => Line!PreviewsAreSound
====================
