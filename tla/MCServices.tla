---------- MODULE MCServices ----------
(* The services of the daemon, one at a time: they share no variable, so their *)
(* product would show nothing that each alone does not. "part" names the one *)
(* that runs; the others rest in their initial states. *)
EXTENDS Integers, Sequences, TLC

CONSTANTS
    f1, f2, t1, t2, m1, m2,                                               \* what TLC checks
    None,
    Threads, Base, Atts, Media, Path, Size, MaxRuns, MaxViews,                      \* Backup
    Paths, Chunks, MaxRequests, MaxFileCuts,              \* PhoneFiles, without attachments
    Folder, Pictures, MediaChunks, MaxLoads, MaxMediaCuts,                     \* and with
    Uids, MaxChanges, MaxSyncs, MaxAsks,                                          \* Contacts
    MaxCalls,                                                             \* ContactMigration
    MaxEvents, MaxCuts,                                                          \* EventAcks
    MaxChoices, MaxFaults,                                               \* PendingOperations
    Msgs, MaxStoreEvents, MaxKills                                            \* MessageStore

\* Two files and two people are alike.
MCSymmetry == Permutations({f1, f2})

\* Two conversations, one with two attachments, which are in one folder
MCBase == t1 :> "n" @@ t2 :> "n"
MCAtts == t1 :> <<"x", "y">> @@ t2 :> <<>>
MCPath == m1 :> "p" @@ m2 :> "p"
MCSize == m1 :> 1 @@ m2 :> 2

VARIABLES
    part,
    \* Backup
    folder, backupSlot, run, backupCalls, inbox, view, views,
    \* PhoneFiles
    filesPhone, filesUp, filesOut, filesBack, filesCuts, reqs, tfs, sized,
    \* Contacts
    contactPhone, changes, db, contactUp, contactOut, contactBack, syncs, asks, settled,
    \* ContactMigration
    migrationUp, migrationOut, migrationBack, migrationSlot, timers, replies, window, waits, made,
    \* EventAcks
    ackPhone, kindOf, ackHandled, ackUp, subscribed, ackOut, ackBack, ackCuts, pendingAckIds,
    ackTimer,
    \* PendingOperations
    chosen, hidden, phoneHidden, reached, choiceUp, choiceOut, choiceBack, faults, choiceCalls,
    queued, stage, snapshot, notices,
    \* MessageStore
    storePhone, kept, storeHandled, page, toPhone, conv, synced, msgs, atts, files, todo,
    fetching, doomed, listed, kills, events

backupVars == <<folder, backupSlot, run, backupCalls, inbox, view, views>>
filesVars == <<filesPhone, filesUp, filesOut, filesBack, filesCuts, reqs, tfs, sized>>
contactVars == <<contactPhone, changes, db, contactUp, contactOut, contactBack, syncs, asks,
                 settled>>
migrationVars == <<migrationUp, migrationOut, migrationBack, migrationSlot, timers, replies,
                   window, waits, made>>
ackVars == <<ackPhone, kindOf, ackHandled, ackUp, subscribed, ackOut, ackBack, ackCuts,
             pendingAckIds, ackTimer>>
choiceVars == <<chosen, hidden, phoneHidden, reached, choiceUp, choiceOut, choiceBack, faults,
                choiceCalls, queued, stage, snapshot, notices>>
storeVars == <<storePhone, kept, storeHandled, page, toPhone, conv, synced, msgs, atts, files,
               todo, fetching, doomed, listed, kills, events>>

Backups == INSTANCE Backup WITH slot <- backupSlot, calls <- backupCalls
Files == INSTANCE PhoneFiles WITH
        Media <- {}, MaxCuts <- MaxFileCuts, phone <- filesPhone, up <- filesUp,
        out <- filesOut, back <- filesBack, cuts <- filesCuts
Attached == INSTANCE PhoneFiles WITH
        Paths <- Folder, Media <- Pictures, Chunks <- MediaChunks, MaxRequests <- MaxLoads,
        MaxCuts <- MaxMediaCuts, phone <- filesPhone, up <- filesUp, out <- filesOut,
        back <- filesBack, cuts <- filesCuts
People == INSTANCE Contacts WITH
        phone <- contactPhone, up <- contactUp, out <- contactOut, back <- contactBack
Migration == INSTANCE ContactMigration WITH
        up <- migrationUp, out <- migrationOut, back <- migrationBack, slot <- migrationSlot
Events == INSTANCE EventAcks WITH
        phone <- ackPhone, handled <- ackHandled, up <- ackUp, out <- ackOut, back <- ackBack,
        cuts <- ackCuts
Choices == INSTANCE PendingOperations WITH
        up <- choiceUp, out <- choiceOut, back <- choiceBack, calls <- choiceCalls
Storage == INSTANCE MessageStore WITH
        MaxEvents <- MaxStoreEvents, phone <- storePhone, handled <- storeHandled

ASSUME PartConstants ==
    /\ {MaxCalls, MaxEvents, MaxCuts, MaxChoices} \subseteq Nat
    /\ Backups!BackupConstants /\ People!ContactConstants /\ Storage!StoreConstants
    /\ Files!FileConstants /\ Attached!FileConstants

Init ==
    /\ part \in {"Backups", "Files", "Attached", "People", "Migration", "Events", "Choices",
                "Storage"}
    /\ Backups!Init /\ People!Init /\ Migration!Init /\ Events!Init /\ Choices!Init
    /\ Storage!Init
    /\ IF part = "Attached" THEN Attached!Init ELSE Files!Init
    /\ part \notin {"Files", "Attached"} => filesPhone = <<>>
    /\ part # "People" => contactPhone = <<>>
    /\ part # "Migration" => ~migrationUp

Next ==
    \/ /\ part = "Backups" /\ Backups!Next
       /\ UNCHANGED <<part, filesVars, contactVars, migrationVars, ackVars, choiceVars,
                      storeVars>>
    \/ /\ part = "Files" /\ Files!Next
       /\ UNCHANGED <<part, backupVars, contactVars, migrationVars, ackVars, choiceVars,
                      storeVars>>
    \/ /\ part = "Attached" /\ Attached!Next
       /\ UNCHANGED <<part, backupVars, contactVars, migrationVars, ackVars, choiceVars,
                      storeVars>>
    \/ /\ part = "People" /\ People!Next
       /\ UNCHANGED <<part, backupVars, filesVars, migrationVars, ackVars, choiceVars, storeVars>>
    \/ /\ part = "Migration" /\ Migration!Next
       /\ UNCHANGED <<part, backupVars, filesVars, contactVars, ackVars, choiceVars, storeVars>>
    \/ /\ part = "Events" /\ Events!Next
       /\ UNCHANGED <<part, backupVars, filesVars, contactVars, migrationVars, choiceVars,
                      storeVars>>
    \/ /\ part = "Choices" /\ Choices!Next
       /\ UNCHANGED <<part, backupVars, filesVars, contactVars, migrationVars, ackVars,
                      storeVars>>
    \/ /\ part = "Storage" /\ Storage!Next
       /\ UNCHANGED <<part, backupVars, filesVars, contactVars, migrationVars, ackVars,
                      choiceVars>>

vars == <<part, backupVars, filesVars, contactVars, migrationVars, ackVars, choiceVars,
          storeVars>>
Spec == Init /\ [][Next]_vars

\* Every part keeps its types.
TypeOK ==
    /\ part = "Backups" => Backups!TypeOK
    /\ part = "Files" => Files!TypeOK
    /\ part = "Attached" => Attached!TypeOK
    /\ part = "People" => People!TypeOK
    /\ part = "Migration" => Migration!TypeOK
    /\ part = "Events" => Events!TypeOK
    /\ part = "Choices" => Choices!TypeOK
    /\ part = "Storage" => Storage!TypeOK

\* What a service says it has done is done: exported, written to the phone's files, copied from
\* the phone's contacts; and an export that is told to stop copies no further file
\* (Backup, PhoneFiles, Contacts).
CopiesAreTrue ==
    /\ [](/\ part = "Backups" => Backups!SummaryIsHonest
          /\ part = "Files" => Files!LastAnswerIsTrue
          /\ part = "Attached" => Attached!LastAnswerIsTrue
          /\ part = "People" => People!PhotoIsNotAhead /\ People!SyncedIsSame)
    /\ Backups!CancelStopsCopies

\* Nothing that has yet to be done is forgotten: whoever waits is heard, and so are events,
\* choices and pictures (Backup, ContactMigration, EventAcks, PendingOperations, MessageStore).
NothingIsForgotten ==
    /\ part = "Backups" => Backups!RunningIsLive
    /\ part = "Migration" => Migration!WaiterIsHeard
    /\ part = "Events" => Events!EventsAreAcked
    /\ part = "Choices" => Choices!NoChoiceIsForgotten
    /\ part = "Storage" => Storage!RowsAreWhole
====================
