---------- MODULE Updater ----------
(* Updates of the application: the main process (auto-updater.ts) drives the *)
(* library's checks and downloads and its own "install now", which fetches *)
(* the installer and quits; one status is shared by all of them and sent to *)
(* the banner and the settings panel, which decide what the user may click. *)
EXTENDS Integers, Sequences, FiniteSets, SequencesExt

CONSTANTS
    Releases,       \* what a check can find, in order of time; the first is installed
    MaxClicks,      \* bound on what the user does
    MaxNotes        \* bound on status messages under way to the window

\* Of the constants; assumed where they are given values.
UpdaterConstants ==
    Releases = 1..Cardinality(Releases) /\ {MaxClicks, MaxNotes} \subseteq Nat

VARIABLES
    newest,         \* the newest release there is
    status,         \* currentStatus: [state, version]
    found,          \* currentUpdateVersion; 0 is none
    checking,       \* the library is asking for the newest release
    fetching,       \* installers under way, by version
    app,            \* "running", "quitting" (the installer is started), "gone"
    asked,          \* calls of the window under way to the main process, in order
    notes,          \* status messages under way to the window, in order
    shown,          \* the window's copy of the status
    dismissed,      \* the banner was put away
    clicks

vars == <<newest, status, found, checking, fetching, app, asked, notes, shown, dismissed, clicks>>

Status(s, v) == [state |-> s, version |-> v]

Init ==
    /\ newest \in Releases
    /\ status = Status("idle", 0) /\ found = 0 /\ checking = FALSE /\ fetching = {}
    /\ app = "running" /\ asked = <<>> /\ notes = <<>>
    /\ shown = Status("idle", 0) /\ dismissed = FALSE /\ clicks = 0

SetStatus(s) ==
    /\ Len(notes) < MaxNotes
    /\ status' = s
    /\ notes' = Append(notes, s)

--------------------
(* The window. *)

Click == app # "gone" /\ clicks < MaxClicks /\ clicks' = clicks + 1
Calls(m) ==
    /\ asked' = Append(asked, m)
    /\ UNCHANGED <<newest, status, found, checking, fetching, app, notes, shown, dismissed>>

\* Five seconds after the start, whatever the state.
StartupCheck == Click /\ Calls("check")

CheckForUpdates ==
    /\ Click
    /\ shown.state \notin {"available", "checking", "installing"}
    /\ Calls("check")

InstallNow ==       \* in the settings, and in the banner until it is put away
    /\ Click /\ shown.state = "available"
    /\ Calls("install-now")

Dismiss ==
    /\ Click /\ shown.state = "available" /\ ~dismissed
    /\ dismissed' = TRUE
    /\ UNCHANGED <<newest, status, found, checking, fetching, app, asked, notes, shown>>

HandleStatus ==
    /\ app # "gone" /\ notes # <<>>
    /\ shown' = Head(notes) /\ notes' = Tail(notes)
    /\ dismissed' = FALSE
    /\ UNCHANGED <<newest, status, found, checking, fetching, app, asked, clicks>>

--------------------
(* The main process. *)

Serves(m) == app # "gone" /\ asked # <<>> /\ Head(asked) = m /\ asked' = Tail(asked)

\* A check that is asked for while one is under way joins it.
Check ==
    /\ Serves("check")
    /\ IF checking THEN UNCHANGED <<status, notes, checking>>
                   ELSE SetStatus(Status("checking", 0)) /\ checking' = TRUE
    /\ UNCHANGED <<newest, found, fetching, app, shown, dismissed, clicks>>

StartInstall ==
    IF fetching # {} \/ app = "quitting"        \* isInstalling
    THEN UNCHANGED <<fetching, status, notes>>
    ELSE fetching' = {found} /\ SetStatus(Status("installing", found))

InstallNowCall ==
    /\ Serves("install-now")
    /\ IF found = 0
       THEN SetStatus(Status("error", 0)) /\ UNCHANGED fetching
       ELSE StartInstall
    /\ UNCHANGED <<newest, found, checking, app, shown, dismissed, clicks>>

UpdateAvailable ==
    /\ app # "gone" /\ checking /\ newest > 1
    /\ checking' = FALSE /\ found' = newest
    /\ SetStatus(Status("available", newest))
    /\ UNCHANGED <<newest, fetching, app, asked, shown, dismissed, clicks>>

UpdateNotAvailable ==
    /\ app # "gone" /\ checking /\ newest = 1
    /\ checking' = FALSE
    /\ SetStatus(Status("not-available", newest))
    /\ UNCHANGED <<newest, found, fetching, app, asked, shown, dismissed, clicks>>

CheckFails ==
    /\ app # "gone" /\ checking
    /\ checking' = FALSE
    /\ SetStatus(Status("error", 0))
    /\ UNCHANGED <<newest, found, fetching, app, asked, shown, dismissed, clicks>>

Progress(v) ==
    /\ app = "running" /\ v \in fetching /\ status # Status("installing", v)
    /\ SetStatus(Status("installing", v))
    /\ UNCHANGED <<newest, found, checking, fetching, app, asked, shown, dismissed, clicks>>

InstallerFetched(v) ==
    /\ app = "running" /\ v \in fetching
    /\ fetching' = fetching \ {v}
    /\ app' = "quitting"
    /\ SetStatus(Status("installing", v))
    /\ UNCHANGED <<newest, found, checking, asked, shown, dismissed, clicks>>

\* A mutation of the next definition.
FailsSilently(v) == UNCHANGED <<status, notes>>
FailsWith(v) == SetStatus(Status("error", 0))
InstallerFails(v) ==
    /\ app = "running" /\ v \in fetching
    /\ fetching' = fetching \ {v}
    /\ FailsWith(v)
    /\ UNCHANGED <<newest, found, checking, app, asked, shown, dismissed, clicks>>

Quit ==             \* 1.5 s after the installer was started
    /\ app = "quitting"
    /\ app' = "gone"
    /\ UNCHANGED <<newest, status, found, checking, fetching, asked, notes, shown, dismissed, clicks>>

ReleasePublished ==
    /\ app = "running" /\ newest + 1 \in Releases
    /\ newest' = newest + 1
    /\ UNCHANGED <<status, found, checking, fetching, app, asked, notes, shown, dismissed, clicks>>

Next ==
    \/ StartupCheck \/ CheckForUpdates \/ InstallNow \/ Dismiss \/ HandleStatus
    \/ Check \/ InstallNowCall
    \/ UpdateAvailable \/ UpdateNotAvailable \/ CheckFails
    \/ \E v \in Releases : Progress(v) \/ InstallerFetched(v) \/ InstallerFails(v)
    \/ Quit \/ ReleasePublished

Spec == Init /\ [][Next]_vars

--------------------
States == {"idle", "checking", "available", "not-available", "installing", "error"}

TypeOK ==
    /\ newest \in Releases /\ found \in Releases \cup {0} /\ fetching \subseteq Releases
    /\ status \in [state : States, version : Releases \cup {0}] /\ shown \in [state : States, version : Releases \cup {0}]
    /\ app \in {"running", "quitting", "gone"} /\ checking \in BOOLEAN /\ dismissed \in BOOLEAN

\* One installer is fetched at a time and none after one was started; the status
\* says "installing" or "checking" only while that is true of the main process,
\* so that the buttons they disable come back; and the version offered is the
\* one that would be installed.
InstallIsHonest ==
    /\ Cardinality(fetching) <= 1 /\ (app # "running" => fetching = {})
    /\ status.state = "installing" => app # "running" \/ fetching = {status.version}
    /\ status.state = "checking" => checking
    /\ status.state = "available" => status.version = found

\* The window's copy is the main process's status once the messages under way
\* have arrived.
StatusArrives == shown = status \/ notes # <<>>

UpdatesAreSound == InstallIsHonest /\ StatusArrives
====================
