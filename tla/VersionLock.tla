---------- MODULE VersionLock ----------
(* Versions that do not fit (src/utils/semver.ts, src/core/daemon.ts, *)
(* src/core/state-machine.ts, gui/src/renderer/src/App.svelte): a phone whose *)
(* version or whose demand on the desktop's is not met is shown as connected, *)
(* disconnected at once, and called again every 25 s; the window warns as long *)
(* as the phone is not upgraded, though each disconnection clears the context *)
(* the warning comes from. *)
EXTENDS Integers, Sequences

CONSTANTS
    Versions,       \* the phone's versions, <<major, minor, patch>>
    Demands,        \* Demands[v]: the desktop's version that phone v asks for
    ClientVersion, MinPeerVersion,
    MaxMeetings, MaxUpgrades, MaxClicks     \* bounds of the check

Semver == Nat \X Nat \X Nat
VersionConstants ==
    /\ {ClientVersion, MinPeerVersion} \subseteq Semver
    /\ Versions \subseteq Semver /\ \A v \in Versions : Demands[v] \in Semver

VARIABLES
    version,        \* the phone's
    paired,
    conn,           \* "none", "open", or "closing": the daemon has closed it
    context,        \* the state machine's: [verdict, version]
    versionCheckInfo,   \* what the last refused connection had: [verdict, version]
    versionTimer, reconnectTimer,
    subscribed,     \* the phone on the line has been asked for its events
    news,           \* state.changed notifications on their way to the window
    seen,           \* the window's stateContext
    popup,          \* showVersionPopup
    shownFor,       \* versionPopupShownForVersion
    meetings, upgrades, clicks

vars == <<version, paired, conn, context, versionCheckInfo, versionTimer, reconnectTimer, subscribed,
          news, seen, popup, shownFor, meetings, upgrades, clicks>>

None == <<>>

\* Negative, 0 or positive: how two versions compare.
CompareSemver(a, b) ==
    LET differs == {i \in 1..3 : a[i] # b[i]}
    IN IF differs = {} THEN 0
       ELSE LET i == CHOOSE i \in differs : \A j \in differs : i <= j IN a[i] - b[i]

\* A mutation of the next definition.
VerdictOfOurs(v) ==
    IF CompareSemver(v, MinPeerVersion) < 0 THEN "peerTooOld" ELSE "fits"
\* The window shows the desktop's own fault before the phone's.
Verdict(v) ==
    IF CompareSemver(ClientVersion, Demands[v]) < 0 THEN "selfTooOld"
    ELSE IF CompareSemver(v, MinPeerVersion) < 0 THEN "peerTooOld"
    ELSE "fits"

Unknown == [verdict |-> "unknown", version |-> None]

--------------------
Init ==
    /\ version \in Versions
    /\ paired \in BOOLEAN
    /\ conn = "none"
    /\ context = Unknown /\ versionCheckInfo = Unknown
    /\ versionTimer = FALSE /\ reconnectTimer = FALSE
    /\ subscribed = FALSE
    /\ news = <<>> /\ seen = Unknown
    /\ popup = FALSE /\ shownFor = None
    /\ meetings = 0 /\ upgrades = 0 /\ clicks = 0

\* A mutation of the next definition.
MeetsForgetting ==
    LET verdict == Verdict(version)
    IN /\ context' = [verdict |-> verdict, version |-> version]
       /\ news' = Append(news, context')
       /\ versionCheckInfo' = IF verdict = "fits" THEN versionCheckInfo
                              ELSE [verdict |-> verdict, version |-> version]
       /\ conn' = IF verdict = "fits" THEN "open" ELSE "closing"
       /\ subscribed' = (verdict = "fits")
\* The phone is on the line and paired: the context says how the versions compare;
\* one that does not fit is noted and disconnected before anything is wired to it.
Meets ==
    LET verdict == Verdict(version)
    IN /\ context' = [verdict |-> verdict, version |-> version]
       /\ news' = Append(news, context')
       /\ versionCheckInfo' = IF verdict = "fits" THEN Unknown
                              ELSE [verdict |-> verdict, version |-> version]
       /\ conn' = IF verdict = "fits" THEN "open" ELSE "closing"
       /\ subscribed' = (verdict = "fits")

\* A paired phone connects.
Connects ==
    /\ conn = "none" /\ paired /\ meetings < MaxMeetings
    /\ Meets
    /\ versionTimer' = FALSE /\ reconnectTimer' = FALSE
    /\ meetings' = meetings + 1
    /\ UNCHANGED <<version, paired, seen, popup, shownFor, upgrades, clicks>>

\* A phone that was not paired connects and is paired.
PairingSucceeds ==
    /\ conn = "none" /\ ~paired /\ meetings < MaxMeetings
    /\ paired' = TRUE
    /\ Meets
    /\ versionTimer' = FALSE /\ reconnectTimer' = FALSE
    /\ meetings' = meetings + 1
    /\ UNCHANGED <<version, seen, popup, shownFor, upgrades, clicks>>

\* What the transition to DISCONNECTED leaves of the context.
Cleared(c) == [c EXCEPT !.verdict = "unknown"]

\* A mutation of the next definition.
DisconnectsForgetting ==
    /\ conn # "none" /\ conn' = "none"
    /\ subscribed' = FALSE
    /\ context' = Cleared(context)
    /\ news' = news \o <<Cleared(context), Cleared(context)>>
    /\ versionTimer' = (versionTimer \/ (versionCheckInfo # Unknown /\ paired))
    /\ reconnectTimer' = (reconnectTimer \/ (versionCheckInfo = Unknown /\ paired))
    /\ UNCHANGED <<version, paired, versionCheckInfo, seen, popup, shownFor, meetings, upgrades, clicks>>
\* The connection is gone: DISCONNECTED, DISCOVERING, and if it was refused, the
\* verdict is put back.
Disconnects ==
    /\ conn # "none" /\ conn' = "none"
    /\ subscribed' = FALSE
    /\ context' = IF versionCheckInfo = Unknown THEN Cleared(context) ELSE versionCheckInfo
    /\ news' = news \o <<Cleared(context), Cleared(context)>>
                    \o (IF versionCheckInfo = Unknown THEN <<>> ELSE <<versionCheckInfo>>)
    /\ versionTimer' = (versionTimer \/ (versionCheckInfo # Unknown /\ paired))
    /\ reconnectTimer' = (reconnectTimer \/ (versionCheckInfo = Unknown /\ paired))
    /\ UNCHANGED <<version, paired, versionCheckInfo, seen, popup, shownFor, meetings, upgrades, clicks>>

\* The phone's app is upgraded; it is not connected meanwhile.
Upgraded(v) ==
    /\ upgrades < MaxUpgrades /\ conn = "none"
    /\ CompareSemver(v, version) > 0 /\ version' = v
    /\ upgrades' = upgrades + 1
    /\ UNCHANGED <<paired, conn, context, versionCheckInfo, versionTimer, reconnectTimer, subscribed,
                   news, seen, popup, shownFor, meetings, clicks>>

\* The user unpairs the phone: the note goes, the context stays until a transition.
Unpaired ==
    /\ clicks < MaxClicks /\ paired /\ paired' = FALSE
    /\ versionCheckInfo' = Unknown /\ versionTimer' = FALSE
    /\ conn' = IF conn = "open" THEN "closing" ELSE conn
    /\ clicks' = clicks + 1
    /\ UNCHANGED <<version, context, reconnectTimer, subscribed, news, seen, popup, shownFor, meetings, upgrades>>

\* The window hears of a state; a verdict on a version it has not warned of opens
\* the popup.
StateChanged ==
    /\ news # <<>> /\ news' = Tail(news)
    /\ seen' = Head(news)
    /\ LET warns == seen'.verdict \in {"peerTooOld", "selfTooOld"} /\ seen'.version # shownFor
       IN /\ popup' = (popup \/ warns)
          /\ shownFor' = IF warns THEN seen'.version ELSE shownFor
    /\ UNCHANGED <<version, paired, conn, context, versionCheckInfo, versionTimer, reconnectTimer,
                   subscribed, meetings, upgrades, clicks>>

ClosePopup ==
    /\ popup /\ popup' = FALSE
    /\ UNCHANGED <<version, paired, conn, context, versionCheckInfo, versionTimer, reconnectTimer,
                   subscribed, news, seen, shownFor, meetings, upgrades, clicks>>

\* The user clicks on the warning: the popup comes back when the phone is to blame.
HandleVersionStatusClick ==
    /\ clicks < MaxClicks /\ seen.verdict = "peerTooOld" /\ ~popup /\ popup' = TRUE
    /\ clicks' = clicks + 1
    /\ UNCHANGED <<version, paired, conn, context, versionCheckInfo, versionTimer, reconnectTimer,
                   subscribed, news, seen, shownFor, meetings, upgrades>>

Next ==
    \/ Connects \/ PairingSucceeds \/ Disconnects
    \/ \E v \in Versions : Upgraded(v)
    \/ Unpaired
    \/ StateChanged \/ ClosePopup \/ HandleVersionStatusClick

Spec == Init /\ [][Next]_vars

--------------------
Contexts == [verdict : {"unknown", "fits", "peerTooOld", "selfTooOld"}, version : Versions \cup {None}]

TypeOK ==
    /\ version \in Versions /\ paired \in BOOLEAN
    /\ conn \in {"none", "open", "closing"}
    /\ {context, versionCheckInfo, seen} \subseteq Contexts
    /\ \A i \in DOMAIN news : news[i] \in Contexts
    /\ shownFor \in Versions \cup {None}

\* The two demands, each on its own terms.
Lexicographic(a, b) ==
    \E i \in 1..3 : a[i] < b[i] /\ \A j \in 1..(i - 1) : a[j] = b[j]

\* A phone is served only when both sides are new enough for the other.
ServedPhonesFit ==
    subscribed /\ conn = "open" =>
        ~Lexicographic(version, MinPeerVersion) /\ ~Lexicographic(ClientVersion, Demands[version])

Warns(c) == c.verdict \in {"peerTooOld", "selfTooOld"}

\* When the window has heard everything, it warns of a paired phone exactly when the
\* phone's last connection was refused, although that connection's end clears the
\* context; and it has opened the popup for that version.
WarningIsTrue ==
    paired /\ news = <<>> /\ conn # "closing" =>
        /\ Warns(seen) <=> versionCheckInfo # Unknown
        /\ Warns(seen) => seen = versionCheckInfo /\ shownFor = seen.version

\* A refused phone that is away is called, so that its upgrade is noticed.
RefusedIsCalled == versionCheckInfo # Unknown /\ paired /\ conn = "none" => versionTimer

LockIsTrue == ServedPhonesFit /\ WarningIsTrue /\ RefusedIsCalled
====================
