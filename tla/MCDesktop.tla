---------- MODULE MCDesktop ----------
(* What stands between the phone and the desktop, one part at a time: they *)
(* share no variable, so their product would show nothing that each alone does *)
(* not. "part" names the one that runs; the others rest in their initial *)
(* states. *)
EXTENDS Integers, Sequences, TLC

CONSTANTS
    Nothing,
    MaxEvents, MaxGuiClicks, MaxPolls, MaxWay,                                      \* Shell
    Connections, DeviceOf, Sleeps, MaxSleeps,                                    \* LinkHealth
    Releases, MaxUpdateClicks, MaxNotes,                                            \* Updater
    Versions, Demands, ClientVersion, MinPeerVersion, MaxMeetings, MaxUpgrades,
    MaxLockClicks,                                                              \* VersionLock
    Levels, Notes, MaxTells, MaxStatusTurns, MaxInbox,                               \* Relays
    MaxDaemons,                                                                 \* CommandLine
    Servers, MaxMountClicks, MaxMountTurns,                                     \* WebdavMount
    Photos, Camera, Media, MaxLine, MaxWire, MaxScanTrouble, SlowScans,         \* GalleryScan
    Limit, Requests, MaxThumbTrouble,                             \* ThumbnailPool, and Photos
    Files, Videos, SaveCalls, Parts,                                               \* FileDownload
    Phones, Addresses, LostAfter, MaxFindTurns, MaxStarts                              \* Discovery

\* What TLC checks
MCDeviceOf == <<"p", "p">>
MCDemands == <<1, 2, 0>> :> <<1, 0, 0>> @@ <<1, 3, 0>> :> <<1, 4, 9>> @@ <<2, 0, 0>> :> <<1, 5, 1>>
MCVersions == DOMAIN MCDemands
MCClientVersion == <<1, 5, 0>>
MCMinPeerVersion == <<1, 2, 5>>
MCLevels == {<<50, TRUE>>, <<50, FALSE>>, <<9, FALSE>>}

VARIABLES
    part,
    \* Shell
    bridge, guiDaemon, guiWindow, guiCalls, guiInbox, events, guiClicks, polls,
    \* LinkHealth
    sock, there, table, alive, pinged, age, waits, pingIn, checkIn, drift, slept, gone,
    \* Updater
    newest, status, found, checking, fetching, app, updateAsked, notes, updateShown, dismissed,
    updateClicks,
    \* VersionLock
    version, paired, conn, context, versionCheckInfo, versionTimer, reconnectTimer, subscribed,
    news, seen, popup, shownFor, meetings, upgrades, versionClicks,
    \* Relays
    statusPhone, statusUp, statusAsked, statusWire, statusDaemon, rows, session, statusInbox,
    statusWindow, tells, statusTurns,
    \* CommandLine
    life, embedded, port, pidFile, socketFile, command, commandServer, pending, answers, waiting,
    outcome, ran,
    \* WebdavMount
    mountUp, timer, created, mountServer, mountCurrent, starter, stopping, panel, gallery,
    mounted, alone, mountClicks, mountTurns,
    \* GalleryScan
    gui, line, rest, batching, scanWire, scanPhone, link, scanTrouble,
    \* ThumbnailPool
    thumbShown, wanted, active, thumbCall, pool, cache, urls, thumbUp, thumbTrouble,
    \* FileDownload
    fileShown, fileCurrent, fileCall, box, cached, fileUp,
    \* Discovery
    udp, beacon, listCheck, devices, linked, trusted, refused, known, retry, ask, heard, removed,
    missed, silence, findTurns, findStarts

guiVars == <<bridge, guiDaemon, guiWindow, guiCalls, guiInbox, events, guiClicks, polls>>
socketVars == <<sock, there, table, alive, pinged, age, waits, pingIn, checkIn, drift, slept,
                gone>>
updateVars == <<newest, status, found, checking, fetching, app, updateAsked, notes, updateShown,
                dismissed, updateClicks>>
versionVars == <<version, paired, conn, context, versionCheckInfo, versionTimer, reconnectTimer,
                 subscribed, news, seen, popup, shownFor, meetings, upgrades, versionClicks>>
statusVars == <<statusPhone, statusUp, statusAsked, statusWire, statusDaemon, rows, session,
                statusInbox, statusWindow, tells, statusTurns>>
commandVars == <<life, embedded, port, pidFile, socketFile, command, commandServer, pending,
                 answers, waiting, outcome, ran>>
mountVars == <<mountUp, timer, created, mountServer, mountCurrent, starter, stopping, panel,
               gallery, mounted, alone, mountClicks, mountTurns>>
scanVars == <<gui, line, rest, batching, scanWire, scanPhone, link, scanTrouble>>
thumbVars == <<thumbShown, wanted, active, thumbCall, pool, cache, urls, thumbUp, thumbTrouble>>
fileVars == <<fileShown, fileCurrent, fileCall, box, cached, fileUp>>
findVars == <<udp, beacon, listCheck, devices, linked, trusted, refused, known, retry, ask, heard,
              removed, missed, silence, findTurns, findStarts>>

Bridge == INSTANCE Shell WITH
        MaxClicks <- MaxGuiClicks, daemon <- guiDaemon, window <- guiWindow, calls <- guiCalls,
        inbox <- guiInbox, clicks <- guiClicks
Sockets == INSTANCE LinkHealth WITH Sockets <- Connections, None <- Nothing
Updates == INSTANCE Updater WITH
        MaxClicks <- MaxUpdateClicks, asked <- updateAsked, shown <- updateShown,
        clicks <- updateClicks
Lock == INSTANCE VersionLock WITH MaxClicks <- MaxLockClicks, clicks <- versionClicks
Status == INSTANCE Relays WITH
        MaxTurns <- MaxStatusTurns, phone <- statusPhone, up <- statusUp, asked <- statusAsked,
        wire <- statusWire, daemon <- statusDaemon, inbox <- statusInbox, window <- statusWindow,
        turns <- statusTurns
Cli == INSTANCE CommandLine WITH server <- commandServer
Mounts == INSTANCE WebdavMount WITH
        MaxClicks <- MaxMountClicks, MaxTurns <- MaxMountTurns, up <- mountUp,
        server <- mountServer, current <- mountCurrent, clicks <- mountClicks,
        turns <- mountTurns
Gallery == INSTANCE GalleryScan WITH
        MaxTrouble <- MaxScanTrouble, None <- Nothing, wire <- scanWire, phone <- scanPhone,
        trouble <- scanTrouble
Pools == INSTANCE ThumbnailPool WITH
        MaxTrouble <- MaxThumbTrouble, None <- Nothing, shown <- thumbShown, call <- thumbCall,
        up <- thumbUp, trouble <- thumbTrouble
Downloads == INSTANCE FileDownload WITH
        Calls <- SaveCalls, None <- Nothing, shown <- fileShown, current <- fileCurrent,
        call <- fileCall, up <- fileUp
Finding == INSTANCE Discovery WITH
        Lost <- LostAfter, MaxTurns <- MaxFindTurns, None <- Nothing, server <- udp, checkIn <- listCheck,
        link <- linked, gone <- missed, turns <- findTurns, starts <- findStarts

ASSUME PartConstants ==
    /\ {MaxEvents, MaxGuiClicks, MaxSleeps, MaxDaemons} \subseteq Nat /\ Sleeps \subseteq Nat
    /\ Updates!UpdaterConstants /\ Mounts!WebdavConstants /\ Gallery!ScanAssumption
    /\ Pools!PoolAssumption /\ Downloads!DownloadAssumption /\ Lock!VersionConstants
    /\ Finding!DiscoveryConstants /\ Status!RelayConstants

Init ==
    /\ part \in {"Bridge", "Sockets", "Updates", "Lock", "Status", "Cli", "Mounts",
                "Gallery", "Pools", "Downloads", "Finding"}
    /\ Bridge!Init /\ Sockets!Init /\ Updates!Init /\ Lock!Init /\ Status!Init
    /\ Cli!Init /\ Mounts!Init /\ Gallery!Init /\ Pools!Init /\ Downloads!Init /\ Finding!Init
    /\ part # "Bridge" => ~guiDaemon.trusted
    /\ part # "Updates" => newest = CHOOSE r \in Releases : TRUE
    /\ part # "Lock" => version = (CHOOSE v \in Versions : TRUE) /\ ~paired
    /\ part # "Status" => statusPhone.level = CHOOSE l \in Levels : TRUE
    /\ part # "Mounts" => ~mountUp
    /\ part # "Gallery" => scanPhone = {}
    /\ part # "Finding" => trusted = {}

Next ==
    \/ /\ part = "Bridge" /\ Bridge!Next
       /\ UNCHANGED <<part, findVars, socketVars, updateVars, versionVars, statusVars,
                      commandVars, mountVars, scanVars, thumbVars, fileVars>>
    \/ /\ part = "Sockets" /\ Sockets!Next
       /\ UNCHANGED <<part, findVars, guiVars, updateVars, versionVars, statusVars, commandVars,
                      mountVars, scanVars, thumbVars, fileVars>>
    \/ /\ part = "Updates" /\ Updates!Next
       /\ UNCHANGED <<part, findVars, guiVars, socketVars, versionVars, statusVars, commandVars,
                      mountVars, scanVars, thumbVars, fileVars>>
    \/ /\ part = "Lock" /\ Lock!Next
       /\ UNCHANGED <<part, findVars, guiVars, socketVars, updateVars, statusVars, commandVars,
                      mountVars, scanVars, thumbVars, fileVars>>
    \/ /\ part = "Status" /\ Status!Next
       /\ UNCHANGED <<part, findVars, guiVars, socketVars, updateVars, versionVars, commandVars,
                      mountVars, scanVars, thumbVars, fileVars>>
    \/ /\ part = "Cli" /\ Cli!Next
       /\ UNCHANGED <<part, findVars, guiVars, socketVars, updateVars, versionVars, statusVars,
                      mountVars, scanVars, thumbVars, fileVars>>
    \/ /\ part = "Mounts" /\ Mounts!Next
       /\ UNCHANGED <<part, findVars, guiVars, socketVars, updateVars, versionVars, statusVars,
                      commandVars, scanVars, thumbVars, fileVars>>
    \/ /\ part = "Gallery" /\ Gallery!Next
       /\ UNCHANGED <<part, findVars, guiVars, socketVars, updateVars, versionVars, statusVars,
                      commandVars, mountVars, thumbVars, fileVars>>
    \/ /\ part = "Pools" /\ Pools!Next
       /\ UNCHANGED <<part, findVars, guiVars, socketVars, updateVars, versionVars, statusVars,
                      commandVars, mountVars, scanVars, fileVars>>
    \/ /\ part = "Downloads" /\ Downloads!Next
       /\ UNCHANGED <<part, findVars, guiVars, socketVars, updateVars, versionVars, statusVars,
                      commandVars, mountVars, scanVars, thumbVars>>
    \/ /\ part = "Finding" /\ Finding!Next
       /\ UNCHANGED <<part, guiVars, socketVars, updateVars, versionVars, statusVars,
                      commandVars, mountVars, scanVars, thumbVars, fileVars>>

vars == <<part, findVars, guiVars, socketVars, updateVars, versionVars, statusVars, commandVars,
          mountVars, scanVars, thumbVars, fileVars>>
Spec == Init /\ [][Next]_vars /\ (part = "Gallery" => Gallery!Fairness)

\* Every part keeps its types.
TypeOK ==
    /\ part = "Bridge" => Bridge!TypeOK
    /\ part = "Sockets" => Sockets!TypeOK
    /\ part = "Updates" => Updates!TypeOK
    /\ part = "Lock" => Lock!TypeOK
    /\ part = "Status" => Status!TypeOK
    /\ part = "Cli" => Cli!TypeOK
    /\ part = "Mounts" => Mounts!TypeOK
    /\ part = "Gallery" => Gallery!TypeOK
    /\ part = "Pools" => Pools!TypeOK
    /\ part = "Downloads" => Downloads!TypeOK
    /\ part = "Finding" => Finding!TypeOK

\* What the window shows of the daemon, the phone and the releases is true, or the correction is
\* on its way; the list of phones is what was heard (Shell, Updater, VersionLock, Relays,
\* Discovery).
CopiesCatchUp ==
    /\ part = "Bridge" => Bridge!WindowCatchesUp
    /\ part = "Updates" => Updates!UpdatesAreSound
    /\ part = "Lock" => Lock!LockIsTrue
    /\ part = "Status" => Status!RelaysAreTrue
    /\ part = "Finding" => Finding!ListIsTrue

\* Connections, daemons and servers that are over are gone, the others stay, and a connection
\* that slept too long is never pinged again; who is looked for is called (LinkHealth,
\* CommandLine, WebdavMount, Discovery).
ServersAreSound ==
    /\ [](/\ part = "Sockets" => Sockets!DeadAreDropped
          /\ part = "Cli" => Cli!OneDaemonServes /\ Cli!CommandsAreHonest
          /\ part = "Mounts" => Mounts!ServedWithPhone
          /\ part = "Finding" => Finding!NobodyIsLeftAlone)
    /\ Sockets!SleepersAreNotPinged

\* A spinner of the gallery has something under way that ends it (GalleryScan, ThumbnailPool,
\* FileDownload).
WaitsEnd ==
    /\ part = "Gallery" => Gallery!ScanningEnds
    /\ part = "Pools" => Pools!PoolsAreServed
    /\ part = "Downloads" => Downloads!SpinnersAreLive

\* Who stays on the photos of a connected phone is shown some (GalleryScan).
NeverLeftEmpty == Gallery!NeverLeftEmpty
====================
