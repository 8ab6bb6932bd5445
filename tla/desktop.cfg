CONSTANTS
 Nothing = Nothing
 MaxEvents = 4
 MaxGuiClicks = 2
 MaxPolls = 1
 MaxWay = 1
 Connections = {1, 2}
 DeviceOf <- MCDeviceOf
 Sleeps = {25}
 MaxSleeps = 1
 Releases = {1, 2, 3}
 MaxUpdateClicks = 5
 MaxNotes = 4
 Versions <- MCVersions
 Demands <- MCDemands
 ClientVersion <- MCClientVersion
 MinPeerVersion <- MCMinPeerVersion
 MaxMeetings = 3
 MaxUpgrades = 2
 MaxLockClicks = 2
 Levels <- MCLevels
 Notes = {media}
 MaxTells = 2
 MaxStatusTurns = 3
 MaxInbox = 2
 MaxDaemons = 3
 Servers = {1, 2, 3}
 MaxMountClicks = 5
 MaxMountTurns = 4
 Photos = {photo, shot}
 Camera = {photo}
 Media = {media}
 MaxLine = 2
 MaxWire = 2
 MaxScanTrouble = 2
 SlowScans = FALSE
 Limit = 1
 Requests = {1, 2, 3}
 MaxThumbTrouble = 1
 Files = {1, 2}
 Videos = {1}
 SaveCalls = {1, 2}
 Parts = 2
 Phones = {photo, shot}
 Addresses = {photo, media}
 LostAfter = 2
 MaxFindTurns = 2
 MaxStarts = 1
SPECIFICATION Spec
INVARIANTS TypeOK CopiesCatchUp WaitsEnd
PROPERTIES ServersAreSound NeverLeftEmpty
CHECK_DEADLOCK FALSE
