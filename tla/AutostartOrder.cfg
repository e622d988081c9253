SPECIFICATION Spec
CONSTANTS
  plex = plex
  sonarr = sonarr
  radarr = radarr
  c1 = c1
  c2 = c2
  NoCall = NoCall
  Calls <- TwoCalls
  Containers <- ThreeContainers
  Refs <- ExampleRefs
  Denotes <- ExampleDenotes
  Waits <- ExampleWaits
  NoWait <- NoWaitKey
  Requests <- ReorderingRequests
  LateWrites = FALSE
  ForeignLists <- NoLists
CHECK_DEADLOCK FALSE
INVARIANTS
  NoLostUpdate
PROPERTIES
  OthersKept
  CallsAreAtomic
