SPECIFICATION ListSpec
CONSTANTS
  plex = plex
  sonarr = sonarr
  radarr = radarr
  NoOrder = NoOrder
  Containers <- MCContainers
  Refs <- MCRefs
  Denotes <- MCDenotes
  Waits <- MCWaits
  NoWait <- MCNoWait
  RowLists <- MCRowLists
  Requests <- MCRequests
CHECK_DEADLOCK FALSE
INVARIANTS
  LoopComputesMerge
PROPERTIES
  RepeatChangesNothing
