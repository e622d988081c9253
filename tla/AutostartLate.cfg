SPECIFICATION FairSpec
CONSTANTS
  plex = plex
  sonarr = sonarr
  radarr = radarr
  c1 = c1
  c2 = c2
  NoCall = NoCall
  Calls <- TwoCalls
  Containers <- TwoContainers
  Refs <- ExampleRefs
  Denotes <- ExampleDenotes
  Waits <- ExampleWaits
  NoWait <- NoWaitKey
  Requests <- FewRequests
  LateWrites = TRUE
  ForeignLists <- NoLists
CHECK_DEADLOCK FALSE
INVARIANTS
  NoLostUpdate
