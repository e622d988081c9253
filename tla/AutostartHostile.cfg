SPECIFICATION FairSpec
CONSTANTS
  plex = plex
  sonarr = sonarr
  radarr = radarr
  c1 = c1
  c2 = c2
  NoCall = NoCall
  Calls <- TwoCalls
  Containers <- TwoContainers
  Refs <- ExampleRefs
  Denotes <- ExampleDenotes
  Waits <- ExampleWaits
  NoWait <- NoWaitKey
  Requests <- AllRequests
  LateWrites = TRUE
  ForeignLists <- SomeLists
CHECK_DEADLOCK FALSE
INVARIANTS
  WriteNeedsFullRead
  RejectedSentNothing
PROPERTIES
  EveryCallEnds
