SPECIFICATION Spec
CONSTANTS
  plex = plex
  sonarr = sonarr
  radarr = radarr
  Containers <- ThreeContainers
  Window = 3
  Grace = 2
  Step = 1
CHECK_DEADLOCK FALSE
INVARIANTS
  CallBounded
  SocketReleased
  SnapshotCoversCycle
  FirstReadingKept
  CancelPropagates
PROPERTIES
  PrimaryOutcomeKept
  CallEnds
