SPECIFICATION Spec
CONSTANTS
  plex = plex
  sonarr = sonarr
  spare = spare
  c1 = c1
  c2 = c2
  Nothing = Nothing
  Calls <- TwoCalls
  Ids <- ThreeIds
  Refs <- ExampleRefs
  FullRefs <- ExampleFull
  Denotes <- ExampleDenotes
  Requests <- ExampleRequests
CHECK_DEADLOCK FALSE
SYMMETRY CallSymmetry
INVARIANTS
  SuccessMeansDone
  RejectedChangedNothing
  RestartLeavesNothingStopped
