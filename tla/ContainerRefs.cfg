SPECIFICATION Spec
CONSTANTS
  plex = plex
  spare = spare
  Nothing = Nothing
  Keys <- MCKeys
  Shorts <- MCShorts
  Begins <- MCBegins
  ShortOf <- MCShortOf
  Words <- MCWords
  Names <- MCNames
  MaxUpdate = 2
  Batches <- MCBatches
CHECK_DEADLOCK FALSE
INVARIANTS
  ResultIsMeant
  ShownIsFound
  SentAreMeant
