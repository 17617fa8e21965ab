SPECIFICATION Spec
CONSTANTS
  MaxChunks = 3
  MaxData = 0
  Buffer = 1
INVARIANTS TypeOK NothingUsedAfterRelease NothingLeftBehind
PROPERTIES QueuesAreChannels ClientGoneEnds
