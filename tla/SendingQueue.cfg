SPECIFICATION Spec
CONSTANTS
  MaxChunks = 4
  MaxData = 1
INVARIANTS TypeOK NoUseAfterFree Backlog InOrder ReleasedOnce RefusedMeansBroken
PROPERTIES EndsDrained ChannelSpec EndsOnceSourceEnded
