SPECIFICATION FairSpec
CONSTANTS
  p1 = p1
  j1 = j1
  s1 = s1
  Threads = {p1, j1, s1}
  Drawing = {p1, j1}
  JoinedAt <- MCJoinedAt
  Messages <- MCMessages
INVARIANTS EachOnce WaitersAreKnown
PROPERTIES InOrder WaitEnds ProgramEnds
CHECK_DEADLOCK FALSE
