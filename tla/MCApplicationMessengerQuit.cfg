SPECIFICATION FairSpec
CONSTANTS
  p1 = p1
  j1 = j1
  s1 = s1
  Threads = {j1}
  Drawing = {j1}
  JoinedAt <- MCJoinedAt
  Messages <- QuitMessages
PROPERTIES QuitEnds
CHECK_DEADLOCK FALSE
