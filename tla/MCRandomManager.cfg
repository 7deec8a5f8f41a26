SPECIFICATION FairSpec
CONSTANTS
  Songs = {s1, s2, s3}
  Missing = {s3}
  MaxCoins = 1
  MaxWaiting = 2
INVARIANTS StoppedForGood
PROPERTIES PlayingSongIsNotCut StopReturns SongIsChosen
CHECK_DEADLOCK FALSE
