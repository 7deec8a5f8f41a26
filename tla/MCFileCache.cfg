SPECIFICATION FairSpec
CONSTANTS
  Front = 1
  Back = 0
  FileLen = 3
  ChunkSize = 2
  ReadFails = TRUE
  SeekFails = TRUE
  AfterTwice = FALSE
INVARIANTS ValidDataIsTheFile EndOfFileIsTheEnd PositionsAgree
PROPERTIES SeekLands PositionIsTheClients CallsReturn
\* After Close there is nothing left to do.
CHECK_DEADLOCK FALSE
