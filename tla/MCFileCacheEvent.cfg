SPECIFICATION Spec
CONSTANTS
  Front = 1
  Back = 0
  FileLen = 3
  ChunkSize = 2
  ReadFails = FALSE
  SeekFails = FALSE
  AfterTwice = TRUE
INVARIANTS BytesAreTheFile
\* After Close there is nothing left to do.
CHECK_DEADLOCK FALSE
