SPECIFICATION FairSpec
CONSTANTS
  a = a
  b = b
  c = c
  Music = Music
  Video = Video
  NoList = NoList
  NoItem = NoItem
  Paths = {a, b, c}
  Kinds = {Music}
  MaxSize = 3
  MaxPlayable = 5
  MaxMsgs = 2
  MaxDialogs = 1
  MaxBack = 1
  Retries = 2
  TimesOut = FALSE
  Jumps = FALSE
  Edits = FALSE
  Shuffling = FALSE
INVARIANTS IndicesStandForTheirSongs
PROPERTIES NoSongIsLost PlaysInOrder NoSongIsCutShort EverySongHasItsTurn
CHECK_DEADLOCK FALSE
