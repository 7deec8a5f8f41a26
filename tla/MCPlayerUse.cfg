SPECIFICATION Spec
CONSTANTS
  a = a
  b = b
  c = c
  Music = Music
  Video = Video
  NoList = NoList
  NoItem = NoItem
  Paths = {a, b}
  Kinds = {Music}
  MaxSize = 2
  MaxPlayable = 2
  MaxMsgs = 2
  MaxDialogs = 1
  MaxBack = 1
  Retries = 2
  TimesOut = TRUE
  Jumps = TRUE
  Edits = TRUE
  Shuffling = TRUE
INVARIANTS AttemptsAreBounded
PROPERTIES MarkerFollowsItsSong
CHECK_DEADLOCK FALSE
SYMMETRY Interchangeable
