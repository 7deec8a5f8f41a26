SPECIFICATION FairSpec
CONSTANTS
  Modes = {"default", "party"}
  PlaylistMaxSize = 2
  QueueWait = 1
  MaxCoins = 1
  MaxSongs = 3
  MaxPlayable = 3
  MaxOverdraft = 0
  MaxDialogs = 1
  FolderSizes = {0, 2}
INVARIANTS CreditsAreBacked CreditsAreInStep SongsAreCharged ListWithinMax
PROPERTIES QuotaIsReleased
