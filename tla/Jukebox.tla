------------------------------- MODULE Jukebox -------------------------------
(***************************************************************************)
(* The jukebox's accounts (xbmc/jukebox): CoinsManager with its row of the  *)
(* professional database, PartyModeManager, and the handler that sells a    *)
(* song, OnQueueItem of the music windows, with as much of the playlist     *)
(* player as the accounts depend on: how long its list is, whether it is    *)
(* the current one, and when it is given up.                                *)
(*                                                                         *)
(* Credits are in the database and, while the program runs, in m_coins.     *)
(* The two modes of operation share one interface: CanQueue before a song   *)
(* is queued, RegisterQueue after.  In the default mode a song costs a      *)
(* credit; in the party mode it uses up one of the queues the length of the *)
(* list allows.                                                            *)
(*                                                                         *)
(* All of this runs on the main thread.  OnQueueItem is not one step,       *)
(* though: playing the song can end in an error dialog, whose loop handles  *)
(* the messages of the player and of the remote interfaces before           *)
(* RegisterQueue is reached.  The program can end at any moment; the        *)
(* database remains.                                                       *)
(***************************************************************************)
EXTENDS Integers

CONSTANTS Modes,        (* the modes the operator uses: "default", "party"        *)
          PlaylistMaxSize, QueueWait,   (* the settings of the party mode        *)
          MaxCoins,     (* bound: credits in the database                         *)
          MaxSongs,     (* bound: songs in the list                               *)
          MaxPlayable,  (* bound: the playable counter, which only Clear lowers   *)
          MaxOverdraft, (* bound: queues registered beyond the quota                *)
          MaxDialogs,   (* bound: error dialogs open inside each other             *)
          FolderSizes   (* the numbers of songs in a folder                       *)

ASSUME JukeboxAssumption ==
  /\ Modes \subseteq {"default", "party"} /\ Modes # {}
  /\ PlaylistMaxSize \in Nat /\ QueueWait \in Nat
  /\ MaxCoins \in Nat /\ MaxSongs \in Nat /\ MaxPlayable \in Nat
  /\ MaxOverdraft \in Nat /\ MaxDialogs \in Nat /\ FolderSizes \subseteq Nat

VARIABLES running,
          dbCoins,            (* professional.coins of the row 0                 *)
          m_coins,
          m_iQueuesAllowed,
          mode,               (* the setting operation.mode                      *)
          songs, playable,    (* the music list: its size and m_iPlayableItems   *)
          current,            (* it is m_iCurrentPlayList                        *)
          m_iCurrentSong, m_bPlaybackStarted,
          m_repeatState,
          playing,            (* the player plays                                *)
          asked,              (* it has asked for the next song                  *)
          handed,             (* the index of the song it was handed, or -1      *)
          ended,              (* GUI_MSG_PLAYBACK_ENDED waits to be handled      *)
          op,                 (* what the handler in progress does next          *)
          dialogs,            (* error dialogs that are open                     *)
          selling,            (* OnQueueItem has not come to its end             *)
          wasRead,            (* history: GetCoins succeeded at the start        *)
          unpaid,             (* history: the last song queued is not charged for *)
          interfered,         (* history: see SongsAreCharged                    *)
          disturbed           (* history: see ListWithinMax                      *)

account == <<dbCoins, m_coins>>
list == <<songs, playable>>
marks == <<current, m_iCurrentSong, m_bPlaybackStarted>>
player == <<playing, asked, handed, ended>>
stage == <<op, dialogs, selling>>
history == <<wasRead, unpaid, interfered, disturbed>>
vars == <<running, account, m_iQueuesAllowed, mode, list, marks, m_repeatState, player, stage, history>>

\* The program is not running: what the constructors put into memory, and the row
\* of CreateTables.
Init ==
  /\ running = FALSE
  /\ dbCoins = 0 /\ mode \in Modes
  /\ m_coins = -1 /\ m_iQueuesAllowed = 0
  /\ songs = 0 /\ playable = -1
  /\ current = FALSE /\ m_iCurrentSong = -1 /\ m_bPlaybackStarted = FALSE
  /\ m_repeatState = "none"
  /\ playing = FALSE /\ asked = FALSE /\ handed = -1 /\ ended = FALSE
  /\ op = "idle" /\ dialogs = 0 /\ selling = FALSE
  /\ wasRead = FALSE /\ unpaid = FALSE /\ interfered = FALSE /\ disturbed = FALSE
-----------------------------------------------------------------------------
(* PartyModeManager *)

\* Mutated form: the music list, current or not.
PlaylistSizeOfMusic == playable

\* GetPlayable of the current list: -1 when no list is the current one.
PlaylistSize == IF current THEN playable ELSE -1

\* UpdateParams: the quota is renewed when the list has become short.
Updated ==
  IF PlaylistSize = -1 THEN PlaylistMaxSize
  ELSE IF PlaylistSize <= PlaylistMaxSize - QueueWait THEN PlaylistMaxSize - PlaylistSize
  ELSE m_iQueuesAllowed

\* Mutated form: one queue more.
PartyCanQueueAtZero == PlaylistMaxSize = 0 \/ Updated >= 0

PartyCanQueue == PlaylistMaxSize = 0 \/ Updated > 0
-----------------------------------------------------------------------------
(* CoinsManager *)

HasCoins == m_coins > 0

\* CJukeboxManager::Start, CoinsManager::Init: GetCoins answers -1 when the query fails.
Start ==
  /\ ~running
  /\ \E ok \in BOOLEAN :
       /\ m_coins' = IF ok THEN dbCoins ELSE -1
       /\ wasRead' = ok
  /\ running' = TRUE
  /\ m_iQueuesAllowed' = Updated
  /\ UNCHANGED <<dbCoins, mode, list, marks, m_repeatState, player, stage, unpaid, interfered, disturbed>>

\* The memory is gone, with the songs in it; the database and the settings stay.
Crash ==
  /\ running
  /\ running' = FALSE
  /\ m_coins' = -1 /\ m_iQueuesAllowed' = 0
  /\ songs' = 0 /\ playable' = -1
  /\ current' = FALSE /\ m_iCurrentSong' = -1 /\ m_bPlaybackStarted' = FALSE
  /\ m_repeatState' = "none"
  /\ playing' = FALSE /\ asked' = FALSE /\ handed' = -1 /\ ended' = FALSE
  /\ op' = "idle" /\ dialogs' = 0 /\ selling' = FALSE
  /\ wasRead' = FALSE /\ unpaid' = FALSE /\ interfered' = FALSE /\ disturbed' = FALSE
  /\ UNCHANGED <<dbCoins, mode>>

\* The main thread's loop, or that of a dialog, handles messages and commands.
Looping == running /\ op = "idle"

\* The keys and the list of songs are at hand only without a dialog.
AtHand == Looping /\ dialogs = 0

\* Songs that stand in a list that is not the current one are not counted.
NoteLeft == disturbed' = (disturbed \/ (~current' /\ songs' > 0))

\* Mutated form: m_coins is raised whether the database has it or not.
AddCoinInMemory(Amount) ==
  /\ \E ok \in BOOLEAN : dbCoins' = IF ok THEN dbCoins + Amount ELSE dbCoins
  /\ m_coins' = m_coins + Amount

\* InsertCoin(Amount)
AddCoin(Amount) ==
  /\ dbCoins' = dbCoins + Amount
  /\ m_coins' = m_coins + Amount

\* Mutated form: the last credit is not taken.
RemoveCoinLeavesOne(Amount, ok) ==
  LET taken == IF ok /\ m_coins > 1 THEN Amount ELSE 0
  IN  dbCoins' = dbCoins - taken /\ m_coins' = m_coins - taken

\* Mutated form: m_coins is lowered whether the database has it or not.
RemoveCoinInMemory(Amount, ok) ==
  IF m_coins <= 0
  THEN m_coins' = 0 /\ UNCHANGED dbCoins
  ELSE /\ dbCoins' = IF ok THEN dbCoins - Amount ELSE dbCoins
       /\ m_coins' = m_coins - Amount

\* RemoveCoin(Amount), whose statement succeeds or not.
RemoveCoin(Amount, ok) ==
  IF m_coins <= 0
  THEN m_coins' = 0 /\ UNCHANGED dbCoins
  ELSE LET taken == IF ~ok THEN 0 ELSE IF m_coins < Amount THEN m_coins ELSE Amount
       IN  dbCoins' = dbCoins - taken /\ m_coins' = m_coins - taken

\* A command of the remote interfaces.
Command ==
  /\ Looping
  /\ interfered' = (interfered \/ selling)
  /\ UNCHANGED <<running, m_iQueuesAllowed, playable, current, m_bPlaybackStarted, m_repeatState,
                 player, stage, wasRead, unpaid>>

\* The command InsertCredit; nothing changes when the database fails.
InsertCredit ==
  /\ dbCoins < MaxCoins
  /\ AddCoin(1) /\ Command
  /\ UNCHANGED <<mode, songs, m_iCurrentSong, disturbed>>

\* The command RemoveCredit.
RemoveCredit ==
  /\ \E ok \in BOOLEAN : RemoveCoin(1, ok) /\ Command
  /\ UNCHANGED <<mode, songs, m_iCurrentSong, disturbed>>

\* The command RemoveLastSong: nothing changes when the database fails.
RemoveLastSong ==
  /\ dbCoins < MaxCoins /\ current /\ songs > 1
  /\ AddCoin(1) /\ Command
  /\ songs' = songs - 1
  /\ m_iCurrentSong' = IF m_iCurrentSong >= songs - 1 THEN m_iCurrentSong - 1 ELSE m_iCurrentSong
  /\ UNCHANGED <<mode, disturbed>>

\* The operator sets the other mode.
SetMode ==
  /\ mode' \in Modes \ {mode} /\ Command
  /\ disturbed' = TRUE
  /\ UNCHANGED <<account, songs, m_iCurrentSong>>
-----------------------------------------------------------------------------
(* OnQueueItem *)

CanQueue == IF mode = "party" THEN PartyCanQueue ELSE HasCoins

\* CanQueue has the party mode bring its quota up to date.
Asked == m_iQueuesAllowed' = IF mode = "party" THEN Updated ELSE m_iQueuesAllowed

\* The message "insert credits"; or an item that cannot be queued is left alone.
QueueNothing ==
  /\ AtHand /\ Asked
  /\ UNCHANGED <<running, account, mode, list, marks, m_repeatState, player, stage, history>>

\* The counter goes from -1 to 1 with the first song.
Counted(n) == IF n = 0 THEN playable ELSE IF playable < 0 THEN n ELSE playable + n

\* Play(i): the index is brought into range of a list of n songs.
PlaySong(i, n) == m_iCurrentSong' = IF i < 0 THEN 0 ELSE IF i >= n THEN n - 1 ELSE i

\* An item of n songs is added; with nothing playing, its first song is played.  A
\* folder may turn out to be empty: if songs are waiting, one is played all the same.
Queue(n) ==
  /\ AtHand /\ CanQueue /\ Asked
  /\ songs + n <= MaxSongs /\ Counted(n) <= MaxPlayable /\ m_iQueuesAllowed >= -MaxOverdraft
  /\ songs' = songs + n /\ playable' = Counted(n)
  /\ IF songs + n > 0 /\ ~playing
     THEN /\ current' = TRUE /\ m_bPlaybackStarted' = FALSE /\ PlaySong(songs, songs + n)
          /\ op' = "play"
     ELSE UNCHANGED marks /\ op' = "register"
  /\ selling' = TRUE
  /\ unpaid' = (mode = "default") /\ interfered' = FALSE
  /\ disturbed' = (disturbed \/ n # 1 \/ (~current' /\ songs' > 0))
  /\ UNCHANGED <<running, account, mode, m_repeatState, player, dialogs, wasRead>>

\* RegisterQueue of the mode that is set by then.
RegisterQueue ==
  /\ running /\ op = "register"
  /\ op' = "idle" /\ selling' = FALSE
  /\ IF mode = "party"
     THEN m_iQueuesAllowed' = m_iQueuesAllowed - 1 /\ UNCHANGED <<account, unpaid, interfered>>
     ELSE /\ \E ok \in BOOLEAN : RemoveCoin(1, ok) /\ interfered' = (interfered \/ ~ok)
          /\ unpaid' = (unpaid /\ dbCoins' = dbCoins)
          /\ UNCHANGED m_iQueuesAllowed
  /\ UNCHANGED <<running, mode, list, marks, m_repeatState, player, dialogs, wasRead, disturbed>>
-----------------------------------------------------------------------------
(* The playlist player.  A handler that plays is a chain: "play" is Play about to *)
(* open the song at the marker, "back" the same on the way of PlayPrevious,       *)
(* "next" is PlayNext, "previous" PlayPrevious.                                   *)

\* A step of the chain, which leaves the accounts alone.
Chain ==
  /\ running
  /\ UNCHANGED <<running, account, m_iQueuesAllowed, mode, m_repeatState, selling, wasRead, unpaid,
                 interfered>>

\* Where the chain returns to when as many dialogs are open as n.
Return(n) == IF selling /\ n = 0 THEN "register" ELSE "idle"

InRange(i, n) == i >= 0 /\ i < n

\* Reset, and no list is the current one any more.
GiveUp == current' = FALSE /\ m_iCurrentSong' = -1 /\ m_bPlaybackStarted' = FALSE

\* GetNextSong() takes the song before the marker off the list, the first one when
\* the marker is on it; with the song repeated none.  A song that is repeated and
\* was marked unplayable gives the list up.  The counter keeps its value.
TakeSong ==
  \/ /\ songs = 0 \/ ~current \/ m_repeatState = "one"
     /\ UNCHANGED <<songs, marks>>
  \/ /\ songs > 0 /\ current /\ m_repeatState # "one"
     /\ songs' = IF InRange(IF m_iCurrentSong = 0 THEN 0 ELSE m_iCurrentSong - 1, songs)
                 THEN songs - 1 ELSE songs
     /\ m_iCurrentSong' = m_iCurrentSong - 1
     /\ UNCHANGED <<current, m_bPlaybackStarted>>
  \/ /\ InRange(m_iCurrentSong, songs) /\ current /\ m_repeatState = "one"
     /\ GiveUp /\ UNCHANGED songs

\* GetNextSong(1), the one without side effects.
NextSong ==
  IF ~current \/ songs = 0 THEN -1
  ELSE IF m_repeatState = "one" THEN m_iCurrentSong
  ELSE IF m_iCurrentSong + 1 >= songs /\ m_repeatState = "all" THEN (m_iCurrentSong + 1) % songs
  ELSE m_iCurrentSong + 1

\* PlayNext: when there is no next song or none is playable the list is given up,
\* with the songs it has.
PlayNext ==
  /\ op = "next" /\ Chain
  /\ IF InRange(NextSong, songs) /\ playable > 0
     THEN /\ op' = "play" /\ PlaySong(NextSong, songs) /\ m_bPlaybackStarted' = FALSE
          /\ UNCHANGED <<current, disturbed>>
     ELSE /\ op' = Return(dialogs) /\ GiveUp /\ disturbed' = (disturbed \/ songs > 0)
  /\ UNCHANGED <<list, player, dialogs>>

\* PlayPrevious: without a previous song the list stays the current one.
PlayPrevious ==
  /\ op = "previous" /\ Chain
  /\ LET song == IF m_repeatState = "one" THEN m_iCurrentSong
                 ELSE IF m_iCurrentSong - 1 < 0 /\ m_repeatState = "all" THEN songs - 1
                 ELSE m_iCurrentSong - 1
     IN  IF current /\ songs > 0 /\ song >= 0
         THEN op' = "back" /\ PlaySong(song, songs) /\ m_bPlaybackStarted' = FALSE
         ELSE op' = Return(dialogs) /\ UNCHANGED <<m_iCurrentSong, m_bPlaybackStarted>>
  /\ UNCHANGED <<list, current, player, dialogs, disturbed>>

\* PlayFile succeeds.
PlayOpens ==
  /\ op \in {"play", "back"} /\ Chain
  /\ op' = Return(dialogs)
  /\ m_bPlaybackStarted' = TRUE
  /\ playing' = TRUE /\ asked' = FALSE /\ handed' = -1
  /\ UNCHANGED <<list, current, m_iCurrentSong, ended, dialogs, disturbed>>

\* PlayFile fails, before or when the player opens the file; in the second case it
\* calls GetNextSong().  SetUnPlayable marks what is at the marker by then, if it is
\* not marked yet (the counter is not below the songs not marked).  When too many have failed the error dialog comes up, with the
\* list as it is; otherwise the chain goes on.  (With nothing playable Play gives
\* the list up as PlayNext does.)
PlayFails(atOpen) ==
  /\ op \in {"play", "back"} /\ Chain
  /\ IF atOpen THEN TakeSong ELSE UNCHANGED <<songs, marks>>
  /\ playing' \in {playing, playing /\ ~atOpen}
  /\ asked' = (asked /\ playing') /\ handed' = -1 /\ UNCHANGED ended
  /\ \E marked \in {FALSE, playable > 0 /\ InRange(m_iCurrentSong', songs')} :
       playable' = IF marked THEN playable - 1 ELSE playable
  /\ disturbed' = (disturbed \/ InRange(m_iCurrentSong', songs') \/ (~current' /\ songs' > 0))
  /\ \/ /\ dialogs < MaxDialogs
        /\ dialogs' = dialogs + 1 /\ op' = "idle"
     \/ /\ op' = IF op = "back" /\ playable' > 0 THEN "previous" ELSE "next"
        /\ UNCHANGED dialogs

\* The dialog is closed: the list is given up, cleared if it was still the current
\* one, and Play returns.
CloseDialog ==
  /\ op = "idle" /\ dialogs > 0 /\ Chain
  /\ GiveUp
  /\ songs' = IF current THEN 0 ELSE songs
  /\ playable' = IF current THEN -1 ELSE playable
  /\ dialogs' = dialogs - 1 /\ op' = Return(dialogs - 1)
  /\ UNCHANGED <<player, disturbed>>
-----------------------------------------------------------------------------
(* The player's messages, the keys and the windows.                         *)

\* GUI_MSG_QUEUE_NEXT_ITEM, once for a song: the next song is taken off the list
\* and handed to the player, if it wants it.
QueueNextItem ==
  /\ Looping /\ Chain
  /\ (playing \/ ended) /\ ~asked
  /\ asked' = TRUE
  /\ TakeSong /\ NoteLeft
  /\ LET song == IF m_iCurrentSong >= songs /\ m_repeatState = "all" THEN 0 ELSE m_iCurrentSong
     IN  handed' \in {-1} \cup (IF playing /\ current' /\ InRange(song, songs') THEN {song} ELSE {})
  /\ UNCHANGED <<playable, playing, ended, op, dialogs>>

\* GUI_MSG_PLAYBACK_STARTED of the song the player has gone over to.  (An index that
\* the list has got too short for is retrieved all the same, PlayList.cpp:182-190.)
GoOver ==
  /\ Looping /\ Chain
  /\ playing /\ current /\ InRange(handed, songs)
  /\ m_iCurrentSong' = handed
  /\ asked' = FALSE /\ handed' = -1
  /\ UNCHANGED <<list, current, m_bPlaybackStarted, playing, ended, op, dialogs, disturbed>>

\* The player comes to the end of its song and tells so.
SongEnds ==
  /\ running /\ playing /\ ~ended
  /\ playing' = FALSE /\ handed' = -1 /\ ended' = TRUE
  /\ UNCHANGED <<running, account, m_iQueuesAllowed, mode, list, marks, m_repeatState, asked, stage,
                 history>>

\* GUI_MSG_PLAYBACK_ENDED: PlayNext(1, true).
HandleEnded ==
  /\ Looping /\ Chain /\ ended
  /\ ended' = FALSE /\ asked' = (asked /\ playing) /\ op' = "next"
  /\ UNCHANGED <<list, marks, playing, handed, dialogs, disturbed>>

\* The player is stopped by a user, or by a message that came late; the list that
\* has begun to play is given up.
Stop ==
  /\ Looping /\ Chain /\ playing
  /\ playing' = FALSE /\ asked' = FALSE /\ handed' = -1
  /\ IF current /\ m_bPlaybackStarted THEN GiveUp ELSE UNCHANGED marks
  /\ UNCHANGED <<list, ended, op, dialogs>>
  /\ NoteLeft

\* The next and previous keys.
Skip ==
  /\ AtHand /\ Chain /\ current
  /\ op' \in {"next", "previous"}
  /\ UNCHANGED <<list, marks, player, dialogs, disturbed>>

\* A song of the list is picked in the playlist window.
JumpTo(i) ==
  /\ AtHand /\ Chain /\ InRange(i, songs)
  /\ current' = TRUE /\ m_bPlaybackStarted' = FALSE /\ PlaySong(i, songs)
  /\ op' = "play"
  /\ UNCHANGED <<list, player, dialogs, disturbed>>

SetRepeat ==
  /\ AtHand
  /\ m_repeatState' \in {"none", "one", "all"} \ {m_repeatState}
  /\ UNCHANGED <<running, account, m_iQueuesAllowed, mode, list, marks, player, stage, history>>

Playing ==
  PlayNext \/ PlayPrevious \/ PlayOpens \/ (\E atOpen \in BOOLEAN : PlayFails(atOpen)) \/ CloseDialog

Next ==
  \/ Start \/ Crash
  \/ InsertCredit \/ RemoveCredit \/ RemoveLastSong \/ SetMode
  \/ QueueNothing \/ Queue(1) \/ (\E n \in FolderSizes : Queue(n)) \/ RegisterQueue
  \/ Playing
  \/ QueueNextItem \/ GoOver \/ SongEnds \/ HandleEnded \/ Stop
  \/ Skip \/ (\E i \in 0 .. MaxSongs - 1 : JumpTo(i)) \/ SetRepeat

Spec == Init /\ [][Next]_vars

\* The program runs, handlers come to their end, dialogs are closed, songs end.
FairSpec ==
  /\ Spec
  /\ WF_vars(Start) /\ WF_vars(RegisterQueue) /\ WF_vars(Playing)
  /\ WF_vars(SongEnds) /\ WF_vars(HandleEnded)
-----------------------------------------------------------------------------
(* Properties *)

TypeOK ==
  /\ running \in BOOLEAN /\ mode \in Modes
  /\ dbCoins \in Int /\ m_coins \in Int /\ m_iQueuesAllowed \in Int
  /\ songs \in Nat /\ playable \in Int
  /\ current \in BOOLEAN /\ m_iCurrentSong \in Int /\ m_bPlaybackStarted \in BOOLEAN
  /\ m_repeatState \in {"none", "one", "all"}
  /\ playing \in BOOLEAN /\ asked \in BOOLEAN /\ handed \in Int /\ ended \in BOOLEAN
  /\ op \in {"idle", "play", "back", "next", "previous", "register"}
  /\ dialogs \in Nat /\ selling \in BOOLEAN
  /\ wasRead \in BOOLEAN /\ unpaid \in BOOLEAN /\ interfered \in BOOLEAN /\ disturbed \in BOOLEAN

\* The credits the program gives out are in the database: whatever statement
\* fails and whenever the program ends, m_coins is not above what is stored, and
\* so RemoveCoin never takes the stored credits below zero.
CreditsAreBacked == 0 <= dbCoins /\ m_coins <= dbCoins

\* After a start that could read them, the program has all of the credits, not
\* only some: a failed statement changes neither the row nor m_coins.
CreditsAreInStep == wasRead => m_coins = dbCoins

\* "Insira creditos para adicionar musicas" (70000: insert credits to add
\* songs): when OnQueueItem is done, the item it queued has been charged for,
\* unless it was interfered with: a statement of the database failed or a remote
\* command was handled while an error dialog was open.
SongsAreCharged == ~selling /\ ~interfered => ~unpaid

\* "Numero maximo de musicas" (72406): the party mode keeps the list within the
\* setting until it is disturbed: a folder is queued, a song that could not be
\* played stays in the list, songs stand in the list while it is not the current
\* one (it was given up, or they were added before the player of a list that was
\* given up had stopped), or the mode is changed.
ListWithinMax ==
  mode = "party" /\ PlaylistMaxSize > 0 /\ ~disturbed => songs <= PlaylistMaxSize

\* Nothing plays, and nothing will by itself: PlayPrevious found no song before
\* one that failed, or a player was stopped after such a failure.
Silent == Looping /\ dialogs = 0 /\ current /\ ~playing /\ ~ended

\* "Aguarde a liberacao automatica de creditos" (60003: wait for the automatic
\* release of credits): whoever waits can queue again, whatever fails, as long as
\* songs are not repeated, nobody picks songs of the list again and again, and the
\* previous key has not left the list silent.
QuotaIsReleased ==
  \/ (running /\ mode = "party" /\ ~PartyCanQueue) ~>
       (~running \/ mode # "party" \/ PartyCanQueue \/ m_repeatState # "none" \/ Silent)
  \/ []<><<\E i \in 0 .. MaxSongs - 1 : JumpTo(i)>>_vars
  \/ []<><<Skip>>_vars
=============================================================================
