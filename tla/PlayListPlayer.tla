---------------------------- MODULE PlayListPlayer ----------------------------
(***************************************************************************)
(* CPlayListPlayer (xbmc/PlayListPlayer.cpp) with the handlers of           *)
(* xbmc/Application.cpp that drive it and the player thread behind them.    *)
(*                                                                         *)
(* The application's main thread runs one handler at a time: an operation   *)
(* of the user or the next message of the window manager's queue.  A        *)
(* handler that plays a song is the chain Play -> PlayFile -> (on failure)  *)
(* PlayNext -> Play ...; "doing" is what is left of that chain, and the     *)
(* outcome of opening a file is a nondeterministic choice.  When too many   *)
(* songs have failed the chain ends in an error dialog, whose loop handles  *)
(* messages as the main loop does, before the list is given up.             *)
(*                                                                         *)
(* The player (PAPlayer) runs on its own: near the end of a song it asks    *)
(* for the next one, it goes over to that one by itself, and it ends; it    *)
(* tells the main thread with messages, which are handled later.            *)
(*                                                                         *)
(* Songs are their paths; a song is in the list, playing or handed to the   *)
(* player at most once at a time.                                           *)
(***************************************************************************)
EXTENDS PlayListOps

CONSTANTS Paths,
          Music, Kinds,     (* the playlists: PLAYLIST_MUSIC is one of Kinds        *)
          NoList, NoItem,
          MaxSize,          (* bound: items in a list                               *)
          MaxPlayable,      (* bound: the playable counter, which only Clear lowers *)
          MaxMsgs,          (* bound: messages waiting for the main thread          *)
          MaxDialogs,       (* bound: error dialogs open above each other           *)
          MaxBack,          (* bound: songs are asked for while the marker is not    *)
                            (* further below the first song                          *)
          Retries,          (* g_advancedSettings.m_playlistRetries                 *)
          TimesOut,         (* failing may also take m_playlistTimeout              *)
          (* what the users of this run do besides queueing songs: *)
          Jumps,            (* pick a song, skip back and forth, stop, repeat       *)
          Edits,            (* insert, remove, swap, clear                          *)
          Shuffling         (* switch shuffle on and off                            *)

ASSUME PlayerAssumption ==
  /\ Music \in Kinds /\ NoList \notin Kinds /\ NoItem \notin Paths
  /\ Retries \in Nat \ {0} /\ MaxDialogs \in Nat

VARIABLES lists, m_iCurrentPlayList, m_iCurrentSong, m_repeatState, m_bPlaybackStarted,
          m_iFailedSongs,
          doing,               (* the rest of the handler in progress          *)
          now,                 (* the song the player plays                    *)
          nextFile,            (* the song the player will go over to          *)
          asked,               (* m_cachingNextFile: it has asked for one      *)
          m_nextPlaylistItem,
          msgs,                (* m_vecThreadMessages, oldest first            *)
          batch,               (* "messages", taken from it to be dispatched   *)
          dialogs,             (* for each error dialog that is open, the last *)
                               (* one first, the rest of the batch below it    *)
          tried,               (* history: the songs PlayFile has been given,  *)
                               (* or the player, since they were queued        *)
          raced                (* history: a song was queued while messages of *)
                               (* a player that had ended were waiting         *)

listvars == <<lists, m_iCurrentPlayList, m_iCurrentSong, m_bPlaybackStarted, m_iFailedSongs>>
playervars == <<now, nextFile, asked, m_nextPlaylistItem>>
history == <<tried, raced>>
vars == <<listvars, m_repeatState, playervars, doing, msgs, batch, dialogs, history>>

\* The states of "doing"; its field "tries" is a history of the songs that failed
\* since the handler began.
Idle == [op |-> "idle", song |-> -1, back |-> FALSE, tries |-> 0]
PlaySong(i, back) == [Idle EXCEPT !.op = "play", !.song = i, !.back = back]
Next1 == [Idle EXCEPT !.op = "next"]
Previous1 == [Idle EXCEPT !.op = "previous"]
Then(step) == [step EXCEPT !.tries = doing.tries]
Retry(step) == [step EXCEPT !.tries = doing.tries + 1]

\* GetPlaylist: for PLAYLIST_NONE the empty list.
Current == IF m_iCurrentPlayList = NoList THEN NewList ELSE lists[m_iCurrentPlayList]

RepeatedOne == m_iCurrentPlayList # NoList /\ m_repeatState[m_iCurrentPlayList] = "one"
Repeated == m_iCurrentPlayList # NoList /\ m_repeatState[m_iCurrentPlayList] = "all"

IsPlaying == now # NoItem

\* The main thread's loop, or that of a dialog, is between two frames, and takes the
\* commands of the remote interfaces; the windows and their lists are at hand only
\* without a dialog.
MainIdle == doing = Idle /\ batch = << >> /\ Len(msgs) < MaxMsgs
AtHand == MainIdle /\ dialogs = << >>

InList(l) == {l.items[i].path : i \in Indices(l)}

Init ==
  /\ lists = [k \in Kinds |-> NewList]
  /\ m_iCurrentPlayList = NoList /\ m_iCurrentSong = -1
  /\ m_repeatState = [k \in Kinds |-> "none"]
  /\ m_bPlaybackStarted = FALSE /\ m_iFailedSongs = 0
  /\ doing = Idle
  /\ now = NoItem /\ nextFile = NoItem /\ asked = FALSE
  /\ m_nextPlaylistItem = -1
  /\ msgs = << >> /\ batch = << >> /\ dialogs = << >> /\ tried = {} /\ raced = FALSE
-----------------------------------------------------------------------------
(* The playlist player's own operations. *)

\* Reset, and giving up the current list.
Reset == m_iCurrentSong' = -1 /\ m_bPlaybackStarted' = FALSE

\* ReShuffle after an addition to a shuffled list: the lists it can leave.
ReShuffles(k, l, position) ==
  IF ~l.shuffled THEN {l}
  ELSE IF ~l.played THEN Shuffles(l, 0)
  ELSE IF k # m_iCurrentPlayList THEN Shuffles(l, position)
  ELSE IF IsPlaying THEN Shuffles(l, m_iCurrentSong + 2) ELSE {l}

\* GetNextSong(offset), the one without side effects, with offset 1.
NextSong ==
  LET song == m_iCurrentSong + 1
  IN  IF Current.size = 0 THEN -1
      ELSE IF RepeatedOne THEN m_iCurrentSong
      ELSE IF song >= Current.size /\ Repeated THEN song % Current.size
      ELSE song

\* Mutated form: the song taken off is the one after the marker.
TakeNextSongTakesNext(l, current) ==
  IF l.size = 0 \/ RepeatedOne THEN [ret |-> -1, l |-> l, song |-> current, stuck |-> FALSE]
  ELSE [ret |-> current, l |-> Remove(l, current + 1), song |-> current, stuck |-> FALSE]

\* Mutated form: the index is still moved on, as well as the list shortened.
TakeNextSongMovesOn(l, current) ==
  IF l.size = 0 \/ RepeatedOne THEN [ret |-> -1, l |-> l, song |-> current, stuck |-> FALSE]
  ELSE [ret |-> current + 1, l |-> Remove(l, IF current = 0 THEN 0 ELSE current - 1),
        song |-> current - 1, stuck |-> FALSE]

\* GetNextSong() takes the song before the current one off the list, or the
\* current one when it is the first; "ret" is what it returns.
TakeNextSong(l, current) ==
  IF l.size = 0 THEN [ret |-> -1, l |-> l, song |-> current, stuck |-> FALSE]
  ELSE IF RepeatedOne THEN
    IF current \in Indices(l) /\ l.items[current].unplayable
    THEN [ret |-> -1, l |-> l, song |-> -1, stuck |-> TRUE]
    ELSE [ret |-> current, l |-> l, song |-> current, stuck |-> FALSE]
  ELSE [ret |-> IF current >= l.size /\ Repeated THEN 0 ELSE current,
        l |-> Remove(l, IF current = 0 THEN 0 ELSE current - 1),
        song |-> current - 1, stuck |-> FALSE]

\* PlayNext(1) inside a handler: nothing left to play gives the list up.
PlayNext ==
  /\ doing.op = "next"
  /\ IF NextSong \in Indices(Current) /\ Current.playable > 0
     THEN /\ doing' = Then(PlaySong(NextSong, FALSE))
          /\ UNCHANGED <<m_iCurrentPlayList, m_iCurrentSong, m_bPlaybackStarted, msgs>>
     ELSE /\ Reset
          /\ m_iCurrentPlayList' = NoList
          /\ msgs' = Append(msgs, "listStopped")
          /\ doing' = Idle
  /\ UNCHANGED <<lists, m_iFailedSongs, m_repeatState, playervars, batch, dialogs, history>>

\* PlayPrevious inside a handler.
PlayPrevious ==
  /\ doing.op = "previous"
  /\ LET back == IF RepeatedOne THEN m_iCurrentSong ELSE m_iCurrentSong - 1
         song == IF back < 0 /\ Repeated THEN Current.size - 1 ELSE back
     IN  doing' = IF song < 0 \/ Current.size = 0 THEN Idle ELSE Then(PlaySong(song, TRUE))
  /\ UNCHANGED <<listvars, m_repeatState, playervars, msgs, batch, dialogs, history>>

\* Play(iSong): there may be nothing to play, and the index is brought into range.
CannotPlay == m_iCurrentPlayList = NoList \/ Current.size = 0
Chosen ==
  IF doing.song < 0 THEN 0
  ELSE IF doing.song >= Current.size THEN Current.size - 1 ELSE doing.song
ChosenPath == Current.items[Chosen].path

PlayNothing ==
  /\ doing.op = "play" /\ CannotPlay
  /\ doing' = Idle
  /\ UNCHANGED <<listvars, m_repeatState, playervars, msgs, batch, dialogs, history>>

\* Play(iSong) whose PlayFile succeeds.  The player starts over and tells so.
PlayOpens ==
  /\ doing.op = "play" /\ ~CannotPlay
  /\ lists' = [lists EXCEPT ![m_iCurrentPlayList].played = TRUE]
  /\ m_iCurrentSong' = Chosen
  /\ m_bPlaybackStarted' = TRUE
  /\ m_iFailedSongs' = 0
  /\ now' = ChosenPath /\ nextFile' = NoItem /\ asked' = FALSE
  /\ m_nextPlaylistItem' = -1
  /\ msgs' = Append(msgs, "started")
  /\ tried' = tried \cup {ChosenPath}
  /\ doing' = Idle
  /\ UNCHANGED <<m_iCurrentPlayList, m_repeatState, batch, dialogs, raced>>

\* Mutated form: a failure is not counted.
FailedSongsNotCounted == m_iFailedSongs

FailedSongs == m_iFailedSongs + 1

\* Too many songs in a row have failed, or they took too long.
TooMany(late) == FailedSongs >= Retries \/ late

\* Play(iSong) whose PlayFile fails, before or when the player opens the file:
\* in the second case PlayFile calls GetNextSong() and may announce a stop.  After
\* too many failures the error dialog comes up, over the messages being dispatched,
\* with the list as it is; with nothing playable left the list is given up.
PlayFails(atOpen) ==
  /\ doing.op = "play" /\ ~CannotPlay
  /\ \E late \in {FALSE, TimesOut} :
     LET k == m_iCurrentPlayList
         l == [Current EXCEPT !.played = TRUE]
         t == IF atOpen THEN TakeNextSong(l, Chosen)
              ELSE [ret |-> 0, l |-> l, song |-> Chosen, stuck |-> FALSE]
         kept == IF t.stuck THEN NoList ELSE k
         size == IF t.stuck THEN 0 ELSE t.l.size
         marked == SetUnPlayable(t.l, t.song)
         sent == (IF t.stuck THEN <<"listStopped">> ELSE << >>)
                   \o (IF atOpen /\ t.ret \notin 0 .. size - 1 THEN <<"stopped">> ELSE << >>)
         over == ~TooMany(late) /\ marked.playable <= 0
     IN  /\ lists' = [lists EXCEPT ![k] = marked]
         /\ m_iCurrentPlayList' = IF over THEN NoList ELSE kept
         /\ m_iCurrentSong' = IF over THEN -1 ELSE t.song
         /\ m_iFailedSongs' = FailedSongs
         /\ msgs' = msgs \o sent \o (IF over THEN <<"listStopped">> ELSE << >>)
         /\ doing' = IF over \/ TooMany(late) THEN Idle ELSE Retry(IF doing.back THEN Previous1 ELSE Next1)
         /\ IF TooMany(late)
            THEN Len(dialogs) < MaxDialogs /\ dialogs' = <<batch>> \o dialogs /\ batch' = << >>
            ELSE UNCHANGED <<dialogs, batch>>
  /\ m_bPlaybackStarted' = FALSE
  /\ m_nextPlaylistItem' = -1
  /\ \E closed \in IF atOpen THEN BOOLEAN ELSE {FALSE} :
       /\ now' = IF closed THEN NoItem ELSE now
       /\ nextFile' = IF closed THEN NoItem ELSE nextFile
  /\ tried' = tried \cup {ChosenPath}
  /\ UNCHANGED <<m_repeatState, asked, raced>>

\* The error dialog is closed: the list that is the current one by then is cleared
\* and given up, and the handler that failed returns.
CloseDialog ==
  /\ doing = Idle /\ batch = << >> /\ dialogs # << >>
  /\ batch' = Head(dialogs) /\ dialogs' = Tail(dialogs)
  /\ Reset
  /\ lists' = IF m_iCurrentPlayList = NoList THEN lists
              ELSE [lists EXCEPT ![m_iCurrentPlayList] = Clear(@)]
  /\ m_iCurrentPlayList' = NoList
  /\ m_iFailedSongs' = 0
  /\ msgs' = Append(msgs, "listStopped")
  /\ UNCHANGED <<m_repeatState, playervars, doing, history>>

Playing ==
  PlayNext \/ PlayPrevious \/ PlayNothing \/ PlayOpens \/ (\E b \in BOOLEAN : PlayFails(b)) \/ CloseDialog
-----------------------------------------------------------------------------
(* The handlers of the messages of the player and of the playlist player.   *)

\* DispatchThreadMessages: the messages waiting are handled one after the other,
\* and nothing else is done in between; those that come meanwhile wait.
DispatchThreadMessages ==
  /\ doing = Idle /\ batch = << >> /\ msgs # << >>
  /\ batch' = msgs /\ msgs' = << >>
  /\ UNCHANGED <<listvars, m_repeatState, playervars, doing, dialogs, history>>

Handle(m) ==
  /\ doing = Idle /\ batch # << >> /\ Head(batch) = m
  /\ batch' = Tail(batch)

StopPlayer == now' = NoItem /\ nextFile' = NoItem /\ asked' = FALSE

\* A player that is deleted while it plays announces that, too.
Announced == IF IsPlaying THEN <<"stopped">> ELSE << >>

\* Mutated form: the index is the one the song had before the list was shortened.
HandleQueueNextOldIndex ==
  /\ Handle("queueNext")
  /\ LET t == TakeNextSong(Current, m_iCurrentSong)
         k == m_iCurrentPlayList
     IN  /\ k # NoList /\ t.ret \in Indices(t.l)
         /\ lists' = [lists EXCEPT ![k] = t.l]
         /\ m_iCurrentSong' = t.song
         /\ m_nextPlaylistItem' = t.ret + 1
         /\ nextFile' = IF IsPlaying THEN t.l.items[t.ret].path ELSE nextFile
  /\ UNCHANGED <<m_iCurrentPlayList, m_bPlaybackStarted, m_iFailedSongs, m_repeatState, now, asked,
                 doing, msgs, dialogs, history>>

\* Mutated form: "nothing to queue, stop playing" (PAPlayer.cpp:193) done at once.
HandleQueueNextStops ==
  /\ Handle("queueNext")
  /\ StopPlayer
  /\ UNCHANGED <<listvars, m_repeatState, m_nextPlaylistItem, doing, msgs, dialogs, history>>

\* GUI_MSG_QUEUE_NEXT_ITEM: the player is offered the next song and takes it or not.
HandleQueueNext ==
  /\ Handle("queueNext")
  /\ LET t == TakeNextSong(Current, m_iCurrentSong)
         k == m_iCurrentPlayList
     IN  /\ lists' = IF k = NoList THEN lists ELSE [lists EXCEPT ![k] = t.l]
         /\ m_iCurrentSong' = IF k = NoList THEN m_iCurrentSong ELSE t.song
         /\ m_iCurrentPlayList' = IF t.stuck THEN NoList ELSE k
         /\ m_bPlaybackStarted' = (m_bPlaybackStarted /\ ~t.stuck)
         /\ msgs' = msgs \o (IF t.stuck THEN <<"listStopped">> ELSE << >>)
         /\ \/ /\ k # NoList /\ ~t.stuck /\ t.ret \in Indices(t.l)
               /\ m_nextPlaylistItem' = t.ret
               /\ nextFile' = IF IsPlaying THEN t.l.items[t.ret].path ELSE nextFile
            \/ UNCHANGED <<nextFile, m_nextPlaylistItem>>
  /\ UNCHANGED <<m_iFailedSongs, m_repeatState, now, asked, doing, dialogs, history>>

\* GUI_MSG_PLAYBACK_STARTED of a song the player has gone over to by itself
\* moves the marker there (SetCurrentSong checks the range).
HandleStarted ==
  /\ Handle("started")
  /\ m_iCurrentSong' = IF m_nextPlaylistItem >= 0 /\ m_nextPlaylistItem < Current.size
                       THEN m_nextPlaylistItem ELSE m_iCurrentSong
  /\ UNCHANGED <<lists, m_iCurrentPlayList, m_bPlaybackStarted, m_iFailedSongs, m_repeatState,
                 playervars, doing, msgs, dialogs, history>>

\* Mutated form: nothing follows a song that ended.
HandleEndedPlaysNothing ==
  /\ Handle("ended")
  /\ UNCHANGED <<listvars, m_repeatState, playervars, doing, msgs, dialogs, history>>

\* GUI_MSG_PLAYBACK_ENDED: PlayNext(1, true).
HandleEnded ==
  /\ Handle("ended")
  /\ doing' = Next1
  /\ UNCHANGED <<listvars, m_repeatState, playervars, msgs, dialogs, history>>

\* GUI_MSG_PLAYBACK_STOPPED: the application deletes the player, the playlist
\* player gives its list up.
HandleStopped ==
  /\ Handle("stopped")
  /\ StopPlayer
  /\ IF m_iCurrentPlayList # NoList /\ m_bPlaybackStarted
     THEN Reset /\ m_iCurrentPlayList' = NoList /\ msgs' = msgs \o Announced \o <<"listStopped">>
     ELSE /\ msgs' = msgs \o Announced
          /\ UNCHANGED <<m_iCurrentSong, m_bPlaybackStarted, m_iCurrentPlayList>>
  /\ UNCHANGED <<lists, m_iFailedSongs, m_repeatState, m_nextPlaylistItem, doing, dialogs, history>>

\* GUI_MSG_PLAYLISTPLAYER_STOPPED: the application deletes the player.
HandleListStopped ==
  /\ Handle("listStopped")
  /\ StopPlayer
  /\ msgs' = msgs \o Announced
  /\ UNCHANGED <<listvars, m_repeatState, m_nextPlaylistItem, doing, dialogs, history>>

Handlers ==
  \/ DispatchThreadMessages
  \/ HandleQueueNext \/ HandleStarted \/ HandleEnded \/ HandleStopped \/ HandleListStopped
-----------------------------------------------------------------------------
(* The player thread (PAPlayer::ProcessPAP). *)

\* Near the end of the song it asks, once, for the next one.
AskForNext ==
  /\ IsPlaying /\ ~asked /\ Len(msgs) < MaxMsgs /\ m_iCurrentSong >= -MaxBack
  /\ asked' = TRUE
  /\ msgs' = Append(msgs, "queueNext")
  /\ UNCHANGED <<listvars, m_repeatState, now, nextFile, m_nextPlaylistItem, doing, batch, dialogs, history>>

\* It goes over to the song it was given.
GoOver ==
  /\ IsPlaying /\ nextFile # NoItem /\ Len(msgs) < MaxMsgs
  /\ now' = nextFile /\ nextFile' = NoItem /\ asked' = FALSE
  /\ tried' = tried \cup {nextFile}
  /\ msgs' = Append(msgs, "started")
  /\ UNCHANGED <<listvars, m_repeatState, m_nextPlaylistItem, doing, batch, dialogs, raced>>

\* It ends, having been given none, or earlier than its length had it expect, or
\* because its output cannot be set up for the one it was given.
Finish ==
  /\ IsPlaying /\ Len(msgs) < MaxMsgs
  /\ now' = NoItem /\ nextFile' = NoItem /\ asked' = FALSE
  /\ msgs' = Append(msgs, "ended")
  /\ UNCHANGED <<listvars, m_repeatState, m_nextPlaylistItem, doing, batch, dialogs, history>>

Player == AskForNext \/ GoOver \/ Finish
-----------------------------------------------------------------------------
(* What the users do, through the windows, the keys and the remote interfaces. *)

\* Songs that can be queued: not in a list, playing or with the player already.
NewSongs == (Paths \ {now, nextFile}) \ UNION {InList(lists[k]) : k \in Kinds}
Room(k, n) == lists[k].size + n <= MaxSize /\ lists[k].playable + n <= MaxPlayable

\* The player has ended, and its message has not been handled: the message will be
\* taken for one of the song that is started now.  (What the history is for is
\* stated by the run without edits.)
Races == ~IsPlaying /\ msgs # << >> /\ ~Edits

\* The playlist part of OnQueueItem: Add, and Play of the new song if nothing plays.
QueueSong(p) ==
  /\ AtHand /\ p \in NewSongs /\ Room(Music, 1)
  /\ raced' = (raced \/ Races)
  /\ \E l \in ReShuffles(Music, AddAll(lists[Music], <<p>>), lists[Music].size) :
       lists' = [lists EXCEPT ![Music] = l]
  /\ IF IsPlaying
     THEN UNCHANGED <<m_iCurrentPlayList, m_iCurrentSong, m_bPlaybackStarted, doing>>
     ELSE /\ Reset
          /\ m_iCurrentPlayList' = Music
          /\ doing' = PlaySong(lists[Music].size, FALSE)
  /\ tried' = tried \ {p}
  /\ UNCHANGED <<m_iFailedSongs, m_repeatState, playervars, msgs, batch, dialogs>>

\* A change of the lists that leaves player, messages and handler alone.
OnlyLists ==
  UNCHANGED <<m_iCurrentPlayList, m_bPlaybackStarted, m_iFailedSongs, m_repeatState, playervars,
              doing, msgs, batch, dialogs, raced>>

\* CPlayListPlayer::Insert
InsertSongs(k, ps, i) ==
  /\ Edits /\ MainIdle /\ \A n \in DOMAIN ps : ps[n] \in NewSongs
  /\ IsInjective(ps) /\ Room(k, Len(ps))
  /\ \E l \in ReShuffles(k, InsertAll(lists[k], ps, i), lists[k].size) :
       lists' = [lists EXCEPT ![k] = l]
  /\ m_iCurrentSong' = IF ~lists[k].shuffled /\ m_iCurrentPlayList = k /\ m_iCurrentSong >= i
                       THEN m_iCurrentSong + 1 ELSE m_iCurrentSong
  /\ tried' = tried \ {ps[n] : n \in DOMAIN ps}
  /\ OnlyLists

\* CPlayListPlayer::Remove
RemoveAt(k, i) ==
  /\ lists' = [lists EXCEPT ![k] = Remove(@, i)]
  /\ m_iCurrentSong' = IF m_iCurrentPlayList = k /\ m_iCurrentSong >= i
                       THEN m_iCurrentSong - 1 ELSE m_iCurrentSong
  /\ OnlyLists /\ UNCHANGED tried

\* RemovePlayListItem: "The current playing song can't be removed".
RemoveSong(k, i) ==
  /\ Edits /\ AtHand
  /\ ~(m_iCurrentPlayList = k /\ IsPlaying /\ m_iCurrentSong = i)
  /\ RemoveAt(k, i)

\* The playlist part of CoinsManager::RemoveLastSong.
RemoveLastSong ==
  /\ Edits /\ MainIdle
  /\ Current.size > 1
  /\ RemoveAt(m_iCurrentPlayList, Current.size - 1)

\* Mutated form: the marker is moved one way only.
SwapSongsOneWay(k, a, b) ==
  /\ Edits /\ MainIdle
  /\ lists' = [lists EXCEPT ![k] = Swap(@, a, b)]
  /\ m_iCurrentSong' = IF k = m_iCurrentPlayList /\ m_iCurrentSong = a THEN b ELSE m_iCurrentSong
  /\ OnlyLists /\ UNCHANGED tried

\* CPlayListPlayer::Swap
SwapSongs(k, a, b) ==
  /\ Edits /\ MainIdle
  /\ lists' = [lists EXCEPT ![k] = Swap(@, a, b)]
  /\ m_iCurrentSong' = IF k # m_iCurrentPlayList THEN m_iCurrentSong
                       ELSE IF m_iCurrentSong = a THEN b
                       ELSE IF m_iCurrentSong = b THEN a ELSE m_iCurrentSong
  /\ OnlyLists /\ UNCHANGED tried

\* ClearPlayList of the playlist window.
ClearSongs(k) ==
  /\ Edits /\ AtHand
  /\ lists' = [lists EXCEPT ![k] = Clear(@)]
  /\ IF m_iCurrentPlayList = k
     THEN Reset /\ m_iCurrentPlayList' = NoList
     ELSE UNCHANGED <<m_iCurrentPlayList, m_iCurrentSong, m_bPlaybackStarted>>
  /\ UNCHANGED <<m_iFailedSongs, m_repeatState, playervars, doing, msgs, batch, dialogs, history>>

\* SetShuffle: the order of the song at the marker is looked up before, and its
\* new position after, whichever list is shuffled.
SetShuffle(k, yes) ==
  /\ Shuffling /\ MainIdle
  /\ lists[k].shuffled # yes
  /\ \E l \in IF yes THEN Shuffles(lists[k], 0) ELSE UnShuffles(lists[k]) :
       /\ lists' = [lists EXCEPT ![k] = l]
       /\ m_iCurrentSong' =
            IF m_iCurrentSong \notin Indices(lists[k]) THEN m_iCurrentSong
            ELSE LET i == FindOrder(l, lists[k].items[m_iCurrentSong].order)
                 IN  IF i >= 0 THEN i ELSE m_iCurrentSong
  /\ OnlyLists /\ UNCHANGED tried

SetRepeat(k, state) ==
  /\ Jumps /\ MainIdle
  /\ m_repeatState' = [m_repeatState EXCEPT ![k] = state]
  /\ UNCHANGED <<listvars, playervars, doing, msgs, batch, dialogs, history>>

\* The next and previous keys.
Skip ==
  /\ Jumps /\ MainIdle
  /\ doing' \in {Next1} \cup (IF m_iCurrentPlayList = NoList THEN {} ELSE {Previous1})
  /\ UNCHANGED <<listvars, m_repeatState, playervars, msgs, batch, dialogs, history>>

\* A song of a list is picked in the playlist window.
JumpTo(k, i) ==
  /\ Jumps /\ AtHand
  /\ m_iCurrentPlayList' = k
  /\ doing' = PlaySong(i, FALSE)
  /\ UNCHANGED <<lists, m_iCurrentSong, m_bPlaybackStarted, m_iFailedSongs, m_repeatState,
                 playervars, msgs, batch, dialogs, history>>

\* TMSG_PLAYLISTPLAYER_PLAY of the remote interfaces: any number, any list.
PlayNumber(i) ==
  /\ Jumps /\ MainIdle
  /\ doing' = PlaySong(i, FALSE)
  /\ UNCHANGED <<listvars, m_repeatState, playervars, msgs, batch, dialogs, history>>

\* StopPlaying: the player is closed and announces the stop.
Stop ==
  /\ Jumps /\ MainIdle /\ IsPlaying
  /\ StopPlayer
  /\ msgs' = Append(msgs, "stopped")
  /\ UNCHANGED <<listvars, m_repeatState, m_nextPlaylistItem, doing, batch, dialogs, history>>

Added == UNION {[1 .. n -> Paths] : n \in 1 .. 2}
User ==
  \/ \E p \in Paths : QueueSong(p)
  \/ \E k \in Kinds, ps \in Added, i \in 0 .. MaxSize :
       i \in 0 .. lists[k].size /\ InsertSongs(k, ps, i)
  \/ \E k \in Kinds, i \in 0 .. MaxSize - 1 :
       i \in Indices(lists[k]) /\ (RemoveSong(k, i) \/ JumpTo(k, i))
  \/ \E k \in Kinds, a, b \in 0 .. MaxSize - 1 : {a, b} \subseteq Indices(lists[k]) /\ SwapSongs(k, a, b)
  \/ RemoveLastSong
  \/ \E k \in Kinds : ClearSongs(k) \/ \E yes \in BOOLEAN : SetShuffle(k, yes)
  \/ \E k \in Kinds, state \in {"none", "one", "all"} : SetRepeat(k, state)
  \/ \E i \in 0 .. MaxSize : PlayNumber(i)
  \/ Skip \/ Stop

Next == Playing \/ Handlers \/ Player \/ User

Spec == Init /\ [][Next]_vars

\* The main thread runs on: it finishes a handler and then handles the next
\* message; somebody closes the error dialog.  A song ends some time, as its player
\* thread runs on.
FairSpec ==
  /\ Spec
  /\ WF_vars(Playing) /\ WF_vars(Handlers)
  /\ WF_vars(AskForNext) /\ WF_vars(GoOver \/ Finish)
-----------------------------------------------------------------------------
(* Properties *)

\* Three uses the code does not follow: several songs are inserted in one call, songs
\* are inserted into a shuffled list (which may also give two songs one order
\* value, PlayList.cpp:62), and another list is shuffled.
NotFollowed ==
  \/ Current'.size > Current.size + (IF Current.shuffled THEN 0 ELSE 1)
  \/ Current' = Current
  \/ \E i, j \in Indices(Current) : i # j /\ Current.items[i].order = Current.items[j].order

\* Whatever else the users do to the current list takes the marker along with the
\* song it is on: Insert, Remove, Swap and SetShuffle ("fix the current song
\* marker", PlayListPlayer.cpp:453).
MarkerFollowsItsSong ==
  [][(/\ doing = Idle /\ doing' = Idle /\ batch = << >> /\ UNCHANGED <<m_iCurrentPlayList, msgs, now>>
      /\ m_iCurrentSong \in Indices(Current) /\ ~NotFollowed
      /\ Current.items[m_iCurrentSong].path \in InList(Current'))
        => /\ m_iCurrentSong' \in Indices(Current')
           /\ Current'.items[m_iCurrentSong'].path = Current.items[m_iCurrentSong].path]_vars

\* The marker is on the song that plays, as long as that song is in the current
\* list and no message that will move the marker is waiting (PlayListPlayer.h:
\* "Returns the index of the current item in active playlist").
MarkerOnPlayingSong ==
  (doing = Idle /\ batch \o msgs = << >> /\ now \in InList(Current))
     => m_iCurrentSong \in Indices(Current) /\ Current.items[m_iCurrentSong].path = now

\* The song handed to the player is the one its index stands for until the
\* player goes over to it: the index is what moves the marker afterwards.
NextItemIsTheQueuedFile ==
  nextFile # NoItem => /\ m_nextPlaylistItem \in Indices(Current)
                       /\ Current.items[m_nextPlaylistItem].path = nextFile

\* When that song has started, its index is retrieved from the list, which
\* asserts that it is in range (PlayList.cpp:182-190).
RetrievedInRange ==
  (doing = Idle /\ batch # << >> /\ Head(batch) = "started" /\ m_nextPlaylistItem >= 0)
     => m_nextPlaylistItem \in Indices(Current)

\* The marker and the index of the next song, which the main thread keeps while the
\* list gets shorter and the player goes on, stand for the songs the player has.
IndicesStandForTheirSongs ==
  raced \/ (MarkerOnPlayingSong /\ NextItemIsTheQueuedFile /\ RetrievedInRange)

\* A handler comes to its end: the recursion Play -> PlayNext -> Play over songs
\* that fail tries m_playlistRetries of them at most, under every repeat mode
\* ("abort on 100 failed CONSECTUTIVE songs", PlayListPlayer.cpp:250).
AttemptsAreBounded == doing.tries < Retries

\* The error dialog is closed, and the list cleared.
GivesUp == Len(dialogs') < Len(dialogs)

\* A queued song leaves the list only after it had its turn, unless the list is
\* cleared when the error dialog is closed after too many failures.  Here and below
\* "raced" is the exception: a song was queued, and started at once, while a message
\* that an earlier song or the list has ended still waited; GetNextSong() then takes
\* the new song for the one that ended (PlayListPlayer.cpp:136).
NoSongIsLost ==
  [][\A k \in Kinds : \A p \in InList(lists[k]) \ InList(lists'[k]) : p \in tried' \/ GivesUp \/ raced']_vars

\* Songs have their turn in the order of the list, up to such a race.
PlaysInOrder ==
  [][\A i, j \in Indices(Current) :
       (i < j /\ Current.items[j].path \in tried' \ tried /\ ~raced') => Current.items[i].path \in tried]_vars

\* No message left over from the song before stops a song, up to such a race: the
\* player of a handler that opens nothing stops only by itself (PAPlayer.cpp:455-466).
NoSongIsCutShort ==
  [][(doing = Idle /\ IsPlaying /\ now' = NoItem /\ ~raced) => msgs' = Append(msgs, "ended")]_vars

\* Every song queued gets its turn, or the list is given up, up to such a race.
EverySongHasItsTurn ==
  \A p \in Paths : p \in InList(lists[Music]) ~> (p \in tried \/ p \notin InList(lists[Music]) \/ raced)
=============================================================================
