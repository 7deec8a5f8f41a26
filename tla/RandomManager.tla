---------------------------- MODULE RandomManager ----------------------------
(***************************************************************************)
(* RandomManager (xbmc/jukebox/RandomManager.cpp): a thread that chooses a  *)
(* song when the jukebox has been left alone for some time.                 *)
(*                                                                         *)
(* Two threads.  The main thread starts and stops the other one when the    *)
(* setting is changed, takes credits and songs from the customers, handles  *)
(* the end of a song and shows dialogs, for itself and for others.  The     *)
(* random manager's thread looks once a second whether it is time, whether  *)
(* a song plays and whether there are credits, and then adds a song and     *)
(* plays it, with no lock: everything may have changed in between.          *)
(*                                                                         *)
(* The list is reduced to the number of songs waiting, and a song to whose  *)
(* choice it was; PlayListPlayer has the rest.                              *)
(***************************************************************************)
EXTENDS Naturals

CONSTANTS Songs,        (* the songs of the library                               *)
          Missing,      (* those whose file does not exist                        *)
          MaxCoins,     (* bound: credits                                         *)
          MaxWaiting    (* bound: songs waiting, this many or more                *)

ASSUME RandomAssumption == Missing \subseteq Songs /\ MaxCoins \in Nat /\ MaxWaiting \in Nat \ {0}

VARIABLES setting,      (* jukeboxer.autorandom                                   *)
          main,         (* where the main thread is                               *)
          thread,       (* where the random manager's thread is                   *)
          bActive,
          m_StopWatch,  (* "off", "run" or "due": m_StopWatchMaxTime has passed   *)
          m_history,    (* the songs chosen so far                                *)
          picked,       (* the song of the attempt                                *)
          now,          (* whose song plays                                       *)
          ended,        (* the end of a song, not handled yet                     *)
          waiting,      (* the number of songs in the list that wait              *)
          coins,
          startedSince  (* history: the main thread started a song since IsPlaying *)

random == <<bActive, m_StopWatch, m_history, picked>>
player == <<now, ended, waiting, startedSince>>
vars == <<setting, main, thread, random, player, coins>>

NoSong == "none"
Sources == {"customer", "random"}

Init ==
  /\ setting = FALSE /\ main = "idle" /\ thread = "none"
  /\ bActive = FALSE /\ m_StopWatch = "off" /\ m_history = {} /\ picked = NoSong
  /\ now = NoSong /\ ended = FALSE /\ waiting = 0 /\ startedSince = FALSE
  /\ coins = 0

\* CStopWatch::Reset: the time starts again, if the watch runs.
Restarted == IF m_StopWatch = "off" THEN "off" ELSE "run"
ItsTime == m_StopWatch = "due"

Longer == IF waiting < MaxWaiting THEN waiting + 1 ELSE waiting
Shorter == IF waiting > 0 THEN waiting - 1 ELSE 0
-----------------------------------------------------------------------------
(* The main thread: the setting                                             *)

\* Start: StopThread waits for a thread there may be.
Enable ==
  /\ main = "idle" /\ ~setting
  /\ setting' = TRUE /\ main' = "start"
  /\ UNCHANGED <<thread, random, player, coins>>

\* Create: from now on the thread runs.
Create ==
  /\ main = "start" /\ thread \in {"none", "ended"}
  /\ thread' = "new" /\ main' = "activate"
  /\ UNCHANGED <<setting, random, player, coins>>

\* Mutated form: the watch is not started.
ActivateOnly ==
  /\ main = "activate"
  /\ bActive' = TRUE /\ main' = "idle"
  /\ UNCHANGED <<setting, thread, m_StopWatch, m_history, picked, player, coins>>

\* The rest of Start.
Activate ==
  /\ main = "activate"
  /\ m_StopWatch' = IF m_StopWatch = "off" THEN "run" ELSE m_StopWatch
  /\ bActive' = TRUE /\ main' = "idle"
  /\ UNCHANGED <<setting, thread, m_history, picked, player, coins>>

\* Mutated form: the watch keeps running.
StopKeepsWatch ==
  /\ main = "idle" /\ setting
  /\ setting' = FALSE /\ main' = "join"
  /\ bActive' = FALSE
  /\ UNCHANGED <<thread, m_StopWatch, m_history, picked, player, coins>>

\* Stop, up to StopThread.
Stop ==
  /\ main = "idle" /\ setting
  /\ setting' = FALSE /\ main' = "join"
  /\ bActive' = FALSE /\ m_StopWatch' = "off"
  /\ UNCHANGED <<thread, m_history, picked, player, coins>>

\* Mutated form: StopThread(false).
JoinAtOnce ==
  /\ main = "join"
  /\ main' = "idle"
  /\ UNCHANGED <<setting, thread, random, player, coins>>

\* StopThread waits for the thread to end.
Join ==
  /\ main = "join" /\ thread \in {"none", "ended"}
  /\ thread' = "none" /\ main' = "idle"
  /\ UNCHANGED <<setting, random, player, coins>>
-----------------------------------------------------------------------------
(* The random manager's thread                                              *)

\* Process: the loop's condition, at first and once a second.
Test ==
  /\ thread \in {"new", "asleep"}
  /\ thread' = IF ~bActive THEN "ended" ELSE IF ItsTime THEN "work" ELSE "asleep"
  /\ UNCHANGED <<setting, main, random, player, coins>>

\* Mutated form: only the credits are looked at.
SeeIfCreditsOnly ==
  /\ thread = "work"
  /\ startedSince' = FALSE
  /\ thread' = IF ~bActive THEN "asleep" ELSE "credits"
  /\ UNCHANGED <<setting, main, random, now, ended, waiting, coins>>

\* DoWork: a song plays, so the waiting starts again.
SeeIfPlaying ==
  /\ thread = "work"
  /\ startedSince' = FALSE
  /\ IF ~bActive THEN thread' = "asleep" /\ UNCHANGED m_StopWatch
     ELSE IF now # NoSong THEN thread' = "asleep" /\ m_StopWatch' = Restarted
     ELSE thread' = "credits" /\ UNCHANGED m_StopWatch
  /\ UNCHANGED <<setting, main, bActive, m_history, picked, now, ended, waiting, coins>>

\* DoWork: there are credits, or the database cannot be opened.
SeeIfCredits ==
  /\ thread = "credits"
  /\ IF coins > 0 THEN thread' = "asleep" /\ m_StopWatch' = Restarted
     ELSE thread' \in {"asleep", "pick"} /\ UNCHANGED m_StopWatch
  /\ UNCHANGED <<setting, main, bActive, m_history, picked, player, coins>>

\* A song that has not been chosen before and that exists.
Pick ==
  /\ thread = "pick" /\ ItsTime
  /\ picked' \in Songs \ (m_history \cup Missing)
  /\ thread' = "add"
  /\ UNCHANGED <<setting, main, bActive, m_StopWatch, m_history, player, coins>>

\* The file does not exist: another song is tried.
PickMissing ==
  /\ thread = "pick" /\ ItsTime
  /\ picked' \in Missing \ m_history
  /\ UNCHANGED <<setting, main, thread, bActive, m_StopWatch, m_history, player, coins>>

\* It is no longer time, or no song is left.
PickNothing ==
  /\ thread = "pick" /\ (~ItsTime \/ Songs \subseteq m_history)
  /\ thread' = "asleep"
  /\ UNCHANGED <<setting, main, random, player, coins>>

\* Add, and SetCurrentPlaylist.
AddPicked ==
  /\ thread = "add"
  /\ waiting' = Longer
  /\ thread' = "play"
  /\ UNCHANGED <<setting, main, random, now, ended, startedSince, coins>>

\* Play, the first song of the list, which need not be the one that was added.
PlayFirst ==
  /\ thread = "play"
  /\ now' \in (IF waiting > 1 THEN Sources ELSE {"random"})
  /\ waiting' = Shorter
  /\ m_history' = m_history \cup {picked} /\ m_StopWatch' = Restarted
  /\ thread' = "asleep"
  /\ UNCHANGED <<setting, main, bActive, picked, ended, startedSince, coins>>

\* Play fails, with the error dialog or without; the song stays in the list.
PlayFails ==
  /\ thread = "play"
  /\ now' \in {now, NoSong}
  /\ thread' \in {"asleep", "dialog"}
  /\ UNCHANGED <<setting, main, random, ended, waiting, startedSince, coins>>
-----------------------------------------------------------------------------
(* The main thread: dialogs, customers and the player                       *)

\* The loop that handles messages runs, in a dialog, too.
Handling == main \in {"idle", "modal"}

\* TMSG_GUI_DO_MODAL, which the other thread waits for.
OpenDialog ==
  /\ main = "idle" /\ thread = "dialog"
  /\ main' = "modal"
  /\ UNCHANGED <<setting, thread, random, player, coins>>

\* The dialog is closed, and the other thread clears the list.
CloseDialog ==
  /\ main = "modal"
  /\ main' = "idle" /\ thread' = "asleep" /\ waiting' = 0
  /\ UNCHANGED <<setting, random, now, ended, startedSince, coins>>

\* OnKey
KeyPress ==
  /\ Handling
  /\ m_StopWatch' = Restarted
  /\ UNCHANGED <<setting, main, thread, bActive, m_history, picked, player, coins>>

InsertCoin ==
  /\ Handling /\ coins < MaxCoins
  /\ coins' = coins + 1
  /\ UNCHANGED <<setting, main, thread, random, player>>

\* OnQueueItem: the song is played if none is, and paid for.
QueueSong ==
  /\ main = "idle" /\ coins > 0
  /\ coins' = coins - 1
  /\ IF now = NoSong
     THEN now' = "customer" /\ startedSince' = TRUE /\ UNCHANGED waiting
     ELSE waiting' = Longer /\ UNCHANGED <<now, startedSince>>
  /\ UNCHANGED <<setting, main, thread, random, ended>>

\* The player comes to the end of a song and tells so.
SongEnds ==
  /\ now # NoSong
  /\ now' = NoSong /\ ended' = TRUE
  /\ UNCHANGED <<setting, main, thread, random, waiting, startedSince, coins>>

\* PlayNext: the next song is played, or the list is given up and the player with it.
HandleEnded ==
  /\ Handling /\ ended
  /\ ended' = FALSE
  /\ IF waiting > 0
     THEN now' \in Sources /\ waiting' = waiting - 1 /\ startedSince' = TRUE
     ELSE now' = NoSong /\ UNCHANGED <<waiting, startedSince>>
  /\ UNCHANGED <<setting, main, thread, random, coins>>

\* Time passes.
Tick ==
  /\ m_StopWatch = "run"
  /\ m_StopWatch' = "due"
  /\ UNCHANGED <<setting, main, thread, bActive, m_history, picked, player, coins>>

Next ==
  \/ Enable \/ Create \/ Activate \/ Stop \/ Join
  \/ Test \/ SeeIfPlaying \/ SeeIfCredits \/ Pick \/ PickMissing \/ PickNothing
  \/ AddPicked \/ PlayFirst \/ PlayFails
  \/ OpenDialog \/ CloseDialog \/ KeyPress \/ InsertCoin \/ QueueSong \/ SongEnds \/ HandleEnded
  \/ Tick

Spec == Init /\ [][Next]_vars

\* Both threads run, dialogs are closed, songs end and time passes.  Chance is
\* fair: the database does not fail for ever, rand() does not always choose a
\* song that is missing, and not every song is unplayable.
FairSpec ==
  /\ Spec
  /\ WF_vars(Create) /\ WF_vars(Activate) /\ WF_vars(Join)
  /\ WF_vars(Test) /\ WF_vars(SeeIfPlaying) /\ WF_vars(SeeIfCredits) /\ WF_vars(PickMissing)
  /\ WF_vars(PickNothing) /\ WF_vars(AddPicked) /\ WF_vars(PlayFails)
  /\ SF_vars(thread = "credits" /\ coins = 0 /\ SeeIfCredits /\ thread' = "pick")
  /\ SF_vars(Pick) /\ SF_vars(PlayFirst)
  /\ WF_vars(OpenDialog) /\ WF_vars(CloseDialog) /\ WF_vars(SongEnds) /\ WF_vars(HandleEnded)
  /\ WF_vars(Tick)
-----------------------------------------------------------------------------
(* Properties *)

\* Once Stop has returned, no song is chosen: the thread is gone, in whatever
\* step of DoWork it was told to end.
StoppedForGood == main = "idle" /\ ~setting => thread = "none"

\* A song that played when the thread looked is not cut off by the one it chose;
\* only one the main thread started in the meantime can be (RandomManager.cpp:63,93).
PlayingSongIsNotCut == [][thread = "play" /\ now' = "random" /\ now # NoSong => startedSince]_vars

\* Stop returns: the thread notices bActive and the watch in every loop it has.
\* The exception is a thread that waits for the main thread to show a dialog.
StopReturns == main = "join" ~> (main # "join" \/ thread = "dialog")

\* The jukebox is left alone, and there are songs that were not chosen before.
LeftAlone ==
  /\ setting /\ main = "idle" /\ now = NoSong /\ coins = 0
  /\ Songs \ (m_history \cup Missing) # {}

\* As long as the thread lives, it does not leave the jukebox silent: it chooses
\* a song, unless somebody keeps pressing keys.
SongIsChosen == <>[](LeftAlone /\ thread # "ended") => []<><<KeyPress>>_vars

=============================================================================
