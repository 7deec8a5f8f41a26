# plxJukebox in TLA+

A verification development of plxJukebox, a jukebox made of the XBMC media centre (C++; `xbmc/` is the program,
`lib/` is vendored). Customers insert credits and queue songs; the machine plays them in order, through crashes,
songs that cannot be opened, operators at the remote control, and files read over a network. The modules here follow
the code of the parts that decide *what plays, in which order, and who pays*, of the cache that feeds the player, and of
the two mechanisms by which the program's threads work for each other: background jobs and messages to the main thread.

TLC checks the modules on small instances; TLAPS proves the theorems for all values of the constants.
`PROJECT.json` names every run, the lines each definition stands for, the disagreements found, and the hazards.

## 1. The system

### Components

| component | source (`src/xbmc/`) | state | operations | interacts with |
|---|---|---|---|---|
| circular cache | `filesystem/CacheCircular.*` | ring buffer, `m_beg`, `m_cur`, `m_end` | write, read, seek, reset, wait for data | file cache (lock, `m_space`, `m_written`) |
| file cache | `filesystem/FileCache.*` | cache, source file, `m_seekEvent`, `m_seekEnded`, `m_seekPos`, `m_nSeekResult`, `m_readPos`, `m_writePos` | thread `Process`; client `Read`, `Seek`, `Close` | events between the two threads |
| playlist | `playlists/PlayList.cpp` | items with order values, shuffle flag, playable counter | add, insert, remove, shuffle, swap, expand, mark | called by the playlist player and the windows |
| playlist player | `PlayListPlayer.cpp` | lists, current list, current song ("marker"), repeat states, failed songs | play, next, previous, edit, shuffle | plays through the application, told by messages |
| application (playback) | `Application.cpp`, `guilib/GUIWindowManager.cpp` | `m_pPlayer`, `m_nextPlaylistItem`, thread messages | `PlayFile`, handlers of playback messages | main thread; the player posts messages |
| audio player | `cores/paplayer/PAPlayer.cpp` | current and next file | ask for the next song, go over to it, end, stop | own thread, callbacks to the application |
| coins | `jukebox/CoinsManager.cpp`, `jukebox/ProfessionalDatabase.cpp` | `m_coins`, row of the database | insert, remove, remove last song | built-in commands, `OnQueueItem` |
| jukebox party mode | `jukebox/PartyModeManager.cpp`, `jukebox/JukeboxManager.cpp` | `m_iQueuesAllowed` | can queue, register queue | playlist player, settings |
| selling a song | `music/windows/GUIWindowJukeboxBase.cpp` | none | `OnQueueItem` | mode manager, playlist player |
| random manager | `jukebox/RandomManager.cpp` | stop watch, history, `bActive` | thread that queues and plays a random song | playlist player, *without* the message queue |
| job manager | `utils/JobManager.*` | jobs by priority, those in progress, workers; the job queues of its clients | add, cancel, complete, shut down; worker threads | callbacks outside its lock |
| application messenger | `ApplicationMessenger.cpp` | two message queues, an event per waiting sender | send (and wait), process, clean up | every other thread to the main thread; dialogs |
| events, locks, threads | `threads/*` | events, groups, shared sections | set, wait, groups, stop a thread | everything above |
| video player's messages | `cores/dvdplayer/DVDMessageQueue.cpp` | queue, data size, abort flag | put, get, flush, abort | demuxer and decoder threads |

The shell (windows, skins, settings), file systems, codecs, scrapers, add-ons, statistics and reports are left out: input
and output, rendering, queries, or wrappers of third-party libraries. They, and the vendored libraries under `lib/` and
`xbmc/visualizations`, are nearly all of the repository's lines.

### How they interact

The **main thread** runs the windows, the built-in commands, and, between two frames, first the messages of the
application messenger and then the thread messages of the windows (`DispatchThreadMessages` takes the whole queue, then
handles one message after the other; those that come meanwhile wait for the next frame). A modal dialog runs that same
loop again inside the handler that opened it. The **player thread** calls back `OnQueueNextItem`, `OnPlayBackStarted`,
`OnPlayBackEnded`, `OnPlayBackStopped`, each of which posts a message. So the playlist player's idea of what plays lags
behind the player by up to a batch of messages, and everything a user does in between meets stale state. The **caching
thread** of a file runs against the player thread that reads and seeks. The **random manager** calls the playlist player
from a thread of its own, and waits for the main thread when that ends in an error dialog. **Workers** of the job manager
report to their clients from their own threads and open dialogs through the messenger; the main thread, when the program
stops, waits for them.

### What is hard, and what makes each part correct

* **Circular cache**: boundaries of the ring; a byte read is the byte of the stream at that position; the writer is
  never blocked for good; what is promised to be kept behind the reader is kept.
* **File cache**: a seek against a write into a full cache, against the end of the file, against an error; two events
  that may hold an old signal, and an event whose setter is overtaken between its two halves. A read gives the file's
  bytes; each seek, read and close comes back; a seek leaves both positions where it was asked to go.
* **Playlist**: order values spell the queued order whatever is done to the list; un-shuffle gives it back.
* **Playlist player**: indices used after the list has changed; messages handled late; chains of failures. No queued
  song is lost, overtaken or cut short; the marker is on the song that plays; handlers come to an end.
* **Accounts**: a statement that fails, a crash, a dialog in the middle of a sale. Memory never has more credits than
  the database; each song costs one credit; the party mode keeps its list within its maximum and releases its quota.
* **Random manager**: it decides from what it saw a second ago, unlocked. It stops when told to, cuts off no song it saw,
  and does not leave the jukebox silent.
* **Job manager**: jobs are pointers in up to three lists; callbacks are called outside the lock; workers time out while
  a job is added that counts on them. No job is used after its deletion, each is done or deleted, nobody is called back who
  has cancelled in time, and the shutdown comes to an end.
* **Application messenger**: messages handled while others are; a program that stops with dialogs open and threads waiting.
  Each message is handled once, in order, and whoever waits is woken.

The list of hazards, each at its line and with the properties aimed at it, is in `PROJECT.json`.

## 2. Modules

```
StreamWindow <--implements-- CacheCircular <--instance-- FileCache <-- FileCacheProofs
                                   ^
                            CacheCircularProofs
PlayOrder    <--implements-- PlayList --+      (PlayList <-- PlayListProofs)
                                        +--extends--> PlayListOps
                      PlayListPlayer ---+      (PlayListPlayer <-- PlayListPlayerProofs)
Jukebox              <-- JukeboxProofs
RandomManager        <-- RandomManagerProofs
JobManager           <-- JobManagerProofs
ApplicationMessenger <-- ApplicationMessengerProofs
```

`MC<Module>` instantiates a module for TLC. Operators marked "Mutated form" are not used by any specification: each is the
bug a programmer might have written in the operator below it, and the property it is paired with in `PROJECT.json` finds it.

### CacheCircular, StreamWindow

`CacheCircular` has the three positions as in the code, the array as a function of slots, and the stream as the
position of each byte: slot `p % m_size` must hold the byte `p`. `WriteToCache(n)` computes the limit, the cut at
the array's end and the front and back parts as lines 84-114 do. All operations hold `m_sync`, hence one action each.
The specification of what it is for, `StreamWindow`, knows no array: a window `[first, last)` on the stream, extended
at its end, read at a position, dropped at its start. `ImplementsWindow` maps `m_beg`, `m_cur`, `m_end` to it.

### FileCache

Composes `CacheCircular` (an `INSTANCE`, so every step on the cache is a step of that module) with the thread
`Process` and one client. One action per stretch of code between two points where the other thread can be seen:
the poll of the seek event, the seek of the source (`SourceSeek`), the reset of the cache (`RestartCache`), the new read
position (`MoveReadPos`), the answer (`Answer`), the read of the source, the writes of the chunk, the wait at the end of
the file, `OnExit`; and on the client's side the calls with their waits, where a read of the cache and the change of
`m_readPos` are two steps (`ReadData`, `ReadReturn`), and so are a seek inside the cache and its end (`SeekInCache`, `Found`).

`CEvent::Set` is two steps, as in `threads/Event.cpp:53-61`: first the flag, later the groups that wait. The worker waits in
a group of two events at the end of the source only, and `group` is what that group has been told. Between the two halves it
can find the flag by polling, serve the seek and come to sleep at the end; the second half then wakes it for a seek that is
done. `spurious` is the history of that, `sourceFailed` that of a source that would not seek. `result` says what a call has
returned and, where the code returns 0 for two reasons, which one it was: `"eof"`, or `"timeout"` for ten seconds without
data. `AfterTwice` says whether the client goes on after such a seek; without the bound the rest of the cache's contract is
lost (run `file_cache_event`). The source is external: it reads and seeks as asked, or fails if the run lets it. `Close`
stops the thread by `m_bStop` and its stop event, and joins it.

### PlayListOps, PlayList, PlayOrder

`PlayListOps` has the operations of `CPlayList` on the value of a list; the order values (`m_iprogramCount`), the counter
that starts at -1, and what `Shuffle` and `UnShuffle` can leave as sets of lists. `PlayList` is one list under all of its
users; `PlayOrder` the contract: two sequences, the order of play and the order of queueing, and the second comes back when
shuffle is switched off. The refinement mapping spells the queued order out of the order values. All the uses of the program
are there: a song may be in the list twice, songs are inserted into a shuffled list, and windows send outdated copies of
items back. `disturbed` is the history, since the list was last cleared, of what the order values or the counter do not
survive: `"inserted"` into a shuffled list, a path `"removed"` that was there twice, `"updated"` with another order,
`"unmarked"` by a copy without the mark. The properties name it as their exception (section 3).

### PlayListPlayer

The main thread's handler in progress is `doing`: what is left of the chain `Play -> PlayFile -> PlayNext -> Play`. One
action is one link: `PlayOpens`, `PlayFails` (before the player is reached, or when it opens the file, in which case
`PlayFile` itself calls `GetNextSong()`, with its side effects), `PlayNext`, `PlayPrevious`. After too many failures the
chain ends in the error dialog, whose loop handles messages and remote commands with the list as it is; `CloseDialog` then
clears the list that is the current one by that time and gives it up. `msgs` is the queue of thread messages, `batch` those
being dispatched, `dialogs` the open dialogs, each with the rest of the batch below it. The player is three actions: it asks
for the next song, goes over to the one it was given, ends. The player may end with a file handed over, when its output
cannot be set up for that one. The users queue, insert, remove, swap, clear, shuffle, repeat, skip, jump and stop whenever
the main thread is idle and no batch is being handled. `tried` is a history variable: the songs that had their turn since
they were queued; `raced` says that a song was queued while the messages of a player that had ended were waiting.

`GetNextSong()` of this program is not XBMC's: it *removes* the song before the marker (or the marker's own when it is
the first) from the list and lets the marker fall by one, below -1 when it is called repeatedly (`MaxBack` bounds it).

### Jukebox

The accounts of both modes, with as much of the playlist player as they depend on: the size of the list, the playable
counter, the marker, the repeat state, whether the list is the current one, and the player with what it has asked for and
been handed. `PlaylistSize` is -1 when no list is the current one, which is why giving a list up with songs left renews the
whole quota. `OnQueueItem` is split where something can come between its parts: `Queue` (the addition), the chain of
`PlayOpens`, `PlayFails`, `PlayNext` and `PlayPrevious` of the playlist player, an error dialog whose loop handles the
player's messages and remote commands with the list still as it is (`CloseDialog` gives it up), and `RegisterQueue`, which
asks for the mode again. `TakeSong` is `GetNextSong()` of one list, with the branch of the repeated song. `Crash` ends the
program anywhere: memory and list are lost, the row of the database stays. Four history variables: `wasRead` (the start could
read the credits), `unpaid` (the item queued last has not been charged), `interfered` (a statement failed or a remote command
came during its sale), `disturbed` (see `ListWithinMax`).

### RandomManager

Two threads. The main one (`main`) switches the setting (`Start` and `Stop`, split at the creation of the thread and at the
join), sells songs, takes coins, handles the end of a song, and shows dialogs, also those another thread waits for. The
random manager's (`thread`) is one action per test of `DoWork`: is it active and time, does a song play, are there credits;
then the choice (files may be missing), `Add`, and `Play`, which starts the *first* song of the list, not the one added.
`m_StopWatch` is off, running or due. The list is the number of songs that wait, a song is whose choice it was. Keys restart the
watch. A thread that runs before `bActive` is set ends at once (`RandomManager.cpp:121`), as in the code.

### JobManager

`CJobManager` and one `CJobQueue` on top of it (with one job at a time, as all of its users have it). What runs under the
manager's lock is one step; a worker's completion is several: the callback is copied (`OnJobComplete`), called (`Report`, or
`ReportToQueue` which takes the queue's lock and gives the manager its next job), and the job forgotten and deleted
(`Forget`). A worker that finds no job sleeps on the auto-reset `m_jobEvent`, may time out, and looks once more under the
lock before it leaves. Jobs of the queue may be *equal* (`CJob::operator==`), and the queue finds its jobs by that.
`CancelJobs` and `WakeWorkers` are the shutdown. History variables: the jobs added, deleted and cancelled; `lost`, those an
equal one's report took off the queue's list; `straggler`, that a job was added after the shutdown.

### ApplicationMessenger

The main thread is a `stack` of frames: its loop, and above it the messages it is handling; a dialog's frame is a loop of its
own, with the same three stages (`window` messages, `message`s, `render`). Four kinds of messages stand for the some hundred:
one that acts, a dialog (in either of the two queues), and `TMSG_QUIT`, which runs `CApplication::Stop`. Stop waits for
threads at three places: for the jobs and the alarm clock before it sets `m_bStop` (`Stop`, `SetStop`), for the scanners
before `Cleanup`, which drops what is queued and wakes whoever waits, and for the player and the scripts after it (`Unload`).
`JoinedAt` says which thread is waited for where. The other threads send, leave the graphics lock, wait, and take the lock
again; those in `Drawing` may hold that lock. The main thread sends, too, between frames and from within what it handles,
also after `m_bStop`: what it would wait for is handled on the spot. Whatever is handled but `Stop`, and the drawing of any
loop, may throw: the main loop catches it, and everything on the stack is abandoned; after too many exceptions in a row the
program ends. `waitEvent` is the set of messages whose event is set.

## 3. Runs

| run | states | shows |
|---|---|---|
| `cache_circular` | 25,437 | positions, contents, no stall, back kept, refinement of `StreamWindow` |
| `file_cache` | 959,684 | a source that may fail to read and to seek, events set in two halves: the cache holds the file, the positions agree, a seek lands, the thread moves positions only for a client that waits; every call returns |
| `file_cache_event` (violation) | | an event told of twice: a seek is answered twice, and the cache goes on behind a gap |
| `playlist` | 407,596 | order values, un-shuffle, counter; refinement of `PlayOrder` |
| `player_queue` | 51,182 | songs queued while the player runs, fails and ends: none lost, overtaken, cut short or without its turn; every index that is kept stands for its song |
| `player_use` | 2,826,637 | all of the transport keys, repeat, edits, shuffle and failures between the player's messages: the marker follows its song, and a bound on the attempts |
| `jukebox` | 1,352,189 | both modes with failures, crashes, folders, dialogs, keys and repeats: credits are backed and in step, items are charged, the list is kept within its maximum until it is disturbed, the quota is released |
| `random_manager` | 16,756 | stops for good, cuts off no song it saw playing, `Stop` returns, the jukebox is not left silent |
| `job_manager` | 52,013 | number of workers, lifetime of jobs, callbacks after a cancellation, every job ends, the shutdown ends and leaves nobody |
| `job_cancel` (violation) | | a callback that comes after `CancelJob` has returned |
| `messenger` | 348,365 | each message once and in order, waiters are known and woken, the program ends |
| `messenger_quit` (violation) | | the main thread waits for a job that waits for the main thread |

Each property of a passing run has a mutant that it finds.

**Bounds.** *Circular cache*: three bytes in front of and two behind the reader, a stream of eight: it wraps at every offset, and
the front is larger than the back. *File cache*: a ring of one slot, a file of three bytes and chunks of two: a chunk never fits, so
every write is interrupted by a full cache, seeks fall inside and outside of the window, and the end is reached; `CacheCircular`
has the larger rings, and the theorems of section 4 all sizes. `AfterTwice` is explained above. *Playlist*: three items of two
paths (so one path is there twice), and orders up to three (`MaxOrder`; those of a permutation stay below two); order values of a
shuffled list go wrong with two. *Player*: three songs (one plays, one is handed over, one waits) in `player_queue`, two in
`player_use`, where the users do everything, with songs that can be exchanged for each other (symmetry; the run has no liveness).
`MaxDialogs` is one error dialog: a song that fails while one is open, when one failure more is too many, is not considered; `MaxMsgs` is the number of messages the player can post before the main thread
runs, which its own protocol keeps at two. One list: shuffling a list that is not the current one does not occur.
`MaxPlayable` bounds a counter that only `Clear` lowers. *Jukebox*: one credit, a party list of
two songs with three at most in it, folders of none or two, one dialog; `MaxOverdraft` bounds queues registered after the mode was
changed in between. *Random manager*: three songs, one of
them missing, one credit, at most two waiting. *Jobs*: two equal jobs of the queue, two others of different priority; two workers
at most, with three thread names, so that one can leave while another starts. *Messenger*: three threads,
one for each place where Stop waits. The one joined at the end sends a window message and waits or not; the one with the job sends an
action without waiting and then a dialog it waits for; the scanner an action it waits for. The main thread sends itself an
action or quits. The first two may hold the graphics lock. That is three loops deep; `messenger_quit` needs the job and the quit only.
Deadlock is not checked where users may simply stop doing anything or the program has ended.

**Fairness.** Only what the code's threads do by themselves: the main thread's loop goes on, a player thread asks before its song
ends and ends, the caching thread and a client inside a call go on, worker threads run and their jobs end, a timed wait ends
(the 30 seconds of a worker, the second of the random manager), songs end, and a person closes each dialog. A jukebox that has
crashed is started again. In
`RandomManager` chance is fair as well: the database does not fail for ever, and `rand()` does not choose missing or unplayable
songs for ever (strong fairness). Never fair: other users' actions, failures, crashes.

**What the passing runs except.** Each is a constant, or a disjunct of a property; set the constant to TRUE (or drop the
disjunct) and TLC shows what happens.

| excepted | in | without it |
|---|---|---|
| `spurious`: the thread was told of a seek it had made | `ValidDataIsTheFile`, `PositionsAgree`, `EndOfFileIsTheEnd`, `SeekLands`, `PositionIsTheClients` | run `file_cache_event` |
| `sourceFailed`: the source would not seek | `ValidDataIsTheFile`, `EndOfFileIsTheEnd` | a chunk cut for a seek that then fails leaves a gap, and wrong bytes behind it (`FileCache.cpp:272`) |
| `Unanswerable`: a seek called when the thread has ended, its answer taken by the seek before | `CallsReturn` | after a read error `OnExit` answers one seek; a later one waits for ever (`FileCache.cpp:295`, `379`) |
| `result = "timeout"` | `EndOfFileIsTheEnd` | a read answers 0 after ten seconds without data, too (`FileCache.cpp:336`) |
| `"inserted"` | `OrdersArePermutation`, `ImplementsPlayOrder` | `Insert` into a shuffled list gives the new item an order value another one has (`PlayList.cpp:62`) |
| `"removed"` | `OrdersArePermutation`, `ImplementsPlayOrder` | `Remove(path)` of two items closes one gap only (`PlayList.cpp:262`) |
| `"updated"` | `OrdersArePermutation`, `ImplementsPlayOrder` | `UpdateItem` copies the order value of its argument (`PlayList.cpp:436`) |
| `"unmarked"` | `PlayableNeverTooLow` | `UpdateItem` makes an unplayable item playable again, and the counter is not raised (`PlayList.cpp:436`) |
| `GivesUp` | `NoSongIsLost` | the list is cleared when the error dialog is closed (`PlayListPlayer.cpp:265`) |
| `raced` | the properties of `MCPlayerQueue` | a song queued while the end of the last one waits to be handled is taken for the one that ended, and dropped (`PlayListPlayer.cpp:136`) |
| `Edits = FALSE` | `MCPlayerQueue` | `IndicesStandForTheirSongs`: nothing moves `m_nextPlaylistItem` when the list is edited (`Application.cpp:4577`) |
| `NotFollowed` | `MarkerFollowsItsSong` | inserting several songs moves the marker by one (`PlayListPlayer.cpp:626`); `SetShuffle` looks the marker up in the list it shuffles (`437`) |
| `wasRead` | `CreditsAreInStep` | a start that cannot read the credits takes -1 for their number (`CoinsManager.cpp:112`) |
| `interfered` | `SongsAreCharged` | `RegisterQueue` ignores the failure of the statement; the credit is removed, or the mode set, remotely during the dialog |
| `disturbed` | `ListWithinMax` | a folder uses one queue; a song that failed is not counted; a list given up with songs left (`PlayListPlayer.cpp:149`), or that has songs before it is current, counts as none (`PartyModeManager.cpp:40`), and the full quota is added to it; the other mode has no maximum |
| a repeat state, `Silent`, `JumpTo` or `Skip` again and again | `QuotaIsReleased` | a repeated song is not taken off; the previous key, at a first song that fails, leaves the list current with nothing playing; whoever keeps choosing songs keeps any of them from ending |
| `thread = "ended"` | `SongIsChosen` | a thread that starts before `bActive` is set ends (`RandomManager.cpp:121`) |
| `thread = "dialog"` | `StopReturns` | `Stop` on the main thread joins a thread that waits for the main thread |
| `startedSince` | `PlayingSongIsNotCut` | a song that customers started since the thread looked is cut off (`RandomManager.cpp:93`) |
| `lost` | `CancelledIsSilent` | the report of a job takes an equal one off the queue's list, which is then not found when cancelled (`JobManager.cpp:76`) |
| `straggler` | `NobodyIsLeft` | a job added after the shutdown starts a worker |
| `abandoned`, `Died` | `WaitEnds` | an exception unwinds the handler, and nobody sets the event; or there have been too many and the program ends (`XBApplicationEx.cpp:85`) |
| `Stuck` | `WaitEnds`, `ProgramEnds` | Stop joins, at any of its three places, a thread that waits for the main thread; run `messenger_quit` for the first |

Two more that no property states: the playing song can be removed while the marker lags behind the player
(`GUIWindowMusicPlaylist.cpp:326`), and `OnQueueItem` charges for what it was asked to queue, also when nothing came of it: an
empty folder costs a credit or a queue (`GUIWindowJukeboxBase.cpp:667-691`), and a folder of many songs no more than that:
`SongsAreCharged` is about the item.

The three violated properties are statements of the program's own comments: "OnJobComplete will not be performed" after
`CancelJob` (`JobManager.h:89-90`), `CancelJobs` as a preparation for shutdown (`JobManager.h:193`), and `m_beg` as the
"index in file (not buffer) of beginning of valid data" (`CacheCircular.h:29`).

## 4. Proofs

Eight arguments. Except for `OnlyQueues` in the second half of `PlayListPlayerProofs`, none assumes more than the named
`ASSUME`s of the modules:

**`CacheCircularProofs`**, for every size of the front and back parts and of the file:
`WindowTheorem`, `ContentTheorem`, `NeverStallsTheorem`, `BackIsKeptTheorem`, `RefinementTheorem`. The content of the ring is
not inductive by itself: that a write leaves the valid bytes alone needs that the window is no longer than the ring and
that two positions less than its size apart have different slots. The module first proves this arithmetic of `%` and
`\div`, then the invariant (types, window, contents), then that every step is a step of `StreamWindow` or a stutter.

**`FileCacheProofs`**, for every size of the ring, the file and the chunks, with every failure: `InvariantTheorem`,
`PositionsAgreeTheorem`, `ValidDataIsTheFileTheorem`, `EndOfFileIsTheEndTheorem`, `SeekLandsTheorem`, `PositionIsTheClientsTheorem`.
The heart of the invariant is that a seek is *one token*: `m_seekEvent`, the worker's service of the seek and `m_seekEnded`
hold it in turn, one of them at a time while the client is in `Seek`, and none outside of it. So the worker moves the cache and `m_readPos`
only while the client waits for that. What the worker writes continues what is in the cache, or else a seek is on its way that will
restart the cache before anything is written; as long as that holds the cache is used as `CacheCircular` expects, and the lemmas of
`CacheCircularProofs` apply, through the `INSTANCE`.

**`PlayListProofs`**, for any paths and lists of any length: `ListStaysGood`, `OrdersStayPermutation`, `PlayableIsNeverTooLow`,
`ListImplementsPlayOrder`, under every use. The invariant `ListInv` has two halves that do not need each other: the counter is high
enough unless a mark was taken off, and, as long as the orders are intact, they are a permutation and *a list that is not shuffled
has every item in the place of its order*, which is why inserting there keeps the permutation and why both orders of such a list are
one. `Queue(v, n, q)` says that
the orders of a vector spell the sequence `q`; there is exactly one such `q` (a permutation of `0 .. n - 1` has every order, by
counting), so that for each operation it is enough to name the sequence that is spelled afterwards. That `UnShuffle` gives the
queued order back is then a fact about sorting: `n` different orders below `n` that never fall are `0 .. n - 1`.

**`JukeboxProofs`**, for all settings and bounds: `CreditsAreBackedTheorem`, `CreditsAreInStepTheorem`, `TypeTheorem`,
`SongsAreChargedTheorem`, `ListWithinMaxTheorem`. `AccountOK` adds to the properties that after a start that read the credits both sides
are *equal*, which is why `RemoveCoin`, bounded by `m_coins`, cannot take the row below zero. `TypeOK` is proved in two parts, `Numbers`
and `Flags`. `HandlerOK` says where a sale stands: it is open only while its handler runs or a dialog above it is open. `SaleOK` then
says that while an item is being queued its credit is still there, unless the sale was interfered with; `QuotaOK` that, until the
list is disturbed, songs and queues still allowed together stay within the maximum, songs stand in the current list only, and the
counter the quota is computed from is not below their number.

**`JobManagerProofs`**, for any jobs, priorities and numbers of workers: `InvariantTheorem`, `WorkersWithinLimitTheorem`,
`JobsAreAliveTheorem`, `NobodyIsLeftTheorem`, `CancelledIsSilentTheorem`. *Each job is in one place*: in the queue's list, or in exactly
one of the manager's lists, or with one worker, or deleted; and a job with a worker is in `m_processing` until it is forgotten.
`JobsAreAlive` alone is not inductive: a job that waits in the queue could be handed to the manager twice. `Staffed` says that a
manager that does not run starts no worker, and has none at the end of the shutdown. For the cancellation, `Noted` says which job of
the queue a report may still come of: the one the queue has noted as given to the manager, unless it was lost to an equal one;
`CancelJob` of the manager then finds that job wherever it is.

**`PlayListPlayerProofs`**, for any songs, lists, bounds and number of retries. Of *every* use the run `player_use` has:
`TypesHold` (each list has its songs once, under all of its operations), `AttemptsAreBoundedTheorem` (what failed in the handler is
not more than what failed in a row), `MarkerFollowsItsSongTheorem`. Of users who only queue songs (`OnlyQueues`, the constants of the
run `player_queue`): `QueueHolds`, `IndicesStandTheorem`, `NoSongIsLostTheorem`, `PlaysInOrderTheorem`, `NoSongIsCutShortTheorem`.
The invariant `QueueInv` behind these relates the messages that wait, dispatched or not (`Waiting`), to the player. While a song
plays they are one of four sequences, depending on whether it has asked for the next song; the marker, or where the message in
front will move it (`Marker`), is on that song, or at -1 because that song was the first and was taken off; and a file handed over is
the song after it. After it has ended, its end waits behind whatever it had said before, or a handler is going on to the next
song, or the list has been given up, when every song has had its turn (which needs that the playable counter is never too low);
or an error dialog is open above an empty batch, nothing plays, and at most the message of a stop waits (`InDialog`).
The properties are not inductive without the order of the messages: were `queueNext` handled before the `started` of the same
song, the index that moves the marker would be that of the list before it was shortened.

**`RandomManagerProofs`**, for any songs and bounds: `StoppedForGoodTheorem`, `PlayingSongIsNotCutTheorem`. The thread belongs to the
setting (`Owned`: it exists only between `Create` and `Join`), and what it saw still holds unless the main thread has started a
song since (`Seen`).

**`ApplicationMessengerProofs`**, for any threads and messages: `InvariantTheorem`, `EachOnceTheorem`, `WaitersAreKnownTheorem`,
`InOrderTheorem`. A message is in one of five places (a queue, the stack, and, for good, handled, dropped or abandoned), and the
messages of a sender in all five are *counted*: their numbers are at most what it has sent, so that a message sent now is new and
the last of its sender. That alone keeps the queues sorted and free of duplicates when nested loops take from them. A waiting
sender's message leaves the queues and the stack only together with its event, or by an exception.

Only model-checked: all liveness (`CallsReturn`, `EverySongHasItsTurn`, `QuotaIsReleased`, `StopReturns`, `SongIsChosen`,
`EveryJobEnds`, `ShutdownEnds`, `WaitEnds`, `ProgramEnds`), which is beyond this prover. Every other property of a passing
run is stated by a theorem.

## 5. Not modelled, and simplifications

* Playlist player: stacks of video parts, plug-in items, playlist files that expand while playing, XBMC's own party mode,
  crossfading (two players at once). Songs are pairwise different in the player's runs. `PlayFile` is one step: a player
  thread that ends within the few instructions after `m_bPlaybackStarting` is reset (`Application.cpp:3907`) is not there.
  `Retries` is at least 1: a negative `m_playlistRetries`, which switches the bound off, is left out, and then a repeated list of
  songs that all fail is bounded by `m_playlistTimeout` only (`PlayListPlayer.cpp:254-255`).
* File cache: rates, the read limiter, the seek cache. One client. The lock of `CacheCircular` is taken for granted.
* Jukebox: which song of the list failed is not kept, so `PlayFails` may mark a song or find it marked, and whether a failure is one
  too many (`m_iFailedSongs`) is a choice. While a dialog is open the player's messages, the commands of the accounts and the mode
  are handled, but no keys of a remote control. The songs the random manager adds are in `RandomManager`; here they would
  lengthen the list without using the quota. `EraseSong` and `m_iErasesAvaiable` (no caller), `prepaid`, `total`, `cont` of the row: `ProfessionalDatabase.cpp:74` and
  `93` give two `%i` one argument, so `cont` is arbitrary, and it is never read. With XBMC's party mode on, `OnQueueItem`
  returns before it charges: that mode is off here. The setting "Tempo de espera (minutos)"
  (`language/Portuguese (Brazil)/strings.xml:2429`) is used as a number of songs by `UpdateParams`; the model follows the code.
* Random manager: the list is a number; which song is first is a choice between "a customer's" and "its own".
* Job manager: `OnJobProgress`, queues that run several jobs at once (none does).
* Messenger: the contents of messages; the number of exceptions in a row that ends the main loop (it may end after any); an exception thrown by `Stop` before `Cleanup` (who waits then waits for the destructor).
* `CSharedSection` and the lock-free containers: no modelled component uses them. The video player's message queue: a jukebox
  plays music. Memory errors, data races on plain words (`m_readPos`), and the C++ memory model, except where a step is split.

The map covers a small share of the repository: of its 2.4 million lines all but a few thousand are vendored libraries,
codecs, file formats and XBMC's shell, without state that threads or sessions share.

## 6. Plan

1. A refinement of `PlayFile` in `PlayListPlayer` into its steps, for the announcement of the end that comes twice; two lists.
2. `DVDMessageQueue` (priorities, abort, flush), `LockFree` (version counters against re-used nodes), `SimpleFileCache` as a
   second implementation of `StreamWindow`.
3. The safety halves of the liveness properties as theorems: whoever waits in a call has somebody whose step ends the wait.
