------------------------------ MODULE FileCache ------------------------------
(***************************************************************************)
(* XFILE::CFileCache (xbmc/filesystem/FileCache.cpp) over a CCacheCircular:   *)
(* a worker thread (Process) reads the source ahead into the cache while the *)
(* client that opened the file reads, seeks and closes.                      *)
(*                                                                         *)
(* The client's calls are serialised by m_sync, so there is one client; the  *)
(* worker takes no CFileCache lock, so its steps interleave with the         *)
(* client's.  m_seekEvent and m_seekEnded are auto-reset CEvents, each with   *)
(* one waiting thread: a wait that succeeds consumes the event.  CEvent::Set  *)
(* (threads/Event.cpp) sets the flag and then, under another lock, tells the  *)
(* groups that wait for it; the worker waits in a group of m_seekEvent and    *)
(* the thread's stop event, at the end of the source only.                   *)
(*                                                                         *)
(* Left out: the rate limiter (a wait that ends on its own and puts back the *)
(* m_seekEvent it consumes), and m_writePos, m_cacheFull and the write rates *)
(* it and the status display use.  The timed waits on m_space and m_written   *)
(* poll, so those events decide nothing.                                     *)
(***************************************************************************)
EXTENDS Integers, Sequences

CONSTANTS Front, Back, FileLen,   (* of the CCacheCircular                   *)
          ChunkSize,              (* most bytes one read of the source gives *)
          ReadFails,              (* can a read of the source fail?          *)
          SeekFails,              (* can a seek of the source fail?          *)
          AfterTwice              (* bound: does the client go on after a    *)
                                  (* seek made twice (see "spurious")?       *)

ASSUME FileCacheAssumption ==
  /\ Front \in Nat \ {0} /\ Back \in Nat /\ FileLen \in Nat
  /\ ChunkSize \in Nat \ {0}
  /\ ReadFails \in BOOLEAN /\ SeekFails \in BOOLEAN /\ AfterTwice \in BOOLEAN

VARIABLES
  m_beg, m_end, m_cur, m_buf, m_out,   \* the CCacheCircular
  m_bEndOfInput,   \* the strategy's end of input flag
  m_bStop,         \* CThread's stop request
  m_StopEvent,     \* CThread's stop event
  m_seekEvent,     \* a seek of the source is wanted
  m_seekEnded,     \* it has been made
  m_seekPos,       \* where to
  m_nSeekResult,   \* what came of it
  m_seekPossible,  \* what the source says of seeking
  m_readPos,       \* the client's position in the file
  source,          \* position of the source file
  chunk,           \* the part of the worker's buffer that is not yet written
  worker,          \* where the worker is in Process
  client,          \* the client's call and where it is
  result,          \* what the client's last call returned, and for the 0 of
                   \* Read why: "eof" or "timeout" (a history, see ReturnedZero)
  group,           \* the event the worker's CEventGroup was told of
  spurious,        \* history: it was told of one that had been consumed
  sourceFailed     \* history: the source has failed to seek

cache == <<m_beg, m_end, m_cur, m_buf, m_out>>
seeking == <<m_seekPos, m_nSeekResult, m_seekPossible>>
stopping == <<m_bStop, m_StopEvent>>
events == <<m_seekEvent, m_seekEnded>>
input == <<source, chunk, sourceFailed>>
waiting == <<group, spurious>>
calling == <<client, result>>
fcvars == <<cache, m_bEndOfInput, stopping, events, seeking, m_readPos, input, worker, waiting, calling>>

Cache == INSTANCE CacheCircular

Refused == -1                    \* CACHE_RC_ERROR, or a failed seek
NoChunk == [first |-> 0, left |-> 0]
Idle == [call |-> "none", arg |-> 0]

-----------------------------------------------------------------------------
\* CFileCache::Open of a source that can seek, up to the start of the worker.
Init ==
  /\ Cache!Init
  /\ m_bEndOfInput = FALSE
  /\ m_bStop = FALSE /\ m_StopEvent = FALSE
  /\ m_seekEvent = FALSE /\ m_seekEnded = FALSE
  /\ m_seekPos = 0 /\ m_nSeekResult = 0 /\ m_seekPossible = TRUE
  /\ m_readPos = 0
  /\ source = 0 /\ chunk = NoChunk
  /\ worker = "top" /\ client = Idle /\ result = "none"
  /\ group = "none" /\ spurious = FALSE
  /\ sourceFailed = FALSE

-----------------------------------------------------------------------------
(* The worker: CFileCache::Process and OnExit                                *)

At(from, to) == worker = from /\ worker' = to

\* while (!m_bStop)
Top ==
  /\ At("top", IF m_bStop THEN "exit" ELSE "poll")
  /\ UNCHANGED <<cache, m_bEndOfInput, stopping, events, seeking, m_readPos, input, waiting, calling>>

\* Mutated form: the poll does not consume the event.
PollSeekKeepsEvent ==
  /\ At("poll", IF m_seekEvent THEN "seek" ELSE "read")
  /\ UNCHANGED <<cache, m_bEndOfInput, stopping, events, seeking, m_readPos, input, waiting, calling>>

\* m_seekEvent.WaitMSec(0) and Reset
PollSeek ==
  /\ At("poll", IF m_seekEvent THEN "seek" ELSE "read")
  /\ m_seekEvent' = FALSE
  /\ UNCHANGED <<cache, m_bEndOfInput, stopping, m_seekEnded, seeking, m_readPos, input, waiting, calling>>

\* m_source.Seek that succeeds.
SourceSeek ==
  /\ At("seek", "sought")
  /\ source' = m_seekPos
  /\ m_nSeekResult' = m_seekPos
  /\ UNCHANGED <<cache, m_bEndOfInput, stopping, events, m_seekPos, m_seekPossible, m_readPos,
                 chunk, sourceFailed, waiting, calling>>

\* m_source.Seek that fails.
SourceSeekFails ==
  /\ SeekFails
  /\ At("seek", "sought")
  /\ m_nSeekResult' = Refused
  /\ sourceFailed' = TRUE
  /\ UNCHANGED <<cache, m_bEndOfInput, stopping, events, m_seekPos, m_seekPossible, m_readPos,
                 source, chunk, waiting, calling>>

\* The result is not the position wanted: the source is asked again whether it can seek.
Refuse ==
  /\ At("sought", "answer")
  /\ m_nSeekResult # m_seekPos
  /\ m_seekPossible' \in IF SeekFails THEN BOOLEAN ELSE {m_seekPossible}
  /\ UNCHANGED <<cache, m_bEndOfInput, stopping, events, m_seekPos, m_nSeekResult, m_readPos, input,
                 waiting, calling>>

\* Mutated form: the cache goes on where it was.
KeepCache ==
  /\ At("sought", "moved")
  /\ m_nSeekResult = m_seekPos
  /\ UNCHANGED <<cache, m_bEndOfInput, stopping, events, seeking, m_readPos, input, waiting, calling>>

\* It is: the cache restarts there.
RestartCache ==
  /\ At("sought", "moved")
  /\ m_nSeekResult = m_seekPos
  /\ Cache!Reset(m_seekPos)
  /\ UNCHANGED <<m_bEndOfInput, stopping, events, seeking, m_readPos, input, waiting, calling>>

\* Mutated form: the client's position is not set.
KeepReadPos ==
  /\ At("moved", "answer")
  /\ UNCHANGED <<cache, m_bEndOfInput, stopping, events, seeking, m_readPos, input, waiting, calling>>

\* ... and so does the client, by m_readPos.
MoveReadPos ==
  /\ At("moved", "answer")
  /\ m_readPos' = m_seekPos
  /\ UNCHANGED <<cache, m_bEndOfInput, stopping, events, seeking, input, waiting, calling>>

\* m_seekEnded.Set()
Answer ==
  /\ At("answer", "read")
  /\ m_seekEnded' = TRUE
  /\ UNCHANGED <<cache, m_bEndOfInput, stopping, m_seekEvent, seeking, m_readPos, input, waiting, calling>>

\* m_source.Read that returns data, at most ChunkSize bytes of it.
SourceRead ==
  /\ At("read", "write")
  /\ \E n \in 1 .. ChunkSize :
       /\ source + n <= FileLen
       /\ chunk' = [first |-> source, left |-> n]
       /\ source' = source + n
  /\ UNCHANGED <<cache, m_bEndOfInput, stopping, events, seeking, m_readPos, sourceFailed, waiting, calling>>

\* m_source.Read that returns 0.
SourceEnds ==
  /\ At("read", "eof")
  /\ source = FileLen
  /\ m_bEndOfInput' = TRUE
  /\ UNCHANGED <<cache, stopping, events, seeking, m_readPos, input, waiting, calling>>

\* m_source.Read that fails.
SourceReadFails ==
  /\ ReadFails
  /\ At("read", "top")
  /\ m_bStop' = TRUE
  /\ UNCHANGED <<cache, m_bEndOfInput, m_StopEvent, events, seeking, m_readPos, input, waiting, calling>>

\* AbortableWait(m_seekEvent) at the end of the source: the group is made, its
\* events are looked at, and if none is set the worker sleeps until it is told.
Sleep ==
  /\ At("eof", "asleep")
  /\ ~m_seekEvent /\ ~m_StopEvent
  /\ UNCHANGED <<cache, m_bEndOfInput, stopping, events, seeking, m_readPos, input, waiting,
                 calling>>

\* The wait is over for this event (m_seekEvent is looked at first).
WaitEnds(to) ==
  \/ worker = "eof" /\ to = "seek" /\ m_seekEvent
  \/ worker = "eof" /\ to = "stop" /\ ~m_seekEvent /\ m_StopEvent
  \/ worker = "asleep" /\ to = group

\* Mutated form: the end of the input is not cleared.
EofSeekKeepsEnd ==
  /\ WaitEnds("seek")
  /\ worker' = "top"
  /\ group' = "none"
  /\ m_seekEvent' = TRUE
  /\ UNCHANGED <<cache, m_bEndOfInput, stopping, m_seekEnded, seeking, m_readPos, input, spurious,
                 calling>>

\* The wait ended by a seek, whose event is consumed, if it is still set, and set
\* again for the poll to find.
EofSeek ==
  /\ WaitEnds("seek")
  /\ worker' = "top"
  /\ group' = "none"
  /\ m_bEndOfInput' = FALSE
  /\ m_seekEvent' = TRUE
  /\ spurious' = (spurious \/ ~m_seekEvent)
  /\ UNCHANGED <<cache, stopping, m_seekEnded, seeking, m_readPos, input, calling>>

\* The wait ended by the stop event, which is reset by hand.
EofStop ==
  /\ WaitEnds("stop")
  /\ worker' = "exit"
  /\ group' = "none"
  /\ UNCHANGED <<cache, m_bEndOfInput, stopping, events, seeking, m_readPos, input, spurious,
                 calling>>

\* One turn of the write loop, and what it does with a stop request.
WriteChunk ==
  LET n == Cache!Accepted(chunk.left) IN
  /\ At("write", "written")
  /\ ~m_bStop
  /\ IF n > 0 THEN Cache!WriteToCache(chunk.first, chunk.left)
              ELSE UNCHANGED cache
  /\ chunk' = [first |-> chunk.first + n, left |-> chunk.left - n]
  /\ UNCHANGED <<m_bEndOfInput, stopping, events, seeking, m_readPos, source, sourceFailed,
                 waiting, calling>>

WriteStopped ==
  /\ At("write", "top")
  /\ m_bStop
  /\ chunk' = NoChunk
  /\ UNCHANGED <<cache, m_bEndOfInput, stopping, events, seeking, m_readPos, source, sourceFailed,
                 waiting, calling>>

\* Mutated form: no look at the seek event while a chunk is written.
WriteNextIgnoresSeek ==
  /\ At("written", IF chunk.left = 0 THEN "top" ELSE "write")
  /\ UNCHANGED <<cache, m_bEndOfInput, stopping, events, seeking, m_readPos, input, waiting, calling>>

\* After a write: a wanted seek ends the loop, whatever is left of the chunk.
WriteNext ==
  /\ At("written", IF m_seekEvent \/ chunk.left = 0 THEN "top" ELSE "write")
  /\ chunk' = IF m_seekEvent \/ chunk.left = 0 THEN NoChunk ELSE chunk
  /\ UNCHANGED <<cache, m_bEndOfInput, stopping, events, seeking, m_readPos, source, sourceFailed,
                 waiting, calling>>

\* Mutated form: a seek that waits is not answered.
OnExitLeavesSeek ==
  /\ At("exit", "done")
  /\ m_bStop' = TRUE
  /\ m_bEndOfInput' = TRUE
  /\ UNCHANGED <<cache, m_StopEvent, m_seekEvent, m_seekEnded, seeking, m_readPos, input, waiting,
                 calling>>

\* CFileCache::OnExit
OnExit ==
  /\ At("exit", "done")
  /\ m_bStop' = TRUE
  /\ m_bEndOfInput' = TRUE
  /\ m_seekEnded' = TRUE
  /\ UNCHANGED <<cache, m_StopEvent, m_seekEvent, seeking, m_readPos, input, waiting, calling>>

Worker ==
  \/ Top \/ PollSeek
  \/ SourceSeek \/ SourceSeekFails \/ Refuse \/ RestartCache \/ MoveReadPos \/ Answer
  \/ SourceRead \/ SourceEnds \/ SourceReadFails \/ Sleep \/ EofSeek \/ EofStop
  \/ WriteChunk \/ WriteStopped \/ WriteNext \/ OnExit

-----------------------------------------------------------------------------
(* The client: Read, Seek and Close                                          *)

Call(name, arg) == client = Idle /\ client' = [call |-> name, arg |-> arg]
In(name) == client.call = name
Goto(name) == client' = [client EXCEPT !.call = name]
Return(r) == client' = Idle /\ result' = r

workerOwned == <<m_bEndOfInput, stopping, input, waiting, worker>>

\* Bound: how far a client is followed that a seek was made twice for.
Followed == spurious => AfterTwice

ReadCall ==
  /\ Followed
  /\ \E len \in 1 .. ChunkSize : Call("read", len)
  /\ UNCHANGED <<cache, workerOwned, events, seeking, m_readPos, result>>

\* ReadFromCache with something there ...
ReadData ==
  /\ In("read")
  /\ Cache!ReadFromCache(client.arg)
  /\ client' = [call |-> "got", arg |-> m_cur' - m_cur]
  /\ UNCHANGED <<workerOwned, events, seeking, m_readPos, result>>

\* ... and m_readPos follows.
ReadReturn ==
  /\ In("got")
  /\ m_readPos' = m_readPos + client.arg
  /\ Return("data")
  /\ UNCHANGED <<cache, workerOwned, events, seeking>>

\* ReadFromCache with nothing there: the end, or a reason to wait.
ReadNothing ==
  /\ In("read")
  /\ Cache!Available = 0
  /\ IF m_bEndOfInput THEN Return("eof")
                      ELSE Goto("wait") /\ UNCHANGED result
  /\ UNCHANGED <<cache, workerOwned, events, seeking, m_readPos>>

\* WaitForData(1, 10000): data, the end of the input, or ten seconds; Read returns
\* 0 for the last two.
WaitForData ==
  /\ In("wait")
  /\ IF m_end > m_cur
       THEN Goto("read") /\ UNCHANGED result
       ELSE Return(IF m_bEndOfInput THEN "eof" ELSE "timeout")
  /\ UNCHANGED <<cache, workerOwned, events, seeking, m_readPos>>

\* Seek to another position than the present one (which returns at once).
SeekCall ==
  /\ Followed
  /\ \E pos \in (0 .. FileLen) \ {m_readPos} : Call("seek", pos)
  /\ UNCHANGED <<cache, workerOwned, events, seeking, m_readPos, result>>

\* m_pCache->Seek has the position, perhaps after waiting for it.
SeekInCache ==
  /\ In("seek")
  /\ Cache!Seek(client.arg)
  /\ m_nSeekResult' = client.arg
  /\ Goto("found")
  /\ UNCHANGED <<workerOwned, events, m_seekPos, m_seekPossible, m_readPos, result>>

\* What Seek returns.
SeekResult == Return(IF m_nSeekResult = client.arg THEN "sought" ELSE "seekFailed")

\* Mutated form: the strategy moves, the file does not.
FoundKeepsReadPos ==
  /\ In("found")
  /\ SeekResult
  /\ UNCHANGED <<cache, workerOwned, events, seeking, m_readPos>>

Found ==
  /\ In("found")
  /\ m_readPos' = client.arg
  /\ SeekResult
  /\ UNCHANGED <<cache, workerOwned, events, seeking>>

\* m_pCache->Seek has not: the worker is asked, when the source can seek.  The
\* first half of m_seekEvent.Set().
SeekMisses ==
  /\ In("seek")
  /\ ~Cache!Holds(client.arg)
  /\ IF m_seekPossible
       THEN /\ m_seekPos' = client.arg
            /\ m_seekEvent' = TRUE
            /\ Goto("seekSet")
            /\ UNCHANGED result
       ELSE /\ Return("seekFailed")
            /\ UNCHANGED <<m_seekEvent, m_seekPos>>
  /\ m_nSeekResult' = Refused
  /\ UNCHANGED <<cache, workerOwned, m_seekEnded, m_seekPossible, m_readPos>>

\* CEventGroup::Set, of a group that someone waits in.
Tell(event) == group' = IF worker = "asleep" THEN event ELSE group

\* The second half: the groups are told.
SeekTells ==
  /\ In("seekSet")
  /\ Tell("seek")
  /\ Goto("seekWait")
  /\ UNCHANGED <<cache, m_bEndOfInput, stopping, input, worker, spurious, events, seeking,
                 m_readPos, result>>

\* m_seekEnded.Wait() ends.
SeekAnswered ==
  /\ In("seekWait")
  /\ m_seekEnded
  /\ m_seekEnded' = FALSE
  /\ Goto("seekReset")
  /\ UNCHANGED <<cache, workerOwned, m_seekEvent, seeking, m_readPos, result>>

\* m_seekEvent.Reset() and the return of m_nSeekResult.
SeekReturn ==
  /\ In("seekReset")
  /\ m_seekEvent' = FALSE
  /\ SeekResult
  /\ UNCHANGED <<cache, workerOwned, m_seekEnded, seeking, m_readPos>>

\* Close: StopThread sets m_seekEvent, then the stop event, each in two halves.
CloseCall ==
  /\ Call("close", 0)
  /\ m_bStop' = TRUE
  /\ m_seekEvent' = TRUE
  /\ UNCHANGED <<cache, m_bEndOfInput, m_StopEvent, m_seekEnded, seeking, m_readPos, input, worker,
                 waiting, result>>

CloseTells ==
  /\ In("close")
  /\ Tell("seek")
  /\ m_StopEvent' = TRUE
  /\ Goto("closeSet")
  /\ UNCHANGED <<cache, m_bEndOfInput, m_bStop, input, worker, spurious, events, seeking, m_readPos,
                 result>>

StopTells ==
  /\ In("closeSet")
  /\ Tell("stop")
  /\ Goto("join")
  /\ UNCHANGED <<cache, m_bEndOfInput, stopping, input, worker, spurious, events, seeking, m_readPos,
                 result>>

\* The join with the worker.
Join ==
  /\ In("join")
  /\ worker = "done"
  /\ Goto("closed")
  /\ UNCHANGED <<cache, workerOwned, events, seeking, m_readPos, result>>

InCall ==
  \/ ReadData \/ ReadReturn \/ ReadNothing \/ WaitForData
  \/ SeekInCache \/ Found \/ SeekMisses \/ SeekTells \/ SeekAnswered \/ SeekReturn
  \/ CloseTells \/ StopTells \/ Join

Client == ReadCall \/ SeekCall \/ CloseCall \/ InCall

-----------------------------------------------------------------------------
Next == Worker \/ Client

\* The worker thread is scheduled, and a call that can go on goes on (a timed
\* wait of the client ends by itself); nothing makes the client call again.
Fairness == WF_fcvars(Worker) /\ WF_fcvars(InCall)

Spec == Init /\ [][Next]_fcvars
FairSpec == Spec /\ Fairness

-----------------------------------------------------------------------------
(***************************************************************************)
(* "index in file (not buffer) of beginning / end of valid data"             *)
(* (CacheCircular.h:29-30): the bytes between m_beg and m_end are those of    *)
(* the file at these positions, whatever the worker dropped or restarted.    *)
(* It holds until the source refuses a seek: the chunk that was being written *)
(* has been cut for it by then (FileCache.cpp:272), and reading goes on       *)
(* behind the gap.                                                           *)
(***************************************************************************)
BytesAreTheFile == ~sourceFailed => Cache!ContentOK

(***************************************************************************)
(* The same, as long as the thread was not told of a seek it had made (see    *)
(* PositionIsTheClients): the answer it then gives once more releases the     *)
(* next seek too early, which resets the event a chunk has been cut for.      *)
(***************************************************************************)
ValidDataIsTheFile == ~spurious => BytesAreTheFile

(***************************************************************************)
(* Between calls, the position CFileCache reports and seeks from (m_readPos,  *)
(* kept by both threads without a common lock) is the one the strategy reads  *)
(* at, with the same exception.                                              *)
(***************************************************************************)
PositionsAgree == client = Idle /\ ~spurious => m_readPos = m_cur

(***************************************************************************)
(* The caching thread moves the client's position only while the client       *)
(* waits for it in Seek.  The exception: the thread served the seek between   *)
(* the two halves of m_seekEvent.Set() and sleeps at the end of the source by *)
(* the time it is told of it; "hack so that later we realize seek is needed"  *)
(* (FileCache.cpp:237) then makes the seek once more, under a client that has *)
(* gone on.                                                                   *)
(***************************************************************************)
PositionIsTheClients ==
  [][(UNCHANGED calling /\ client.call \in {"none", "read", "got", "wait", "seek", "found", "seekReset"} /\ ~spurious)
       => UNCHANGED <<m_readPos, m_cur>>]_fcvars

(***************************************************************************)
(* Read returns 0 for the end of the input, and for ten seconds without data  *)
(* just the same (FileCache.cpp:336-343).  A 0 that no timeout is behind says *)
(* that the source is at its end, or the worker has given up, or (see above)  *)
(* the source has refused a seek or one has been made twice: the flag of the  *)
(* end never outlives the seek that ended it.                                *)
(***************************************************************************)
ReturnedZero == result \in {"eof", "timeout"}

EndOfFileIsTheEnd ==
  client = Idle /\ ReturnedZero
    => m_cur = FileLen \/ m_bStop \/ result = "timeout" \/ sourceFailed \/ spurious

(***************************************************************************)
(* A seek reported done left both positions where it was asked to go, with    *)
(* the same exception.                                                       *)
(***************************************************************************)
SeekLands ==
  [][In("seekReset") \/ In("found") =>
       (result' = "sought" /\ client' = Idle /\ ~spurious
          => m_cur' = client.arg /\ m_readPos' = client.arg)]_fcvars

(***************************************************************************)
(* Every call returns: Read, though the source may give nothing for ever;     *)
(* Seek, wherever the thread is and also if it ends while Seek waits ("just   *)
(* in case someone's waiting", FileCache.cpp:295); and Close gets its thread  *)
(* to end wherever that is, in the wait at the end of the source, at a full   *)
(* cache or half way in a seek.  The exception is a seek that is called when  *)
(* the thread has ended already, and its last answer has been taken by the    *)
(* seek before.                                                              *)
(***************************************************************************)
Returned == client = Idle \/ In("closed")

Unanswerable == In("seekWait") /\ worker = "done" /\ ~m_seekEnded

CallsReturn ==
  /\ (~Returned /\ worker # "done") ~> Returned
  /\ ~Returned ~> (Returned \/ Unanswerable)

=============================================================================
