--------------------------- MODULE FileCacheProofs ---------------------------
(***************************************************************************)
(* Proofs about FileCache for every size of the cache, the file and the     *)
(* chunks, whatever the source refuses and whenever the file is closed.     *)
(*                                                                         *)
(* The argument.  m_seekEvent, the worker's service of a seek and            *)
(* m_seekEnded are one token: while the client is in Seek it is in at most   *)
(* one of these places, and otherwise in none (Handshake).  So the worker    *)
(* moves the cache and m_readPos only while the client waits for that, and   *)
(* the two positions agree when it goes on (Positions).  What the worker     *)
(* writes continues what is in the cache, or else a seek is on its way that  *)
(* will restart the cache before anything else is written (Data); as long as *)
(* this holds the cache is used as CacheCircular expects, and its invariant  *)
(* is the one proved in CacheCircularProofs.                                 *)
(***************************************************************************)
EXTENDS FileCache, TLAPS

Ring == INSTANCE CacheCircularProofs

Asking == client.call \in {"seekSet", "seekWait"}
Closing == client.call \in {"close", "closeSet", "join", "closed"}
Serving == worker \in {"seek", "sought", "moved", "answer"}
Gone == worker = "done"

Calls == {"none", "read", "got", "wait", "seek", "found", "seekSet", "seekWait", "seekReset",
          "close", "closeSet", "join", "closed"}

Types ==
  /\ m_bEndOfInput \in BOOLEAN /\ m_bStop \in BOOLEAN /\ m_StopEvent \in BOOLEAN
  /\ m_seekEvent \in BOOLEAN /\ m_seekEnded \in BOOLEAN
  /\ sourceFailed \in BOOLEAN /\ spurious \in BOOLEAN
  /\ m_beg \in Int /\ m_cur \in Int /\ m_end \in Int /\ m_readPos \in Int
  /\ m_seekPos \in 0 .. FileLen
  /\ source \in 0 .. FileLen
  /\ chunk \in [first : Int, left : Int]
  /\ client \in [call : Calls, arg : Int]
  /\ client.call \in {"read", "wait"} => client.arg \in Nat
  /\ client.call = "seek" => client.arg \in 0 .. FileLen

\* A stop has been asked for, if it is acted on.
Stops == (Closing \/ m_StopEvent \/ group = "stop" \/ worker \in {"exit", "done"}) => m_bStop

Handshake ==
  /\ m_seekEvent => Asking \/ Closing \/ Gone
  /\ Serving => (Asking /\ ~m_seekEvent /\ ~m_seekEnded) \/ Closing
  /\ m_seekEnded => (Asking /\ ~m_seekEvent /\ ~Serving) \/ Closing \/ Gone

Positions ==
  ~Closing =>
    /\ client.call = "got" => m_cur = m_readPos + client.arg
    /\ client.call = "found" => m_cur = client.arg
    /\ client.call \notin {"got", "found"} /\ worker # "moved" => m_readPos = m_cur
    /\ worker = "moved" => m_cur = m_seekPos
    /\ Asking \/ client.call = "seekReset" =>
         /\ m_seekPos = client.arg
         /\ m_nSeekResult = client.arg /\ worker \notin {"sought", "moved"} => m_cur = client.arg

\* Where the worker goes on reading, and what it has read, next to the cache.
Reading ==
  /\ worker \in {"write", "written"} =>
       /\ chunk.left \in Nat /\ chunk.first = m_end /\ source = m_end + chunk.left
       /\ worker = "write" => chunk.left > 0
  /\ worker \in {"moved", "answer", "read", "eof", "asleep"} => source = m_end
  /\ worker = "poll" => source = m_end \/ (m_seekEvent /\ Asking)
  /\ worker = "top" => source = m_end \/ (m_seekEvent /\ Asking) \/ m_bStop
  /\ worker = "sought" => source = m_seekPos /\ m_nSeekResult = m_seekPos

Data == Ring!IInv /\ Reading

End ==
  /\ m_bEndOfInput /\ ~m_bStop => worker \in {"eof", "asleep"} /\ m_end = FileLen
  /\ client = Idle /\ result = "eof" => m_cur = FileLen \/ m_bStop

IInv ==
  /\ Types /\ Stops
  /\ ~spurious => Handshake /\ Positions
  /\ ~spurious /\ ~sourceFailed => Data /\ End
-----------------------------------------------------------------------------
(* Types *)

\* The ring has at least one slot.
LEMMA SizeType == Cache!m_size \in Nat \ {0}
BY FileCacheAssumption DEF FileCacheAssumption, Cache!m_size

\* What the ring takes of a chunk is a number.
LEMMA AcceptedType ==
  ASSUME Types
  PROVE  Cache!Accepted(chunk.left) \in Int
<1>1. m_end % Cache!m_size \in Int /\ Cache!m_size \in Int /\ chunk.left \in Int
  BY SizeType DEF Types
<1>2. Cache!Limit \in Int
  BY <1>1, FileCacheAssumption DEF FileCacheAssumption, Types, Cache!Limit, Cache!Least
<1>3. QED
  BY <1>1, <1>2 DEF Cache!Accepted, Cache!Least

\* What one read of the ring can copy is a number.
LEMMA AvailableType == ASSUME Types PROVE Cache!Available \in Int
BY SizeType DEF Types, Cache!Available, Cache!Least

\* Every step of the worker keeps the variables in their types.
LEMMA TypesWorker ==
  ASSUME Types, Worker
  PROVE  Types'
<1> USE FileCacheAssumption DEF FileCacheAssumption, Types, At, In, Call, Goto, Return,
           Idle, NoChunk, Refused, cache, seeking, stopping, events, input, waiting,
           calling, workerOwned
<1>1. CASE Top
  BY <1>1 DEF Top
<1>2. CASE PollSeek
  BY <1>2 DEF PollSeek
<1>3. CASE SourceSeek
  BY <1>3 DEF SourceSeek
<1>4. CASE SourceSeekFails
  BY <1>4 DEF SourceSeekFails
<1>5. CASE Refuse
  BY <1>5 DEF Refuse
<1>6. CASE RestartCache
  BY <1>6 DEF RestartCache, Cache!Reset
<1>7. CASE MoveReadPos
  BY <1>7 DEF MoveReadPos
<1>8. CASE Answer
  BY <1>8 DEF Answer
<1>9. CASE SourceRead
  BY <1>9 DEF SourceRead
<1>10. CASE SourceEnds
  BY <1>10 DEF SourceEnds
<1>11. CASE SourceReadFails
  BY <1>11 DEF SourceReadFails
<1>12. CASE Sleep
  BY <1>12 DEF Sleep
<1>13. CASE EofSeek
  BY <1>13 DEF EofSeek, WaitEnds
<1>14. CASE EofStop
  BY <1>14 DEF EofStop, WaitEnds
<1>15. CASE WriteChunk
  <2>1. m_beg' \in Int /\ m_cur' \in Int /\ m_end' \in Int
    BY <1>15, AcceptedType, SizeType DEF WriteChunk, Cache!WriteToCache
  <2>2. chunk' \in [first : Int, left : Int]
    BY <1>15, AcceptedType DEF WriteChunk
  <2>3. QED
    BY <1>15, <2>1, <2>2 DEF WriteChunk
<1>16. CASE WriteStopped
  BY <1>16 DEF WriteStopped
<1>17. CASE WriteNext
  BY <1>17 DEF WriteNext
<1>18. CASE OnExit
  BY <1>18 DEF OnExit
<1>19. QED
  BY <1>1, <1>2, <1>3, <1>4, <1>5, <1>6, <1>7, <1>8, <1>9, <1>10, <1>11, <1>12, <1>13,
     <1>14, <1>15, <1>16, <1>17, <1>18
     DEF Worker

\* So does every step of the client.
LEMMA TypesClient ==
  ASSUME Types, Client
  PROVE  Types'
<1> USE FileCacheAssumption DEF FileCacheAssumption, Types, Calls, At, In, Call, Goto,
           Return, Idle, NoChunk, Refused, cache, seeking, stopping, events, input,
           waiting, calling, workerOwned
<1>1. CASE ReadCall
  BY <1>1 DEF ReadCall
<1>2. CASE ReadData
  <2>1. m_beg' = m_beg /\ m_cur' \in Int /\ m_end' = m_end
    BY <1>2, AvailableType DEF ReadData, Cache!ReadFromCache, Cache!Least
  <2>2. client' \in [call : Calls, arg : Int] /\ client'.call = "got"
    BY <1>2, <2>1 DEF ReadData, Calls
  <2>3. QED
    BY <1>2, <2>1, <2>2 DEF ReadData
<1>3. CASE ReadReturn
  BY <1>3 DEF ReadReturn
<1>4. CASE ReadNothing
  BY <1>4 DEF ReadNothing
<1>5. CASE WaitForData
  <2>1. UNCHANGED <<cache, workerOwned, events, seeking, m_readPos>>
    BY <1>5 DEF WaitForData
  <2>2. client.call = "wait"
        /\ client' \in {[client EXCEPT !.call = "read"], [call |-> "none", arg |-> 0]}
    <3>1. CASE m_end > m_cur
      BY <1>5, <3>1 DEF WaitForData
    <3>2. CASE ~(m_end > m_cur)
      BY <1>5, <3>2 DEF WaitForData
    <3>3. QED
      BY <3>1, <3>2
  <2>3. QED
    BY <2>1, <2>2
<1>6. CASE SeekCall
  BY <1>6 DEF SeekCall
<1>7. CASE SeekInCache
  BY <1>7 DEF SeekInCache, Cache!Seek
<1>8. CASE Found
  BY <1>8 DEF Found, SeekResult
<1>9. CASE SeekMisses
  <2>1. CASE m_seekPossible
    BY <1>9, <2>1 DEF SeekMisses
  <2>2. CASE ~m_seekPossible
    BY <1>9, <2>2 DEF SeekMisses
  <2>3. QED
    BY <2>1, <2>2
<1>10. CASE SeekTells
  BY <1>10 DEF SeekTells, Tell
<1>11. CASE SeekAnswered
  BY <1>11 DEF SeekAnswered
<1>12. CASE SeekReturn
  <2>1. m_seekEvent' = FALSE /\ UNCHANGED <<cache, workerOwned, m_seekEnded, seeking, m_readPos>>
    BY <1>12 DEF SeekReturn
  <2>2. client' = [call |-> "none", arg |-> 0]
    BY <1>12 DEF SeekReturn, SeekResult
  <2>3. client' \in [call : Calls, arg : Int] /\ client'.call = "none"
    BY <2>2 DEF Calls
  <2>4. QED
    BY <2>1, <2>3
<1>13. CASE CloseCall
  BY <1>13 DEF CloseCall
<1>14. CASE CloseTells
  BY <1>14 DEF CloseTells, Tell
<1>15. CASE StopTells
  BY <1>15 DEF StopTells, Tell
<1>16. CASE Join
  BY <1>16 DEF Join
<1>17. QED
  BY <1>1, <1>2, <1>3, <1>4, <1>5, <1>6, <1>7, <1>8, <1>9, <1>10, <1>11, <1>12, <1>13,
     <1>14, <1>15, <1>16
     DEF Client, InCall

\* The worker ends only for a stop that was asked for.
LEMMA StopsWorker ==
  ASSUME Stops, Worker
  PROVE  Stops'
<1> USE FileCacheAssumption DEF FileCacheAssumption, Stops, Closing, At, In, Call, Goto,
           Return, Idle, NoChunk, Refused, cache, seeking, stopping, events, input,
           waiting, calling, workerOwned
<1>1. CASE Top
  BY <1>1 DEF Top
<1>2. CASE PollSeek
  BY <1>2 DEF PollSeek
<1>3. CASE SourceSeek
  BY <1>3 DEF SourceSeek
<1>4. CASE SourceSeekFails
  BY <1>4 DEF SourceSeekFails
<1>5. CASE Refuse
  BY <1>5 DEF Refuse
<1>6. CASE RestartCache
  BY <1>6 DEF RestartCache, Cache!Reset
<1>7. CASE MoveReadPos
  BY <1>7 DEF MoveReadPos
<1>8. CASE Answer
  BY <1>8 DEF Answer
<1>9. CASE SourceRead
  BY <1>9 DEF SourceRead
<1>10. CASE SourceEnds
  BY <1>10 DEF SourceEnds
<1>11. CASE SourceReadFails
  BY <1>11 DEF SourceReadFails
<1>12. CASE Sleep
  BY <1>12 DEF Sleep
<1>13. CASE EofSeek
  BY <1>13 DEF EofSeek, WaitEnds
<1>14. CASE EofStop
  BY <1>14 DEF EofStop, WaitEnds
<1>15. CASE WriteChunk
  BY <1>15 DEF WriteChunk, Cache!WriteToCache
<1>16. CASE WriteStopped
  BY <1>16 DEF WriteStopped
<1>17. CASE WriteNext
  BY <1>17 DEF WriteNext
<1>18. CASE OnExit
  BY <1>18 DEF OnExit
<1>19. QED
  BY <1>1, <1>2, <1>3, <1>4, <1>5, <1>6, <1>7, <1>8, <1>9, <1>10, <1>11, <1>12, <1>13,
     <1>14, <1>15, <1>16, <1>17, <1>18
     DEF Worker

\* Closing asks for the stop before anything else of it is seen.
LEMMA StopsClient ==
  ASSUME Types, Stops, Client
  PROVE  Stops'
<1> USE FileCacheAssumption DEF FileCacheAssumption, Types, Calls, Stops, Closing, At,
           In, Call, Goto, Return, Idle, NoChunk, Refused, cache, seeking, stopping,
           events, input, waiting, calling, workerOwned
<1>1. CASE ReadCall
  BY <1>1 DEF ReadCall
<1>2. CASE ReadData
  BY <1>2 DEF ReadData, Cache!ReadFromCache
<1>3. CASE ReadReturn
  BY <1>3 DEF ReadReturn
<1>4. CASE ReadNothing
  BY <1>4 DEF ReadNothing
<1>5. CASE WaitForData
  BY <1>5 DEF WaitForData
<1>6. CASE SeekCall
  BY <1>6 DEF SeekCall
<1>7. CASE SeekInCache
  BY <1>7 DEF SeekInCache, Cache!Seek
<1>8. CASE Found
  BY <1>8 DEF Found, SeekResult
<1>9. CASE SeekMisses
  BY <1>9 DEF SeekMisses
<1>10. CASE SeekTells
  BY <1>10 DEF SeekTells, Tell
<1>11. CASE SeekAnswered
  BY <1>11 DEF SeekAnswered
<1>12. CASE SeekReturn
  BY <1>12 DEF SeekReturn, SeekResult
<1>13. CASE CloseCall
  BY <1>13 DEF CloseCall
<1>14. CASE CloseTells
  BY <1>14 DEF CloseTells, Tell
<1>15. CASE StopTells
  BY <1>15 DEF StopTells, Tell
<1>16. CASE Join
  BY <1>16 DEF Join
<1>17. QED
  BY <1>1, <1>2, <1>3, <1>4, <1>5, <1>6, <1>7, <1>8, <1>9, <1>10, <1>11, <1>12, <1>13,
     <1>14, <1>15, <1>16
     DEF Client, InCall

\* The worker hands the token of a seek on, or leaves it where it is.
LEMMA HandshakeWorker ==
  ASSUME Handshake, ~spurious', Worker
  PROVE  Handshake'
<1> USE FileCacheAssumption DEF FileCacheAssumption, Handshake, Asking, Closing, Serving,
           Gone, At, In, Call, Goto, Return, Idle, NoChunk, Refused, cache, seeking,
           stopping, events, input, waiting, calling, workerOwned
<1>1. CASE Top
  BY <1>1 DEF Top
<1>2. CASE PollSeek
  BY <1>2 DEF PollSeek
<1>3. CASE SourceSeek
  BY <1>3 DEF SourceSeek
<1>4. CASE SourceSeekFails
  BY <1>4 DEF SourceSeekFails
<1>5. CASE Refuse
  BY <1>5 DEF Refuse
<1>6. CASE RestartCache
  BY <1>6 DEF RestartCache, Cache!Reset
<1>7. CASE MoveReadPos
  BY <1>7 DEF MoveReadPos
<1>8. CASE Answer
  BY <1>8 DEF Answer
<1>9. CASE SourceRead
  BY <1>9 DEF SourceRead
<1>10. CASE SourceEnds
  BY <1>10 DEF SourceEnds
<1>11. CASE SourceReadFails
  BY <1>11 DEF SourceReadFails
<1>12. CASE Sleep
  BY <1>12 DEF Sleep
<1>13. CASE EofSeek
  BY <1>13 DEF EofSeek, WaitEnds
<1>14. CASE EofStop
  BY <1>14 DEF EofStop, WaitEnds
<1>15. CASE WriteChunk
  BY <1>15 DEF WriteChunk, Cache!WriteToCache
<1>16. CASE WriteStopped
  BY <1>16 DEF WriteStopped
<1>17. CASE WriteNext
  BY <1>17 DEF WriteNext
<1>18. CASE OnExit
  BY <1>18 DEF OnExit
<1>19. QED
  BY <1>1, <1>2, <1>3, <1>4, <1>5, <1>6, <1>7, <1>8, <1>9, <1>10, <1>11, <1>12, <1>13,
     <1>14, <1>15, <1>16, <1>17, <1>18
     DEF Worker

\* The client makes the token when it asks and goes on only when it has it back.
LEMMA HandshakeClient ==
  ASSUME Types, Handshake, Client
  PROVE  Handshake'
<1> USE FileCacheAssumption DEF FileCacheAssumption, Handshake, Asking, Closing, Serving,
           Gone, Types, Calls, At, In, Call, Goto, Return, Idle, NoChunk, Refused, cache,
           seeking, stopping, events, input, waiting, calling, workerOwned
<1>1. CASE ReadCall
  BY <1>1 DEF ReadCall
<1>2. CASE ReadData
  BY <1>2 DEF ReadData, Cache!ReadFromCache
<1>3. CASE ReadReturn
  BY <1>3 DEF ReadReturn
<1>4. CASE ReadNothing
  BY <1>4 DEF ReadNothing
<1>5. CASE WaitForData
  BY <1>5 DEF WaitForData
<1>6. CASE SeekCall
  BY <1>6 DEF SeekCall
<1>7. CASE SeekInCache
  BY <1>7 DEF SeekInCache, Cache!Seek
<1>8. CASE Found
  BY <1>8 DEF Found, SeekResult
<1>9. CASE SeekMisses
  BY <1>9 DEF SeekMisses
<1>10. CASE SeekTells
  BY <1>10 DEF SeekTells, Tell
<1>11. CASE SeekAnswered
  BY <1>11 DEF SeekAnswered
<1>12. CASE SeekReturn
  BY <1>12 DEF SeekReturn, SeekResult
<1>13. CASE CloseCall
  BY <1>13 DEF CloseCall
<1>14. CASE CloseTells
  BY <1>14 DEF CloseTells, Tell
<1>15. CASE StopTells
  BY <1>15 DEF StopTells, Tell
<1>16. CASE Join
  BY <1>16 DEF Join
<1>17. QED
  BY <1>1, <1>2, <1>3, <1>4, <1>5, <1>6, <1>7, <1>8, <1>9, <1>10, <1>11, <1>12, <1>13,
     <1>14, <1>15, <1>16
     DEF Client, InCall

\* The worker moves the reading position only under a client that waits for it.
LEMMA PositionsWorker ==
  ASSUME Types, Handshake, Positions, ~spurious', Worker
  PROVE  Positions'
<1> USE FileCacheAssumption DEF FileCacheAssumption, Types, Calls, Positions, Handshake,
           Asking, Closing, Serving, Gone, At, In, Call, Goto, Return, Idle, NoChunk,
           Refused, cache, seeking, stopping, events, input, waiting, calling, workerOwned
<1>1. CASE Top
  BY <1>1 DEF Top
<1>2. CASE PollSeek
  BY <1>2 DEF PollSeek
<1>3. CASE SourceSeek
  BY <1>3 DEF SourceSeek
<1>4. CASE SourceSeekFails
  BY <1>4 DEF SourceSeekFails
<1>5. CASE Refuse
  BY <1>5 DEF Refuse
<1>6. CASE RestartCache
  BY <1>6 DEF RestartCache, Cache!Reset
<1>7. CASE MoveReadPos
  BY <1>7 DEF MoveReadPos
<1>8. CASE Answer
  BY <1>8 DEF Answer
<1>9. CASE SourceRead
  BY <1>9 DEF SourceRead
<1>10. CASE SourceEnds
  BY <1>10 DEF SourceEnds
<1>11. CASE SourceReadFails
  BY <1>11 DEF SourceReadFails
<1>12. CASE Sleep
  BY <1>12 DEF Sleep
<1>13. CASE EofSeek
  BY <1>13 DEF EofSeek, WaitEnds
<1>14. CASE EofStop
  BY <1>14 DEF EofStop, WaitEnds
<1>15. CASE WriteChunk
  BY <1>15 DEF WriteChunk, Cache!WriteToCache
<1>16. CASE WriteStopped
  BY <1>16 DEF WriteStopped
<1>17. CASE WriteNext
  BY <1>17 DEF WriteNext
<1>18. CASE OnExit
  BY <1>18 DEF OnExit
<1>19. QED
  BY <1>1, <1>2, <1>3, <1>4, <1>5, <1>6, <1>7, <1>8, <1>9, <1>10, <1>11, <1>12, <1>13,
     <1>14, <1>15, <1>16, <1>17, <1>18
     DEF Worker

\* A call of the client ends with both positions in the same place.
LEMMA PositionsClient ==
  ASSUME Types, Handshake, Positions, Client
  PROVE  Positions'
<1> USE FileCacheAssumption DEF FileCacheAssumption, Types, Calls, Positions, Handshake,
           Asking, Closing, Serving, Gone, At, In, Call, Goto, Return, Idle, NoChunk,
           Refused, cache, seeking, stopping, events, input, waiting, calling, workerOwned
<1>1. CASE ReadCall
  BY <1>1 DEF ReadCall
<1>2. CASE ReadData
  BY <1>2 DEF ReadData, Cache!ReadFromCache
<1>3. CASE ReadReturn
  BY <1>3 DEF ReadReturn
<1>4. CASE ReadNothing
  BY <1>4 DEF ReadNothing
<1>5. CASE WaitForData
  BY <1>5 DEF WaitForData
<1>6. CASE SeekCall
  BY <1>6 DEF SeekCall
<1>7. CASE SeekInCache
  BY <1>7 DEF SeekInCache, Cache!Seek
<1>8. CASE Found
  BY <1>8 DEF Found, SeekResult
<1>9. CASE SeekMisses
  BY <1>9 DEF SeekMisses
<1>10. CASE SeekTells
  BY <1>10 DEF SeekTells, Tell
<1>11. CASE SeekAnswered
  BY <1>11 DEF SeekAnswered
<1>12. CASE SeekReturn
  BY <1>12 DEF SeekReturn, SeekResult
<1>13. CASE CloseCall
  BY <1>13 DEF CloseCall
<1>14. CASE CloseTells
  BY <1>14 DEF CloseTells, Tell
<1>15. CASE StopTells
  BY <1>15 DEF StopTells, Tell
<1>16. CASE Join
  BY <1>16 DEF Join
<1>17. QED
  BY <1>1, <1>2, <1>3, <1>4, <1>5, <1>6, <1>7, <1>8, <1>9, <1>10, <1>11, <1>12, <1>13,
     <1>14, <1>15, <1>16
     DEF Client, InCall

\* The worker uses the ring as CacheCircular expects: it writes what continues
\* the window, or restarts it.
LEMMA RingWorker ==
  ASSUME Types, Data, Worker
  PROVE  Ring!IInv'
<1> USE FileCacheAssumption DEF FileCacheAssumption, Ring!CacheAssumption
<1>1. CASE RestartCache
  <2>1. Ring!Reset(m_seekPos) /\ m_seekPos \in 0 .. FileLen
    BY <1>1 DEF RestartCache, Cache!Reset, Ring!Reset, Types
  <2>2. QED
    BY <2>1, Ring!ResetIInv DEF Data
<1>2. CASE WriteChunk /\ Cache!Accepted(chunk.left) > 0
  <2>1. chunk.first = m_end /\ chunk.left \in 1 .. FileLen - m_end
    BY <1>2 DEF WriteChunk, At, Data, Reading, Types
  <2>2. Cache!WriteToCache(m_end, chunk.left)
    BY <1>2, <2>1 DEF WriteChunk
  <2>3. Ring!WriteToCache(m_end, chunk.left)
    BY <2>2 DEF Cache!WriteToCache, Ring!WriteToCache, Cache!Accepted, Ring!Accepted, Cache!Limit,
                Ring!Limit, Cache!Least, Ring!Least, Cache!m_size, Ring!m_size, Cache!Stored,
                Ring!Stored, Cache!Slots, Ring!Slots
  <2>4. QED
    BY <2>1, <2>3, Ring!WriteIInv DEF Data
<1>3. CASE UNCHANGED cache
  <2>1. [Ring!Next]_(Ring!ccvars)
    BY <1>3 DEF cache, Ring!ccvars
  <2>2. QED
    BY <2>1, Ring!NextIInv DEF Data
<1>4. QED
  BY <1>1, <1>2, <1>3
     DEF Worker, Top, PollSeek, SourceSeek, SourceSeekFails, Refuse, MoveReadPos, Answer, SourceRead,
         SourceEnds, SourceReadFails, Sleep, EofSeek, EofStop, WriteChunk, WriteStopped, WriteNext,
         OnExit

\* So does the client, which reads, and seeks within the window.
LEMMA RingClient ==
  ASSUME Types, Data, Client
  PROVE  Ring!IInv'
<1> USE FileCacheAssumption DEF FileCacheAssumption, Ring!CacheAssumption
<1>1. CASE ReadData
  <2>1. client.arg \in Nat
    BY <1>1 DEF ReadData, In, Types
  <2>2. Ring!ReadFromCache(client.arg)
    BY <1>1 DEF ReadData, Cache!ReadFromCache, Ring!ReadFromCache, Cache!Available, Ring!Available,
                Cache!Least, Ring!Least, Cache!m_size, Ring!m_size
  <2>3. QED
    BY <2>1, <2>2, Ring!ReadIInv DEF Data
<1>2. CASE SeekInCache
  <2>1. client.arg \in 0 .. FileLen
    BY <1>2 DEF SeekInCache, In, Types
  <2>2. Ring!Seek(client.arg)
    BY <1>2 DEF SeekInCache, Cache!Seek, Ring!Seek, Cache!Holds, Ring!Holds
  <2>3. QED
    BY <2>1, <2>2, Ring!SeekIInv DEF Data
<1>3. CASE UNCHANGED cache
  <2>1. [Ring!Next]_(Ring!ccvars)
    BY <1>3 DEF cache, Ring!ccvars
  <2>2. QED
    BY <2>1, Ring!NextIInv DEF Data
<1>4. QED
  BY <1>1, <1>2, <1>3
     DEF Client, InCall, ReadCall, ReadReturn, ReadNothing, WaitForData, SeekCall, Found, SeekMisses,
         SeekTells, SeekAnswered, SeekReturn, CloseCall, CloseTells, StopTells, Join

\* What the worker reads next continues the window, or a seek will restart it.
LEMMA ReadingWorker ==
  ASSUME Types, Stops, Handshake, Data, ~sourceFailed', Worker
  PROVE  Reading'
<1> USE FileCacheAssumption DEF FileCacheAssumption, Data, Reading, Types, Calls,
           Handshake, Stops, Asking, Closing, Serving, Gone, At, In, Call, Goto, Return,
           Idle, NoChunk, Refused, cache, seeking, stopping, events, input, waiting,
           calling, workerOwned
<1>1. CASE Top
  BY <1>1 DEF Top
<1>2. CASE PollSeek
  BY <1>2 DEF PollSeek
<1>3. CASE SourceSeek
  BY <1>3 DEF SourceSeek
<1>4. CASE SourceSeekFails
  BY <1>4 DEF SourceSeekFails
<1>5. CASE Refuse
  BY <1>5 DEF Refuse
<1>6. CASE RestartCache
  BY <1>6 DEF RestartCache, Cache!Reset
<1>7. CASE MoveReadPos
  BY <1>7 DEF MoveReadPos
<1>8. CASE Answer
  BY <1>8 DEF Answer
<1>9. CASE SourceRead
  BY <1>9 DEF SourceRead
<1>10. CASE SourceEnds
  BY <1>10 DEF SourceEnds
<1>11. CASE SourceReadFails
  BY <1>11 DEF SourceReadFails
<1>12. CASE Sleep
  BY <1>12 DEF Sleep
<1>13. CASE EofSeek
  BY <1>13 DEF EofSeek, WaitEnds
<1>14. CASE EofStop
  BY <1>14 DEF EofStop, WaitEnds
<1>15. CASE WriteChunk
  <2> DEFINE n == Cache!Accepted(chunk.left)
  <2>1. chunk.left \in Nat /\ chunk.first = m_end /\ source = m_end + chunk.left
    BY <1>15 DEF WriteChunk, Data
  <2>2. n \in Nat /\ n <= chunk.left
    <3>1. Ring!Accepted(chunk.left) \in Nat /\ Ring!Accepted(chunk.left) <= chunk.left
      BY <2>1, Ring!AcceptedBounds DEF Data, Ring!IInv, Ring!CacheAssumption
    <3>2. QED
      BY <3>1 DEF Cache!Accepted, Ring!Accepted, Cache!Limit, Ring!Limit, Cache!Least, Ring!Least,
                  Cache!m_size, Ring!m_size
  <2>3. m_end' = m_end + n
    BY <1>15, <2>1, <2>2 DEF WriteChunk, Cache!WriteToCache
  <2>4. chunk'.left = chunk.left - n /\ chunk'.first = chunk.first + n /\ source' = source /\ worker' = "written"
    BY <1>15 DEF WriteChunk
  <2> HIDE DEF n
  <2>5. QED
    BY <2>1, <2>2, <2>3, <2>4
<1>16. CASE WriteStopped
  BY <1>16 DEF WriteStopped
<1>17. CASE WriteNext
  BY <1>17 DEF WriteNext
<1>18. CASE OnExit
  BY <1>18 DEF OnExit
<1>19. QED
  BY <1>1, <1>2, <1>3, <1>4, <1>5, <1>6, <1>7, <1>8, <1>9, <1>10, <1>11, <1>12, <1>13,
     <1>14, <1>15, <1>16, <1>17, <1>18
     DEF Worker

\* The client does not take the seek back that the worker dropped a chunk for.
LEMMA ReadingClient ==
  ASSUME Types, Stops, Handshake, Data, Client
  PROVE  Reading'
<1> USE FileCacheAssumption DEF FileCacheAssumption, Data, Reading, Types, Calls,
           Handshake, Stops, Asking, Closing, Serving, Gone, At, In, Call, Goto, Return,
           Idle, NoChunk, Refused, cache, seeking, stopping, events, input, waiting,
           calling, workerOwned
<1>1. CASE ReadCall
  BY <1>1 DEF ReadCall
<1>2. CASE ReadData
  BY <1>2 DEF ReadData, Cache!ReadFromCache
<1>3. CASE ReadReturn
  BY <1>3 DEF ReadReturn
<1>4. CASE ReadNothing
  BY <1>4 DEF ReadNothing
<1>5. CASE WaitForData
  BY <1>5 DEF WaitForData
<1>6. CASE SeekCall
  BY <1>6 DEF SeekCall
<1>7. CASE SeekInCache
  BY <1>7 DEF SeekInCache, Cache!Seek
<1>8. CASE Found
  BY <1>8 DEF Found, SeekResult
<1>9. CASE SeekMisses
  BY <1>9 DEF SeekMisses
<1>10. CASE SeekTells
  BY <1>10 DEF SeekTells, Tell
<1>11. CASE SeekAnswered
  BY <1>11 DEF SeekAnswered
<1>12. CASE SeekReturn
  BY <1>12 DEF SeekReturn, SeekResult
<1>13. CASE CloseCall
  BY <1>13 DEF CloseCall
<1>14. CASE CloseTells
  BY <1>14 DEF CloseTells, Tell
<1>15. CASE StopTells
  BY <1>15 DEF StopTells, Tell
<1>16. CASE Join
  BY <1>16 DEF Join
<1>17. QED
  BY <1>1, <1>2, <1>3, <1>4, <1>5, <1>6, <1>7, <1>8, <1>9, <1>10, <1>11, <1>12, <1>13,
     <1>14, <1>15, <1>16
     DEF Client, InCall

\* Nothing to read means that the reader is at the end of the window.
LEMMA NothingThere ==
  ASSUME Data, Types, Cache!Available = 0
  PROVE  m_cur = m_end
<1>1. m_cur % Cache!m_size \in 0 .. Cache!m_size - 1
  BY SizeType DEF Data, Ring!IInv, Ring!TypeOK
<1>2. m_cur <= m_end /\ m_cur \in Int /\ m_end \in Int
  BY DEF Data, Ring!IInv, Ring!WindowOK, Types
<1>3. QED
  BY <1>1, <1>2, SizeType DEF Cache!Available, Cache!Least

\* The end of the input is said at the end of the source only, and unsaid
\* before the window moves.
LEMMA EndWorker ==
  ASSUME Types, Stops, Handshake, Data, End, ~sourceFailed', Worker
  PROVE  End'
<1> USE FileCacheAssumption DEF FileCacheAssumption, End, Data, Reading, Types, Calls,
           Handshake, Stops, Asking, Closing, Serving, Gone, At, In, Call, Goto, Return,
           Idle, NoChunk, Refused, cache, seeking, stopping, events, input, waiting,
           calling, workerOwned
<1>1. CASE Top
  BY <1>1 DEF Top
<1>2. CASE PollSeek
  BY <1>2 DEF PollSeek
<1>3. CASE SourceSeek
  BY <1>3 DEF SourceSeek
<1>4. CASE SourceSeekFails
  BY <1>4 DEF SourceSeekFails
<1>5. CASE Refuse
  BY <1>5 DEF Refuse
<1>6. CASE RestartCache
  BY <1>6 DEF RestartCache, Cache!Reset
<1>7. CASE MoveReadPos
  BY <1>7 DEF MoveReadPos
<1>8. CASE Answer
  BY <1>8 DEF Answer
<1>9. CASE SourceRead
  BY <1>9 DEF SourceRead
<1>10. CASE SourceEnds
  BY <1>10 DEF SourceEnds
<1>11. CASE SourceReadFails
  BY <1>11 DEF SourceReadFails
<1>12. CASE Sleep
  BY <1>12 DEF Sleep
<1>13. CASE EofSeek
  BY <1>13 DEF EofSeek, WaitEnds
<1>14. CASE EofStop
  BY <1>14 DEF EofStop, WaitEnds
<1>15. CASE WriteChunk
  <2>1. worker' = "written" /\ worker = "write" /\ UNCHANGED <<m_bEndOfInput, m_bStop, client, result>>
    BY <1>15 DEF WriteChunk
  <2>2. m_cur' = m_cur
    BY <1>15 DEF WriteChunk, Cache!WriteToCache
  <2>3. QED
    BY <2>1, <2>2
<1>16. CASE WriteStopped
  BY <1>16 DEF WriteStopped
<1>17. CASE WriteNext
  BY <1>17 DEF WriteNext
<1>18. CASE OnExit
  BY <1>18 DEF OnExit
<1>19. QED
  BY <1>1, <1>2, <1>3, <1>4, <1>5, <1>6, <1>7, <1>8, <1>9, <1>10, <1>11, <1>12, <1>13,
     <1>14, <1>15, <1>16, <1>17, <1>18
     DEF Worker

\* A read says the end at the end of the source.
LEMMA EndClient ==
  ASSUME Types, Stops, Handshake, Data, End, Client
  PROVE  End'
<1> USE FileCacheAssumption DEF FileCacheAssumption, End, Data, Reading, Types, Calls,
           Handshake, Stops, Asking, Closing, Serving, Gone, At, In, Call, Goto, Return,
           Idle, NoChunk, Refused, cache, seeking, stopping, events, input, waiting,
           calling, workerOwned
<1>1. CASE ReadCall
  BY <1>1 DEF ReadCall
<1>2. CASE ReadData
  BY <1>2 DEF ReadData, Cache!ReadFromCache
<1>3. CASE ReadReturn
  BY <1>3 DEF ReadReturn
<1>4. CASE ReadNothing
  <2>1. Cache!Available = 0 /\ UNCHANGED <<m_bEndOfInput, m_bStop, worker, m_end, m_cur>>
    BY <1>4 DEF ReadNothing
  <2>2. m_cur = m_end
    BY <2>1, NothingThere
  <2>3. CASE m_bEndOfInput
    BY <2>1, <2>2, <2>3
  <2>4. CASE ~m_bEndOfInput
    <3>1. client'.call = "wait" /\ result' = result
      BY <1>4, <2>4 DEF ReadNothing
    <3>2. QED
      BY <2>1, <3>1
  <2>5. QED
    BY <2>3, <2>4
<1>5. CASE WaitForData
  <2>1. UNCHANGED <<m_bEndOfInput, m_bStop, worker, m_end, m_cur>>
    BY <1>5 DEF WaitForData
  <2>2. CASE m_end > m_cur
    <3>1. client'.call = "read" /\ result' = result
      BY <1>5, <2>2 DEF WaitForData
    <3>2. QED
      BY <2>1, <3>1
  <2>3. CASE ~(m_end > m_cur)
    <3>1. m_cur = m_end
      BY <2>3 DEF Ring!IInv, Ring!WindowOK
    <3>2. result' = IF m_bEndOfInput THEN "eof" ELSE "timeout"
      BY <1>5, <2>3 DEF WaitForData
    <3>3. QED
      BY <2>1, <3>1, <3>2
  <2>4. QED
    BY <2>2, <2>3
<1>6. CASE SeekCall
  BY <1>6 DEF SeekCall
<1>7. CASE SeekInCache
  BY <1>7 DEF SeekInCache, Cache!Seek
<1>8. CASE Found
  BY <1>8 DEF Found, SeekResult
<1>9. CASE SeekMisses
  BY <1>9 DEF SeekMisses
<1>10. CASE SeekTells
  BY <1>10 DEF SeekTells, Tell
<1>11. CASE SeekAnswered
  BY <1>11 DEF SeekAnswered
<1>12. CASE SeekReturn
  BY <1>12 DEF SeekReturn, SeekResult
<1>13. CASE CloseCall
  BY <1>13 DEF CloseCall
<1>14. CASE CloseTells
  BY <1>14 DEF CloseTells, Tell
<1>15. CASE StopTells
  BY <1>15 DEF StopTells, Tell
<1>16. CASE Join
  BY <1>16 DEF Join
<1>17. QED
  BY <1>1, <1>2, <1>3, <1>4, <1>5, <1>6, <1>7, <1>8, <1>9, <1>10, <1>11, <1>12, <1>13,
     <1>14, <1>15, <1>16
     DEF Client, InCall

-----------------------------------------------------------------------------
(* The invariant and the results                                             *)

\* The invariant holds of a file just opened.
LEMMA InitIInv == Init => IInv
<1> SUFFICES ASSUME Init PROVE IInv
  OBVIOUS
<1> USE FileCacheAssumption DEF FileCacheAssumption, Init, NoChunk, Idle, Calls, Asking,
           Closing,
                                Serving, Gone
<1>1. m_beg = 0 /\ m_end = 0 /\ m_cur = 0
  BY DEF Cache!Init
<1>2. Types
  <2>1. chunk \in [first : Int, left : Int]
    OBVIOUS
  <2>2. client \in [call : Calls, arg : Int] /\ client.call = "none"
    OBVIOUS
  <2>3. /\ m_bEndOfInput \in BOOLEAN /\ m_bStop \in BOOLEAN /\ m_StopEvent \in BOOLEAN
        /\ m_seekEvent \in BOOLEAN /\ m_seekEnded \in BOOLEAN
        /\ sourceFailed \in BOOLEAN /\ spurious \in BOOLEAN
    OBVIOUS
  <2>4. m_seekPos \in 0 .. FileLen /\ source \in 0 .. FileLen /\ m_readPos \in Int
    OBVIOUS
  <2> HIDE DEF Init, Calls
  <2>5. QED
    BY <1>1, <2>1, <2>2, <2>3, <2>4 DEF Types
<1>3. Stops /\ Handshake /\ Positions /\ Reading /\ End
  BY <1>1 DEF Stops, Handshake, Positions, Reading, End
<1>4. Ring!Init
  BY DEF Cache!Init, Ring!Init, Cache!Slots, Ring!Slots, Cache!m_size, Ring!m_size, Cache!Unset,
         Ring!Unset
<1>5. Ring!IInv
  BY <1>4, Ring!InitIInv DEF Ring!CacheAssumption
<1>6. QED
  BY <1>2, <1>3, <1>5 DEF IInv, Data

\* The two histories are never forgotten.
LEMMA Monotone ==
  ASSUME Types, Next
  PROVE  (spurious => spurious') /\ (sourceFailed => sourceFailed')
<1> USE DEF Types, input, waiting, workerOwned
<1>1. CASE Worker
  BY <1>1 DEF Worker, Top, PollSeek, SourceSeek, SourceSeekFails, Refuse, RestartCache, MoveReadPos,
              Answer, SourceRead, SourceEnds, SourceReadFails, Sleep, EofSeek, EofStop, WriteChunk,
              WriteStopped, WriteNext, OnExit
<1>2. CASE Client
  BY <1>2 DEF Client, InCall, ReadCall, ReadData, ReadReturn, ReadNothing, WaitForData, SeekCall,
              SeekInCache, Found, SeekMisses, SeekTells, SeekAnswered, SeekReturn, CloseCall,
              CloseTells, StopTells, Join
<1>3. QED
  BY <1>1, <1>2 DEF Next

\* Nothing is lost when nothing happens.
LEMMA StutterIInv == IInv /\ UNCHANGED fcvars => IInv'
<1> SUFFICES ASSUME IInv, UNCHANGED fcvars PROVE IInv'
  OBVIOUS
<1> USE DEF fcvars, cache, seeking, stopping, events, input, waiting, calling
<1>1. Types' /\ Stops'
  BY DEF IInv, Types, Stops, Closing
<1>2. Handshake => Handshake'
  BY DEF Handshake, Asking, Closing, Serving, Gone
<1>3. Positions => Positions'
  BY DEF Positions, Asking, Closing
<1>4. Reading => Reading'
  BY DEF Reading, Asking
<1>5. End => End'
  BY DEF End
<1>6. Ring!IInv => Ring!IInv'
  BY Ring!NextIInv, FileCacheAssumption DEF FileCacheAssumption, Ring!CacheAssumption, Ring!ccvars
<1>7. QED
  BY <1>1, <1>2, <1>3, <1>4, <1>5, <1>6 DEF IInv, Data

\* Every step keeps the invariant.
LEMMA NextIInv == IInv /\ [Next]_fcvars => IInv'
<1> SUFFICES ASSUME IInv, Next PROVE IInv'
  BY StutterIInv
<1>1. Types /\ Stops
  BY DEF IInv
<1>2. Types' /\ Stops'
  BY <1>1, TypesWorker, TypesClient, StopsWorker, StopsClient DEF Next
<1>3. (~spurious' => ~spurious) /\ (~sourceFailed' => ~sourceFailed)
  BY <1>1, Monotone
<1>4. ASSUME ~spurious' PROVE Handshake' /\ Positions'
  <2>1. Handshake /\ Positions
    BY <1>3, <1>4 DEF IInv
  <2>2. QED
    BY <1>1, <1>4, <2>1, HandshakeWorker, HandshakeClient, PositionsWorker, PositionsClient DEF Next
<1>5. ASSUME ~spurious', ~sourceFailed' PROVE Data' /\ End'
  <2>1. Handshake /\ Data /\ End
    BY <1>3, <1>5 DEF IInv
  <2>2. Ring!IInv'
    BY <1>1, <2>1, RingWorker, RingClient DEF Next
  <2>3. Reading'
    BY <1>1, <1>5, <2>1, ReadingWorker, ReadingClient DEF Next
  <2>4. End'
    BY <1>1, <1>5, <2>1, EndWorker, EndClient DEF Next
  <2>5. QED
    BY <2>2, <2>3, <2>4 DEF Data
<1>6. QED
  BY <1>2, <1>4, <1>5 DEF IInv

(***************************************************************************)
(* The invariant, for every size of the ring, the file and the chunks and   *)
(* whatever the source refuses: the types, the stop, the token of a seek, the*)
(* two positions, the window next to the source, and the end of the input.  *)
(***************************************************************************)
THEOREM InvariantTheorem == Spec => []IInv
<1>1. QED
  BY InitIInv, NextIInv, PTL DEF Spec

(***************************************************************************)
(* Between calls m_readPos, which CFileCache keeps, is the position the     *)
(* strategy reads at, which CCacheCircular keeps, although the caching thread*)
(* moves both without a lock.                                               *)
(***************************************************************************)
THEOREM PositionsAgreeTheorem == Spec => []PositionsAgree
<1>1. IInv => PositionsAgree
  BY DEF IInv, Handshake, Positions, PositionsAgree, Asking, Closing, Serving, Idle
<1>2. QED
  BY <1>1, InvariantTheorem, PTL

(***************************************************************************)
(* The valid window holds the bytes of the file, whatever chunks were dropped*)
(* and wherever the cache was restarted, until the source refuses a seek or *)
(* one is made twice.                                                       *)
(***************************************************************************)
THEOREM ValidDataIsTheFileTheorem == Spec => []ValidDataIsTheFile
<1>1. IInv => ValidDataIsTheFile
  <2>1. Ring!IInv => Cache!ContentOK
    BY DEF Ring!IInv, Ring!ContentOK, Cache!ContentOK, Ring!m_size, Cache!m_size
  <2>2. QED
    BY <2>1 DEF IInv, Data, ValidDataIsTheFile, BytesAreTheFile
<1>2. QED
  BY <1>1, InvariantTheorem, PTL

(***************************************************************************)
(* A read answers 0 at the end of the source, after ten seconds without     *)
(* data, after a stop, or with one of the two exceptions: a 0 that means the *)
(* end of the input is never left over from before a seek.                  *)
(***************************************************************************)
THEOREM EndOfFileIsTheEndTheorem == Spec => []EndOfFileIsTheEnd
<1>1. IInv => EndOfFileIsTheEnd
  BY DEF IInv, End, EndOfFileIsTheEnd, ReturnedZero
<1>2. QED
  BY <1>1, InvariantTheorem, PTL

(***************************************************************************)
(* A seek that is reported done left both positions where it was asked to go,*)
(* however it was done: by the strategy or by the caching thread.           *)
(***************************************************************************)
THEOREM SeekLandsTheorem == Spec => SeekLands
<1> DEFINE Lands == (In("seekReset") \/ In("found")) =>
                      (result' = "sought" /\ client' = Idle /\ ~spurious
                         => m_cur' = client.arg /\ m_readPos' = client.arg)
<1>1. IInv /\ [Next]_fcvars => [Lands]_fcvars
  <2> SUFFICES ASSUME IInv, Next, In("seekReset") \/ In("found"),
                      result' = "sought", client' = Idle, ~spurious
               PROVE  m_cur' = client.arg /\ m_readPos' = client.arg
    OBVIOUS
  <2>1. Handshake /\ Positions
    BY DEF IInv
  <2>2. client.call # "none"
    BY DEF In
  <2>3. SeekReturn \/ Found
    <3>1. CASE Worker
      BY <2>2, <3>1 DEF Idle, Worker, Top, PollSeek, SourceSeek, SourceSeekFails, Refuse,
            RestartCache, MoveReadPos, Answer, SourceRead, SourceEnds, SourceReadFails, Sleep,
            EofSeek, EofStop, WriteChunk, WriteStopped, WriteNext, OnExit, calling
    <3>2. CASE Client
      BY <3>2 DEF In, Idle, Client, Call, InCall, ReadCall, ReadData, ReadReturn, ReadNothing,
            WaitForData, SeekCall, SeekInCache, SeekMisses, SeekTells, SeekAnswered, CloseCall,
            CloseTells, StopTells, Join
    <3>3. QED
      BY <3>1, <3>2 DEF Next
  <2>4. CASE SeekReturn
    <3>1. In("seekReset") /\ UNCHANGED <<m_cur, m_readPos>>
      BY <2>4 DEF SeekReturn, cache
    <3>2. m_nSeekResult = client.arg
      BY <2>4 DEF SeekReturn, SeekResult, Return
    <3>3. ~Serving
      BY <2>1, <3>1 DEF Handshake, In, Asking, Closing
    <3>4. m_readPos = m_cur /\ m_cur = client.arg
      BY <2>1, <3>1, <3>2, <3>3 DEF Positions, In, Closing, Serving
    <3>5. QED
      BY <3>1, <3>4
  <2>5. CASE Found
    BY <2>1, <2>5 DEF Positions, Found, In, Closing, cache
  <2>6. QED
    BY <2>3, <2>4, <2>5
<1>2. QED
  BY <1>1, InvariantTheorem, PTL DEF Spec, SeekLands

(***************************************************************************)
(* The caching thread moves the positions only under a client that waits for*)
(* it in Seek, unless it was told of a seek it had made already.            *)
(***************************************************************************)
THEOREM PositionIsTheClientsTheorem == Spec => PositionIsTheClients
<1> DEFINE Still == (UNCHANGED calling
                      /\ client.call \in {"none", "read", "got", "wait", "seek", "found", "seekReset"}
                      /\ ~spurious) => UNCHANGED <<m_readPos, m_cur>>
<1>1. IInv /\ [Next]_fcvars => [Still]_fcvars
  <2> SUFFICES ASSUME IInv, Next, UNCHANGED calling, ~spurious,
                      client.call \in {"none", "read", "got", "wait", "seek", "found", "seekReset"}
               PROVE  UNCHANGED <<m_readPos, m_cur>>
    OBVIOUS
  <2>1. ~Serving
    BY DEF IInv, Handshake, Asking, Closing
  <2>2. CASE Worker
    BY <2>1, <2>2
       DEF Serving, At, cache, Worker, Top, PollSeek, SourceSeek, SourceSeekFails, Refuse,
           RestartCache, MoveReadPos, Answer, SourceRead, SourceEnds, SourceReadFails, Sleep, EofSeek,
           EofStop, WriteChunk, Cache!WriteToCache, WriteStopped, WriteNext, OnExit
  <2>3. CASE Client
    <3>1. client \in [call : Calls, arg : Int] /\ client' = client
      BY DEF IInv, Types, calling
    <3>2. ~ReadData /\ ~SeekInCache /\ ~ReadReturn /\ ~Found
      BY <3>1 DEF ReadData, SeekInCache, ReadReturn, Found, SeekResult, In, Goto, Return, Idle
    <3>3. QED
      BY <2>3, <3>2
         DEF cache, Client, InCall, ReadCall, ReadNothing, WaitForData, SeekCall, SeekMisses,
             SeekTells, SeekAnswered, SeekReturn, CloseCall, CloseTells, StopTells, Join
  <2>4. QED
    BY <2>2, <2>3 DEF Next
<1>2. QED
  BY <1>1, InvariantTheorem, PTL DEF Spec, PositionIsTheClients

===============================================================================
