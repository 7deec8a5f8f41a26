---------------------------- MODULE CacheCircular ----------------------------
(***************************************************************************)
(* XFILE::CCacheCircular (xbmc/filesystem/CacheCircular.cpp), the ring       *)
(* buffer behind CFileCache.  Each operation runs under m_sync, so it is     *)
(* one action.  Seek and WaitForData leave the lock while they wait; the     *)
(* wait changes nothing, and what Seek tests, it tests after it has the      *)
(* lock again, so its one state change is one action too.                    *)
(*                                                                         *)
(* The buffer holds bytes; a byte is named by its position in the source,    *)
(* so that "slot s holds the byte it should" can be said.                    *)
(***************************************************************************)
EXTENDS Integers, Sequences

CONSTANTS Front,    (* constructor argument front: m_cacheMemBufferSize      *)
          Back,     (* constructor argument back, kept as m_size_back        *)
          FileLen   (* length of the source in bytes                         *)

\* CFileCache builds a CCacheCircular only when m_cacheMemBufferSize is not 0
\* (FileCache.cpp:70-74).
ASSUME CacheAssumption ==
  /\ Front \in Nat \ {0}
  /\ Back \in Nat
  /\ FileLen \in Nat

VARIABLES m_beg,    (* position in the source of the first valid byte        *)
          m_end,    (* position after the last valid byte                    *)
          m_cur,    (* reading position                                      *)
          m_buf,    (* slot -> the byte it holds                             *)
          m_out     (* what the last successful read copied to its caller    *)

ccvars == <<m_beg, m_end, m_cur, m_buf, m_out>>

m_size == Front + Back
Slots == 0 .. m_size - 1
Unset == -1         (* what a slot of a fresh new uint8_t[m_size] holds       *)

Least(a, b) == IF a <= b THEN a ELSE b

-----------------------------------------------------------------------------
\* CCacheCircular::Open
Init ==
  /\ m_beg = 0 /\ m_end = 0 /\ m_cur = 0
  /\ m_buf = [s \in Slots |-> Unset]
  /\ m_out = << >>

\* Mutated forms, for the mutants that PROJECT.json lists.
LimitNoBackGuarantee == m_size - (m_end - m_cur)
LimitKeepsWholeBack == m_size - (m_end - m_beg)

\* How much of len bytes WriteToCache takes: what the back guarantee leaves
\* free, and no further than the end of the array.
Limit == m_size - Least(m_cur - m_beg, Back) - (m_end - m_cur)
AcceptedPastWrap(len) == Least(len, Limit)
Accepted(len) == Least(len, Least(Limit, m_size - (m_end % m_size)))

\* Copies len bytes of the source from position first to slot pos on.
Stored(pos, first, len) ==
  [s \in Slots |-> IF s \in pos .. pos + len - 1 THEN first + (s - pos)
                                                 ELSE m_buf[s]]

\* WriteToCache of a caller's buffer of len bytes, the first of which is the
\* byte at position first of the source.
WriteToCache(first, len) ==
  LET n == Accepted(len) IN
  /\ n > 0
  /\ m_buf' = Stored(m_end % m_size, first, n)
  /\ m_end' = m_end + n
  /\ m_beg' = IF m_end + n - m_beg > m_size THEN m_end + n - m_size ELSE m_beg
  /\ UNCHANGED <<m_cur, m_out>>

\* What one ReadFromCache can copy: up to the end of the array.
Available == Least(m_size - (m_cur % m_size), m_end - m_cur)

\* Mutated form: the reading position is not advanced.
ReadWithoutAdvance(len) ==
  /\ Least(len, Available) > 0
  /\ m_out' = [k \in 1 .. Least(len, Available)
                 |-> m_buf[(m_cur % m_size) + k - 1]]
  /\ UNCHANGED <<m_beg, m_end, m_cur, m_buf>>

\* ReadFromCache that returns data.  (With nothing available it changes
\* nothing and answers 0 or CACHE_RC_WOULD_BLOCK.)
ReadFromCache(len) ==
  LET n == Least(len, Available) IN
  /\ n > 0
  /\ m_out' = [k \in 1 .. n |-> m_buf[(m_cur % m_size) + k - 1]]
  /\ m_cur' = m_cur + n
  /\ UNCHANGED <<m_beg, m_end, m_buf>>

\* The test Seek makes, and the Seek that succeeds; a refused one changes
\* nothing.
Holds(pos) == m_beg <= pos /\ pos <= m_end
Seek(pos) ==
  /\ Holds(pos)
  /\ m_cur' = pos
  /\ UNCHANGED <<m_beg, m_end, m_buf, m_out>>

Reset(pos) ==
  /\ m_beg' = pos /\ m_end' = pos /\ m_cur' = pos
  /\ UNCHANGED <<m_buf, m_out>>

-----------------------------------------------------------------------------
(* The strategy with a writer that feeds it the source in order and restarts *)
(* it wherever it goes on reading the source, as CFileCache means to.        *)
Write == \E len \in 1 .. FileLen - m_end : WriteToCache(m_end, len)
Read == \E len \in 1 .. FileLen : ReadFromCache(len)
SeekWithin == \E pos \in 0 .. FileLen : Seek(pos)
Restart == \E pos \in 0 .. FileLen : Reset(pos)

Next == Write \/ Read \/ SeekWithin \/ Restart

Spec == Init /\ [][Next]_ccvars

-----------------------------------------------------------------------------
TypeOK ==
  /\ m_beg \in 0 .. FileLen
  /\ m_end \in 0 .. FileLen
  /\ m_cur \in 0 .. FileLen
  /\ m_buf \in [Slots -> Int]
  /\ m_out \in Seq(Int)

(***************************************************************************)
(* The relation of the three indices that the comment above WriteToCache    *)
(* (CacheCircular.cpp:74-76) says always applies: the reader is inside the   *)
(* valid window and the window fits in the array.  The size_t subtractions   *)
(* of the code are safe because of it.                                       *)
(***************************************************************************)
WindowOK ==
  /\ m_beg <= m_cur
  /\ m_cur <= m_end
  /\ m_end - m_beg <= m_size

(***************************************************************************)
(* Every position of the valid window is held, by the slot that a read of it *)
(* will use: no write ever lands on a byte that is still promised, whatever  *)
(* mix of short writes, wraps, seeks back and restarts came before.          *)
(***************************************************************************)
ContentOK == \A p \in m_beg .. m_end - 1 : m_buf[p % m_size] = p

(***************************************************************************)
(* The writer is never shut out: whatever the reader has kept behind it, the *)
(* cache takes more whenever fewer than Front bytes wait ahead of the        *)
(* reader.  (A Limit of 0 with nothing ahead would stall both sides.)        *)
(***************************************************************************)
NeverStalls == (m_end - m_cur < Front) => Accepted(1) = 1

(***************************************************************************)
(* "It will always leave m_size_back of the backbuffer intact": a write      *)
(* never shortens what lies behind the reader below Back, or at all when it  *)
(* is shorter than that already (CacheCircular.cpp:66-72).                   *)
(***************************************************************************)
BackIsKept ==
  [][m_end' > m_end /\ m_cur' = m_cur
       => m_cur - m_beg' >= Least(m_cur - m_beg, Back)]_ccvars

(***************************************************************************)
(* The ring buffer implements the window of StreamWindow: what is read is    *)
(* always the bytes of the source at the reading position.                   *)
(***************************************************************************)
Window == INSTANCE StreamWindow WITH beg <- m_beg, end <- m_end,
                                     cur <- m_cur, out <- m_out
ImplementsWindow == Window!Spec
=============================================================================
