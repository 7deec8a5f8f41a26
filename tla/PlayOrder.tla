------------------------------ MODULE PlayOrder ------------------------------
(***************************************************************************)
(* What a playlist promises the user who shuffles it (the contract behind   *)
(* the order numbers of xbmc/playlists/PlayList.cpp): the songs are kept in *)
(* the order in which they were queued, whatever order they are played in,  *)
(* and switching shuffle off gives that order back.                         *)
(*                                                                         *)
(* Nothing is said of order numbers.                                        *)
(***************************************************************************)
EXTENDS Integers, Sequences, SequencesExt

CONSTANT Paths

VARIABLES queued,    (* the songs in the order in which they were queued *)
          playing,   (* the songs in the order in which they will play   *)
          shuffled

povars == <<queued, playing, shuffled>>

\* q without the cut songs from position i on, and with s in their place.
Splice(q, i, cut, s) == SubSeq(q, 1, i - 1) \o s \o SubSeq(q, i + cut, Len(q))

Exchange(q, i, j) == [q EXCEPT ![i] = q[j], ![j] = q[i]]

Init == queued = << >> /\ playing = << >> /\ shuffled \in BOOLEAN

\* New songs go last, in both orders.
AddLast(s) ==
  /\ queued' = queued \o s
  /\ playing' = playing \o s
  /\ UNCHANGED shuffled

\* While the list plays in its queued order, songs can be put anywhere in it,
\* or in the place of one song.
PutAt(i, cut, s) ==
  /\ ~shuffled
  /\ queued' = Splice(queued, i, cut, s)
  /\ playing' = Splice(playing, i, cut, s)
  /\ UNCHANGED shuffled

\* A song leaves both orders.
TakeOut ==
  \E i, j \in 1 .. Len(queued) :
    /\ playing[i] = queued[j]
    /\ playing' = RemoveAt(playing, i)
    /\ queued' = RemoveAt(queued, j)
    /\ UNCHANGED shuffled

Empty == queued' = << >> /\ playing' = << >> /\ UNCHANGED shuffled

\* Shuffling changes the order of play only.
Shuffle ==
  /\ Len(playing') = Len(playing)
  /\ \E p \in [1 .. Len(playing) -> 1 .. Len(playing)] :
       /\ IsInjective(p)
       /\ playing' = [i \in 1 .. Len(playing) |-> playing[p[i]]]
  /\ shuffled' = TRUE
  /\ UNCHANGED queued

UnShuffle ==
  /\ playing' = queued
  /\ shuffled' = FALSE
  /\ UNCHANGED queued

\* Two songs change places; in the queued order too, if that is what plays.
SwapTwo ==
  \E i, j \in 1 .. Len(playing) :
    /\ playing' = Exchange(playing, i, j)
    /\ queued' = IF shuffled THEN queued ELSE Exchange(queued, i, j)
    /\ UNCHANGED shuffled

Next ==
  \/ \E s \in SeqOf(Paths, 2) : AddLast(s)
  \/ \E s \in SeqOf(Paths, 2), i \in 1 .. Len(queued), cut \in 0 .. 1 : PutAt(i, cut, s)
  \/ TakeOut \/ Empty \/ Shuffle \/ UnShuffle \/ SwapTwo

Spec == Init /\ [][Next]_povars
=============================================================================
