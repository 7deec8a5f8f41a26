---------------------------- MODULE StreamWindow ----------------------------
(***************************************************************************)
(* What a read-ahead cache strategy promises the file cache built on it    *)
(* (the contract of xbmc/filesystem/CacheStrategy.h as CacheCircular.h      *)
(* words it): a window beg..end of the source is available, the reader is   *)
(* at cur inside it, what it reads are the bytes of the source at cur, and  *)
(* filling the window forward never takes away the last Back bytes that     *)
(* the reader may still want to seek back to.                               *)
(*                                                                         *)
(* Nothing is said of how the window is stored.  A byte of the source is    *)
(* named by its position.                                                   *)
(***************************************************************************)
EXTENDS Integers, Sequences

CONSTANTS Front,    (* bytes the window can always hold ahead of the reader *)
          Back,     (* bytes behind the reader that are kept for seeks back *)
          FileLen   (* length of the source                                 *)

VARIABLES beg, end, cur, out

swvars == <<beg, end, cur, out>>

\* The bytes of the source from position p, n of them.
BytesFrom(p, n) == [k \in 1 .. n |-> p + k - 1]

Smaller(a, b) == IF a <= b THEN a ELSE b

Init ==
  /\ beg = 0 /\ end = 0 /\ cur = 0
  /\ out = << >>

\* More of the source arrives; old bytes may be forgotten, but never beyond
\* what the back guarantee and the reader's own position allow.
Extend ==
  \E e \in end + 1 .. FileLen, b \in beg .. cur :
    /\ e - b <= Front + Back
    /\ cur - b >= Smaller(cur - beg, Back)
    /\ end' = e
    /\ beg' = b
    /\ UNCHANGED <<cur, out>>

\* The reader receives the bytes of the source at its position.
Deliver ==
  \E n \in 1 .. end - cur :
    /\ out' = BytesFrom(cur, n)
    /\ cur' = cur + n
    /\ UNCHANGED <<beg, end>>

\* The reader moves inside the window.
Move ==
  \E p \in beg .. end :
    /\ cur' = p
    /\ UNCHANGED <<beg, end, out>>

\* The window is given up and restarts, empty, at another position.
Restart ==
  \E p \in 0 .. FileLen :
    /\ beg' = p /\ end' = p /\ cur' = p
    /\ UNCHANGED out

Next == Extend \/ Deliver \/ Move \/ Restart

Spec == Init /\ [][Next]_swvars
=============================================================================
