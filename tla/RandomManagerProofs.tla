-------------------------- MODULE RandomManagerProofs --------------------------
(***************************************************************************)
(* Proofs about RandomManager for every library, bound of the credits and   *)
(* of the songs that wait.                                                  *)
(*                                                                         *)
(* The argument.  The main thread owns the other one's life (Owned): only    *)
(* between Create and Join is there a thread, and a dialog that keeps the    *)
(* main thread away from Stop is the thread's own.  And from the moment it   *)
(* has seen no song play, a song that plays was started by the main thread   *)
(* (Seen).                                                                  *)
(***************************************************************************)
EXTENDS RandomManager, TLAPS

Types ==
  /\ setting \in BOOLEAN /\ bActive \in BOOLEAN /\ startedSince \in BOOLEAN
  /\ main \in {"idle", "start", "activate", "join", "modal"}
  /\ thread \in {"none", "new", "asleep", "work", "credits", "pick", "add", "play", "dialog", "ended"}

Owned ==
  /\ main = "idle" /\ ~setting => thread = "none"
  /\ main \in {"start", "activate"} => setting
  /\ main = "start" => thread \in {"none", "ended"}
  /\ main = "activate" => thread # "none"
  /\ main = "modal" => setting /\ thread = "dialog"
  /\ main = "join" => ~setting

Seen == thread \in {"credits", "pick", "add", "play"} => now = NoSong \/ startedSince

IInv == Types /\ Owned /\ Seen

\* The initial state.
LEMMA InitIInv == Init => IInv
BY DEF Init, IInv, Types, Owned, Seen

\* Every step keeps the types.
LEMMA NextTypes ==
  ASSUME Types, Next
  PROVE  Types'
<1> USE DEF Types, random, player
<1>1. CASE Enable
  BY <1>1 DEF Enable
<1>2. CASE Create
  BY <1>2 DEF Create
<1>3. CASE Activate
  BY <1>3 DEF Activate
<1>4. CASE Stop
  BY <1>4 DEF Stop
<1>5. CASE Join
  BY <1>5 DEF Join
<1>6. CASE Test
  BY <1>6 DEF Test
<1>7. CASE SeeIfPlaying
  BY <1>7 DEF SeeIfPlaying
<1>8. CASE SeeIfCredits
  BY <1>8 DEF SeeIfCredits
<1>9. CASE Pick
  BY <1>9 DEF Pick
<1>10. CASE PickMissing
  BY <1>10 DEF PickMissing
<1>11. CASE PickNothing
  BY <1>11 DEF PickNothing
<1>12. CASE AddPicked
  BY <1>12 DEF AddPicked
<1>13. CASE PlayFirst
  BY <1>13 DEF PlayFirst
<1>14. CASE PlayFails
  BY <1>14 DEF PlayFails
<1>15. CASE OpenDialog
  BY <1>15 DEF OpenDialog
<1>16. CASE CloseDialog
  BY <1>16 DEF CloseDialog
<1>17. CASE KeyPress
  BY <1>17 DEF KeyPress, Handling
<1>18. CASE InsertCoin
  BY <1>18 DEF InsertCoin, Handling
<1>19. CASE QueueSong
  BY <1>19 DEF QueueSong
<1>20. CASE SongEnds
  BY <1>20 DEF SongEnds
<1>21. CASE HandleEnded
  BY <1>21 DEF HandleEnded, Handling
<1>22. CASE Tick
  BY <1>22 DEF Tick
<1>23. QED
  BY <1>1, <1>2, <1>3, <1>4, <1>5, <1>6, <1>7, <1>8, <1>9, <1>10, <1>11, <1>12, <1>13,
     <1>14, <1>15, <1>16, <1>17, <1>18, <1>19, <1>20, <1>21, <1>22 DEF Next

\* Every step of either thread leaves the life of the other to the main thread.
LEMMA NextOwned ==
  ASSUME Types, Owned, Next
  PROVE  Owned'
<1> USE DEF Types, Owned, random, player
<1>1. CASE Enable
  BY <1>1 DEF Enable
<1>2. CASE Create
  BY <1>2 DEF Create
<1>3. CASE Activate
  BY <1>3 DEF Activate
<1>4. CASE Stop
  BY <1>4 DEF Stop
<1>5. CASE Join
  BY <1>5 DEF Join
<1>6. CASE Test
  BY <1>6 DEF Test
<1>7. CASE SeeIfPlaying
  BY <1>7 DEF SeeIfPlaying
<1>8. CASE SeeIfCredits
  BY <1>8 DEF SeeIfCredits
<1>9. CASE Pick
  BY <1>9 DEF Pick
<1>10. CASE PickMissing
  BY <1>10 DEF PickMissing
<1>11. CASE PickNothing
  BY <1>11 DEF PickNothing
<1>12. CASE AddPicked
  BY <1>12 DEF AddPicked
<1>13. CASE PlayFirst
  BY <1>13 DEF PlayFirst
<1>14. CASE PlayFails
  BY <1>14 DEF PlayFails
<1>15. CASE OpenDialog
  BY <1>15 DEF OpenDialog
<1>16. CASE CloseDialog
  BY <1>16 DEF CloseDialog
<1>17. CASE KeyPress
  BY <1>17 DEF KeyPress, Handling
<1>18. CASE InsertCoin
  BY <1>18 DEF InsertCoin, Handling
<1>19. CASE QueueSong
  BY <1>19 DEF QueueSong
<1>20. CASE SongEnds
  BY <1>20 DEF SongEnds
<1>21. CASE HandleEnded
  BY <1>21 DEF HandleEnded, Handling
<1>22. CASE Tick
  BY <1>22 DEF Tick
<1>23. QED
  BY <1>1, <1>2, <1>3, <1>4, <1>5, <1>6, <1>7, <1>8, <1>9, <1>10, <1>11, <1>12, <1>13,
     <1>14, <1>15, <1>16, <1>17, <1>18, <1>19, <1>20, <1>21, <1>22 DEF Next

\* What starts a song while the thread chooses is the main thread.
LEMMA NextSeen ==
  ASSUME Types, Seen, Next
  PROVE  Seen'
<1> USE DEF Types, Seen, Sources, NoSong, random, player
<1>1. CASE Enable
  BY <1>1 DEF Enable
<1>2. CASE Create
  BY <1>2 DEF Create
<1>3. CASE Activate
  BY <1>3 DEF Activate
<1>4. CASE Stop
  BY <1>4 DEF Stop
<1>5. CASE Join
  BY <1>5 DEF Join
<1>6. CASE Test
  BY <1>6 DEF Test
<1>7. CASE SeeIfPlaying
  BY <1>7 DEF SeeIfPlaying
<1>8. CASE SeeIfCredits
  BY <1>8 DEF SeeIfCredits
<1>9. CASE Pick
  BY <1>9 DEF Pick
<1>10. CASE PickMissing
  BY <1>10 DEF PickMissing
<1>11. CASE PickNothing
  BY <1>11 DEF PickNothing
<1>12. CASE AddPicked
  BY <1>12 DEF AddPicked
<1>13. CASE PlayFirst
  BY <1>13 DEF PlayFirst
<1>14. CASE PlayFails
  BY <1>14 DEF PlayFails
<1>15. CASE OpenDialog
  BY <1>15 DEF OpenDialog
<1>16. CASE CloseDialog
  BY <1>16 DEF CloseDialog
<1>17. CASE KeyPress
  BY <1>17 DEF KeyPress, Handling
<1>18. CASE InsertCoin
  BY <1>18 DEF InsertCoin, Handling
<1>19. CASE QueueSong
  BY <1>19 DEF QueueSong
<1>20. CASE SongEnds
  BY <1>20 DEF SongEnds
<1>21. CASE HandleEnded
  BY <1>21 DEF HandleEnded, Handling
<1>22. CASE Tick
  BY <1>22 DEF Tick
<1>23. QED
  BY <1>1, <1>2, <1>3, <1>4, <1>5, <1>6, <1>7, <1>8, <1>9, <1>10, <1>11, <1>12, <1>13,
     <1>14, <1>15, <1>16, <1>17, <1>18, <1>19, <1>20, <1>21, <1>22 DEF Next

\* Every step keeps the invariant, and so does none.
LEMMA NextIInv == IInv /\ [Next]_vars => IInv'
<1> SUFFICES ASSUME IInv, [Next]_vars PROVE IInv'
  OBVIOUS
<1>1. CASE Next
  BY <1>1, NextTypes, NextOwned, NextSeen DEF IInv
<1>2. CASE UNCHANGED vars
  BY <1>2 DEF vars, random, player, IInv, Types, Owned, Seen
<1>3. QED
  BY <1>1, <1>2

\* The invariant holds always.
LEMMA Invariance == Spec => []IInv
BY InitIInv, NextIInv, PTL DEF Spec

(***************************************************************************)
(* Once Stop has returned there is no thread that could choose a song,       *)
(* whatever step of DoWork it was in.                                        *)
(***************************************************************************)
THEOREM StoppedForGoodTheorem == Spec => []StoppedForGood
<1>1. IInv => StoppedForGood
  BY DEF IInv, Owned, StoppedForGood
<1>2. QED
  BY <1>1, Invariance, PTL

(***************************************************************************)
(* The random manager cuts off no song but one that the main thread started  *)
(* after the random manager had looked.                                      *)
(***************************************************************************)
THEOREM PlayingSongIsNotCutTheorem == Spec => PlayingSongIsNotCut
<1> DEFINE Kept == thread = "play" /\ now' = "random" /\ now # NoSong => startedSince
<1>1. IInv /\ [Next]_vars => [Kept]_vars
  BY DEF IInv, Seen
<1>2. QED
  BY <1>1, Invariance, PTL DEF Spec, PlayingSongIsNotCut

===============================================================================
