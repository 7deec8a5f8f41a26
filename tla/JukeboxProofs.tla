--------------------------- MODULE JukeboxProofs ---------------------------
(***************************************************************************)
(* Proofs about the accounts of Jukebox, for all values of its constants:   *)
(* the stored credits back those of the memory whatever fails, every item   *)
(* is charged for unless its sale was interfered with, and the list stays   *)
(* within its maximum until it is disturbed.                                *)
(***************************************************************************)
EXTENDS Jukebox, TLAPS

-----------------------------------------------------------------------------
(* The accounts                                                             *)

\* What RemoveCoin and AddCoin rely on and keep.
AccountOK ==
  /\ dbCoins \in Nat /\ m_coins \in Int
  /\ m_coins <= dbCoins
  /\ wasRead => m_coins = dbCoins

\* RemoveCoin takes what the memory has and the database holds, or nothing.
LEMMA RemoveCoinKeepsAccount ==
  ASSUME AccountOK, NEW ok \in BOOLEAN, RemoveCoin(1, ok)
  PROVE  /\ dbCoins' \in Nat /\ m_coins' \in Int
         /\ m_coins' <= dbCoins'
         /\ wasRead => m_coins' = dbCoins'
<1>1. CASE m_coins <= 0
  BY <1>1 DEF AccountOK, RemoveCoin
<1>2. CASE m_coins > 0
  <2>1. PICK taken \in {0, 1} : dbCoins' = dbCoins - taken /\ m_coins' = m_coins - taken
    BY <1>2 DEF AccountOK, RemoveCoin
  <2>2. QED
    BY <1>2, <2>1 DEF AccountOK
<1>3. QED
  BY <1>1, <1>2 DEF AccountOK

\* AddCoin adds to both.
LEMMA AddCoinKeepsAccount ==
  ASSUME AccountOK, AddCoin(1)
  PROVE  /\ dbCoins' \in Nat /\ m_coins' \in Int
         /\ m_coins' <= dbCoins'
         /\ wasRead => m_coins' = dbCoins'
BY DEF AccountOK, AddCoin

\* The steps that leave the credits alone.
LEMMA AccountAlone ==
  ASSUME Playing \/ QueueNextItem \/ GoOver \/ SongEnds \/ HandleEnded \/ Stop \/ Skip
           \/ (\E i \in Int : JumpTo(i)) \/ SetRepeat \/ SetMode
           \/ QueueNothing \/ (\E n \in Nat : Queue(n))
  PROVE  UNCHANGED <<account, wasRead>>
<1>1. CASE Playing
  BY <1>1 DEF Playing, PlayNext, PlayPrevious, PlayOpens, PlayFails, CloseDialog, Chain
<1>2. CASE QueueNextItem \/ GoOver \/ HandleEnded \/ Stop \/ Skip \/ \E i \in Int : JumpTo(i)
  BY <1>2 DEF QueueNextItem, GoOver, HandleEnded, Stop, Skip, JumpTo, Chain
<1>3. CASE SongEnds \/ SetRepeat \/ SetMode \/ QueueNothing \/ \E n \in Nat : Queue(n)
  BY <1>3 DEF SongEnds, SetRepeat, SetMode, Command, QueueNothing, Queue, history
<1>4. QED
  BY <1>1, <1>2, <1>3

LEMMA AccountInit == Init => AccountOK
BY DEF Init, AccountOK

LEMMA AccountStep == AccountOK /\ [Next]_vars => AccountOK'
<1> SUFFICES ASSUME AccountOK, [Next]_vars PROVE AccountOK'
  OBVIOUS
<1>1. CASE Start
  BY <1>1 DEF Start, AccountOK
<1>2. CASE Crash
  BY <1>2 DEF Crash, AccountOK
<1>3. CASE InsertCredit \/ RemoveLastSong
  BY <1>3, AddCoinKeepsAccount DEF InsertCredit, RemoveLastSong, Command, AccountOK
<1>4. CASE RemoveCredit
  BY <1>4, RemoveCoinKeepsAccount DEF RemoveCredit, Command, AccountOK
<1>6. CASE RegisterQueue
  <2>1. CASE mode = "party"
    BY <1>6, <2>1 DEF RegisterQueue, account, AccountOK
  <2>2. CASE mode # "party"
    BY <1>6, <2>2, RemoveCoinKeepsAccount DEF RegisterQueue, AccountOK
  <2>3. QED
    BY <2>1, <2>2
<1>7. CASE UNCHANGED <<account, wasRead>>
  BY <1>7 DEF account, AccountOK
<1>8. CASE UNCHANGED vars
  BY <1>7, <1>8 DEF vars, history
<1>9. QED
  BY <1>1, <1>2, <1>3, <1>4, <1>6, <1>7, <1>8, AccountAlone, JukeboxAssumption DEF Next

\* The credits given out are in the database, which never owes any: whatever
\* statement fails, whenever the program ends, in both modes.
THEOREM CreditsAreBackedTheorem == Spec => []CreditsAreBacked
<1>1. AccountOK => CreditsAreBacked
  BY DEF AccountOK, CreditsAreBacked
<1>2. QED
  BY AccountInit, AccountStep, <1>1, PTL DEF Spec

\* After a start that could read them, memory and database have the same credits.
THEOREM CreditsAreInStepTheorem == Spec => []CreditsAreInStep
<1>1. AccountOK => CreditsAreInStep
  BY DEF AccountOK, CreditsAreInStep
<1>2. QED
  BY AccountInit, AccountStep, <1>1, PTL DEF Spec
-----------------------------------------------------------------------------
(* Types                                                                    *)

\* The two parts of TypeOK.
Numbers ==
  /\ songs \in Nat /\ playable \in Int /\ m_iCurrentSong \in Int /\ handed \in Int
  /\ dialogs \in Nat /\ m_iQueuesAllowed \in Int /\ mode \in Modes
  /\ m_repeatState \in {"none", "one", "all"}
  /\ op \in {"idle", "play", "back", "next", "previous", "register"}
Flags ==
  /\ running \in BOOLEAN /\ current \in BOOLEAN /\ m_bPlaybackStarted \in BOOLEAN
  /\ playing \in BOOLEAN /\ asked \in BOOLEAN /\ ended \in BOOLEAN /\ selling \in BOOLEAN
  /\ wasRead \in BOOLEAN /\ unpaid \in BOOLEAN /\ interfered \in BOOLEAN /\ disturbed \in BOOLEAN

LEMMA TypeParts == TypeOK <=> Numbers /\ Flags /\ dbCoins \in Int /\ m_coins \in Int
BY DEF Numbers, Flags, TypeOK

LEMMA UpdatedType == ASSUME Numbers PROVE Updated \in Int
BY JukeboxAssumption DEF Numbers, Updated, PlaylistSize

\* GetNextSong() keeps the types of the list, and neither lengthens it nor makes it current.
LEMMA TakeSongType ==
  ASSUME Numbers, Flags, TakeSong
  PROVE  /\ songs' \in Nat /\ songs' <= songs /\ m_iCurrentSong' \in Int
         /\ current' \in BOOLEAN /\ m_bPlaybackStarted' \in BOOLEAN
         /\ current' => current
<1>1. songs' = songs \/ (songs > 0 /\ songs' = songs - 1)
  BY DEF TakeSong
<1>2. songs' \in Nat /\ songs' <= songs
  BY <1>1 DEF Numbers
<1>3. m_iCurrentSong' \in Int
  BY DEF TakeSong, Numbers, marks, GiveUp
<1>4. current' \in BOOLEAN /\ m_bPlaybackStarted' \in BOOLEAN
  BY DEF TakeSong, Flags, marks, GiveUp
<1>5. current' => current
  BY DEF TakeSong, marks, GiveUp
<1>6. QED
  BY <1>2, <1>3, <1>4, <1>5

LEMMA TypeInit == Init => TypeOK
<1> SUFFICES ASSUME Init PROVE TypeOK
  OBVIOUS
<1>1. Numbers
  BY DEF Init, Numbers
<1>2. Flags
  BY DEF Init, Flags
<1>3. QED
  BY <1>1, <1>2, TypeParts DEF Init

LEMMA NumbersStep == Numbers /\ Flags /\ [Next]_vars => Numbers'
<1> SUFFICES ASSUME Numbers, Flags, [Next]_vars PROVE Numbers'
  OBVIOUS
<1> USE JukeboxAssumption DEF Numbers
<1>u. Updated \in Int
  BY UpdatedType
<1>s. \A i \in Int, n \in Nat : PlaySong(i, n) => m_iCurrentSong' \in Int
  BY DEF PlaySong
<1>r. \A n \in Nat : Return(n) \in {"idle", "register"}
  BY DEF Return
<1>1. CASE Start \/ QueueNothing
  BY <1>1, <1>u DEF Start, QueueNothing, Asked, list, marks, player, stage
<1>2. CASE Crash
  BY <1>2 DEF Crash
<1>3. CASE InsertCredit \/ RemoveCredit \/ RemoveLastSong \/ SetMode
  BY <1>3 DEF InsertCredit, RemoveCredit, RemoveLastSong, SetMode, Command, player, stage
<1>5. ASSUME NEW n \in Nat, Queue(n) PROVE Numbers'
  <2>1. m_iCurrentSong' \in Int
    <3>1. CASE songs + n > 0 /\ ~playing
      BY <1>5, <1>s, <3>1 DEF Queue
    <3>2. CASE ~(songs + n > 0 /\ ~playing)
      BY <1>5, <3>2 DEF Queue, marks
    <3>3. QED
      BY <3>1, <3>2
  <2>2. songs' \in Nat /\ playable' \in Int
    BY <1>5 DEF Queue, Counted
  <2>3. QED
    BY <1>5, <1>u, <2>1, <2>2 DEF Queue, Asked, player
<1>6. CASE RegisterQueue
  BY <1>6 DEF RegisterQueue, list, marks, player
<1>7. CASE PlayNext
  <2>1. NextSong \in Int
    BY DEF NextSong
  <2>2. CASE InRange(NextSong, songs) /\ playable > 0
    BY <1>7, <1>s, <2>1, <2>2 DEF PlayNext, Chain, list, player
  <2>3. CASE ~(InRange(NextSong, songs) /\ playable > 0)
    BY <1>7, <1>r, <2>3 DEF PlayNext, Chain, GiveUp, list, player
  <2>4. QED
    BY <2>2, <2>3
<1>8. CASE PlayPrevious
  <2> DEFINE back == IF m_repeatState = "one" THEN m_iCurrentSong
                     ELSE IF m_iCurrentSong - 1 < 0 /\ m_repeatState = "all" THEN songs - 1
                     ELSE m_iCurrentSong - 1
  <2>1. back \in Int
    OBVIOUS
  <2>2. \/ op' = "back" /\ PlaySong(back, songs)
        \/ op' = Return(dialogs) /\ UNCHANGED m_iCurrentSong
    BY <1>8 DEF PlayPrevious
  <2> HIDE DEF back
  <2>3. QED
    BY <1>8, <1>s, <1>r, <2>1, <2>2 DEF PlayPrevious, Chain, list, player
<1>9. CASE PlayOpens
  BY <1>9, <1>r DEF PlayOpens, Chain, list
<1>10. ASSUME NEW atOpen \in BOOLEAN, PlayFails(atOpen) PROVE Numbers'
  <2>1. songs' \in Nat /\ m_iCurrentSong' \in Int
    BY <1>10, TakeSongType DEF PlayFails, marks
  <2>2. QED
    BY <1>10, <2>1 DEF PlayFails, Chain
<1>11. CASE CloseDialog
  <2>1. dialogs - 1 \in Nat
    BY <1>11 DEF CloseDialog
  <2>2. QED
    BY <1>11, <1>r, <2>1 DEF CloseDialog, Chain, GiveUp, player
<1>12. CASE QueueNextItem
  <2>1. songs' \in Nat /\ m_iCurrentSong' \in Int
    BY <1>12, TakeSongType DEF QueueNextItem
  <2>2. QED
    BY <1>12, <2>1 DEF QueueNextItem, Chain
<1>13. CASE GoOver \/ HandleEnded \/ Skip \/ Stop
  BY <1>13 DEF GoOver, HandleEnded, Skip, Stop, GiveUp, Chain, list, marks, player
<1>15. ASSUME NEW i \in Int, JumpTo(i) PROVE Numbers'
  BY <1>15, <1>s DEF JumpTo, Chain, list, player
<1>16. CASE SongEnds \/ SetRepeat \/ UNCHANGED vars
  BY <1>16 DEF SongEnds, SetRepeat, vars, list, marks, player, stage
<1>18. QED
  BY <1>1, <1>2, <1>3, <1>5, <1>6, <1>7, <1>8, <1>9, <1>10, <1>11, <1>12, <1>13, <1>15, <1>16
     DEF Next, Playing

LEMMA FlagsStep == Numbers /\ Flags /\ [Next]_vars => Flags'
<1> SUFFICES ASSUME Numbers, Flags, [Next]_vars PROVE Flags'
  OBVIOUS
<1> USE DEF Flags
<1>1. CASE Start \/ QueueNothing
  BY <1>1 DEF Start, QueueNothing, list, marks, player, stage, history
<1>2. CASE Crash
  BY <1>2 DEF Crash
<1>3. CASE InsertCredit \/ RemoveCredit \/ RemoveLastSong \/ SetMode
  <2>1. Command
    BY <1>3 DEF InsertCredit, RemoveCredit, RemoveLastSong, SetMode
  <2>2. disturbed' = disturbed \/ disturbed' = TRUE
    BY <1>3 DEF InsertCredit, RemoveCredit, RemoveLastSong, SetMode
  <2>3. disturbed' \in BOOLEAN
    BY <2>2
  <2>4. QED
    BY <2>1, <2>3 DEF Command, player, stage
<1>5. ASSUME NEW n \in Nat, Queue(n) PROVE Flags'
  BY <1>5 DEF Queue, marks, player
<1>6. CASE RegisterQueue
  <2>1. unpaid' \in BOOLEAN /\ interfered' \in BOOLEAN
    <3>1. CASE mode = "party"
      BY <1>6, <3>1 DEF RegisterQueue
    <3>2. CASE mode # "party"
      BY <1>6, <3>2 DEF RegisterQueue
    <3>3. QED
      BY <3>1, <3>2
  <2>2. QED
    BY <1>6, <2>1 DEF RegisterQueue, marks, player
<1>7. CASE PlayNext \/ PlayPrevious \/ PlayOpens \/ CloseDialog
  BY <1>7 DEF PlayNext, PlayPrevious, PlayOpens, CloseDialog, GiveUp, Chain, player
<1>10. ASSUME NEW atOpen \in BOOLEAN, PlayFails(atOpen) PROVE Flags'
  <2>1. current' \in BOOLEAN /\ m_bPlaybackStarted' \in BOOLEAN
    <3>1. CASE atOpen
      BY <1>10, <3>1, TakeSongType DEF PlayFails
    <3>2. CASE ~atOpen
      BY <1>10, <3>2 DEF PlayFails, marks
    <3>3. QED
      BY <3>1, <3>2
  <2>2. playing' \in BOOLEAN /\ asked' \in BOOLEAN /\ ended' \in BOOLEAN
    BY <1>10 DEF PlayFails
  <2>3. QED
    BY <1>10, <2>1, <2>2 DEF PlayFails, Chain
<1>12. CASE QueueNextItem
  BY <1>12, TakeSongType DEF QueueNextItem, NoteLeft, Chain
<1>13. CASE GoOver \/ HandleEnded \/ Skip \/ Stop
  BY <1>13 DEF GoOver, HandleEnded, Skip, Stop, GiveUp, NoteLeft, Chain, marks, player
<1>15. ASSUME NEW i \in Int, JumpTo(i) PROVE Flags'
  BY <1>15 DEF JumpTo, Chain, player
<1>16. CASE SongEnds
  BY <1>16 DEF SongEnds, marks, stage, history
<1>17. CASE SetRepeat \/ UNCHANGED vars
  BY <1>17 DEF SetRepeat, vars, marks, player, stage, history
<1>18. QED
  BY <1>1, <1>2, <1>3, <1>5, <1>6, <1>7, <1>10, <1>12, <1>13, <1>15, <1>16, <1>17,
     JukeboxAssumption DEF Next, Playing

LEMMA TypeStep == TypeOK /\ AccountOK' /\ [Next]_vars => TypeOK'
<1> SUFFICES ASSUME TypeOK, AccountOK', [Next]_vars PROVE TypeOK'
  OBVIOUS
<1>1. Numbers /\ Flags
  BY TypeParts
<1>2. Numbers' /\ Flags'
  BY <1>1, NumbersStep, FlagsStep
<1>3. QED
  BY <1>2 DEF AccountOK, Numbers, Flags, TypeOK

\* Every variable keeps its type; a song is only taken off a list that has one.
THEOREM TypeTheorem == Spec => []TypeOK
BY AccountInit, AccountStep, TypeInit, TypeStep, PTL DEF Spec
-----------------------------------------------------------------------------
(* Handlers                                                                 *)

\* OnQueueItem is in progress only while its chain goes on or a dialog is open.
HandlerOK ==
  /\ ~running => ~selling
  /\ selling /\ op = "idle" => dialogs > 0
  /\ op = "register" => selling

LEMMA HandlerInit == Init => HandlerOK
BY DEF Init, HandlerOK

LEMMA HandlerStep == HandlerOK /\ TypeOK /\ [Next]_vars => HandlerOK'
<1> SUFFICES ASSUME HandlerOK, TypeOK, [Next]_vars PROVE HandlerOK'
  OBVIOUS
<1> USE JukeboxAssumption
<1>1. CASE UNCHANGED <<running, stage>>
  BY <1>1 DEF HandlerOK, stage
<1>2. CASE Start \/ Crash \/ RegisterQueue
  BY <1>2 DEF Start, Crash, RegisterQueue, HandlerOK, stage
<1>3. CASE InsertCredit \/ RemoveCredit \/ RemoveLastSong \/ SetMode
  BY <1>1, <1>3 DEF InsertCredit, RemoveCredit, RemoveLastSong, SetMode, Command
<1>4. CASE QueueNothing \/ SongEnds \/ SetRepeat \/ UNCHANGED vars
  BY <1>1, <1>4 DEF QueueNothing, SongEnds, SetRepeat, vars
<1>5. ASSUME NEW n \in Nat, Queue(n) PROVE HandlerOK'
  BY <1>5 DEF Queue, AtHand, Looping, HandlerOK
<1>6. ASSUME NEW n \in Nat, Chain, op' = Return(n), dialogs' = n PROVE HandlerOK'
  BY <1>6 DEF Chain, Return, HandlerOK
<1>7. ASSUME Chain, op' \in {"play", "back", "next", "previous"} PROVE HandlerOK'
  BY <1>7 DEF Chain, HandlerOK
<1>8. CASE PlayNext \/ PlayPrevious \/ PlayOpens
  BY <1>6, <1>7, <1>8 DEF PlayNext, PlayPrevious, PlayOpens, TypeOK
<1>9. ASSUME NEW atOpen \in BOOLEAN, PlayFails(atOpen) PROVE HandlerOK'
  BY <1>9 DEF PlayFails, Chain, TypeOK, HandlerOK
<1>10. CASE CloseDialog
  <2>1. dialogs - 1 \in Nat
    BY <1>10 DEF CloseDialog, TypeOK
  <2>2. QED
    BY <1>6, <1>10, <2>1 DEF CloseDialog
<1>11. CASE QueueNextItem \/ GoOver \/ Stop
  BY <1>1, <1>11 DEF QueueNextItem, GoOver, Stop, Chain, stage
<1>12. CASE HandleEnded \/ Skip \/ \E i \in Int : JumpTo(i)
  BY <1>7, <1>12 DEF HandleEnded, Skip, JumpTo
<1>13. QED
  BY <1>2, <1>3, <1>4, <1>5, <1>8, <1>9, <1>10, <1>11, <1>12 DEF Next, Playing
-----------------------------------------------------------------------------
(* Sales                                                                    *)

\* The item being queued has its credit, and nobody takes it before RegisterQueue,
\* unless the sale is interfered with.
SaleOK == ~interfered /\ unpaid => selling /\ mode # "party" /\ m_coins > 0

LEMMA SaleInit == Init => SaleOK
BY DEF Init, SaleOK

LEMMA SaleStep == SaleOK /\ HandlerOK /\ AccountOK /\ TypeOK /\ [Next]_vars => SaleOK'
<1> SUFFICES ASSUME SaleOK, HandlerOK, AccountOK, TypeOK, [Next]_vars PROVE SaleOK'
  OBVIOUS
<1> USE JukeboxAssumption
<1>1. CASE Start
  BY <1>1 DEF Start, HandlerOK, SaleOK
<1>2. CASE Crash
  BY <1>2 DEF Crash, SaleOK
<1>3. CASE InsertCredit \/ RemoveCredit \/ RemoveLastSong \/ SetMode
  <2>1. Command
    BY <1>3 DEF InsertCredit, RemoveCredit, RemoveLastSong, SetMode
  <2>2. QED
    BY <2>1 DEF Command, SaleOK
<1>4. ASSUME NEW n \in Nat, Queue(n) PROVE SaleOK'
  BY <1>4 DEF Queue, CanQueue, HasCoins, account, SaleOK
<1>5. CASE RegisterQueue
  <2>1. selling
    BY <1>5 DEF RegisterQueue, HandlerOK
  <2>2. CASE mode = "party"
    BY <1>5, <2>2 DEF RegisterQueue, SaleOK
  <2>3. CASE mode # "party"
    <3>1. PICK ok \in BOOLEAN : RemoveCoin(1, ok) /\ interfered' = (interfered \/ ~ok)
      BY <1>5, <2>3 DEF RegisterQueue
    <3>2. unpaid' = (unpaid /\ dbCoins' = dbCoins)
      BY <1>5, <2>3 DEF RegisterQueue
    <3>3. CASE ok /\ m_coins > 0
      <4>1. dbCoins' = dbCoins - 1
        BY <3>1, <3>3 DEF RemoveCoin, AccountOK
      <4>2. dbCoins' # dbCoins
        BY <4>1 DEF AccountOK
      <4>3. QED
        BY <3>2, <4>2 DEF SaleOK
    <3>4. CASE ~(ok /\ m_coins > 0)
      BY <3>1, <3>2, <3>4 DEF SaleOK, TypeOK
    <3>5. QED
      BY <3>3, <3>4
  <2>4. QED
    BY <2>2, <2>3
<1>6. CASE UNCHANGED <<account, mode, selling, unpaid, interfered>>
  BY <1>6 DEF account, SaleOK
<1>7. CASE Chain
  BY <1>6, <1>7 DEF Chain
<1>8. CASE QueueNothing \/ SongEnds \/ SetRepeat \/ UNCHANGED vars
  BY <1>6, <1>8 DEF QueueNothing, SongEnds, SetRepeat, vars, stage, history
<1>9. CASE Playing \/ QueueNextItem \/ GoOver \/ HandleEnded \/ Stop \/ Skip \/ \E i \in Int : JumpTo(i)
  BY <1>7, <1>9 DEF Playing, PlayNext, PlayPrevious, PlayOpens, PlayFails, CloseDialog, QueueNextItem,
                    GoOver, HandleEnded, Stop, Skip, JumpTo
<1>10. QED
  BY <1>1, <1>2, <1>3, <1>4, <1>5, <1>8, <1>9 DEF Next

\* No item is queued for free, in whatever modes the operator uses and whatever
\* songs fail, unless the sale was interfered with.  Both cases of that are needed:
\* RegisterQueue ignores what RemoveCoin returns, so a statement that fails leaves
\* the item queued and unpaid; a credit removed or a mode set while the error
\* dialog is open does so, too.
THEOREM SongsAreChargedTheorem == Spec => []SongsAreCharged
<1>1. SaleOK => SongsAreCharged
  BY DEF SaleOK, SongsAreCharged
<1>2. QED
  BY AccountInit, AccountStep, TypeInit, TypeStep, HandlerInit, HandlerStep, SaleInit, SaleStep,
     <1>1, PTL DEF Spec
-----------------------------------------------------------------------------
(* The party mode's list                                                    *)

\* As long as nothing has disturbed the list, it and the queues still allowed fit
\* into the maximum; the counter that the quota is computed from is not below the
\* number of songs, and only the current list has any.
Undisturbed == PlaylistMaxSize > 0 /\ mode = "party" /\ ~disturbed

ListFits ==
  /\ m_iQueuesAllowed \in Nat
  /\ songs <= PlaylistMaxSize
  /\ ~selling => songs + m_iQueuesAllowed <= PlaylistMaxSize
  /\ selling => m_iQueuesAllowed > 0 /\ songs + m_iQueuesAllowed <= PlaylistMaxSize + 1
  /\ ~current => songs = 0
  /\ current => playable >= 0
  /\ songs > 0 => songs <= playable

QuotaOK == Undisturbed => ListFits

LEMMA UpdatedFits ==
  ASSUME TypeOK, ListFits, ~selling
  PROVE  Updated \in Nat /\ songs + Updated <= PlaylistMaxSize
BY JukeboxAssumption DEF TypeOK, ListFits, Updated, PlaylistSize

LEMMA QuotaInit == Init => QuotaOK
BY JukeboxAssumption DEF Init, ListFits, QuotaOK

\* What has disturbed the list is only forgotten with the program's memory.
LEMMA DisturbedStays == [Next]_vars /\ ~Crash /\ Undisturbed' => Undisturbed
<1> SUFFICES ASSUME [Next]_vars, ~Crash, Undisturbed' PROVE Undisturbed
  OBVIOUS
<1> SUFFICES mode' = mode /\ (disturbed => disturbed')
  BY DEF Undisturbed
<1>n. ~SetMode
  BY DEF SetMode, Undisturbed
<1>1. CASE Start \/ InsertCredit \/ RemoveCredit \/ RemoveLastSong \/ RegisterQueue
  BY <1>1 DEF Start, InsertCredit, RemoveCredit, RemoveLastSong, RegisterQueue
<1>2. CASE QueueNothing \/ SongEnds \/ SetRepeat \/ UNCHANGED vars
  BY <1>2 DEF QueueNothing, SongEnds, SetRepeat, vars, history
<1>3. ASSUME NEW n \in Nat, Queue(n) PROVE mode' = mode /\ (disturbed => disturbed')
  BY <1>3 DEF Queue
<1>4. CASE Chain /\ (disturbed => disturbed')
  BY <1>4 DEF Chain
<1>5. CASE PlayNext \/ PlayPrevious \/ PlayOpens \/ CloseDialog
  BY <1>4, <1>5 DEF PlayNext, PlayPrevious, PlayOpens, CloseDialog
<1>6. ASSUME NEW atOpen \in BOOLEAN, PlayFails(atOpen) PROVE mode' = mode /\ (disturbed => disturbed')
  BY <1>4, <1>6 DEF PlayFails
<1>7. CASE QueueNextItem \/ Stop
  BY <1>4, <1>7 DEF QueueNextItem, Stop, NoteLeft
<1>8. CASE GoOver \/ HandleEnded \/ Skip \/ \E i \in Int : JumpTo(i)
  BY <1>4, <1>8 DEF GoOver, HandleEnded, Skip, JumpTo
<1>9. QED
  BY <1>n, <1>1, <1>2, <1>3, <1>5, <1>6, <1>7, <1>8, JukeboxAssumption DEF Next, Playing

\* A step that takes songs off, or gives up a list that is empty, keeps the bounds.
LEMMA FewerFit ==
  ASSUME ListFits, TypeOK, TypeOK', songs' <= songs,
         m_iQueuesAllowed' = m_iQueuesAllowed, selling' = selling, playable' = playable,
         current' => current, ~current' => songs' = 0
  PROVE  ListFits'
<1>n. /\ songs \in Nat /\ songs' \in Nat /\ m_iQueuesAllowed \in Nat /\ PlaylistMaxSize \in Nat
      /\ songs <= PlaylistMaxSize /\ songs' <= songs
  BY JukeboxAssumption DEF ListFits, TypeOK
<1>1. songs' <= PlaylistMaxSize
  BY ONLY <1>n
<1>2. songs' > 0 => songs > 0 /\ songs' <= playable'
  BY JukeboxAssumption DEF ListFits, TypeOK
<1>a. \A a, b, q, m \in Nat : a <= b /\ b + q <= m => a + q <= m
  OBVIOUS
<1>3. \A m \in Nat : songs + m_iQueuesAllowed <= m => songs' + m_iQueuesAllowed <= m
  BY ONLY <1>a, <1>n
<1>6. PlaylistMaxSize \in Nat /\ PlaylistMaxSize + 1 \in Nat
  BY JukeboxAssumption
<1>7. ~selling' => songs' + m_iQueuesAllowed' <= PlaylistMaxSize
  BY <1>3, <1>6 DEF ListFits
<1>8. selling' => m_iQueuesAllowed' > 0 /\ songs' + m_iQueuesAllowed' <= PlaylistMaxSize + 1
  BY <1>3, <1>6 DEF ListFits
<1>4. current' => playable' >= 0
  BY DEF ListFits
<1>5. QED
  BY <1>1, <1>2, <1>4, <1>7, <1>8 DEF ListFits

LEMMA QuotaStep ==
  QuotaOK /\ HandlerOK /\ TypeOK /\ TypeOK' /\ [Next]_vars => QuotaOK'
<1> SUFFICES ASSUME QuotaOK, HandlerOK, TypeOK, TypeOK', [Next]_vars, Undisturbed'
             PROVE  ListFits'
  BY DEF QuotaOK
<1> USE JukeboxAssumption
<1>c. CASE Crash
  BY <1>c DEF Crash, ListFits
<1>d. SUFFICES ASSUME ~Crash PROVE ListFits'
  BY <1>c
<1>u. ListFits /\ Undisturbed
  BY <1>d, DisturbedStays DEF QuotaOK
<1>a. ~disturbed' /\ mode = "party"
  BY <1>u DEF Undisturbed
<1>1. ~selling => Updated \in Nat /\ songs + Updated <= PlaylistMaxSize
  BY <1>u, UpdatedFits
<1>2. CASE Start
  BY <1>u, <1>1, <1>2 DEF Start, list, marks, stage, ListFits, HandlerOK
<1>3. CASE InsertCredit \/ RemoveCredit \/ RemoveLastSong
  <2>1. Command
    BY <1>3 DEF InsertCredit, RemoveCredit, RemoveLastSong
  <2>2. songs' <= songs /\ (~current => songs' = songs)
    BY <1>3 DEF InsertCredit, RemoveCredit, RemoveLastSong, TypeOK
  <2>3. QED
    BY <1>u, <2>1, <2>2, FewerFit DEF Command, stage, ListFits
<1>4. CASE QueueNothing
  <2>1. ~selling
    BY <1>4 DEF QueueNothing, AtHand, Looping, HandlerOK, TypeOK
  <2>2. QED
    BY <1>u, <1>1, <1>a, <1>4, <2>1 DEF QueueNothing, Asked, list, marks, stage, ListFits
<1>5. ASSUME NEW n \in Nat, Queue(n) PROVE ListFits'
  <2>1. n = 1 /\ (~current' => ~(songs' > 0))
    BY <1>5, <1>a DEF Queue
  <2>2. Updated > 0 /\ m_iQueuesAllowed' = Updated
    BY <1>5, <1>a, <1>u DEF Queue, CanQueue, PartyCanQueue, Asked, Undisturbed
  <2>3. ~selling /\ selling' /\ songs' = songs + 1 /\ playable' = Counted(1)
    BY <1>5, <2>1 DEF Queue, AtHand, Looping, HandlerOK, TypeOK
  <2>4. songs' <= playable' /\ playable' >= 0
    BY <1>u, <2>3 DEF Counted, ListFits, TypeOK
  <2>5. QED
    BY <1>u, <1>1, <2>1, <2>2, <2>3, <2>4 DEF ListFits, TypeOK
<1>6. CASE RegisterQueue
  <2>1. selling /\ ~selling' /\ m_iQueuesAllowed' = m_iQueuesAllowed - 1
    BY <1>a, <1>6 DEF RegisterQueue, HandlerOK
  <2>2. QED
    BY <1>u, <1>6, <2>1 DEF RegisterQueue, list, marks, ListFits, TypeOK
<1>7. CASE PlayNext
  <2>1. UNCHANGED <<list, m_iQueuesAllowed, selling>>
    BY <1>7 DEF PlayNext, Chain
  <2>2. current' = current \/ (~current' /\ ~(songs > 0))
    BY <1>a, <1>7 DEF PlayNext, GiveUp
  <2>3. QED
    BY <1>u, <2>1, <2>2, FewerFit DEF list, ListFits, TypeOK
<1>8. CASE PlayPrevious \/ PlayOpens \/ GoOver \/ HandleEnded \/ Skip
  BY <1>u, <1>8, FewerFit DEF PlayPrevious, PlayOpens, GoOver, HandleEnded, Skip, Chain, list, marks,
                              ListFits, TypeOK
<1>9. ASSUME NEW atOpen \in BOOLEAN, PlayFails(atOpen) PROVE ListFits'
  <2>1. ~InRange(m_iCurrentSong', songs') /\ (~current' => ~(songs' > 0))
    BY <1>9, <1>a DEF PlayFails
  <2>2. playable' = playable /\ UNCHANGED <<m_iQueuesAllowed, selling>>
    BY <1>9, <2>1 DEF PlayFails, Chain
  <2>3. songs' <= songs /\ (current' => current)
    <3>1. CASE atOpen
      BY <1>9, <3>1, TypeParts, TakeSongType DEF PlayFails
    <3>2. CASE ~atOpen
      BY <1>9, <3>2 DEF PlayFails, marks, TypeOK
    <3>3. QED
      BY <3>1, <3>2
  <2>4. ~current' => songs' = 0
    BY <2>1 DEF TypeOK
  <2>5. QED
    BY <1>u, <2>2, <2>3, <2>4, FewerFit
<1>10. CASE CloseDialog
  <2>1. songs' = 0 /\ ~current' /\ UNCHANGED <<m_iQueuesAllowed, selling>>
    BY <1>u, <1>10 DEF CloseDialog, GiveUp, Chain, ListFits
  <2>2. QED
    BY <1>u, <2>1 DEF ListFits, TypeOK
<1>11. CASE QueueNextItem
  <2>1. UNCHANGED <<m_iQueuesAllowed, selling, playable>> /\ (~current' => ~(songs' > 0))
    BY <1>a, <1>11 DEF QueueNextItem, NoteLeft, Chain
  <2>2. songs' <= songs /\ (current' => current)
    BY <1>11, TypeParts, TakeSongType DEF QueueNextItem
  <2>3. ~current' => songs' = 0
    BY <2>1 DEF TypeOK
  <2>4. QED
    BY <1>u, <2>1, <2>2, <2>3, FewerFit
<1>12. CASE Stop
  <2>1. UNCHANGED <<m_iQueuesAllowed, selling, list>> /\ (~current' => ~(songs' > 0))
    BY <1>a, <1>12 DEF Stop, NoteLeft, Chain
  <2>2. current' => current
    BY <1>12 DEF Stop, GiveUp, marks
  <2>3. songs' <= songs /\ (~current' => songs' = 0) /\ UNCHANGED playable
    BY <2>1 DEF list, TypeOK
  <2>4. QED
    BY <1>u, <2>1, <2>2, <2>3, FewerFit
<1>13. ASSUME NEW i \in Int, JumpTo(i) PROVE ListFits'
  <2>1. songs > 0 /\ UNCHANGED <<m_iQueuesAllowed, selling, list>> /\ current'
    BY <1>13 DEF JumpTo, Chain, InRange, TypeOK
  <2>2. QED
    BY <1>u, <2>1 DEF list, ListFits, TypeOK
<1>14. CASE SongEnds \/ SetRepeat \/ UNCHANGED vars
  BY <1>u, <1>14 DEF SongEnds, SetRepeat, vars, list, marks, stage, ListFits
<1>15. CASE SetMode
  BY <1>a, <1>15 DEF SetMode
<1>16. QED
  BY <1>d, <1>2, <1>3, <1>4, <1>5, <1>6, <1>7, <1>8, <1>9, <1>10, <1>11, <1>12, <1>13, <1>14, <1>15
     DEF Next, Playing

\* The party mode keeps the list within its maximum, whatever the maximum and the
\* wait are, until the list is disturbed in one of the ways that ListWithinMax
\* names.  They are needed: a folder uses up one queue; songs in a list that is not
\* the current one are not counted, nor are those that could not be played.
THEOREM ListWithinMaxTheorem == Spec => []ListWithinMax
<1>1. QuotaOK => ListWithinMax
  BY DEF QuotaOK, Undisturbed, ListFits, ListWithinMax
<1>2. QED
  BY AccountInit, AccountStep, TypeInit, TypeStep, HandlerInit, HandlerStep, QuotaInit, QuotaStep,
     <1>1, PTL DEF Spec
=============================================================================
