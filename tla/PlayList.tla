------------------------------- MODULE PlayList -------------------------------
(***************************************************************************)
(* One CPlayList (xbmc/playlists/PlayList.cpp) under everything its users   *)
(* do with it: the windows, the remote interfaces and CPlayListPlayer.      *)
(***************************************************************************)
EXTENDS PlayListOps

CONSTANTS Paths,
          MaxSize,          (* bound: items in a list                            *)
          MaxPlayable,      (* bound: the playable counter, which Remove leaves  *)
                            (* as it is, stays between -MaxPlayable and this     *)
          MaxOrder          (* bound: nothing is added when an order would pass  *)
                            (* this (the orders of a permutation never do)       *)

ASSUME PlayListAssumption == MaxSize \in Nat /\ MaxPlayable \in Nat /\ MaxOrder \in Nat

VARIABLES list,
          disturbed       (* history: see Disturbances                         *)

vars == <<list, disturbed>>

\* What may have happened since the list was last cleared, that the order numbers,
\* or the counter of playable items, do not survive.
Disturbances ==
  {"inserted",   \* a song was put into a shuffled list before its end
   "removed",    \* a path was removed that the list had more than once
   "updated",    \* an item was replaced by a copy with another order
   "unmarked"}   \* an unplayable item was replaced by a copy without the mark
-----------------------------------------------------------------------------
(* The operations the windows, the remote interfaces and CPlayListPlayer call. *)

\* What one call adds.
Added == UNION {[1 .. n -> Paths] : n \in 1 .. 2}

\* Bounds.
Room(l, n) ==
  /\ l.size + n <= MaxSize /\ l.playable + n <= MaxPlayable
  /\ \A i \in Indices(l) : l.items[i].order + n <= MaxOrder

\* A condition that disturbs the list if it holds.
Disturbs(condition, what) ==
  disturbed' = IF condition THEN disturbed \cup {what} ELSE disturbed

Init == list = NewList /\ disturbed = {}

AddItems == \E paths \in Added :
  /\ Room(list, Len(paths))
  /\ list' = AddAll(list, paths)
  /\ UNCHANGED disturbed

InsertItems == \E paths \in Added, i \in Indices(list) :
  /\ Room(list, Len(paths))
  /\ list' = InsertAll(list, paths, i)
  /\ Disturbs(list.shuffled, "inserted")

ExpandItem == \E loaded \in Added, i \in Indices(list) :
  /\ Room(list, Len(loaded))
  /\ list' = Expand(list, i, loaded)
  /\ Disturbs(list.shuffled, "inserted")

RemoveItem == \E i \in Indices(list) : list' = Remove(list, i) /\ UNCHANGED disturbed

RemoveByPath == \E path \in Paths :
  /\ list' = RemovePath(list, path)
  /\ Disturbs(\E i, j \in Positions(list, path) : i # j, "removed")

ClearList == list' = Clear(list) /\ disturbed' = {}

ShuffleList == \E i \in 0 .. list.size : list' \in Shuffles(list, i) /\ UNCHANGED disturbed

UnShuffleList == list' \in UnShuffles(list) /\ UNCHANGED disturbed

SwapItems == \E a, b \in Indices(list) : list' = Swap(list, a, b) /\ UNCHANGED disturbed

MarkUnPlayable == \E i \in Indices(list) :
  /\ list.playable > -MaxPlayable
  /\ list' = SetUnPlayable(list, i)
  /\ UNCHANGED disturbed

SetPlayed == list' = [list EXCEPT !.played = TRUE] /\ UNCHANGED disturbed

\* The item that UpdateItem finds for a path.
Found(l, path) == l.items[CHOOSE i \in Positions(l, path) : \A j \in Positions(l, path) : i <= j]

\* A window sends back its copy of an item, with another thumbnail.  A copy made
\* before a removal or an insertion, or of another item of the same path, has another
\* order; one made before the item failed is not marked.
UpdateItem == \E path \in Paths, order \in 0 .. MaxOrder, unplayable \in BOOLEAN :
  LET old == Found(list, path)
  IN  /\ Positions(list, path) # {}
      /\ list' = Update(list, [path |-> path, order |-> order, unplayable |-> unplayable])
      /\ disturbed' = disturbed
           \cup (IF order # old.order THEN {"updated"} ELSE {})
           \cup (IF old.unplayable /\ ~unplayable THEN {"unmarked"} ELSE {})

Next ==
  \/ AddItems \/ InsertItems \/ ExpandItem \/ RemoveItem \/ RemoveByPath \/ ClearList
  \/ ShuffleList \/ UnShuffleList \/ SwapItems \/ MarkUnPlayable \/ SetPlayed \/ UpdateItem

Spec == Init /\ [][Next]_vars
-----------------------------------------------------------------------------
(* Properties *)

\* Nothing has happened that the order numbers do not survive.
OrdersIntact == disturbed \subseteq {"unmarked"}

\* The order numbers are a permutation of the positions: PlayList.cpp keeps them
\* so through adding, inserting ("correct any duplicate order values") and
\* removing, or UnShuffle and FindOrder would find no order or two.  Three uses are
\* excepted, which leave duplicates or gaps: inserting into a shuffled list, removing
\* a path that is there twice, and updating with a copy of another order.
OrdersArePermutation ==
  OrdersIntact =>
    /\ \A i \in Indices(list) : list.items[i].order \in Indices(list)
    /\ \A i, j \in Indices(list) : list.items[i].order = list.items[j].order => i = j

\* Playback is given up when the counter says that nothing can be played
\* (PlayListPlayer.cpp:149 and 273): the counter never says so too early, whatever
\* the list is used for, unless a copy has taken the mark off an unplayable item.
PlayableNeverTooLow ==
  "unmarked" \notin disturbed => Playable(list) <= list.playable \/ list.size = 0

\* The list with its order numbers implements the two orders of PlayOrder: the
\* queued order is the one the order numbers spell.
Order == INSTANCE PlayOrder WITH queued <- QueuedOrder(list), playing <- PlayingOrder(list),
                                 shuffled <- list.shuffled

\* Switching shuffle off gives the queued order back, whatever was added,
\* inserted, removed, swapped or shuffled before (PlayList.cpp:233-238), songs that are
\* there twice included: as long as the orders are intact each step is one of
\* PlayOrder.
ImplementsPlayOrder ==
  Order!Init /\ [][OrdersIntact' => Order!Next]_(Order!povars)
=============================================================================
