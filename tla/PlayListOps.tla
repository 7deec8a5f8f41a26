----------------------------- MODULE PlayListOps -----------------------------
(***************************************************************************)
(* The operations of CPlayList (xbmc/playlists/PlayList.cpp) as operators   *)
(* on the value of a list: a vector of items, each with an order number     *)
(* (m_iprogramCount) that remembers where the item was before the list was  *)
(* shuffled, a counter of the playable items, and the flags "shuffled" and  *)
(* "was played".                                                            *)
(*                                                                         *)
(* The vector is a function on 0 .. size-1.  An item is its path, its order *)
(* and the property "unplayable" that a failed attempt to play it leaves.   *)
(***************************************************************************)
EXTENDS Integers, FiniteSets, Sequences, Functions

Indices(l) == 0 .. l.size - 1

\* CPlayList::CPlayList
EmptyItems == [i \in 0 .. -1 |-> << >>]

NewItem(path, order) == [path |-> path, order |-> order, unplayable |-> FALSE]

\* Every Add makes the counter one more, and 1 out of the -1 of an empty list.
Counted(l, n) == IF l.playable < 0 THEN n ELSE l.playable + n

\* Add of the items of a sequence, one after the other, at the end.
AddAll(l, paths) ==
  [l EXCEPT !.size = @ + Len(paths),
            !.items = [i \in 0 .. l.size + Len(paths) - 1 |->
                         IF i < l.size THEN l.items[i] ELSE NewItem(paths[i - l.size + 1], i)],
            !.playable = Counted(l, Len(paths))]

\* IncrementOrder, once for each of n added items: the items behind them that
\* have the order of the first one or a higher one move up.
Bumped(item, order, n) ==
  IF item.order >= order THEN [item EXCEPT !.order = @ + n] ELSE item

\* Insert of one item or several: the k-th is added at position + k with that
\* number as its order.  A position outside the list means the end.
InsertAll(l, paths, position) ==
  LET n == Len(paths)
  IN  IF position \notin Indices(l) THEN AddAll(l, paths)
      ELSE [l EXCEPT
              !.size = @ + n,
              !.items = [i \in 0 .. l.size + n - 1 |->
                           IF i < position THEN l.items[i]
                           ELSE IF i < position + n THEN NewItem(paths[i - position + 1], i)
                           ELSE Bumped(l.items[i - n], position, n)],
              !.playable = Counted(l, n)]

\* Mutated form: the orders are left as they are.
LoweredNever(item, order, newSize) == item

\* DecrementOrder, called after an item of this order has been erased.
Lowered(item, order, newSize) ==
  IF item.order > order /\ order # newSize THEN [item EXCEPT !.order = @ - 1] ELSE item

\* Remove(position); the playable counter keeps its value.
Remove(l, position) ==
  IF position \notin Indices(l) THEN l
  ELSE LET order == l.items[position].order
           Kept(i) == IF i < position THEN l.items[i] ELSE l.items[i + 1]
       IN  [l EXCEPT !.size = @ - 1,
                     !.items = [i \in 0 .. l.size - 2 |-> Lowered(Kept(i), order, l.size - 1)]]

Positions(l, path) == {i \in Indices(l) : l.items[i].path = path}

\* The members of a set of positions, from the lowest on, counted from 0.
Nth(K, i) == CHOOSE k \in K : Cardinality({j \in K : j < k}) = i

\* Remove(strFileName): every item of this path is erased, and the orders are
\* corrected once, for the last one erased.
RemovePath(l, path) ==
  LET gone == Positions(l, path)
      kept == Indices(l) \ gone
      newSize == Cardinality(kept)
      last == CHOOSE k \in gone : \A j \in gone : j <= k
  IN  IF gone = {} THEN l
      ELSE [l EXCEPT !.size = newSize,
                     !.items = [i \in 0 .. newSize - 1 |->
                                  Lowered(l.items[Nth(kept, i)], l.items[last].order, newSize)]]

NewList == [size |-> 0, items |-> EmptyItems, playable |-> -1,
            shuffled |-> FALSE, played |-> FALSE]

Clear(l) == [l EXCEPT !.size = 0, !.items = EmptyItems, !.playable = -1, !.played = FALSE]

Bijections(n) == {p \in [0 .. n - 1 -> 0 .. n - 1] : IsInjective(p)}

\* The lists Shuffle(iPosition) can leave: the items from iPosition on in any
\* order.  An empty list only gets the flag; a position behind the end does nothing.
Shuffles(l, iPosition) ==
  IF l.size > 0 /\ iPosition >= l.size THEN {l}
  ELSE {[l EXCEPT !.shuffled = TRUE, !.items = [i \in Indices(l) |-> l.items[p[i]]]] :
          p \in {q \in Bijections(l.size) : \A i \in Indices(l) : i < iPosition => q[i] = i}}

\* The lists UnShuffle can leave: sorted by order, items of one order in any order.
UnShuffles(l) ==
  {[l EXCEPT !.shuffled = FALSE, !.items = [i \in Indices(l) |-> l.items[p[i]]]] :
     p \in {q \in Bijections(l.size) :
              \A i, j \in Indices(l) : i < j => l.items[q[i]].order <= l.items[q[j]].order}}

\* FindOrder
FindOrder(l, iOrder) ==
  LET found == {i \in Indices(l) : l.items[i].order = iOrder}
  IN  IF found = {} THEN -1 ELSE CHOOSE i \in found : \A j \in found : i <= j

\* Mutated form: the orders stay put, shuffled or not.
SwapOrdersNever(l, a, b) ==
  [l EXCEPT !.items = [@ EXCEPT ![a] = [l.items[b] EXCEPT !.order = l.items[a].order],
                                ![b] = [l.items[a] EXCEPT !.order = l.items[b].order]]]

\* Swap of two positions of the list: outside shuffle the orders stay put.
Swap(l, a, b) ==
  LET order(x, y) == IF l.shuffled THEN l.items[x].order ELSE l.items[y].order
  IN  [l EXCEPT !.items = [@ EXCEPT ![a] = [l.items[b] EXCEPT !.order = order(b, a)],
                                    ![b] = [l.items[a] EXCEPT !.order = order(a, b)]]]

\* Mutated form: an item is counted off each time it fails.
SetUnPlayableAgain(l, i) ==
  IF i \in Indices(l)
  THEN [l EXCEPT !.items[i].unplayable = TRUE, !.playable = @ - 1]
  ELSE l

SetUnPlayable(l, i) ==
  IF i \in Indices(l) /\ ~l.items[i].unplayable
  THEN [l EXCEPT !.items[i].unplayable = TRUE, !.playable = @ - 1]
  ELSE l

\* Expand: the item at the position is a playlist file, whose items other than
\* itself take its place.
Expand(l, position, loaded) ==
  LET K == {k \in DOMAIN loaded : loaded[k] # l.items[position].path}
      others == [n \in 1 .. Cardinality(K) |-> loaded[Nth(K, n - 1)]]
  IN  IF others = << >> THEN l ELSE InsertAll(Remove(l, position), others, position)

\* UpdateItem: the first item of the path becomes a copy of the one sent, order
\* and properties included.
Update(l, item) ==
  LET found == Positions(l, item.path)
  IN  IF found = {} THEN l
      ELSE [l EXCEPT !.items[CHOOSE i \in found : \A j \in found : i <= j] = item]
-----------------------------------------------------------------------------
(* What GetPlayable is taken for, and the two orders of a list. *)
Playable(l) == Cardinality({i \in Indices(l) : ~l.items[i].unplayable})

PlayingOrder(l) == [k \in 1 .. l.size |-> l.items[k - 1].path]
QueuedOrder(l) ==
  [k \in 1 .. l.size |-> LET i == FindOrder(l, k - 1)
                         IN  IF i = -1 THEN << >> ELSE l.items[i].path]
=============================================================================
