------------------------- MODULE PlayListPlayerProofs -------------------------
(***************************************************************************)
(* Proofs about PlayListPlayer, for any songs, playlists, bounds and number *)
(* of retries: the attempts of one handler are bounded, and a change of the *)
(* list takes the marker along; and, while the users only queue songs and   *)
(* none is queued in a race with the end of the last one, no song is lost,  *)
(* played out of turn or cut short, and the indices the main thread keeps   *)
(* stand for the songs the player has.                                      *)
(***************************************************************************)
EXTENDS PlayListPlayer, FiniteSetTheorems, SequenceTheorems, TLAPS

-----------------------------------------------------------------------------
(* Lists                                                                    *)

Items == [path : Paths, order : Int, unplayable : BOOLEAN]
Fields == {"size", "items", "playable", "shuffled", "played"}

\* No song is in the list twice.
Once(l) == \A i, j \in Indices(l) : l.items[i].path = l.items[j].path => i = j

IsList(l) ==
  /\ DOMAIN l = Fields
  /\ l.size \in Nat /\ l.playable \in Int /\ l.shuffled \in BOOLEAN
  /\ l.items \in [Indices(l) -> Items]
  /\ Once(l)

\* The items of a list.
LEMMA ItemOfList ==
  ASSUME NEW l, IsList(l), NEW i \in Indices(l)
  PROVE  /\ l.items[i] \in Items /\ l.items[i].path \in Paths /\ l.items[i].order \in Int
         /\ l.items[i].unplayable \in BOOLEAN /\ i \in Nat /\ i < l.size
BY DEF IsList, Indices, Items

\* A new list, and one that has been cleared, have no items.
LEMMA NoItems ==
  ASSUME NEW m, DOMAIN m = Fields, m.size = 0, m.items = EmptyItems, m.playable \in Int,
         m.shuffled \in BOOLEAN
  PROVE  IsList(m) /\ Indices(m) = {}
<1>1. Indices(m) = {} /\ EmptyItems \in [{} -> Items]
  BY DEF Indices, EmptyItems
<1>2. QED
  BY <1>1 DEF IsList, Once

\* A list starts empty, in its own order.
LEMMA NewListIsList == IsList(NewList) /\ NewList.size = 0 /\ NewList.shuffled = FALSE
<1>1. /\ DOMAIN NewList = Fields /\ NewList.size = 0 /\ NewList.items = EmptyItems
      /\ NewList.playable \in Int /\ NewList.shuffled = FALSE
  BY DEF NewList, Fields
<1>2. QED
  BY <1>1, NoItems

\* Clear leaves an empty list in the same mode (CPlayList::Clear).
LEMMA ClearIsList ==
  ASSUME NEW l, IsList(l)
  PROVE  IsList(Clear(l)) /\ Clear(l).size = 0 /\ Clear(l).shuffled = l.shuffled
<1> DEFINE m == Clear(l)
<1>1. DOMAIN l = Fields /\ l.shuffled \in BOOLEAN
  BY DEF IsList
<1>2. /\ DOMAIN m = Fields /\ m.size = 0 /\ m.items = EmptyItems /\ m.playable = -1
      /\ m.shuffled = l.shuffled
  BY <1>1 DEF Clear, Fields
<1> HIDE DEF m
<1>3. IsList(m)
  BY <1>1, <1>2, NoItems
<1>4. QED
  BY <1>2, <1>3 DEF m

\* An item whose order has changed.
LEMMA BumpedItem ==
  ASSUME NEW item \in Items, NEW order \in Int, NEW n \in Int
  PROVE  /\ Bumped(item, order, n) \in Items /\ Bumped(item, order, n).path = item.path
         /\ Bumped(item, order, n).unplayable = item.unplayable
BY DEF Bumped, Items

\* An item whose order is lowered when another is erased.
LEMMA LoweredItem ==
  ASSUME NEW item \in Items, NEW order \in Int, NEW n \in Int
  PROVE  /\ Lowered(item, order, n) \in Items /\ Lowered(item, order, n).path = item.path
         /\ Lowered(item, order, n).unplayable = item.unplayable
BY DEF Lowered, Items

\* An item that is added.
LEMMA NewItemFields ==
  ASSUME NEW path \in Paths, NEW order \in Int
  PROVE  /\ NewItem(path, order) \in Items /\ NewItem(path, order).path = path
         /\ ~NewItem(path, order).unplayable
BY DEF NewItem, Items

\* k songs that are not in the list, each once.
Fresh(l, ps, k) ==
  /\ ps \in Seq(Paths) /\ Len(ps) = k /\ k \in Nat
  /\ \A x \in 1 .. k : ps[x] \in Paths /\ ps[x] \notin InList(l)
  /\ \A x, y \in 1 .. k : ps[x] = ps[y] => x = y

\* Items of which some are those of a list, at other places, and the k others, from
\* pos on, are fresh, are one list.
LEMMA OnceAfterAddition ==
  ASSUME NEW l, IsList(l), NEW k, NEW ps, Fresh(l, ps, k), NEW pos \in 0 .. l.size,
         NEW m, m.size = l.size + k,
         \A i \in 0 .. pos - 1 : m.items[i].path = l.items[i].path,
         \A i \in pos .. pos + k - 1 : m.items[i].path = ps[i - pos + 1],
         \A i \in pos + k .. l.size + k - 1 : m.items[i].path = l.items[i - k].path
  PROVE  Once(m)
<1> DEFINE From(i) == IF i < pos THEN i ELSE i - k
           Old(i) == i \in 0 .. pos - 1 \/ i \in pos + k .. l.size + k - 1
           New(i) == i \in pos .. pos + k - 1
           P(i) == m.items[i].path
<1>1. l.size \in Nat /\ k \in Nat /\ pos \in Nat /\ pos <= l.size
  BY DEF IsList, Fresh
<1>2. \A x \in Indices(m) : Old(x) \/ New(x)
  BY <1>1 DEF Indices
<1>3. ASSUME NEW x \in Indices(m), Old(x) PROVE From(x) \in Indices(l) /\ P(x) = l.items[From(x)].path
  <2>1. CASE x \in 0 .. pos - 1
    BY <1>1, <2>1 DEF Indices
  <2>2. CASE x \in pos + k .. l.size + k - 1
    <3>1. ~(x < pos) /\ x - k \in Indices(l)
      BY <1>1, <2>2 DEF Indices
    <3>2. QED
      BY <2>2, <3>1
  <2>3. QED
    BY <1>3, <2>1, <2>2
<1>4. ASSUME NEW x \in Indices(m), New(x) PROVE x - pos + 1 \in 1 .. k /\ P(x) = ps[x - pos + 1]
  BY <1>1, <1>4
<1>5. \A x, y \in Indices(m) : Old(x) /\ Old(y) /\ From(x) = From(y) => x = y
  BY <1>1 DEF Indices
<1>6. \A x, y \in Indices(m) : New(x) /\ New(y) /\ x - pos + 1 = y - pos + 1 => x = y
  BY <1>1
<1> HIDE DEF From, Old, New
<1>7. \A x, y \in Indices(m) : Old(x) /\ Old(y) /\ P(x) = P(y) => x = y
  BY <1>3, <1>5 DEF IsList, Once
<1>8. \A x, y \in Indices(m) : New(x) /\ New(y) /\ P(x) = P(y) => x = y
  BY <1>4, <1>6 DEF Fresh
<1>9. \A x, y \in Indices(m) : Old(x) /\ New(y) => P(x) # P(y)
  BY <1>3, <1>4 DEF Fresh, InList
<1>10. QED
  BY <1>2, <1>7, <1>8, <1>9 DEF Once

\* Add of songs that are not in the list, at its end.
LEMMA Added1 ==
  ASSUME NEW l, IsList(l), NEW k, NEW ps, Fresh(l, ps, k)
  PROVE  LET m == AddAll(l, ps)
         IN  /\ IsList(m) /\ m.size = l.size + k /\ m.shuffled = l.shuffled
             /\ m.playable = Counted(l, k)
             /\ \A i \in 0 .. l.size - 1 : m.items[i] = l.items[i]
             /\ \A i \in l.size .. l.size + k - 1 : /\ m.items[i].path = ps[i - l.size + 1]
                                                    /\ ~m.items[i].unplayable
<1> DEFINE n == l.size
           v == [i \in 0 .. l.size + k - 1 |->
                   IF i < l.size THEN l.items[i] ELSE NewItem(ps[i - l.size + 1], i)]
           c == Counted(l, k)
           m == AddAll(l, ps)
<1>1. /\ DOMAIN l = Fields /\ n \in Nat /\ l.playable \in Int /\ l.shuffled \in BOOLEAN
      /\ \A i \in 0 .. n - 1 : l.items[i] \in Items
  BY DEF IsList, Indices
<1>2. k \in Nat /\ Len(ps) = k
  BY DEF Fresh
<1>3. m = [l EXCEPT !.size = l.size + k, !.items = v, !.playable = c]
  BY <1>2, Zenon DEF AddAll
<1>4. c \in Int
  BY <1>1, <1>2 DEF Counted
<1>5. /\ \A i \in 0 .. n - 1 : v[i] = l.items[i]
      /\ \A i \in n .. n + k - 1 : v[i] = NewItem(ps[i - n + 1], i)
  BY <1>1, <1>2
<1>6. DOMAIN v = 0 .. n + k - 1 /\ v = [i \in 0 .. n + k - 1 |-> v[i]]
  OBVIOUS
<1> HIDE DEF v, c, m
<1>7. /\ DOMAIN m = Fields /\ m.size = n + k /\ m.items = v /\ m.playable = c
      /\ m.shuffled = l.shuffled
  BY <1>1, <1>3 DEF Fields
<1> HIDE DEF n
<1>8. ASSUME NEW i \in n .. n + k - 1
      PROVE  v[i] \in Items /\ v[i].path = ps[i - n + 1] /\ ~v[i].unplayable
  <2>1. i - n + 1 \in 1 .. k /\ i \in Int
    BY <1>1, <1>2
  <2>2. ps[i - n + 1] \in Paths
    BY <2>1 DEF Fresh
  <2>3. QED
    BY <1>5, <2>1, <2>2, NewItemFields
<1>9. \A i \in 0 .. n + k - 1 : v[i] \in Items
  <2>1. \A i \in 0 .. n + k - 1 : i \in 0 .. n - 1 \/ i \in n .. n + k - 1
    BY <1>1, <1>2
  <2>2. QED
    BY <1>1, <1>5, <1>8, <2>1
<1>10. v \in [0 .. n + k - 1 -> Items]
  BY <1>6, <1>9, Zenon
<1>11. Once(m)
  <2>1. n \in 0 .. l.size /\ m.size = l.size + k
    BY <1>1, <1>7 DEF n
  <2>2. \A i \in 0 .. n - 1 : m.items[i].path = l.items[i].path
    BY <1>5, <1>7
  <2>3. \A i \in n .. n + k - 1 : m.items[i].path = ps[i - n + 1]
    BY <1>7, <1>8
  <2>4. \A i \in n + k .. l.size + k - 1 : m.items[i].path = l.items[i - k].path
    BY <1>1, <1>2 DEF n
  <2>5. QED
    BY <2>1, <2>2, <2>3, <2>4, OnceAfterAddition
<1>12. IsList(m)
  BY <1>1, <1>2, <1>4, <1>7, <1>10, <1>11 DEF IsList, Indices
<1>13. QED
  BY <1>5, <1>7, <1>8, <1>12 DEF m, n, c

\* Insert of such songs in front of position pos.
LEMMA Inserted1 ==
  ASSUME NEW l, IsList(l), NEW k, NEW ps, Fresh(l, ps, k), NEW pos \in Indices(l)
  PROVE  LET m == InsertAll(l, ps, pos)
         IN  /\ IsList(m) /\ m.size = l.size + k /\ m.shuffled = l.shuffled
             /\ \A i \in 0 .. pos - 1 : m.items[i].path = l.items[i].path
             /\ \A i \in pos + k .. l.size + k - 1 : m.items[i].path = l.items[i - k].path
<1> DEFINE n == l.size
           v == [i \in 0 .. l.size + k - 1 |->
                   IF i < pos THEN l.items[i]
                   ELSE IF i < pos + k THEN NewItem(ps[i - pos + 1], i)
                   ELSE Bumped(l.items[i - k], pos, k)]
           c == Counted(l, k)
           m == InsertAll(l, ps, pos)
<1>1. /\ DOMAIN l = Fields /\ n \in Nat /\ l.playable \in Int /\ l.shuffled \in BOOLEAN
      /\ pos \in 0 .. n - 1 /\ \A i \in 0 .. n - 1 : l.items[i] \in Items
  BY DEF IsList, Indices
<1>2. k \in Nat /\ Len(ps) = k
  BY DEF Fresh
<1>3. m = [l EXCEPT !.size = l.size + k, !.items = v, !.playable = c]
  BY <1>2, Zenon DEF InsertAll
<1>4. c \in Int
  BY <1>1, <1>2 DEF Counted
<1>5. /\ \A i \in 0 .. pos - 1 : v[i] = l.items[i]
      /\ \A i \in pos .. pos + k - 1 : v[i] = NewItem(ps[i - pos + 1], i)
      /\ \A i \in pos + k .. n + k - 1 : v[i] = Bumped(l.items[i - k], pos, k)
  BY <1>1, <1>2
<1>6. DOMAIN v = 0 .. n + k - 1 /\ v = [i \in 0 .. n + k - 1 |-> v[i]]
  OBVIOUS
<1> HIDE DEF v, c, m
<1>7. DOMAIN m = Fields /\ m.size = n + k /\ m.items = v /\ m.playable = c /\ m.shuffled = l.shuffled
  BY <1>1, <1>3 DEF Fields
<1> HIDE DEF n
<1>8. ASSUME NEW i \in pos .. pos + k - 1 PROVE v[i] \in Items /\ v[i].path = ps[i - pos + 1]
  <2>1. i - pos + 1 \in 1 .. k /\ i \in Int
    BY <1>1, <1>2
  <2>2. ps[i - pos + 1] \in Paths
    BY <2>1 DEF Fresh
  <2>3. QED
    BY <1>5, <2>1, <2>2, NewItemFields
<1>9. ASSUME NEW i \in pos + k .. n + k - 1 PROVE v[i] \in Items /\ v[i].path = l.items[i - k].path
  <2>1. i - k \in 0 .. n - 1 /\ pos \in Int /\ k \in Int
    BY <1>1, <1>2
  <2>2. QED
    BY <1>1, <1>5, <2>1, BumpedItem
<1>10. v \in [0 .. n + k - 1 -> Items]
  <2>1. \A i \in 0 .. n + k - 1 :
          i \in 0 .. pos - 1 \/ i \in pos .. pos + k - 1 \/ i \in pos + k .. n + k - 1
    BY <1>1, <1>2
  <2>2. \A i \in 0 .. pos - 1 : i \in 0 .. n - 1
    BY <1>1
  <2>3. \A i \in 0 .. n + k - 1 : v[i] \in Items
    BY <1>1, <1>5, <1>8, <1>9, <2>1, <2>2
  <2>4. QED
    BY <1>6, <2>3, Zenon
<1>11. /\ \A i \in 0 .. pos - 1 : m.items[i].path = l.items[i].path
       /\ \A i \in pos + k .. n + k - 1 : m.items[i].path = l.items[i - k].path
       /\ \A i \in pos .. pos + k - 1 : m.items[i].path = ps[i - pos + 1]
  BY <1>5, <1>7, <1>8, <1>9
<1>12. Once(m)
  <2>1. pos \in 0 .. l.size /\ m.size = l.size + k
    BY <1>1, <1>7 DEF n
  <2>2. QED
    BY <1>11, <2>1, OnceAfterAddition DEF n
<1>13. IsList(m)
  BY <1>1, <1>2, <1>4, <1>7, <1>10, <1>12 DEF IsList, Indices
<1>14. QED
  BY <1>7, <1>11, <1>13 DEF m, n

\* Where item i was before the one at pos was erased.
Before(pos, i) == IF i < pos THEN i ELSE i + 1

\* Remove of the item at pos.
LEMMA Removed1 ==
  ASSUME NEW l, IsList(l), NEW pos \in Indices(l)
  PROVE  LET m == Remove(l, pos)
         IN  /\ IsList(m) /\ m.size = l.size - 1 /\ m.shuffled = l.shuffled
             /\ m.playable = l.playable
             /\ \A i \in Indices(m) :
                  /\ Before(pos, i) \in Indices(l) \ {pos}
                  /\ m.items[i].path = l.items[Before(pos, i)].path
                  /\ m.items[i].unplayable = l.items[Before(pos, i)].unplayable
<1> DEFINE n == l.size
           o == l.items[pos].order
           v == [i \in 0 .. l.size - 2 |-> Lowered(l.items[Before(pos, i)], o, l.size - 1)]
           m == Remove(l, pos)
<1>1. /\ DOMAIN l = Fields /\ n \in Nat /\ l.playable \in Int /\ l.shuffled \in BOOLEAN
      /\ pos \in 0 .. n - 1 /\ \A i \in 0 .. n - 1 : l.items[i] \in Items
  BY DEF IsList, Indices
<1>2. o \in Int
  BY <1>1, ItemOfList DEF Indices
<1>3. m = [l EXCEPT !.size = l.size - 1, !.items = v]
  <2>1. [i \in 0 .. l.size - 2 |->
           Lowered(IF i < pos THEN l.items[i] ELSE l.items[i + 1], l.items[pos].order, l.size - 1)] = v
    <3>1. \A i \in 0 .. l.size - 2 :
            (IF i < pos THEN l.items[i] ELSE l.items[i + 1]) = l.items[Before(pos, i)]
      BY DEF Before
    <3>2. QED
      BY <3>1
  <2>2. QED
    BY <2>1, Zenon DEF Remove
<1>4. DOMAIN v = 0 .. n - 2 /\ v = [i \in 0 .. n - 2 |-> v[i]]
  OBVIOUS
<1>5. \A i \in 0 .. n - 2 : v[i] = Lowered(l.items[Before(pos, i)], o, n - 1)
  OBVIOUS
<1> HIDE DEF v, o, m
<1>6. DOMAIN m = Fields /\ m.size = n - 1 /\ m.items = v /\ m.playable = l.playable /\ m.shuffled = l.shuffled
  BY <1>1, <1>3 DEF Fields
<1> HIDE DEF n
<1>7. ASSUME NEW i \in 0 .. n - 2
      PROVE  /\ Before(pos, i) \in (0 .. n - 1) \ {pos}
             /\ v[i] \in Items /\ v[i].path = l.items[Before(pos, i)].path
             /\ v[i].unplayable = l.items[Before(pos, i)].unplayable
  <2>1. Before(pos, i) \in (0 .. n - 1) \ {pos} /\ n - 1 \in Int
    BY <1>1 DEF Before
  <2>2. QED
    BY <1>1, <1>2, <1>5, <2>1, LoweredItem
<1>8. v \in [0 .. n - 2 -> Items]
  BY <1>4, <1>7, Zenon
<1>9. Indices(m) = 0 .. n - 2 /\ Indices(l) = 0 .. n - 1 /\ m.size \in Nat
  BY <1>1, <1>6 DEF Indices, n
<1>10. Once(m)
  <2>1. \A i, j \in 0 .. n - 2 : Before(pos, i) = Before(pos, j) => i = j
    BY <1>1 DEF Before
  <2>2. QED
    BY <1>6, <1>7, <1>9, <2>1 DEF IsList, Once
<1>11. IsList(m)
  BY <1>1, <1>6, <1>8, <1>9, <1>10 DEF IsList
<1>12. QED
  BY <1>6, <1>7, <1>9, <1>11 DEF m, n

\* The items of a list in another order.
Permuted(l, p, s) == [l EXCEPT !.shuffled = s, !.items = [i \in Indices(l) |-> l.items[p[i]]]]

\* The items of a list in another order are a list again.
LEMMA Reordered1 ==
  ASSUME NEW l, IsList(l), NEW p \in Bijections(l.size), NEW s \in BOOLEAN
  PROVE  LET m == Permuted(l, p, s)
         IN  IsList(m) /\ m.size = l.size /\ \A i \in Indices(l) : m.items[i] = l.items[p[i]]
<1> DEFINE v == [i \in Indices(l) |-> l.items[p[i]]]
           m == Permuted(l, p, s)
<1>1. /\ \A i \in Indices(l) : p[i] \in Indices(l)
      /\ \A i, j \in Indices(l) : p[i] = p[j] => i = j
  BY DEF Bijections, IsInjective, Indices
<1>2. v \in [Indices(l) -> Items]
  BY <1>1 DEF IsList
<1>3. \A i \in Indices(l) : v[i] = l.items[p[i]]
  OBVIOUS
<1>4. m = [l EXCEPT !.shuffled = s, !.items = v]
  BY DEF Permuted
<1> HIDE DEF v, m
<1>5. /\ DOMAIN m = Fields /\ m.size = l.size /\ m.items = v /\ m.playable = l.playable
      /\ m.shuffled = s
  BY <1>4 DEF IsList, Fields
<1>6. Indices(m) = Indices(l)
  BY <1>5 DEF Indices
<1>7. Once(m)
  BY <1>1, <1>3, <1>5, <1>6 DEF IsList, Once
<1>8. IsList(m)
  BY <1>2, <1>5, <1>6, <1>7 DEF IsList
<1>9. QED
  BY <1>3, <1>5, <1>8 DEF m

\* m is l with its items in another order.
Reordered(l, m) ==
  /\ IsList(m) /\ m.size = l.size
  /\ \E p \in Bijections(l.size) : \A i \in Indices(l) : m.items[i] = l.items[p[i]]

\* So such a list is one reordered.
LEMMA PermutedReorders ==
  ASSUME NEW l, IsList(l), NEW p \in Bijections(l.size), NEW s \in BOOLEAN
  PROVE  Reordered(l, Permuted(l, p, s))
<1>1. LET m == Permuted(l, p, s)
      IN  IsList(m) /\ m.size = l.size /\ \A i \in Indices(l) : m.items[i] = l.items[p[i]]
  BY Reordered1
<1>2. QED
  BY <1>1, Zenon DEF Reordered

\* Shuffle leaves the list alone or its items in another order.
LEMMA ShufflesReorder ==
  ASSUME NEW l, IsList(l), NEW pos, NEW m \in Shuffles(l, pos)
  PROVE  m = l \/ Reordered(l, m)
<1>1. m = l \/ \E p \in Bijections(l.size) : m = Permuted(l, p, TRUE)
  BY Zenon DEF Shuffles, Permuted
<1>2. ASSUME NEW p \in Bijections(l.size), m = Permuted(l, p, TRUE) PROVE Reordered(l, m)
  BY <1>2, PermutedReorders
<1>3. QED
  BY <1>1, <1>2

\* So does UnShuffle.
LEMMA UnShufflesReorder ==
  ASSUME NEW l, IsList(l), NEW m \in UnShuffles(l)
  PROVE  Reordered(l, m)
<1>1. \E p \in Bijections(l.size) : m = Permuted(l, p, FALSE)
  BY Zenon DEF UnShuffles, Permuted
<1>2. ASSUME NEW p \in Bijections(l.size), m = Permuted(l, p, FALSE) PROVE Reordered(l, m)
  BY <1>2, PermutedReorders
<1>3. QED
  BY <1>1, <1>2

\* In a list with different orders FindOrder finds an item wherever it has gone.
LEMMA FoundAgain ==
  ASSUME NEW l, IsList(l), NEW m, Reordered(l, m), NEW k \in Indices(l),
         \A i, j \in Indices(l) : i # j => l.items[i].order # l.items[j].order
  PROVE  LET i == FindOrder(m, l.items[k].order)
         IN  i \in Indices(m) /\ i >= 0 /\ m.items[i].path = l.items[k].path
<1> DEFINE S == Indices(l)
           o == l.items[k].order
           found == {i \in Indices(m) : m.items[i].order = o}
<1>1. PICK p \in Bijections(l.size) : \A i \in Indices(l) : m.items[i] = l.items[p[i]]
  BY DEF Reordered
<1>2. /\ p \in [S -> S] /\ \A i, j \in S : p[i] = p[j] => i = j
      /\ IsFiniteSet(S) /\ Indices(m) = S
  <2>1. p \in [S -> S] /\ \A i, j \in S : p[i] = p[j] => i = j
    BY DEF Bijections, IsInjective, Indices
  <2>2. IsFiniteSet(0 .. l.size - 1)
    BY FS_Interval DEF IsList
  <2>3. Indices(m) = S
    BY DEF Indices, Reordered
  <2>4. QED
    BY <2>1, <2>2, <2>3 DEF Indices
<1>3. PICK j \in S : p[j] = k
  <2>1. p \in Injection(S, S)
    BY <1>2 DEF Injection, IsInjective
  <2>2. p \in Surjection(S, S)
    <3> HIDE DEF S
    <3>1. QED
      BY ONLY <1>2, <2>1, FS_Injection
  <2>3. QED
    BY <2>2 DEF Surjection
<1>4. found = {j}
  <2>1. m.items[j].order = o
    BY <1>1, <1>3
  <2>2. ASSUME NEW i \in S, m.items[i].order = o PROVE i = j
    <3>1. l.items[p[i]].order = l.items[k].order /\ p[i] \in S
      BY <1>1, <1>2, <2>2
    <3>2. p[i] = k
      BY <3>1
    <3>3. QED
      BY <1>2, <1>3, <3>2
  <2>3. QED
    BY <1>2, <2>1, <2>2
<1>5. j \in Int /\ j >= 0
  BY DEF Indices, IsList
<1> HIDE DEF found
<1>6. FindOrder(m, o) = j
  <2>1. FindOrder(m, o) = CHOOSE i \in found : \A h \in found : i <= h
    BY <1>4 DEF FindOrder, found
  <2>2. QED
    BY <1>4, <1>5, <2>1
<1>7. QED
  BY <1>1, <1>2, <1>3, <1>5, <1>6

\* Where item i was before those at a and b changed places.
Exchanged(a, b, i) == IF i = a THEN b ELSE IF i = b THEN a ELSE i

\* Swap exchanges the songs of two positions.
LEMMA Swapped1 ==
  ASSUME NEW l, IsList(l), NEW a \in Indices(l), NEW b \in Indices(l)
  PROVE  LET m == Swap(l, a, b)
         IN  /\ IsList(m) /\ m.size = l.size
             /\ \A i \in Indices(l) : m.items[i].path = l.items[Exchanged(a, b, i)].path
<1> DEFINE S == Indices(l)
           v == l.items
           Order1(x, y) == IF l.shuffled THEN v[x].order ELSE v[y].order
           w == [v EXCEPT ![a] = [v[b] EXCEPT !.order = Order1(b, a)],
                          ![b] = [v[a] EXCEPT !.order = Order1(a, b)]]
           m == Swap(l, a, b)
<1>1. /\ DOMAIN l = Fields /\ v \in [S -> Items] /\ \A i \in S : v[i] \in Items
      /\ l.playable \in Int /\ l.shuffled \in BOOLEAN /\ l.size \in Nat
  BY DEF IsList
<1>2. m = [l EXCEPT !.items = w]
  BY <1>1 DEF Swap, Fields
<1> HIDE DEF m, v, S
<1>3. a \in S /\ b \in S
  BY DEF S
<1>4. ASSUME NEW i \in S PROVE w[i] \in Items /\ w[i].path = v[Exchanged(a, b, i)].path
  <2>1. v[a] \in Items /\ v[b] \in Items /\ v[i] \in Items
    BY <1>1, <1>3
  <2>2. CASE i = b
    <3>1. w[i] = [v[a] EXCEPT !.order = Order1(a, b)] /\ Exchanged(a, b, i) = a
      BY <1>1, <1>3, <2>2 DEF Exchanged
    <3>2. QED
      BY <2>1, <3>1 DEF Items
  <2>3. CASE i # b /\ i = a
    <3>1. w[i] = [v[b] EXCEPT !.order = Order1(b, a)] /\ Exchanged(a, b, i) = b
      BY <1>1, <1>3, <2>3 DEF Exchanged
    <3>2. QED
      BY <2>1, <3>1 DEF Items
  <2>4. CASE i # b /\ i # a
    BY <1>1, <2>1, <2>4 DEF Exchanged
  <2>5. QED
    BY <2>2, <2>3, <2>4
<1>5. w \in [S -> Items]
  <2>1. w = [i \in S |-> w[i]]
    BY <1>1
  <2> HIDE DEF w
  <2>2. QED
    BY <1>4, <2>1, Zenon
<1>6. /\ DOMAIN m = Fields /\ m.size = l.size /\ m.items = w /\ m.playable = l.playable
      /\ m.shuffled = l.shuffled
  <2> HIDE DEF w
  <2>1. QED
    BY <1>1, <1>2 DEF Fields
<1> HIDE DEF w
<1>7. Indices(m) = S
  BY <1>6 DEF Indices, S
<1>8. Once(m)
  <2>1. \A i, j \in S : Exchanged(a, b, i) = Exchanged(a, b, j) => i = j
    BY DEF Exchanged
  <2>2. \A i \in S : Exchanged(a, b, i) \in S
    BY <1>3 DEF Exchanged
  <2>3. QED
    BY <1>4, <1>6, <1>7, <2>1, <2>2 DEF IsList, Once, S, v
<1>9. IsList(m)
  BY <1>1, <1>5, <1>6, <1>7, <1>8 DEF IsList
<1>10. QED
  BY <1>4, <1>6, <1>9 DEF m, v, S

\* SetUnPlayable changes nothing but the mark of one item, and the counter with it.
LEMMA Marked1 ==
  ASSUME NEW l, IsList(l), NEW pos \in Int
  PROVE  LET m == SetUnPlayable(l, pos)
         IN  /\ IsList(m) /\ m.size = l.size /\ m.shuffled = l.shuffled
             /\ \A i \in Indices(l) : /\ m.items[i].path = l.items[i].path
                                      /\ i # pos => m.items[i].unplayable = l.items[i].unplayable
             /\ \/ m = l /\ (pos \in Indices(l) => l.items[pos].unplayable)
                \/ /\ pos \in Indices(l) /\ ~l.items[pos].unplayable
                   /\ m.items[pos].unplayable /\ m.playable = l.playable - 1
<1> DEFINE S == Indices(l)
           v == l.items
           m == SetUnPlayable(l, pos)
           w == [v EXCEPT ![pos] = [v[pos] EXCEPT !.unplayable = TRUE]]
<1>1. CASE ~(pos \in Indices(l) /\ ~l.items[pos].unplayable)
  BY <1>1 DEF SetUnPlayable
<1>2. CASE pos \in Indices(l) /\ ~l.items[pos].unplayable
  <2>1. /\ DOMAIN l = Fields /\ v \in [S -> Items] /\ \A i \in S : v[i] \in Items
        /\ l.playable \in Int /\ l.shuffled \in BOOLEAN /\ l.size \in Nat /\ pos \in S
    BY <1>2 DEF IsList
  <2>2. /\ DOMAIN m = Fields /\ m.size = l.size /\ m.items = w
        /\ m.playable = l.playable - 1 /\ m.shuffled = l.shuffled
    BY <1>2, <2>1 DEF SetUnPlayable, Fields
  <2> HIDE DEF m, v, S
  <2>3. w[pos] = [v[pos] EXCEPT !.unplayable = TRUE] /\ \A i \in S : i # pos => w[i] = v[i]
    BY <2>1
  <2>4. w[pos] \in Items /\ w[pos].path = v[pos].path /\ w[pos].unplayable
    BY <2>1, <2>3 DEF Items
  <2>5. w \in [S -> Items]
    BY <2>1, <2>3, <2>4
  <2> HIDE DEF w
  <2>6. Indices(m) = S
    BY <2>2 DEF Indices, S
  <2>7. \A i \in S : w[i].path = v[i].path /\ (i # pos => w[i].unplayable = v[i].unplayable)
    BY <2>3, <2>4
  <2>8. Once(m)
    BY <2>2, <2>6, <2>7 DEF IsList, Once, S, v
  <2>9. IsList(m)
    BY <2>1, <2>2, <2>5, <2>6, <2>8 DEF IsList
  <2>10. QED
    BY <1>2, <2>2, <2>4, <2>7, <2>9 DEF m, v, S
<1>3. QED
  BY <1>1, <1>2

\* A list that has been played is the same list.
LEMMA PlayedIsList ==
  ASSUME NEW l, IsList(l), NEW m, m = [l EXCEPT !.played = TRUE]
  PROVE  /\ IsList(m) /\ m.size = l.size /\ m.shuffled = l.shuffled /\ m.items = l.items
         /\ m.playable = l.playable /\ Indices(m) = Indices(l)
<1>1. /\ DOMAIN m = Fields /\ m.size = l.size /\ m.items = l.items
      /\ m.playable = l.playable /\ m.shuffled = l.shuffled
  BY DEF IsList, Fields
<1>2. Indices(m) = Indices(l)
  BY <1>1 DEF Indices
<1>3. Once(m)
  BY <1>1, <1>2 DEF IsList, Once
<1>4. QED
  BY <1>1, <1>2, <1>3 DEF IsList
-----------------------------------------------------------------------------
(* What every state is made of                                              *)

Messages == {"started", "queueNext", "ended", "stopped", "listStopped"}
Handlings == [op : {"idle", "next", "previous", "play"}, song : Int, back : BOOLEAN, tries : Nat]

Types ==
  /\ DOMAIN lists = Kinds /\ \A k \in Kinds : IsList(lists[k])
  /\ m_iCurrentPlayList \in Kinds \cup {NoList} /\ m_iCurrentSong \in Int
  /\ doing \in Handlings
  /\ now \in Paths \cup {NoItem} /\ nextFile \in Paths \cup {NoItem}
  /\ m_nextPlaylistItem \in Int
  /\ msgs \in Seq(Messages) /\ batch \in Seq(Messages) /\ dialogs \in Seq(Seq(Messages))

\* The current list is a list, also when there is none.
LEMMA CurrentIsList == Types => IsList(Current)
BY NewListIsList DEF Types, Current

\* The handlings a handler can leave; the attempts are carried on, or one more.
LEMMA HandlingsAre ==
  ASSUME doing \in Handlings
  PROVE  /\ Idle \in Handlings /\ Idle.op = "idle" /\ Idle.tries = 0
         /\ Next1 \in Handlings /\ Next1.op = "next" /\ Next1.tries = 0 /\ ~Next1.back
         /\ Previous1 \in Handlings /\ Previous1.op = "previous" /\ Previous1.tries = 0
         /\ \A i \in Int, b \in BOOLEAN :
              /\ PlaySong(i, b) \in Handlings /\ PlaySong(i, b).op = "play"
              /\ PlaySong(i, b).song = i /\ PlaySong(i, b).back = b /\ PlaySong(i, b).tries = 0
         /\ \A h \in Handlings :
              /\ Then(h) \in Handlings /\ Then(h).op = h.op /\ Then(h).song = h.song
              /\ Then(h).back = h.back /\ Then(h).tries = doing.tries
              /\ Retry(h) \in Handlings /\ Retry(h).op = h.op /\ Retry(h).song = h.song
              /\ Retry(h).back = h.back /\ Retry(h).tries = doing.tries + 1
<1>1. doing.tries \in Nat /\ doing.tries + 1 \in Nat
  BY DEF Handlings
<1>2. Idle \in Handlings /\ Idle.op = "idle" /\ Idle.tries = 0 /\ ~Idle.back
  BY DEF Idle, Handlings
<1>3. Next1 \in Handlings /\ Next1.op = "next" /\ Next1.tries = 0 /\ ~Next1.back
  BY <1>2 DEF Next1, Handlings
<1>4. Previous1 \in Handlings /\ Previous1.op = "previous" /\ Previous1.tries = 0
  BY <1>2 DEF Previous1, Handlings
<1>5. ASSUME NEW i \in Int, NEW b \in BOOLEAN
      PROVE  /\ PlaySong(i, b) \in Handlings /\ PlaySong(i, b).op = "play"
             /\ PlaySong(i, b).song = i /\ PlaySong(i, b).back = b /\ PlaySong(i, b).tries = 0
  BY <1>2 DEF PlaySong, Handlings
<1>6. ASSUME NEW h \in Handlings
      PROVE  /\ Then(h) \in Handlings /\ Then(h).op = h.op /\ Then(h).song = h.song
             /\ Then(h).back = h.back /\ Then(h).tries = doing.tries
             /\ Retry(h) \in Handlings /\ Retry(h).op = h.op /\ Retry(h).song = h.song
             /\ Retry(h).back = h.back /\ Retry(h).tries = doing.tries + 1
  BY <1>1 DEF Then, Retry, Handlings
<1>7. QED
  BY <1>2, <1>3, <1>4, <1>5, <1>6

\* One of the lists is replaced.
LEMMA ListsAfter ==
  ASSUME Types, NEW k \in Kinds, NEW m, IsList(m), NEW ls, ls = [lists EXCEPT ![k] = m]
  PROVE  /\ DOMAIN ls = Kinds /\ ls[k] = m /\ \A j \in Kinds : j # k => ls[j] = lists[j]
         /\ \A j \in Kinds : IsList(ls[j])
BY DEF Types

\* GetNextSong takes one song off the list at most.
LEMMA TakenIsList ==
  ASSUME NEW l, IsList(l), NEW current \in Int
  PROVE  LET t == TakeNextSong(l, current)
         IN  /\ IsList(t.l) /\ t.ret \in Int /\ t.song \in Int
             /\ t.stuck \in BOOLEAN
<1> DEFINE pos == IF current = 0 THEN 0 ELSE current - 1
<1>1. IsList(Remove(l, pos))
  <2>1. CASE pos \in Indices(l)
    BY <2>1, Removed1
  <2>2. CASE pos \notin Indices(l)
    BY <2>2 DEF Remove
  <2>3. QED
    BY <2>1, <2>2
<1>2. current - 1 \in Int
  OBVIOUS
<1>3. QED
  BY <1>1, <1>2 DEF TakeNextSong

\* The songs one call adds, each once and in no list.
NewAdded(ps, n) ==
  /\ n \in Nat /\ ps \in [1 .. n -> Paths] /\ IsInjective(ps)
  /\ \A x \in DOMAIN ps : ps[x] \in NewSongs

\* Songs that are in no list are fresh in each.
LEMMA NewSongsAreFresh ==
  ASSUME NEW k \in Kinds, NEW ps, NEW n, NewAdded(ps, n)
  PROVE  Fresh(lists[k], ps, n)
<1>1. ps \in Seq(Paths) /\ Len(ps) = n /\ n \in Nat
  BY DEF NewAdded
<1>2. \A x \in 1 .. n : ps[x] \in Paths /\ ps[x] \notin InList(lists[k])
  BY DEF NewSongs, NewAdded
<1>3. \A x, y \in 1 .. n : ps[x] = ps[y] => x = y
  BY DEF IsInjective, NewAdded
<1>4. QED
  BY <1>1, <1>2, <1>3 DEF Fresh

\* A song that can be queued is in no list.
LEMMA NewSongIsFresh ==
  ASSUME NEW k \in Kinds, NEW p \in NewSongs
  PROVE  Fresh(lists[k], <<p>>, 1)
<1>1. p \in Paths /\ p \notin InList(lists[k])
  BY DEF NewSongs
<1>2. <<p>> \in Seq(Paths) /\ Len(<<p>>) = 1 /\ \A x \in 1 .. 1 : x = 1 /\ <<p>>[x] = p
  BY <1>1
<1>3. QED
  BY <1>1, <1>2 DEF Fresh

\* ReShuffle changes a shuffled list only, and at most its order.
LEMMA ReShufflesReorder ==
  ASSUME NEW l, IsList(l), NEW k, NEW pos, NEW m \in ReShuffles(k, l, pos)
  PROVE  (m = l \/ Reordered(l, m)) /\ (~l.shuffled => m = l)
<1>1. CASE m \in {l}
  BY <1>1
<1>2. CASE l.shuffled /\ \E x : m \in Shuffles(l, x)
  BY <1>2, ShufflesReorder
<1>3. QED
  BY <1>1, <1>2 DEF ReShuffles

\* Messages are added at the end.
LEMMA MessagesAdded ==
  ASSUME Types
  PROVE  /\ \A m \in Messages : Append(msgs, m) \in Seq(Messages)
         /\ \A s \in Seq(Messages) : msgs \o s \in Seq(Messages)
         /\ << >> \in Seq(Messages) /\ \A m \in Messages : <<m>> \in Seq(Messages)
         /\ \A s, t \in Seq(Messages) : s \o t \in Seq(Messages)
BY DEF Types

\* The program starts with values of these types.
LEMMA InitTypes == Init => Types
<1> SUFFICES ASSUME Init PROVE Types
  OBVIOUS
<1>1. DOMAIN lists = Kinds /\ \A k \in Kinds : IsList(lists[k])
  BY NewListIsList DEF Init
<1>2. doing \in Handlings
  BY DEF Init, Idle, Handlings
<1>3. QED
  BY <1>1, <1>2 DEF Init, Types

\* What PlayNext and PlayPrevious choose.
LEMMA NextSongIsInt == ASSUME Types PROVE NextSong \in Int
<1>1. m_iCurrentSong \in Int /\ Current.size \in Nat
  BY CurrentIsList DEF Types, IsList
<1>2. Current.size # 0 => (m_iCurrentSong + 1) % Current.size \in Int
  BY <1>1
<1>3. QED
  BY <1>1, <1>2 DEF NextSong

\* The song before, if PlayPrevious plays one.
LEMMA PreviousSongIsInt ==
  ASSUME Types, PlayPrevious
  PROVE  \E i \in Int : doing' \in {Idle, Then(PlaySong(i, TRUE))}
<1> DEFINE back == IF RepeatedOne THEN m_iCurrentSong ELSE m_iCurrentSong - 1
           song == IF back < 0 /\ Repeated THEN Current.size - 1 ELSE back
<1>1. song \in Int
  BY CurrentIsList DEF Types, IsList
<1>2. doing' \in {Idle, Then(PlaySong(song, TRUE))}
  BY DEF PlayPrevious
<1> HIDE DEF song
<1>3. QED
  BY <1>1, <1>2

\* A step that leaves lists and handling, or changes them to well-formed ones.
LEMMA PlayNextTypes == Types /\ PlayNext => Types'
<1> SUFFICES ASSUME Types, PlayNext PROVE Types'
  OBVIOUS
<1>1. doing \in Handlings /\ IsList(Current)
  BY CurrentIsList DEF Types
<1>2. NextSong \in Int
  BY NextSongIsInt
<1>3. Then(PlaySong(NextSong, FALSE)) \in Handlings /\ Idle \in Handlings
  BY <1>1, <1>2, HandlingsAre
<1>4. msgs' \in Seq(Messages)
  BY MessagesAdded DEF PlayNext, Types, Messages
<1>5. /\ m_iCurrentPlayList' \in {m_iCurrentPlayList, NoList} /\ m_iCurrentSong' \in {m_iCurrentSong, -1}
      /\ doing' \in {Then(PlaySong(NextSong, FALSE)), Idle}
      /\ UNCHANGED <<lists, now, nextFile, m_nextPlaylistItem, batch, dialogs>>
  BY DEF PlayNext, Reset, playervars
<1>6. DOMAIN lists' = Kinds /\ \A k \in Kinds : IsList(lists'[k])
  BY <1>5 DEF Types
<1>7. doing' \in Handlings
  BY <1>3, <1>5
<1>8. /\ m_iCurrentPlayList' \in Kinds \cup {NoList} /\ m_iCurrentSong' \in Int
      /\ now' \in Paths \cup {NoItem} /\ nextFile' \in Paths \cup {NoItem}
      /\ m_nextPlaylistItem' \in Int /\ batch' \in Seq(Messages) /\ dialogs' \in Seq(Seq(Messages))
  BY <1>5 DEF Types
<1>9. QED
  BY <1>4, <1>6, <1>7, <1>8 DEF Types

\* PlayPrevious keeps the types.
LEMMA PlayPreviousTypes == Types /\ PlayPrevious => Types'
<1> SUFFICES ASSUME Types, PlayPrevious PROVE Types'
  OBVIOUS
<1>1. doing \in Handlings /\ IsList(Current)
  BY CurrentIsList DEF Types
<1>2. m_iCurrentSong \in Int /\ Current.size \in Nat
  BY <1>1 DEF Types, IsList
<1>3. \A i \in Int : Then(PlaySong(i, TRUE)) \in Handlings /\ Idle \in Handlings
  BY <1>1, HandlingsAre
<1>4. doing' \in Handlings
  <2>1. \E i \in Int : doing' \in {Idle, Then(PlaySong(i, TRUE))}
    BY PreviousSongIsInt
  <2>2. QED
    BY <1>3, <2>1
<1>5. QED
  BY <1>4 DEF PlayPrevious, Types, playervars, listvars

\* The song that is played is in the list.
LEMMA ChosenInList ==
  ASSUME Types, ~CannotPlay
  PROVE  /\ Chosen \in Indices(Current) /\ ChosenPath \in Paths /\ Chosen \in Int
         /\ m_iCurrentPlayList \in Kinds /\ Current = lists[m_iCurrentPlayList]
<1>1. IsList(Current) /\ Current.size \in Nat \ {0} /\ doing.song \in Int
  BY CurrentIsList DEF CannotPlay, Types, IsList, Handlings
<1>2. Chosen \in Indices(Current)
  BY <1>1 DEF Chosen, Indices
<1>3. Chosen \in Int
  BY <1>1 DEF Chosen
<1>4. QED
  BY <1>1, <1>2, <1>3, ItemOfList DEF ChosenPath, CannotPlay, Types, Current

\* So does a Play whose file opens,
LEMMA PlayOpensTypes == Types /\ PlayOpens => Types'
<1> SUFFICES ASSUME Types, PlayOpens PROVE Types'
  OBVIOUS
<1> DEFINE k == m_iCurrentPlayList
           m == [lists[k] EXCEPT !.played = TRUE]
<1>1. /\ Chosen \in Int /\ ChosenPath \in Paths /\ k \in Kinds
  BY ChosenInList DEF PlayOpens
<1>2. IsList(m)
  BY <1>1, PlayedIsList DEF Types
<1>3. lists' = [lists EXCEPT ![k] = m]
  BY DEF PlayOpens
<1> HIDE DEF m
<1>4. DOMAIN lists' = Kinds /\ \A j \in Kinds : IsList(lists'[j])
  BY <1>1, <1>2, <1>3, ListsAfter
<1>5. Idle \in Handlings
  BY HandlingsAre DEF Types
<1>6. msgs' \in Seq(Messages)
  BY MessagesAdded DEF PlayOpens, Messages
<1>7. /\ doing' = Idle /\ m_iCurrentSong' = Chosen /\ now' = ChosenPath /\ nextFile' = NoItem
      /\ m_nextPlaylistItem' = -1 /\ UNCHANGED <<m_iCurrentPlayList, batch, dialogs>>
  BY DEF PlayOpens
<1>8. QED
  BY <1>1, <1>4, <1>5, <1>6, <1>7 DEF Types

\* one whose file does not, with what GetNextSong() takes off and what is marked,
LEMMA PlayFailsTypes == ASSUME Types, NEW atOpen \in BOOLEAN, PlayFails(atOpen) PROVE Types'
<1> DEFINE k == m_iCurrentPlayList
           l == [Current EXCEPT !.played = TRUE]
           t == IF atOpen THEN TakeNextSong(l, Chosen)
                ELSE [ret |-> 0, l |-> l, song |-> Chosen, stuck |-> FALSE]
           marked == SetUnPlayable(t.l, t.song)
<1>1. Chosen \in Int /\ k \in Kinds /\ IsList(l)
  BY ChosenInList, CurrentIsList, PlayedIsList DEF PlayFails
<1> HIDE DEF l
<1>2. IsList(t.l) /\ t.song \in Int
  BY <1>1, TakenIsList
<1> HIDE DEF t
<1>3. IsList(marked)
  BY <1>2, Marked1
<1> HIDE DEF marked
<1>4. lists' = [lists EXCEPT ![k] = marked]
  BY DEF PlayFails, l, t, marked
<1>5. DOMAIN lists' = Kinds /\ \A j \in Kinds : IsList(lists'[j])
  BY <1>1, <1>3, <1>4, ListsAfter
<1>6. batch \in Seq(Messages) /\ dialogs \in Seq(Seq(Messages))
  BY DEF Types
<1>7. /\ m_iCurrentPlayList' \in {NoList, k} /\ m_iCurrentSong' \in {-1, t.song}
      /\ doing' \in {Idle, Retry(Previous1), Retry(Next1)}
      /\ m_nextPlaylistItem' = -1 /\ now' \in {now, NoItem} /\ nextFile' \in {nextFile, NoItem}
      /\ \/ UNCHANGED <<batch, dialogs>>
         \/ batch' = << >> /\ dialogs' = <<batch>> \o dialogs
  BY DEF PlayFails, l, t, marked
<1>8. Idle \in Handlings /\ Retry(Previous1) \in Handlings /\ Retry(Next1) \in Handlings
  BY HandlingsAre DEF Types
<1>9. msgs' \in Seq(Messages)
  <2>1. \E u, v, w \in {<< >>, <<"listStopped">>, <<"stopped">>} : msgs' = msgs \o (u \o v) \o w
    BY DEF PlayFails
  <2>2. \A u \in {<< >>, <<"listStopped">>, <<"stopped">>} : u \in Seq(Messages)
    BY MessagesAdded DEF Messages
  <2>3. PICK u, v, w \in {<< >>, <<"listStopped">>, <<"stopped">>} : msgs' = msgs \o (u \o v) \o w
    BY <2>1
  <2>4. u \o v \in Seq(Messages) /\ w \in Seq(Messages)
    BY <2>2, MessagesAdded
  <2>5. msgs \o (u \o v) \in Seq(Messages)
    BY <2>4, MessagesAdded
  <2>6. msgs \o (u \o v) \o w \in Seq(Messages)
    BY <2>4, <2>5, MessagesAdded
  <2>7. QED
    BY ONLY <2>3, <2>6, Zenon
<1>10. batch' \in Seq(Messages) /\ dialogs' \in Seq(Seq(Messages))
  <2>1. << >> \in Seq(Messages) /\ <<batch>> \o dialogs \in Seq(Seq(Messages))
    BY <1>6
  <2>2. QED
    BY <1>6, <1>7, <2>1
<1>11. QED
  BY <1>1, <1>2, <1>5, <1>7, <1>8, <1>9, <1>10 DEF Types

\* CloseDialog returns to the messages below the dialog.
LEMMA CloseDialogTypes == Types /\ CloseDialog => Types'
<1> SUFFICES ASSUME Types, CloseDialog PROVE Types'
  OBVIOUS
<1>1. batch' \in Seq(Messages) /\ dialogs' \in Seq(Seq(Messages))
  BY HeadTailProperties DEF CloseDialog, Types
<1>2. msgs' \in Seq(Messages)
  BY MessagesAdded DEF CloseDialog, Messages
<1>3. DOMAIN lists' = Kinds /\ \A j \in Kinds : IsList(lists'[j])
  <2>1. CASE m_iCurrentPlayList = NoList
    BY <2>1 DEF CloseDialog, Types
  <2>2. CASE m_iCurrentPlayList # NoList
    <3>1. m_iCurrentPlayList \in Kinds
      BY <2>2 DEF Types
    <3>2. IsList(Clear(lists[m_iCurrentPlayList]))
      BY <3>1, ClearIsList DEF Types
    <3>3. lists' = [lists EXCEPT ![m_iCurrentPlayList] = Clear(lists[m_iCurrentPlayList])]
      BY <2>2 DEF CloseDialog
    <3>4. QED
      BY <3>1, <3>2, <3>3, ListsAfter
  <2>3. QED
    BY <2>1, <2>2
<1>4. /\ m_iCurrentPlayList' = NoList /\ m_iCurrentSong' = -1
      /\ UNCHANGED <<doing, now, nextFile, m_nextPlaylistItem>>
  BY DEF CloseDialog, Reset, playervars
<1>5. QED
  BY <1>1, <1>2, <1>3, <1>4 DEF Types

\* and one with nothing to play.
LEMMA PlayNothingTypes == Types /\ PlayNothing => Types'
BY HandlingsAre DEF PlayNothing, Types, listvars, playervars

\* DispatchThreadMessages and the handlers of the messages leave well-formed state.
LEMMA DispatchTypes == Types /\ DispatchThreadMessages => Types'
<1> SUFFICES ASSUME Types, DispatchThreadMessages PROVE Types'
  OBVIOUS
<1>1. batch' = msgs /\ msgs' = << >>
  BY DEF DispatchThreadMessages
<1>2. batch' \in Seq(Messages) /\ msgs' \in Seq(Messages)
  BY <1>1, MessagesAdded DEF Types
<1>3. UNCHANGED <<lists, m_iCurrentPlayList, m_iCurrentSong, doing, now, nextFile, m_nextPlaylistItem,
                dialogs>>
  BY DEF DispatchThreadMessages, listvars, playervars
<1>4. QED
  BY <1>2, <1>3 DEF Types

\* A handler takes its message off the batch.
LEMMA HandleTakes ==
  ASSUME Types, NEW m, Handle(m)
  PROVE  /\ batch' \in Seq(Messages) /\ doing = Idle /\ Len(batch) > 0
         /\ batch = <<m>> \o batch' /\ batch # << >> /\ Head(batch) = m /\ m \in Messages
<1>1. batch \in Seq(Messages) /\ batch # << >> /\ Head(batch) = m /\ batch' = Tail(batch) /\ doing = Idle
  BY DEF Types, Handle
<1>2. batch = <<Head(batch)>> \o Tail(batch)
  BY <1>1, HeadTailProperties, ConcatProperties
<1>3. QED
  BY <1>1, <1>2, HeadTailProperties

\* A list that is shortened for the player is a list.
LEMMA QueueNextTypes == Types /\ HandleQueueNext => Types'
<1> SUFFICES ASSUME Types, HandleQueueNext PROVE Types'
  OBVIOUS
<1> DEFINE k == m_iCurrentPlayList
           t == TakeNextSong(Current, m_iCurrentSong)
<1>1. batch' \in Seq(Messages)
  BY HandleTakes DEF HandleQueueNext
<1>2. /\ IsList(t.l) /\ t.ret \in Int /\ t.song \in Int /\ t.stuck \in BOOLEAN
  BY CurrentIsList, TakenIsList DEF Types
<1>3. /\ lists' = IF k = NoList THEN lists ELSE [lists EXCEPT ![k] = t.l]
      /\ m_iCurrentSong' = IF k = NoList THEN m_iCurrentSong ELSE t.song
      /\ m_iCurrentPlayList' = IF t.stuck THEN NoList ELSE k
      /\ msgs' = msgs \o (IF t.stuck THEN <<"listStopped">> ELSE << >>)
      /\ \/ t.ret \in Indices(t.l) /\ m_nextPlaylistItem' = t.ret
            /\ nextFile' = IF IsPlaying THEN t.l.items[t.ret].path ELSE nextFile
         \/ UNCHANGED <<nextFile, m_nextPlaylistItem>>
      /\ UNCHANGED <<now, doing, dialogs>>
  BY DEF HandleQueueNext
<1> HIDE DEF t
<1>4. DOMAIN lists' = Kinds /\ \A j \in Kinds : IsList(lists'[j])
  <2>1. CASE k = NoList
    BY <1>3, <2>1 DEF Types
  <2>2. CASE k # NoList
    <3>1. k \in Kinds /\ lists' = [lists EXCEPT ![k] = t.l]
      BY <1>3, <2>2 DEF Types
    <3>2. QED
      BY <1>2, <3>1, ListsAfter
  <2>3. QED
    BY <2>1, <2>2
<1>5. msgs' \in Seq(Messages)
  BY <1>3, MessagesAdded DEF Messages
<1>6. nextFile' \in Paths \cup {NoItem} /\ m_nextPlaylistItem' \in Int
  <2>1. CASE t.ret \in Indices(t.l)
    <3>1. t.l.items[t.ret].path \in Paths
      BY <1>2, <2>1, ItemOfList
    <3>2. QED
      BY <1>2, <1>3, <3>1 DEF Types
  <2>2. CASE t.ret \notin Indices(t.l)
    BY <1>3, <2>2 DEF Types
  <2>3. QED
    BY <2>1, <2>2
<1>7. m_iCurrentSong' \in Int /\ m_iCurrentPlayList' \in Kinds \cup {NoList}
  BY <1>2, <1>3 DEF Types
<1>8. QED
  BY <1>1, <1>3, <1>4, <1>5, <1>6, <1>7 DEF Types

\* The marker is moved within the list.
LEMMA StartedTypes == Types /\ HandleStarted => Types'
<1> SUFFICES ASSUME Types, HandleStarted PROVE Types'
  OBVIOUS
<1>1. batch' \in Seq(Messages)
  BY HandleTakes DEF HandleStarted
<1>2. /\ m_iCurrentSong' \in {m_nextPlaylistItem, m_iCurrentSong}
      /\ UNCHANGED <<lists, m_iCurrentPlayList, now, nextFile, m_nextPlaylistItem, doing, msgs, dialogs>>
  BY DEF HandleStarted, playervars
<1>3. QED
  BY <1>1, <1>2 DEF Types

\* The end of a song starts a handler.
LEMMA EndedTypes == Types /\ HandleEnded => Types'
<1> SUFFICES ASSUME Types, HandleEnded PROVE Types'
  OBVIOUS
<1>1. batch' \in Seq(Messages)
  BY HandleTakes DEF HandleEnded
<1>2. doing' \in Handlings
  BY HandlingsAre DEF HandleEnded, Types
<1>3. UNCHANGED <<lists, m_iCurrentPlayList, m_iCurrentSong, now, nextFile, m_nextPlaylistItem, msgs,
                dialogs>>
  BY DEF HandleEnded, playervars, listvars
<1>4. QED
  BY <1>1, <1>2, <1>3 DEF Types

\* A stop is announced again at most once.
LEMMA StoppedTypes == Types /\ (HandleStopped \/ HandleListStopped) => Types'
<1> SUFFICES ASSUME Types, HandleStopped \/ HandleListStopped PROVE Types'
  OBVIOUS
<1>1. batch' \in Seq(Messages)
  BY HandleTakes DEF HandleStopped, HandleListStopped
<1>2. /\ m_iCurrentPlayList' \in {m_iCurrentPlayList, NoList}
      /\ m_iCurrentSong' \in {m_iCurrentSong, -1}
      /\ now' = NoItem /\ nextFile' = NoItem
      /\ UNCHANGED <<lists, m_nextPlaylistItem, doing, dialogs>>
  BY DEF HandleStopped, HandleListStopped, StopPlayer, Reset, listvars
<1>3. msgs' \in Seq(Messages)
  <2>1. Announced \in Seq(Messages) /\ <<"listStopped">> \in Seq(Messages)
    BY MessagesAdded DEF Announced, Messages
  <2>2. msgs \o Announced \in Seq(Messages)
    BY <2>1, MessagesAdded
  <2>3. msgs \o Announced \o <<"listStopped">> \in Seq(Messages)
    BY <2>1, <2>2, MessagesAdded
  <2>4. msgs' \in {msgs \o Announced, msgs \o Announced \o <<"listStopped">>}
    BY DEF HandleStopped, HandleListStopped
  <2>5. QED
    BY <2>2, <2>3, <2>4
<1>4. QED
  BY <1>1, <1>2, <1>3 DEF Types

\* Every handler of a message keeps the types.
LEMMA HandlersTypes == Types /\ Handlers => Types'
BY DispatchTypes, QueueNextTypes, StartedTypes, EndedTypes, StoppedTypes DEF Handlers

\* The player thread adds a message and moves on to the song it was given.
LEMMA PlayerTypes == Types /\ Player => Types'
<1> SUFFICES ASSUME Types, Player PROVE Types'
  OBVIOUS
<1>1. /\ now' \in {now, nextFile, NoItem} /\ nextFile' \in {nextFile, NoItem}
      /\ UNCHANGED <<lists, m_iCurrentPlayList, m_iCurrentSong, doing, m_nextPlaylistItem, batch, dialogs>>
  BY DEF Player, AskForNext, GoOver, Finish, playervars, listvars
<1>2. \E m \in Messages : msgs' = Append(msgs, m)
  BY DEF Player, AskForNext, GoOver, Finish, Messages
<1>3. msgs' \in Seq(Messages)
  BY <1>2, MessagesAdded
<1>4. QED
  BY <1>1, <1>3 DEF Types
-----------------------------------------------------------------------------
(* What the users do with the lists                                         *)

\* The list a queued song leaves.
LEMMA QueuedList ==
  ASSUME Types, Music \in Kinds, NEW p \in NewSongs, NEW m,
         m \in ReShuffles(Music, AddAll(lists[Music], <<p>>), lists[Music].size)
  PROVE  LET l == lists[Music]
         IN  /\ IsList(m) /\ m.size = l.size + 1
             /\ ~l.shuffled => m = AddAll(l, <<p>>)
<1> DEFINE l == lists[Music]
           n == AddAll(l, <<p>>)
<1>1. IsList(l) /\ Fresh(l, <<p>>, 1)
  BY NewSongIsFresh DEF Types
<1>2. IsList(n) /\ n.size = l.size + 1 /\ n.shuffled = l.shuffled
  BY <1>1, Added1
<1> HIDE DEF n
<1>3. (m = n \/ Reordered(n, m)) /\ (~n.shuffled => m = n)
  BY <1>2, ReShufflesReorder DEF n
<1>4. QED
  BY <1>2, <1>3 DEF Reordered, n

\* Add of a new song leaves lists of different songs.
LEMMA QueueSongTypes == ASSUME Types, NEW p, QueueSong(p) PROVE Types'
<1>1. PICK m : /\ m \in ReShuffles(Music, AddAll(lists[Music], <<p>>), lists[Music].size)
               /\ lists' = [lists EXCEPT ![Music] = m]
  BY DEF QueueSong
<1>2. IsList(m) /\ Music \in Kinds /\ lists[Music].size \in Int
  BY <1>1, QueuedList, PlayerAssumption DEF QueueSong, Types, IsList
<1>3. DOMAIN lists' = Kinds /\ \A j \in Kinds : IsList(lists'[j])
  BY <1>1, <1>2, ListsAfter
<1>4. doing' \in Handlings
  <2>1. doing' \in {doing, PlaySong(lists[Music].size, FALSE)}
    BY DEF QueueSong
  <2>2. doing \in Handlings
    BY DEF Types
  <2>3. PlaySong(lists[Music].size, FALSE) \in Handlings
    BY <1>2, <2>2, HandlingsAre
  <2>4. QED
    BY <2>1, <2>2, <2>3
<1>5. /\ m_iCurrentPlayList' \in {m_iCurrentPlayList, Music} /\ m_iCurrentSong' \in {m_iCurrentSong, -1}
      /\ UNCHANGED <<now, nextFile, m_nextPlaylistItem, msgs, batch, dialogs>>
  BY DEF QueueSong, Reset, playervars
<1>6. QED
  BY <1>2, <1>3, <1>4, <1>5 DEF Types

\* A step that changes one list and the marker, and nothing else that is typed.
LEMMA OnlyListsTypes ==
  ASSUME Types, OnlyLists, NEW k \in Kinds, NEW m, IsList(m), lists' = [lists EXCEPT ![k] = m],
         m_iCurrentSong' \in Int
  PROVE  Types'
<1>1. DOMAIN lists' = Kinds /\ \A j \in Kinds : IsList(lists'[j])
  BY ListsAfter
<1>2. UNCHANGED <<m_iCurrentPlayList, doing, now, nextFile, m_nextPlaylistItem, msgs, batch, dialogs>>
  BY DEF OnlyLists, playervars
<1>3. QED
  BY <1>1, <1>2 DEF Types

\* The list an insertion leaves.
LEMMA InsertedList ==
  ASSUME Types, NEW k \in Kinds, NEW n, NEW ps, NewAdded(ps, n), NEW i,
         NEW m \in ReShuffles(k, InsertAll(lists[k], ps, i), lists[k].size)
  PROVE  LET l == lists[k]
         IN  /\ IsList(m) /\ m.size = l.size + n
             /\ ~l.shuffled => m = InsertAll(l, ps, i)
<1> DEFINE l == lists[k]
           w == InsertAll(l, ps, i)
<1>1. IsList(l) /\ Fresh(l, ps, n)
  BY NewSongsAreFresh DEF Types
<1>2. IsList(w) /\ w.size = l.size + n /\ w.shuffled = l.shuffled
  <2>1. CASE i \in Indices(l)
    BY <1>1, <2>1, Inserted1
  <2>2. CASE i \notin Indices(l)
    <3>1. w = AddAll(l, ps)
      BY <2>2 DEF InsertAll
    <3>2. QED
      BY <1>1, <3>1, Added1
  <2>3. QED
    BY <2>1, <2>2
<1> HIDE DEF w
<1>3. (m = w \/ Reordered(w, m)) /\ (~w.shuffled => m = w)
  BY <1>2, ReShufflesReorder DEF w
<1>4. QED
  BY <1>2, <1>3 DEF Reordered, w

\* So does Insert of new songs,
LEMMA InsertSongsTypes ==
  ASSUME Types, NEW k \in Kinds, NEW ps \in Added, NEW i, InsertSongs(k, ps, i)
  PROVE  Types'
<1>1. PICK n \in 1 .. 2 : ps \in [1 .. n -> Paths]
  BY DEF Added
<1>2. PICK m \in ReShuffles(k, InsertAll(lists[k], ps, i), lists[k].size) :
        lists' = [lists EXCEPT ![k] = m]
  BY DEF InsertSongs
<1>3. IsList(m)
  <2>1. NewAdded(ps, n)
    BY <1>1 DEF InsertSongs, NewAdded
  <2>2. QED
    BY <1>2, <2>1, InsertedList
<1>4. m_iCurrentSong' \in Int /\ OnlyLists
  BY DEF InsertSongs, Types
<1>5. QED
  BY <1>2, <1>3, <1>4, OnlyListsTypes

\* Remove of a song,
LEMMA RemoveAtTypes ==
  ASSUME Types, NEW k \in Kinds, NEW i \in Indices(lists[k]), RemoveAt(k, i)
  PROVE  Types'
<1>1. IsList(Remove(lists[k], i))
  BY Removed1 DEF Types
<1>2. lists' = [lists EXCEPT ![k] = Remove(lists[k], i)] /\ m_iCurrentSong' \in Int /\ OnlyLists
  BY DEF RemoveAt, Types
<1>3. QED
  BY <1>1, <1>2, OnlyListsTypes

\* RemoveLastSong is the removal of an item of the current list.
LEMMA LastSong ==
  ASSUME Types, RemoveLastSong
  PROVE  /\ m_iCurrentPlayList \in Kinds /\ Current = lists[m_iCurrentPlayList]
         /\ Current.size - 1 \in Indices(Current)
         /\ RemoveAt(m_iCurrentPlayList, Current.size - 1)
<1>1. m_iCurrentPlayList # NoList
  BY NewListIsList DEF RemoveLastSong, Current
<1>2. Current.size \in Nat /\ Current.size > 1
  BY CurrentIsList DEF RemoveLastSong, IsList
<1>3. QED
  BY <1>1, <1>2 DEF RemoveLastSong, Types, Current, Indices

\* Swap of two songs,
LEMMA SwapSongsTypes ==
  ASSUME Types, NEW k \in Kinds, NEW a \in Indices(lists[k]), NEW b \in Indices(lists[k]),
         SwapSongs(k, a, b)
  PROVE  Types'
<1>1. IsList(Swap(lists[k], a, b))
  BY Swapped1 DEF Types
<1>2. a \in Int /\ b \in Int
  BY DEF Indices
<1>3. lists' = [lists EXCEPT ![k] = Swap(lists[k], a, b)] /\ m_iCurrentSong' \in Int /\ OnlyLists
  BY <1>2 DEF SwapSongs, Types
<1>4. QED
  BY <1>1, <1>3, OnlyListsTypes

\* Clear,
LEMMA ClearSongsTypes == ASSUME Types, NEW k \in Kinds, ClearSongs(k) PROVE Types'
<1>1. IsList(Clear(lists[k]))
  BY ClearIsList DEF Types
<1>2. lists' = [lists EXCEPT ![k] = Clear(lists[k])]
  BY DEF ClearSongs
<1>3. DOMAIN lists' = Kinds /\ \A j \in Kinds : IsList(lists'[j])
  BY <1>1, <1>2, ListsAfter
<1>4. /\ m_iCurrentPlayList' \in {m_iCurrentPlayList, NoList} /\ m_iCurrentSong' \in {m_iCurrentSong, -1}
      /\ UNCHANGED <<doing, now, nextFile, m_nextPlaylistItem, msgs, batch, dialogs>>
  BY DEF ClearSongs, Reset, playervars
<1>5. QED
  BY <1>3, <1>4 DEF Types

\* A set of numbers that is not empty has a smallest one.
LEMMA Smallest ==
  ASSUME NEW S \in SUBSET Nat, S # {}
  PROVE  \E i \in S : \A j \in S : i <= j
<1> DEFINE R == {ss \in Nat \X Nat : ss[1] < ss[2]}
<1>1. IsWellFoundedOn(R, Nat)
  BY NatLessThanWellFounded DEF OpToRel
<1>2. \A i, j \in Nat : i < j => <<i, j>> \in R
  OBVIOUS
<1> HIDE DEF R
<1>3. PICK i \in S : \A j \in S : ~(<<j, i>> \in R)
  <2>1. S \subseteq Nat
    OBVIOUS
  <2>2. QED
    BY ONLY <1>1, <2>1, S # {}, WFMin
<1>4. \A j \in S : i <= j
  <2>1. \A j \in S : ~(j < i)
    BY <1>2, <1>3
  <2>2. QED
    BY <2>1
<1>5. QED
  BY <1>3, <1>4, Zenon

\* FindOrder finds a position or nothing.
LEMMA FindOrderIsInt == ASSUME NEW l, IsList(l), NEW o PROVE FindOrder(l, o) \in Int
<1> DEFINE found == {i \in Indices(l) : l.items[i].order = o}
<1>1. CASE found = {}
  BY <1>1 DEF FindOrder
<1>2. CASE found # {}
  <2>1. found \in SUBSET Nat
    BY DEF Indices
  <2>2. FindOrder(l, o) = CHOOSE i \in found : \A j \in found : i <= j
    BY <1>2 DEF FindOrder
  <2> HIDE DEF found
  <2>3. \E i \in found : \A j \in found : i <= j
    BY <1>2, <2>1, Smallest
  <2>4. (CHOOSE i \in found : \A j \in found : i <= j) \in found
    BY <2>3, Zenon
  <2>5. FindOrder(l, o) \in Nat
    BY <2>1, <2>2, <2>4, Zenon
  <2>6. QED
    BY <2>5
<1>3. QED
  BY <1>1, <1>2

\* and Shuffle and UnShuffle.
LEMMA SetShuffleTypes ==
  ASSUME Types, NEW k \in Kinds, NEW yes \in BOOLEAN, SetShuffle(k, yes)
  PROVE  Types'
<1>1. PICK m \in IF yes THEN Shuffles(lists[k], 0) ELSE UnShuffles(lists[k]) :
        /\ lists' = [lists EXCEPT ![k] = m]
        /\ \E o : m_iCurrentSong' \in {m_iCurrentSong, FindOrder(m, o)}
  BY DEF SetShuffle
<1>2. IsList(lists[k])
  BY DEF Types
<1>3. m = lists[k] \/ Reordered(lists[k], m)
  <2>1. CASE yes
    BY <1>2, <2>1, ShufflesReorder
  <2>2. CASE ~yes
    BY <1>2, <2>2, UnShufflesReorder
  <2>3. QED
    BY <2>1, <2>2
<1>4. IsList(m)
  BY <1>2, <1>3 DEF Reordered
<1>5. m_iCurrentSong' \in Int /\ OnlyLists
  BY <1>1, <1>4, FindOrderIsInt DEF SetShuffle, Types
<1>6. QED
  BY <1>1, <1>4, <1>5, OnlyListsTypes

\* Repeat, the keys, a picked song and the stop.
LEMMA JumpsTypes ==
  ASSUME Types,
         \/ \E k \in Kinds : \E state : SetRepeat(k, state)
         \/ Skip \/ Stop
         \/ \E i \in Int : PlayNumber(i) \/ \E k \in Kinds : JumpTo(k, i)
  PROVE  Types'
<1>1. CASE \E k \in Kinds : \E state : SetRepeat(k, state)
  BY <1>1 DEF SetRepeat, Types, listvars, playervars
<1>2. CASE Skip
  <2>1. doing' \in Handlings
    BY <1>2, HandlingsAre DEF Skip, Types
  <2>2. QED
    BY <1>2, <2>1 DEF Skip, Types, listvars, playervars
<1>3. CASE Stop
  <2>1. msgs' \in Seq(Messages)
    BY <1>3, MessagesAdded DEF Stop, Messages
  <2>2. QED
    BY <1>3, <2>1 DEF Stop, Types, listvars, playervars, StopPlayer
<1>4. CASE \E i \in Int : PlayNumber(i) \/ \E k \in Kinds : JumpTo(k, i)
  <2>1. PICK i \in Int : PlayNumber(i) \/ \E k \in Kinds : JumpTo(k, i)
    BY <1>4
  <2>2. doing' = PlaySong(i, FALSE) /\ m_iCurrentPlayList' \in Kinds \cup {NoList}
    BY <2>1 DEF PlayNumber, JumpTo, Types, listvars
  <2>3. doing' \in Handlings
    BY <2>2, HandlingsAre DEF Types
  <2>4. UNCHANGED <<lists, m_iCurrentSong, now, nextFile, m_nextPlaylistItem, msgs, batch, dialogs>>
    BY <2>1 DEF PlayNumber, JumpTo, listvars, playervars
  <2>5. QED
    BY <2>2, <2>3, <2>4 DEF Types
<1>5. QED
  BY <1>1, <1>2, <1>3, <1>4

\* Whatever the users do keeps the types.
LEMMA UserTypes == Types /\ User => Types'
<1> SUFFICES ASSUME Types, User PROVE Types'
  OBVIOUS
<1>1. CASE \E p \in Paths : QueueSong(p)
  BY <1>1, QueueSongTypes
<1>2. CASE \E k \in Kinds, ps \in Added : \E i : InsertSongs(k, ps, i)
  BY <1>2, InsertSongsTypes
<1>3. CASE \E k \in Kinds : \E i : i \in Indices(lists[k]) /\ RemoveSong(k, i)
  BY <1>3, RemoveAtTypes DEF RemoveSong
<1>4. CASE \E k \in Kinds : \E a, b : {a, b} \subseteq Indices(lists[k]) /\ SwapSongs(k, a, b)
  BY <1>4, SwapSongsTypes
<1>5. CASE RemoveLastSong
  BY <1>5, LastSong, RemoveAtTypes
<1>6. CASE \E k \in Kinds : ClearSongs(k)
  BY <1>6, ClearSongsTypes
<1>7. CASE \E k \in Kinds, yes \in BOOLEAN : SetShuffle(k, yes)
  BY <1>7, SetShuffleTypes
<1>8. CASE \/ \E k \in Kinds : \E state : SetRepeat(k, state)
           \/ Skip \/ Stop
           \/ \E i \in Int : PlayNumber(i) \/ \E k \in Kinds : JumpTo(k, i)
  BY <1>8, JumpsTypes
<1>9. QED
  <2>1. \A n, i : i \in 0 .. n => i \in Int
    OBVIOUS
  <2>2. QED
    BY <1>1, <1>2, <1>3, <1>4, <1>5, <1>6, <1>7, <1>8, <2>1, Zenon DEF User

\* Every step keeps the types.
LEMMA NextTypes == Types /\ [Next]_vars => Types'
<1>1. Types /\ Next => Types'
  BY PlayNextTypes, PlayPreviousTypes, PlayOpensTypes, PlayFailsTypes, CloseDialogTypes, HandlersTypes, PlayerTypes,
     UserTypes, PlayNothingTypes DEF Next, Playing
<1>2. Types /\ UNCHANGED vars => Types'
  BY DEF vars, listvars, playervars, Types
<1>3. QED
  BY <1>1, <1>2

\* In every state the lists have each song once, and markers, handler, player and
\* messages have the values the code gives them.
THEOREM TypesHold == Spec => []Types
BY InitTypes, NextTypes, PTL DEF Spec
-----------------------------------------------------------------------------
(* A handler comes to its end                                               *)

\* The songs that failed in a handler are among those that failed in a row.
Attempts ==
  /\ m_iFailedSongs \in Nat
  /\ doing.tries <= m_iFailedSongs /\ doing.tries < Retries

\* Nothing has failed at the start.
LEMMA InitAttempts == Init => Attempts
BY PlayerAssumption DEF Init, Attempts, Idle

\* A handler that ends, and one that starts, has no failures of its own.
LEMMA NoneFailed ==
  ASSUME Types, Attempts, m_iFailedSongs' = m_iFailedSongs,
         doing' = doing \/ doing'.tries = 0 \/ doing'.tries = doing.tries
  PROVE  Attempts'
BY PlayerAssumption DEF Attempts

\* What is left of the list after GetNextSong() inside a failed PlayFile, and after
\* the song has been marked.
Asked(atOpen) ==
  LET l == [Current EXCEPT !.played = TRUE]
  IN  IF atOpen THEN TakeNextSong(l, Chosen)
      ELSE [ret |-> 0, l |-> l, song |-> Chosen, stuck |-> FALSE]
Marked(atOpen) == SetUnPlayable(Asked(atOpen).l, Asked(atOpen).song)

\* Only a song that is to be played fails.
LEMMA PlayFailsGuard ==
  ASSUME NEW atOpen, PlayFails(atOpen)
  PROVE  doing.op = "play" /\ ~CannotPlay /\ tried' = tried \cup {ChosenPath}
BY Zenon DEF PlayFails

\* What a failure does, by whether the player gives up or shows the error dialog.
LEMMA PlayFailsDoes ==
  ASSUME NEW atOpen \in BOOLEAN, PlayFails(atOpen)
  PROVE  \E late \in {FALSE, TimesOut} :
           LET t == Asked(atOpen)
               over == ~TooMany(late) /\ Marked(atOpen).playable <= 0
           IN  /\ lists' = [lists EXCEPT ![m_iCurrentPlayList] = Marked(atOpen)]
               /\ m_iCurrentPlayList' = IF over \/ t.stuck THEN NoList ELSE m_iCurrentPlayList
               /\ m_iCurrentSong' = IF over THEN -1 ELSE t.song
               /\ m_iFailedSongs' = FailedSongs
               /\ doing' = IF over \/ TooMany(late) THEN Idle
                           ELSE Retry(IF doing.back THEN Previous1 ELSE Next1)
               /\ msgs' = msgs \o ((IF t.stuck THEN <<"listStopped">> ELSE << >>)
                            \o (IF atOpen /\ t.ret \notin 0 .. (IF t.stuck THEN 0 ELSE t.l.size) - 1
                                THEN <<"stopped">> ELSE << >>))
                          \o (IF over THEN <<"listStopped">> ELSE << >>)
               /\ IF TooMany(late) THEN dialogs' = <<batch>> \o dialogs /\ batch' = << >>
                  ELSE UNCHANGED <<dialogs, batch>>
<1>1. PICK late \in {FALSE, TimesOut} :
     LET k == m_iCurrentPlayList
         l == [Current EXCEPT !.played = TRUE]
         t == IF atOpen THEN TakeNextSong(l, Chosen)
              ELSE [ret |-> 0, l |-> l, song |-> Chosen, stuck |-> FALSE]
         kept == IF t.stuck THEN NoList ELSE k
         size == IF t.stuck THEN 0 ELSE t.l.size
         marked == SetUnPlayable(t.l, t.song)
         sent == (IF t.stuck THEN <<"listStopped">> ELSE << >>)
                   \o (IF atOpen /\ t.ret \notin 0 .. size - 1 THEN <<"stopped">> ELSE << >>)
         over == ~TooMany(late) /\ marked.playable <= 0
     IN  /\ lists' = [lists EXCEPT ![k] = marked]
         /\ m_iCurrentPlayList' = IF over THEN NoList ELSE kept
         /\ m_iCurrentSong' = IF over THEN -1 ELSE t.song
         /\ m_iFailedSongs' = FailedSongs
         /\ msgs' = msgs \o sent \o (IF over THEN <<"listStopped">> ELSE << >>)
         /\ doing' = IF over \/ TooMany(late) THEN Idle
                     ELSE Retry(IF doing.back THEN Previous1 ELSE Next1)
         /\ IF TooMany(late)
            THEN Len(dialogs) < MaxDialogs /\ dialogs' = <<batch>> \o dialogs /\ batch' = << >>
            ELSE UNCHANGED <<dialogs, batch>>
  BY Zenon DEF PlayFails
<1> DEFINE over == ~TooMany(late) /\ Marked(atOpen).playable <= 0
           t == Asked(atOpen)
<1>2. m_iCurrentPlayList' = IF over THEN NoList ELSE IF t.stuck THEN NoList ELSE m_iCurrentPlayList
  BY <1>1, Zenon DEF Asked, Marked
<1>3. m_iCurrentPlayList' = IF over \/ t.stuck THEN NoList ELSE m_iCurrentPlayList
  <2> HIDE DEF over, t
  <2>1. QED
    BY <1>2
<1>4. IF TooMany(late) THEN dialogs' = <<batch>> \o dialogs /\ batch' = << >>
      ELSE UNCHANGED <<dialogs, batch>>
  BY <1>1, Zenon
<1>5. QED
  <2>1. WITNESS late \in {FALSE, TimesOut}
  <2>2. QED
    BY <1>1, <1>3, <1>4, Zenon DEF Asked, Marked

\* A failure counts in the handler and in the row alike.
LEMMA PlayFailsAttempts ==
  ASSUME Types, Attempts, NEW atOpen \in BOOLEAN, PlayFails(atOpen) PROVE Attempts'
<1>1. PICK late \in {FALSE, TimesOut} :
        LET over == ~TooMany(late) /\ Marked(atOpen).playable <= 0
        IN  /\ m_iFailedSongs' = FailedSongs
            /\ doing' = IF over \/ TooMany(late) THEN Idle
                        ELSE Retry(IF doing.back THEN Previous1 ELSE Next1)
  BY PlayFailsDoes, Zenon
<1>2. doing \in Handlings /\ doing.tries \in Nat
  BY DEF Types, Handlings
<1>3. FailedSongs \in Nat /\ (~TooMany(late) => FailedSongs < Retries)
  BY PlayerAssumption DEF Attempts, FailedSongs, TooMany
<1>4. CASE TooMany(late) \/ Marked(atOpen).playable <= 0
  <2>1. doing' = Idle /\ m_iFailedSongs' = FailedSongs
    BY <1>1, <1>4
  <2>2. doing'.tries = 0
    BY <1>2, <2>1, HandlingsAre
  <2>3. QED
    BY <1>3, <2>1, <2>2, PlayerAssumption DEF Attempts
<1>5. CASE ~(TooMany(late) \/ Marked(atOpen).playable <= 0)
  <2>1. doing' \in {Retry(Previous1), Retry(Next1)} /\ m_iFailedSongs' = FailedSongs
    BY <1>1, <1>5
  <2>2. doing'.tries = doing.tries + 1
    BY <1>2, <2>1, HandlingsAre
  <2>3. QED
    BY <1>2, <1>3, <1>5, <2>1, <2>2, PlayerAssumption DEF Attempts, FailedSongs
<1>6. QED
  BY <1>4, <1>5

\* Every other step of a handler carries its failures on.
LEMMA StepAttempts == Types /\ Attempts /\ [Next]_vars => Attempts'
<1> SUFFICES ASSUME Types, Attempts, [Next]_vars PROVE Attempts'
  OBVIOUS
<1>1. doing \in Handlings
  BY DEF Types
<1>2. \A i \in Int, b \in BOOLEAN : PlaySong(i, b).tries = 0 /\ Then(PlaySong(i, b)).tries = doing.tries
  BY <1>1, HandlingsAre
<1>3. Idle.tries = 0 /\ Next1.tries = 0 /\ Previous1.tries = 0
  BY <1>1, HandlingsAre
<1>4. CASE PlayNext
  <2>1. NextSong \in Int
    BY NextSongIsInt
  <2>2. m_iFailedSongs' = m_iFailedSongs /\ doing' \in {Then(PlaySong(NextSong, FALSE)), Idle}
    BY <1>4 DEF PlayNext
  <2>3. doing'.tries = 0 \/ doing'.tries = doing.tries
    BY <1>2, <1>3, <2>1, <2>2
  <2>4. QED
    BY <2>2, <2>3, NoneFailed
<1>5. CASE PlayPrevious
  <2>1. PICK i \in Int : doing' \in {Idle, Then(PlaySong(i, TRUE))}
    BY <1>5, PreviousSongIsInt
  <2>2. m_iFailedSongs' = m_iFailedSongs
    BY <1>5 DEF PlayPrevious, listvars
  <2>3. doing'.tries = 0 \/ doing'.tries = doing.tries
    BY <1>2, <1>3, <2>1
  <2>4. QED
    BY <2>2, <2>3, NoneFailed
<1>6. CASE PlayNothing
  BY <1>3, <1>6, NoneFailed DEF PlayNothing, listvars
<1>7. CASE PlayOpens
  <2>1. m_iFailedSongs' = 0 /\ doing' = Idle
    BY <1>7 DEF PlayOpens
  <2>2. QED
    BY <1>3, <2>1, PlayerAssumption DEF Attempts
<1>8. CASE \E b \in BOOLEAN : PlayFails(b)
  BY <1>8, PlayFailsAttempts
<1>13. CASE CloseDialog
  <2>1. m_iFailedSongs' = 0 /\ doing' = Idle
    BY <1>13 DEF CloseDialog
  <2>2. QED
    BY <1>3, <2>1, PlayerAssumption DEF Attempts
<1>9. CASE Handlers \/ Player
  <2>1. m_iFailedSongs' = m_iFailedSongs /\ doing' \in {doing, Next1}
    BY <1>9 DEF Handlers, Player, DispatchThreadMessages, HandleQueueNext, HandleStarted, HandleEnded,
                HandleStopped, HandleListStopped, AskForNext, GoOver, Finish, listvars
  <2>2. QED
    BY <1>3, <2>1, NoneFailed
<1>10. CASE User
  <2>1. m_iFailedSongs' = m_iFailedSongs
    BY <1>10 DEF User, QueueSong, InsertSongs, RemoveSong, RemoveLastSong, RemoveAt, JumpTo, SwapSongs,
                 ClearSongs, SetShuffle, SetRepeat, PlayNumber, Skip, Stop, OnlyLists, listvars
  <2>2. \/ doing' \in {doing, Next1, Previous1} \/ \E i \in Int : doing' = PlaySong(i, FALSE)
    <3>1. lists[Music].size \in Int /\ \A i, n : i \in 0 .. n => i \in Int
      BY PlayerAssumption DEF Types, IsList
    <3>2. QED
      BY <1>10, <3>1 DEF User, QueueSong, InsertSongs, RemoveSong, RemoveLastSong, RemoveAt, JumpTo,
                   SwapSongs, ClearSongs, SetShuffle, SetRepeat, PlayNumber, Skip, Stop, OnlyLists
  <2>3. doing' = doing \/ doing'.tries = 0
    BY <1>2, <1>3, <2>2
  <2>4. QED
    BY <2>1, <2>3, NoneFailed
<1>11. CASE UNCHANGED vars
  BY <1>11 DEF vars, listvars, Attempts
<1>12. QED
  BY <1>4, <1>5, <1>6, <1>7, <1>8, <1>9, <1>10, <1>11, <1>13 DEF Next, Playing

\* The recursion Play -> PlayNext -> Play tries m_playlistRetries songs at most, under
\* every repeat mode, whatever the users do and however the songs fail.
THEOREM AttemptsAreBoundedTheorem == Spec => []AttemptsAreBounded
<1>1. Types /\ Attempts => AttemptsAreBounded
  BY PlayerAssumption DEF Types, Handlings, Attempts, AttemptsAreBounded
<1>2. Spec => []Attempts
  BY InitAttempts, StepAttempts, TypesHold, PTL DEF Spec
<1>3. QED
  BY <1>1, <1>2, TypesHold, PTL
-----------------------------------------------------------------------------
(* The marker goes with its song                                            *)

\* What a change of the current list asks of the marker, and the change.
Followed ==
  /\ m_iCurrentSong' \in Indices(Current')
  /\ Current'.items[m_iCurrentSong'].path = Current.items[m_iCurrentSong].path

Changed ==
  /\ doing = Idle /\ doing' = Idle /\ batch = << >> /\ UNCHANGED <<m_iCurrentPlayList, msgs, now>>
  /\ m_iCurrentSong \in Indices(Current) /\ ~NotFollowed
  /\ Current.items[m_iCurrentSong].path \in InList(Current')

\* A change of one list is one of the current list or of another.
LEMMA CurrentAfter ==
  ASSUME Types, NEW k \in Kinds, NEW m, lists' = [lists EXCEPT ![k] = m],
         m_iCurrentPlayList' = m_iCurrentPlayList
  PROVE  /\ m_iCurrentPlayList = k => Current = lists[k] /\ Current' = m
         /\ m_iCurrentPlayList # k => Current' = Current
BY PlayerAssumption DEF Types, Current

\* A step that leaves the lists alone is not one of these changes.
LEMMA NothingChanged ==
  ASSUME Changed, lists' = lists
  PROVE  FALSE
BY DEF Changed, Current, NotFollowed

\* A change the code follows adds one song at most, none to a shuffled list, and no two
\* songs have one order.
LEMMA ChangedBounds ==
  ASSUME Changed
  PROVE  /\ Current' # Current
         /\ ~(Current'.size > Current.size + (IF Current.shuffled THEN 0 ELSE 1))
         /\ \A i, j \in Indices(Current) : i # j => Current.items[i].order # Current.items[j].order
BY DEF Changed, NotFollowed

\* Add at the end leaves the songs before where they are.
LEMMA QueueSongFollows ==
  ASSUME Types, Changed, NEW p, QueueSong(p)
  PROVE  Followed
<1>1. doing \in Handlings /\ Music \in Kinds /\ lists[Music].size \in Nat /\ lists[Music].size \in Int
  BY PlayerAssumption DEF Types, IsList
<1>2. PlaySong(lists[Music].size, FALSE).op = "play" /\ Idle.op = "idle"
  BY <1>1, HandlingsAre
<1>3. IsPlaying /\ m_iCurrentSong' = m_iCurrentSong
  BY <1>2 DEF QueueSong, Changed
<1>4. PICK m : /\ m \in ReShuffles(Music, AddAll(lists[Music], <<p>>), lists[Music].size)
               /\ lists' = [lists EXCEPT ![Music] = m]
  BY DEF QueueSong
<1>5. m_iCurrentPlayList = Music /\ Current = lists[Music] /\ Current' = m
  BY <1>1, <1>4, CurrentAfter, ChangedBounds DEF Changed
<1> DEFINE l == lists[Music]
<1>6. IsList(l) /\ IsList(m) /\ m.size = l.size + 1 /\ (~l.shuffled => m = AddAll(l, <<p>>))
  BY <1>1, <1>4, QueuedList DEF QueueSong, Types
<1>7. ~(m.size > l.size + (IF l.shuffled THEN 0 ELSE 1)) /\ l.shuffled \in BOOLEAN
  BY <1>5, <1>6, ChangedBounds DEF IsList
<1>8. m = AddAll(l, <<p>>)
  BY <1>1, <1>6, <1>7
<1>9. Fresh(l, <<p>>, 1)
  BY <1>1, NewSongIsFresh DEF QueueSong
<1>10. \A i \in 0 .. l.size - 1 : m.items[i] = l.items[i]
  BY <1>6, <1>8, <1>9, Added1
<1>11. m_iCurrentSong \in 0 .. l.size - 1
  BY <1>5 DEF Changed, Indices
<1>12. QED
  BY <1>1, <1>3, <1>5, <1>6, <1>10, <1>11 DEF Followed, Indices

\* Insert moves the songs behind up by one, and the marker with them.
LEMMA InsertSongsFollows ==
  ASSUME Types, Changed, NEW k \in Kinds, NEW ps \in Added, NEW i \in 0 .. lists[k].size,
         InsertSongs(k, ps, i)
  PROVE  Followed
<1>1. PICK n \in 1 .. 2 : ps \in [1 .. n -> Paths]
  BY DEF Added
<1>2. PICK m \in ReShuffles(k, InsertAll(lists[k], ps, i), lists[k].size) :
        lists' = [lists EXCEPT ![k] = m]
  BY DEF InsertSongs
<1>3. NewAdded(ps, n)
  BY <1>1 DEF InsertSongs, NewAdded
<1>4. IsList(lists[k]) /\ i \in Nat
  BY DEF Types, IsList
<1>5. m_iCurrentPlayList = k /\ Current = lists[k] /\ Current' = m
  BY <1>2, CurrentAfter, ChangedBounds DEF Changed
<1> DEFINE l == lists[k]
<1>6. IsList(l) /\ IsList(m) /\ m.size = l.size + n /\ (~l.shuffled => m = InsertAll(l, ps, i))
  BY <1>1, <1>2, <1>3, <1>4, InsertedList
<1>7. ~(m.size > l.size + (IF l.shuffled THEN 0 ELSE 1)) /\ l.shuffled \in BOOLEAN /\ l.size \in Nat
  BY <1>5, <1>6, ChangedBounds DEF IsList
<1>8. ~l.shuffled /\ n = 1 /\ m = InsertAll(l, ps, i) /\ m.size = l.size + 1
  BY <1>1, <1>6, <1>7
<1>9. Fresh(l, ps, 1)
  BY <1>8, <1>3, NewSongsAreFresh
<1>10. m_iCurrentSong' = IF m_iCurrentSong >= i THEN m_iCurrentSong + 1 ELSE m_iCurrentSong
  BY <1>5, <1>8 DEF InsertSongs
<1>11. m_iCurrentSong \in 0 .. l.size - 1
  BY <1>5 DEF Changed, Indices
<1> HIDE DEF l
<1>12. CASE i \in Indices(l)
  <2>1. /\ \A j \in 0 .. i - 1 : m.items[j].path = l.items[j].path
        /\ \A j \in i + 1 .. l.size + 1 - 1 : m.items[j].path = l.items[j - 1].path
    BY <1>6, <1>8, <1>9, <1>12, Inserted1
  <2>2. m_iCurrentSong' \in 0 .. m.size - 1
    BY <1>7, <1>8, <1>10, <1>11
  <2>3. CASE m_iCurrentSong >= i
    <3>1. m_iCurrentSong + 1 \in i + 1 .. l.size + 1 - 1 /\ (m_iCurrentSong + 1) - 1 = m_iCurrentSong
      BY <1>7, <1>11, <1>4, <2>3
    <3>2. m.items[m_iCurrentSong + 1].path = l.items[(m_iCurrentSong + 1) - 1].path
      BY <2>1, <3>1
    <3>3. QED
      BY <1>5, <1>10, <2>2, <2>3, <3>1, <3>2 DEF Followed, Indices, l
  <2>4. CASE ~(m_iCurrentSong >= i)
    <3>1. m_iCurrentSong \in 0 .. i - 1
      BY <1>11, <2>4
    <3>2. QED
      BY <1>5, <1>10, <2>1, <2>2, <2>4, <3>1 DEF Followed, Indices, l
  <2>5. QED
    BY <2>3, <2>4
<1>13. CASE i \notin Indices(l)
  <2>1. m = AddAll(l, ps)
    BY <1>8, <1>13 DEF InsertAll
  <2>2. \A j \in 0 .. l.size - 1 : m.items[j] = l.items[j]
    BY <1>6, <1>9, <2>1, Added1
  <2>3. ~(m_iCurrentSong >= i)
    BY <1>7, <1>11, <1>13 DEF Indices, l
  <2>4. QED
    BY <1>5, <1>7, <1>8, <1>10, <1>11, <2>2, <2>3 DEF Followed, Indices, l
<1>14. QED
  BY <1>12, <1>13

\* Remove moves them down; the song at the marker is not the one removed, or it is
\* in the list no more.
LEMMA RemoveAtFollows ==
  ASSUME Types, Changed, NEW k \in Kinds, NEW i \in Indices(lists[k]), RemoveAt(k, i)
  PROVE  Followed
<1> DEFINE l == lists[k]
           m == Remove(l, i)
<1>1. lists' = [lists EXCEPT ![k] = m]
  BY DEF RemoveAt
<1>2. m_iCurrentPlayList = k /\ Current = l /\ Current' = m
  BY <1>1, CurrentAfter, ChangedBounds DEF Changed
<1>3. /\ IsList(l) /\ m.size = l.size - 1 /\ l.size \in Nat
      /\ \A j \in Indices(m) : /\ Before(i, j) \in Indices(l) \ {i}
                               /\ m.items[j].path = l.items[Before(i, j)].path
  BY Removed1 DEF Types, IsList
<1>4. m_iCurrentSong' = IF m_iCurrentSong >= i THEN m_iCurrentSong - 1 ELSE m_iCurrentSong
  BY <1>2 DEF RemoveAt
<1>5. m_iCurrentSong \in Indices(l) /\ l.items[m_iCurrentSong].path \in InList(m)
  BY <1>2 DEF Changed
<1>6. i \in Indices(l)
  OBVIOUS
<1> HIDE DEF l, m
<1>7. m_iCurrentSong # i
  <2>1. PICK j \in Indices(m) : m.items[j].path = l.items[m_iCurrentSong].path
    BY <1>5 DEF InList
  <2>2. Before(i, j) = m_iCurrentSong
    BY <1>3, <1>5, <2>1 DEF IsList, Once
  <2>3. QED
    BY <1>3, <2>2
<1>8. m_iCurrentSong' \in Indices(m) /\ Before(i, m_iCurrentSong') = m_iCurrentSong
  BY <1>3, <1>4, <1>5, <1>6, <1>7 DEF Indices, Before
<1>9. QED
  BY <1>2, <1>3, <1>8 DEF Followed

\* Swap exchanges marker and song alike.
LEMMA SwapSongsFollows ==
  ASSUME Types, Changed, NEW k \in Kinds, NEW a \in Indices(lists[k]), NEW b \in Indices(lists[k]),
         SwapSongs(k, a, b)
  PROVE  Followed
<1> DEFINE l == lists[k]
           m == Swap(l, a, b)
<1>1. lists' = [lists EXCEPT ![k] = m]
  BY DEF SwapSongs
<1>2. m_iCurrentPlayList = k /\ Current = l /\ Current' = m
  BY <1>1, CurrentAfter, ChangedBounds DEF Changed
<1>3. /\ m.size = l.size /\ \A j \in Indices(l) : m.items[j].path = l.items[Exchanged(a, b, j)].path
  BY Swapped1 DEF Types
<1>4. m_iCurrentSong' = Exchanged(a, b, m_iCurrentSong)
  BY <1>2 DEF SwapSongs, Exchanged
<1>5. m_iCurrentSong \in Indices(l) /\ a \in Indices(l) /\ b \in Indices(l)
  BY <1>2 DEF Changed
<1> HIDE DEF l, m
<1>6. m_iCurrentSong' \in Indices(l) /\ Exchanged(a, b, m_iCurrentSong') = m_iCurrentSong
  BY <1>4, <1>5 DEF Exchanged
<1>7. QED
  BY <1>2, <1>3, <1>6 DEF Followed, Indices

\* SetShuffle looks the song up again by its order.
LEMMA SetShuffleFollows ==
  ASSUME Types, Changed, NEW k \in Kinds, NEW yes \in BOOLEAN, SetShuffle(k, yes)
  PROVE  Followed
<1> DEFINE l == lists[k]
<1>1. PICK m \in IF yes THEN Shuffles(l, 0) ELSE UnShuffles(l) :
        /\ lists' = [lists EXCEPT ![k] = m]
        /\ m_iCurrentSong' =
             IF m_iCurrentSong \notin Indices(l) THEN m_iCurrentSong
             ELSE LET i == FindOrder(m, l.items[m_iCurrentSong].order)
                  IN  IF i >= 0 THEN i ELSE m_iCurrentSong
  BY DEF SetShuffle
<1>2. m_iCurrentPlayList = k /\ Current = l /\ Current' = m /\ m # l
  BY <1>1, CurrentAfter, ChangedBounds DEF Changed
<1>3. IsList(l)
  BY DEF Types
<1>4. Reordered(l, m)
  <2>1. CASE yes
    BY <1>1, <1>2, <1>3, <2>1, ShufflesReorder
  <2>2. CASE ~yes
    BY <1>1, <1>3, <2>2, UnShufflesReorder
  <2>3. QED
    BY <2>1, <2>2
<1>5. m_iCurrentSong \in Indices(l)
  BY <1>2 DEF Changed
<1>6. \A i, j \in Indices(l) : i # j => l.items[i].order # l.items[j].order
  BY <1>2, ChangedBounds
<1> HIDE DEF l
<1> DEFINE i == FindOrder(m, l.items[m_iCurrentSong].order)
<1>7. i \in Indices(m) /\ i >= 0 /\ m.items[i].path = l.items[m_iCurrentSong].path
  BY <1>3, <1>4, <1>5, <1>6, FoundAgain
<1>8. m_iCurrentSong' = i
  BY <1>1, <1>5, <1>7 DEF l
<1>9. QED
  BY <1>2, <1>7, <1>8 DEF Followed

\* A cleared list has no song the marker could follow.
LEMMA ClearSongsFollows == ASSUME Types, Changed, NEW k \in Kinds, ClearSongs(k) PROVE FALSE
<1>1. CASE m_iCurrentPlayList = k
  BY <1>1, PlayerAssumption DEF ClearSongs, Changed
<1>2. CASE m_iCurrentPlayList # k
  <2>1. lists' = [lists EXCEPT ![k] = Clear(lists[k])] /\ m_iCurrentPlayList' = m_iCurrentPlayList
    BY <1>2 DEF ClearSongs
  <2>2. QED
    BY <1>2, <2>1, CurrentAfter, ChangedBounds
<1>3. QED
  BY <1>1, <1>2

\* Nothing else changes the current list without moving on in it.
LEMMA StepFollows == Types /\ [Next]_vars /\ Changed => Followed
<1> SUFFICES ASSUME Types, [Next]_vars, Changed PROVE Followed
  OBVIOUS
<1>1. CASE Playing
  <2>1. doing.op \in {"next", "previous", "play"} \/ CloseDialog
    BY <1>1, PlayFailsGuard DEF Playing, PlayNext, PlayPrevious, PlayNothing, PlayOpens
  <2>2. doing = Idle /\ Idle.op = "idle"
    BY DEF Changed, Idle
  <2>3. CASE CloseDialog
    <3>1. m_iCurrentPlayList = NoList
      BY <2>3 DEF CloseDialog, Changed
    <3>2. Indices(Current) = {}
      BY <3>1, NoItems, NewListIsList DEF Current, Indices
    <3>3. QED
      BY <3>2 DEF Changed
  <2>4. QED
    BY <2>1, <2>2, <2>3
<1>2. CASE Handlers
  <2>1. DispatchThreadMessages
    BY <1>2 DEF Handlers, HandleQueueNext, HandleStarted, HandleEnded, HandleStopped, HandleListStopped,
                Handle, Changed
  <2>2. lists' = lists
    BY <2>1 DEF DispatchThreadMessages, listvars
  <2>3. QED
    BY <2>2, NothingChanged
<1>3. CASE Player \/ UNCHANGED vars
  BY <1>3, NothingChanged DEF Player, AskForNext, GoOver, Finish, listvars, vars
<1>4. CASE User
  <2>1. CASE \E p \in Paths : QueueSong(p)
    BY <2>1, QueueSongFollows
  <2>2. CASE \E k \in Kinds, ps \in Added : \E i : i \in 0 .. lists[k].size /\ InsertSongs(k, ps, i)
    BY <2>2, InsertSongsFollows
  <2>3. CASE \E k \in Kinds : \E i : i \in Indices(lists[k]) /\ RemoveSong(k, i)
    BY <2>3, RemoveAtFollows DEF RemoveSong
  <2>4. CASE \E k \in Kinds : \E a, b : {a, b} \subseteq Indices(lists[k]) /\ SwapSongs(k, a, b)
    BY <2>4, SwapSongsFollows
  <2>5. CASE RemoveLastSong
    BY <2>5, LastSong, RemoveAtFollows
  <2>6. CASE \E k \in Kinds : ClearSongs(k)
    BY <2>6, ClearSongsFollows
  <2>7. CASE \E k \in Kinds, yes \in BOOLEAN : SetShuffle(k, yes)
    BY <2>7, SetShuffleFollows
  <2>8. CASE \/ \E k, state : SetRepeat(k, state)
             \/ Skip \/ Stop \/ \E i : PlayNumber(i) \/ \E k : JumpTo(k, i)
    <3>1. lists' = lists
      BY <2>8 DEF SetRepeat, Skip, Stop, PlayNumber, JumpTo, listvars
    <3>2. QED
      BY <3>1, NothingChanged
  <2>9. QED
    BY <1>4, <2>1, <2>2, <2>3, <2>4, <2>5, <2>6, <2>7, <2>8, Zenon DEF User
<1>5. QED
  BY <1>1, <1>2, <1>3, <1>4 DEF Next

\* Whatever the users do to the current list, other than the uses the code does not
\* follow, the marker stays on its song.
THEOREM MarkerFollowsItsSongTheorem == Spec => MarkerFollowsItsSong
<1>1. /\ Types /\ [Next]_vars
      => [(/\ doing = Idle /\ doing' = Idle /\ batch = << >> /\ UNCHANGED <<m_iCurrentPlayList, msgs, now>>
           /\ m_iCurrentSong \in Indices(Current) /\ ~NotFollowed
           /\ Current.items[m_iCurrentSong].path \in InList(Current'))
          => /\ m_iCurrentSong' \in Indices(Current')
             /\ Current'.items[m_iCurrentSong'].path = Current.items[m_iCurrentSong].path]_vars
  BY StepFollows DEF Changed, Followed
<1>2. QED
  BY <1>1, TypesHold, PTL DEF Spec, MarkerFollowsItsSong
-----------------------------------------------------------------------------
(* The songs that can still be played are counted                           *)

Unfailed(l) == {i \in Indices(l) : ~l.items[i].unplayable}

\* The songs that can be played are finitely many, and Playable counts them.
LEMMA UnfailedFinite ==
  ASSUME NEW l, IsList(l)
  PROVE  /\ IsFiniteSet(Unfailed(l)) /\ Playable(l) = Cardinality(Unfailed(l)) /\ Playable(l) \in Nat
         /\ Playable(l) <= 0 => \A i \in Indices(l) : l.items[i].unplayable
<1>1. IsFiniteSet(Indices(l))
  BY FS_Interval DEF Indices, IsList
<1>2. Unfailed(l) \subseteq Indices(l)
  BY DEF Unfailed
<1>3. IsFiniteSet(Unfailed(l))
  BY <1>1, <1>2, FS_Subset
<1>4. Playable(l) = Cardinality(Unfailed(l))
  BY DEF Playable, Unfailed
<1>5. Cardinality(Unfailed(l)) \in Nat /\ (Cardinality(Unfailed(l)) = 0 => Unfailed(l) = {})
  BY <1>3, FS_CardinalityType, FS_EmptySet
<1>6. QED
  BY <1>3, <1>4, <1>5 DEF Unfailed

\* The counter is never too low, and a song that is marked has had its turn.
Counted1(l, turns) ==
  /\ l.size = 0 \/ Playable(l) <= l.playable
  /\ \A i \in Indices(l) : l.items[i].unplayable => l.items[i].path \in turns

\* A counter that says that nothing can be played: every song has had its turn.
LEMMA NoneLeft ==
  ASSUME NEW l, IsList(l), NEW turns, Counted1(l, turns), l.playable <= 0
  PROVE  \A i \in Indices(l) : l.items[i].path \in turns
<1>1. CASE l.size = 0
  BY <1>1 DEF Indices
<1>2. CASE Playable(l) <= l.playable
  <2>1. Playable(l) <= 0
    BY <1>2, UnfailedFinite DEF IsList
  <2>2. QED
    BY <2>1, UnfailedFinite DEF Counted1
<1>3. QED
  BY <1>1, <1>2 DEF Counted1

\* With more turns it stays so.
LEMMA CountedMore ==
  ASSUME NEW l, NEW turns, Counted1(l, turns), NEW more, turns \subseteq more
  PROVE  Counted1(l, more)
BY DEF Counted1

\* Playing marks no song.
LEMMA CountedPlayed ==
  ASSUME NEW l, IsList(l), NEW turns, Counted1(l, turns), NEW m, m = [l EXCEPT !.played = TRUE]
  PROVE  Counted1(m, turns)
<1>1. m.size = l.size /\ m.items = l.items /\ m.playable = l.playable /\ Indices(m) = Indices(l)
  BY PlayedIsList
<1>2. Playable(m) = Playable(l)
  BY <1>1 DEF Playable
<1>3. QED
  BY <1>1, <1>2 DEF Counted1

\* In an empty list nothing is counted.
LEMMA CountedCleared ==
  ASSUME NEW l, IsList(l), NEW turns
  PROVE  Counted1(Clear(l), turns) /\ Indices(Clear(l)) = {}
BY ClearIsList DEF Counted1, Indices

\* Add counts the new song, which has not had its turn.
LEMMA CountedAdded ==
  ASSUME NEW l, IsList(l), NEW turns, Counted1(l, turns), NEW p, Fresh(l, <<p>>, 1)
  PROVE  LET m == AddAll(l, <<p>>) IN Counted1(m, turns \ {p})
<1> DEFINE m == AddAll(l, <<p>>)
           n == l.size
<1>1. /\ IsList(m) /\ m.size = n + 1 /\ m.playable = Counted(l, 1)
      /\ \A i \in 0 .. n - 1 : m.items[i] = l.items[i]
      /\ \A i \in n .. n + 1 - 1 : m.items[i].path = <<p>>[i - n + 1] /\ ~m.items[i].unplayable
  BY Added1
<1>2. n \in Nat /\ l.playable \in Int
  BY DEF IsList
<1> HIDE DEF m, n
<1>3. /\ ~m.items[n].unplayable /\ Indices(m) = (0 .. n - 1) \cup {n}
      /\ n \notin 0 .. n - 1 /\ Indices(l) = 0 .. n - 1
  BY <1>1, <1>2 DEF Indices, n
<1>4. Unfailed(m) = Unfailed(l) \cup {n} /\ n \notin Unfailed(l)
  BY <1>1, <1>3 DEF Unfailed
<1>5. Playable(m) = Playable(l) + 1
  BY <1>1, <1>4, UnfailedFinite, FS_AddElement
<1>6. n = 0 => Playable(l) = 0
  <2> SUFFICES ASSUME n = 0 PROVE Playable(l) = 0
    OBVIOUS
  <2>1. Unfailed(l) = {}
    BY <1>3 DEF Unfailed
  <2>2. QED
    BY <2>1, UnfailedFinite, FS_EmptySet
<1>7. Playable(m) <= m.playable
  BY <1>1, <1>2, <1>5, <1>6, UnfailedFinite DEF Counted1, Counted, n
<1>8. ASSUME NEW i \in Indices(m), m.items[i].unplayable
      PROVE  m.items[i].path \in turns \ {p}
  <2>1. i \in Indices(l) /\ m.items[i] = l.items[i]
    BY <1>1, <1>3, <1>8
  <2>2. l.items[i].path \in turns
    BY <1>8, <2>1 DEF Counted1
  <2>3. l.items[i].path \in InList(l) /\ p \notin InList(l)
    BY <2>1 DEF InList, Fresh
  <2>4. QED
    BY <2>1, <2>2, <2>3
<1>9. QED
  BY <1>7, <1>8 DEF Counted1, m

\* A song that is marked is counted off once.
LEMMA CountedMarked ==
  ASSUME NEW l, IsList(l), NEW turns, Counted1(l, turns), NEW pos \in Int,
         pos \in Indices(l) => l.items[pos].path \in turns
  PROVE  Counted1(SetUnPlayable(l, pos), turns)
<1> DEFINE m == SetUnPlayable(l, pos)
<1>1. /\ IsList(m) /\ m.size = l.size
      /\ \A i \in Indices(l) : /\ m.items[i].path = l.items[i].path
                               /\ i # pos => m.items[i].unplayable = l.items[i].unplayable
      /\ \/ m = l
         \/ /\ pos \in Indices(l) /\ ~l.items[pos].unplayable
            /\ m.items[pos].unplayable /\ m.playable = l.playable - 1
  BY Marked1
<1> HIDE DEF m
<1>2. CASE m = l
  BY <1>2 DEF m
<1>3. CASE /\ pos \in Indices(l) /\ ~l.items[pos].unplayable
           /\ m.items[pos].unplayable /\ m.playable = l.playable - 1
  <2>1. Indices(m) = Indices(l) /\ l.playable \in Int
    BY <1>1 DEF Indices, IsList
  <2>2. Unfailed(m) = Unfailed(l) \ {pos} /\ pos \in Unfailed(l)
    BY <1>1, <1>3, <2>1 DEF Unfailed
  <2>3. Playable(m) = Playable(l) - 1
    BY <1>1, <2>2, UnfailedFinite, FS_RemoveElement
  <2>4. m.size = 0 \/ Playable(m) <= m.playable
    BY <1>1, <1>3, <2>1, <2>3, UnfailedFinite DEF Counted1
  <2>5. \A i \in Indices(m) : m.items[i].unplayable => m.items[i].path \in turns
    BY <1>1, <1>3, <2>1 DEF Counted1
  <2>6. QED
    BY <2>4, <2>5 DEF Counted1, m
<1>4. QED
  BY <1>1, <1>2, <1>3

\* Remove, which leaves the counter as it is, counts no song less than there are.
LEMMA CountedRemoved ==
  ASSUME NEW l, IsList(l), NEW turns, Counted1(l, turns), NEW pos \in Indices(l)
  PROVE  Counted1(Remove(l, pos), turns)
<1> DEFINE m == Remove(l, pos)
           A == Unfailed(m)
           B == Unfailed(l)
           f == [i \in Unfailed(m) |-> Before(pos, i)]
<1>1. /\ IsList(m) /\ m.playable = l.playable /\ m.size = l.size - 1
      /\ \A i \in Indices(m) :
           /\ Before(pos, i) \in Indices(l)
           /\ m.items[i].path = l.items[Before(pos, i)].path
           /\ m.items[i].unplayable = l.items[Before(pos, i)].unplayable
  BY Removed1
<1> HIDE DEF m
<1>2. \A i, j \in Indices(m) : Before(pos, i) = Before(pos, j) => i = j
  BY DEF Before, Indices
<1>3. f \in Injection(A, B)
  <2>1. f \in [A -> B]
    BY <1>1 DEF Unfailed
  <2>2. \A i, j \in A : f[i] = f[j] => i = j
    BY <1>2 DEF Unfailed
  <2> HIDE DEF f, A, B
  <2>3. QED
    BY <2>1, <2>2 DEF Injection, IsInjective
<1>4. IsFiniteSet(A) /\ IsFiniteSet(B)
  BY <1>1, UnfailedFinite
<1>5. Cardinality(A) <= Cardinality(B)
  <2> HIDE DEF f, A, B
  <2>1. QED
    BY ONLY <1>3, <1>4, FS_Injection
<1>6. Playable(m) <= Playable(l)
  BY <1>1, <1>5, UnfailedFinite
<1>7. m.size = 0 \/ Playable(m) <= m.playable
  <2>1. l.size # 0
    BY DEF Indices
  <2>2. QED
    BY <1>1, <1>6, <2>1, UnfailedFinite DEF Counted1, IsList
<1>8. QED
  BY <1>1, <1>7 DEF Counted1, m

-----------------------------------------------------------------------------
(* The songs up to the marker have had their turn                           *)

Played(l, mark, turns) == \A i \in Indices(l) : i <= mark => l.items[i].path \in turns

\* GetNextSong takes off a song that has had its turn, and the marker goes with its song
\* unless that is the song taken off.
LEMMA TakenOff ==
  ASSUME NEW l, IsList(l), NEW turns, NEW current \in Indices(l), Counted1(l, turns),
         Played(l, current, turns)
  PROVE  LET m == Remove(l, IF current = 0 THEN 0 ELSE current - 1)
         IN  /\ IsList(m) /\ m.size = l.size - 1 /\ m.shuffled = l.shuffled /\ Counted1(m, turns)
             /\ Played(m, current - 1, turns)
             /\ current = 0 => l.items[current].path \notin InList(m)
             /\ current # 0 => /\ current - 1 \in Indices(m)
                               /\ m.items[current - 1].path = l.items[current].path
             /\ InList(l) \ InList(m) \subseteq turns
<1> DEFINE pos == IF current = 0 THEN 0 ELSE current - 1
           m == Remove(l, pos)
<1>1. /\ l.size \in Nat /\ current \in Int /\ 0 <= current /\ current < l.size
      /\ pos \in Indices(l) /\ pos <= current
  BY DEF Indices, IsList
<1>2. /\ IsList(m) /\ m.size = l.size - 1 /\ m.shuffled = l.shuffled
      /\ \A i \in Indices(m) :
           /\ Before(pos, i) \in Indices(l) \ {pos}
           /\ m.items[i].path = l.items[Before(pos, i)].path
  BY <1>1, Removed1
<1>3. Counted1(m, turns)
  BY <1>1, CountedRemoved
<1> HIDE DEF m
<1>4. Played(m, current - 1, turns)
  <2>1. \A i \in Indices(m) : i <= current - 1 => Before(pos, i) <= current
    BY <1>1 DEF Before, Indices
  <2>2. QED
    BY <1>2, <2>1 DEF Played
<1>5. ASSUME current = 0 PROVE l.items[current].path \notin InList(m)
  <2>1. pos = current /\ current \in Indices(l) /\ Once(l)
    BY <1>5 DEF IsList
  <2> HIDE DEF pos
  <2>2. \A i \in Indices(m) : m.items[i].path # l.items[current].path
    BY <1>2, <2>1 DEF Once
  <2>3. QED
    BY <2>2 DEF InList
<1>6. ASSUME current # 0
      PROVE  current - 1 \in Indices(m) /\ m.items[current - 1].path = l.items[current].path
  <2>1. current - 1 \in Indices(m) /\ Before(pos, current - 1) = current
    BY <1>1, <1>2, <1>6 DEF Before, Indices
  <2>2. QED
    BY <1>2, <2>1
<1>7. InList(l) \ InList(m) \subseteq turns
  <2> SUFFICES ASSUME NEW i \in Indices(l), l.items[i].path \notin InList(m)
               PROVE  l.items[i].path \in turns
    BY DEF InList
  <2>1. CASE i = pos
    BY <1>1, <2>1 DEF Played
  <2>2. CASE i # pos
    <3> DEFINE j == IF i < pos THEN i ELSE i - 1
    <3>1. j \in Indices(m) /\ Before(pos, j) = i
      BY <1>1, <1>2, <2>2 DEF Before, Indices
    <3>2. m.items[j].path = l.items[i].path
      BY <1>2, <3>1
    <3>3. QED
      BY <3>1, <3>2 DEF InList
  <2>3. QED
    BY <2>1, <2>2
<1>8. QED
  BY <1>2, <1>3, <1>4, <1>5, <1>6, <1>7 DEF m
-----------------------------------------------------------------------------
(* The messages on their way to the main thread                             *)

\* The messages in the order in which they will be handled.
Waiting == batch \o msgs

\* Tuples as sequences.
LEMMA Tuples ==
  /\ Len(<< >>) = 0
  /\ \A x : Len(<<x>>) = 1 /\ <<x>>[1] = x
  /\ \A x, y : Len(<<x, y>>) = 2 /\ <<x, y>>[1] = x /\ <<x, y>>[2] = y
  /\ \A x, y, z : Len(<<x, y, z>>) = 3 /\ <<x, y, z>>[1] = x /\ <<x, y, z>>[2] = y /\ <<x, y, z>>[3] = z
OBVIOUS

\* A sequence is the tuple of its elements.
LEMMA ShortSequences ==
  ASSUME NEW r \in Seq(Messages)
  PROVE  /\ Len(r) = 0 => r = << >>
         /\ Len(r) = 1 => r = <<r[1]>>
         /\ Len(r) = 2 => r = <<r[1], r[2]>>
         /\ Len(r) = 3 => r = <<r[1], r[2], r[3]>>
<1>1. Len(r) = 0 => r = << >>
  BY EmptySeq
<1>2. ASSUME Len(r) = 1 PROVE r = <<r[1]>>
  <2>1. r[1] \in Messages
    BY <1>2, ElementOfSeq
  <2>2. <<r[1]>> \in Seq(Messages) /\ Len(<<r[1]>>) = 1 /\ \A i \in 1 .. 1 : r[i] = <<r[1]>>[i]
    BY <2>1
  <2>3. QED
    BY <1>2, <2>2, SeqEqual
<1>3. ASSUME Len(r) = 2 PROVE r = <<r[1], r[2]>>
  <2>1. r[1] \in Messages /\ r[2] \in Messages
    <3>1. 1 \in 1 .. Len(r) /\ 2 \in 1 .. Len(r)
      BY <1>3
    <3>2. QED
      BY <3>1, ElementOfSeq
  <2>2. <<r[1], r[2]>> \in Seq(Messages)
    BY <2>1
  <2>3. \A i \in 1 .. 2 : r[i] = <<r[1], r[2]>>[i]
    <3>1. \A i \in 1 .. 2 : i = 1 \/ i = 2
      OBVIOUS
    <3>2. r[1] = <<r[1], r[2]>>[1] /\ r[2] = <<r[1], r[2]>>[2]
      BY Tuples, Zenon
    <3>3. QED
      BY <3>1, <3>2, Zenon
  <2>4. QED
    BY <1>3, <2>2, <2>3, Tuples, SeqEqual
<1>4. ASSUME Len(r) = 3 PROVE r = <<r[1], r[2], r[3]>>
  <2>1. r[1] \in Messages /\ r[2] \in Messages /\ r[3] \in Messages
    <3>1. 1 \in 1 .. Len(r) /\ 2 \in 1 .. Len(r) /\ 3 \in 1 .. Len(r)
      BY <1>4
    <3>2. QED
      BY <3>1, ElementOfSeq
  <2>2. <<r[1], r[2], r[3]>> \in Seq(Messages)
    BY <2>1
  <2>3. \A i \in 1 .. 3 : r[i] = <<r[1], r[2], r[3]>>[i]
    <3>1. \A i \in 1 .. 3 : i = 1 \/ i = 2 \/ i = 3
      OBVIOUS
    <3>2. /\ r[1] = <<r[1], r[2], r[3]>>[1] /\ r[2] = <<r[1], r[2], r[3]>>[2]
          /\ r[3] = <<r[1], r[2], r[3]>>[3]
      BY Tuples, Zenon
    <3>3. QED
      BY <3>1, <3>2, Zenon
  <2>4. QED
    BY <1>4, <2>2, <2>3, Tuples, SeqEqual
<1>5. QED
  BY <1>1, <1>2, <1>3, <1>4

\* What is in front of a sequence, and what follows it.
LEMMA Fronts ==
  ASSUME NEW m \in Messages, NEW r \in Seq(Messages)
  PROVE  LET s == <<m>> \o r
         IN  /\ s # << >> /\ Head(s) = m
             /\ \A x : s = <<x>> => m = x /\ r = << >>
             /\ \A x, y : s = <<x, y>> => m = x /\ r = <<y>>
             /\ \A x, y, z : s = <<x, y, z>> => m = x /\ r = <<y, z>>
             /\ \A i \in 1 .. Len(r) : r[i] = s[i + 1] /\ i + 1 \in 1 .. Len(s)
             /\ s[1] = m /\ 1 \in 1 .. Len(s)
<1> DEFINE s == <<m>> \o r
<1>1. <<m>> \in Seq(Messages) /\ Len(<<m>>) = 1 /\ <<m>>[1] = m
  OBVIOUS
<1>2. /\ s \in Seq(Messages) /\ Len(s) = 1 + Len(r) /\ Len(r) \in Nat
      /\ \A i \in 1 .. 1 + Len(r) : s[i] = IF i <= 1 THEN <<m>>[i] ELSE r[i - 1]
  BY <1>1, ConcatProperties
<1> HIDE DEF s
<1>3. s[1] = m /\ \A i \in 1 .. Len(r) : s[i + 1] = r[i]
  BY <1>1, <1>2
<1>4. /\ Len(s) = 1 => Len(r) = 0
      /\ Len(s) = 2 => Len(r) = 1
      /\ Len(s) = 3 => Len(r) = 2
  <2> DEFINE k == Len(s)
             n == Len(r)
  <2>1. k = 1 + n /\ n \in Nat
    BY <1>2
  <2> HIDE DEF k, n
  <2>2. (k = 1 => n = 0) /\ (k = 2 => n = 1) /\ (k = 3 => n = 2)
    BY <2>1
  <2>3. QED
    BY <2>2 DEF k, n
<1>5. s # << >> /\ Head(s) = s[1]
  BY <1>2
<1>6. ASSUME NEW x, s = <<x>> PROVE m = x /\ r = << >>
  <2>1. Len(s) = 1 /\ s[1] = x
    BY <1>6, Tuples, Zenon
  <2>2. Len(r) = 0
    BY <1>2, <2>1
  <2>3. QED
    BY <1>3, <2>1, <2>2, ShortSequences
<1>7. ASSUME NEW x, NEW y, s = <<x, y>> PROVE m = x /\ r = <<y>>
  <2>1. Len(s) = 2 /\ s[1] = x /\ s[2] = y
    BY <1>7, Tuples, Zenon
  <2>2. Len(r) = 1
    BY <1>4, <2>1
  <2>3. r[1] = s[2] /\ m = s[1]
    <3>1. 1 \in 1 .. Len(r) /\ 1 + 1 = 2
      BY <2>2
    <3>2. QED
      BY <1>3, <3>1
  <2>4. r = <<r[1]>>
    BY <2>2, ShortSequences
  <2>5. r[1] = y /\ m = x
    BY <2>1, <2>3
  <2>6. QED
    BY <2>4, <2>5, Zenon
<1>8. ASSUME NEW x, NEW y, NEW z, s = <<x, y, z>> PROVE m = x /\ r = <<y, z>>
  <2>1. Len(s) = 3 /\ s[1] = x /\ s[2] = y /\ s[3] = z
    BY <1>8, Tuples, Zenon
  <2>2. Len(r) = 2
    BY <1>4, <2>1
  <2>3. r[1] = s[2] /\ r[2] = s[3] /\ m = s[1]
    <3>1. 1 \in 1 .. Len(r) /\ 2 \in 1 .. Len(r) /\ 1 + 1 = 2 /\ 2 + 1 = 3
      BY <2>2
    <3>2. QED
      BY <1>3, <3>1
  <2>4. r = <<r[1], r[2]>>
    BY <2>2, ShortSequences
  <2>5. r[1] = y /\ r[2] = z /\ m = x
    BY <2>1, <2>3
  <2>6. QED
    BY <2>4, <2>5, Zenon
<1>9. \A i \in 1 .. Len(r) : i + 1 \in 1 .. Len(s)
  BY <1>2
<1>10. 1 \in 1 .. Len(s)
  BY <1>2
<1>11. QED
  BY <1>3, <1>5, <1>6, <1>7, <1>8, <1>9, <1>10 DEF s

\* What adding a message makes of a short sequence.
LEMMA Backs ==
  ASSUME NEW m \in Messages
  PROVE  /\ << >> \o <<m>> = <<m>>
         /\ \A x \in Messages : <<x>> \o <<m>> = <<x, m>>
         /\ \A x, y \in Messages : <<x, y>> \o <<m>> = <<x, y, m>>
<1>1. <<m>> \in Seq(Messages) /\ << >> \in Seq(Messages)
  OBVIOUS
<1>2. ASSUME NEW x \in Messages PROVE <<x>> \o <<m>> = <<x, m>>
  <2>1. <<x>> \in Seq(Messages)
    OBVIOUS
  <2> DEFINE s == <<x>> \o <<m>>
  <2>2. /\ s \in Seq(Messages) /\ Len(s) = 2
        /\ \A i \in 1 .. 2 : s[i] = IF i <= 1 THEN <<x>>[i] ELSE <<m>>[i - 1]
    BY <1>1, <2>1, ConcatProperties, Tuples
  <2> HIDE DEF s
  <2>3. s[1] = x /\ s[2] = m
    BY <2>2
  <2>4. s = <<s[1], s[2]>>
    BY <2>2, ShortSequences
  <2>5. QED
    BY <2>3, <2>4, Zenon DEF s
<1>3. ASSUME NEW x \in Messages, NEW y \in Messages PROVE <<x, y>> \o <<m>> = <<x, y, m>>
  <2>1. <<x, y>> \in Seq(Messages)
    OBVIOUS
  <2> DEFINE s == <<x, y>> \o <<m>>
  <2>2. /\ s \in Seq(Messages) /\ Len(s) = 3
        /\ \A i \in 1 .. 3 : s[i] = IF i <= 2 THEN <<x, y>>[i] ELSE <<m>>[i - 2]
    BY <1>1, <2>1, ConcatProperties, Tuples
  <2> HIDE DEF s
  <2>3. s[1] = <<x, y>>[1] /\ s[2] = <<x, y>>[2] /\ s[3] = <<m>>[1]
    BY <2>2
  <2>4. s = <<s[1], s[2], s[3]>>
    BY <2>2, ShortSequences
  <2>5. QED
    BY <2>3, <2>4, Tuples, Zenon DEF s
<1>4. << >> \o <<m>> = <<m>>
  BY <1>1, ConcatEmptySeq
<1>5. QED
  BY <1>2, <1>3, <1>4, Zenon

\* The messages that wait are those that a handler takes, and those that are added.
LEMMA WaitingAdded ==
  ASSUME Types, batch' = batch, NEW s \in Seq(Messages), msgs' = msgs \o s
  PROVE  Waiting \in Seq(Messages) /\ Waiting' = Waiting \o s
<1>1. batch \in Seq(Messages) /\ msgs \in Seq(Messages)
  BY DEF Types
<1>2. batch \o (msgs \o s) = (batch \o msgs) \o s
  BY <1>1, ConcatAssociative
<1>3. QED
  BY <1>1, <1>2, ConcatProperties DEF Waiting

\* One message is added at the end.
LEMMA WaitingOne ==
  ASSUME Types, batch' = batch, NEW m \in Messages, msgs' = Append(msgs, m)
  PROVE  Waiting' = Waiting \o <<m>>
<1>1. msgs \in Seq(Messages) /\ <<m>> \in Seq(Messages)
  BY DEF Types
<1>2. msgs' = msgs \o <<m>>
  BY <1>1, AppendIsConcat
<1>3. QED
  BY <1>1, <1>2, WaitingAdded

\* A handler takes the first message.
LEMMA WaitingTaken ==
  ASSUME Types, NEW m, Handle(m)
  PROVE  /\ doing = Idle /\ m \in Messages
         /\ \E r \in Seq(Messages) : Waiting = <<m>> \o r /\ (msgs' = msgs => Waiting' = r)
<1>1. /\ batch' \in Seq(Messages) /\ batch = <<m>> \o batch' /\ m \in Messages
      /\ msgs \in Seq(Messages) /\ doing = Idle
  BY HandleTakes DEF Types
<1>2. <<m>> \in Seq(Messages) /\ batch' \o msgs \in Seq(Messages)
  BY <1>1, ConcatProperties
<1>3. (<<m>> \o batch') \o msgs = <<m>> \o (batch' \o msgs)
  BY <1>1, <1>2, ConcatAssociative
<1>4. QED
  BY <1>1, <1>2, <1>3 DEF Waiting
-----------------------------------------------------------------------------
(* While the users only queue songs                                         *)

OnlyQueues == ~Jumps /\ ~Edits /\ ~Shuffling

L == lists[Music]

\* The marker, once the message in front has been handled if that moves it.
Marker ==
  IF Waiting # << >> /\ Head(Waiting) = "started" /\ m_nextPlaylistItem >= 0
  THEN m_nextPlaylistItem ELSE m_iCurrentSong

\* Only the music list is played, in its order, and its counter is right.
QueuedLists ==
  /\ \A k \in Kinds : m_repeatState[k] = "none" /\ ~lists[k].shuffled
  /\ m_iCurrentPlayList \in {Music, NoList}
  /\ Counted1(L, tried)

\* The songs up to the marker have had their turn.
Reached == m_iCurrentPlayList = Music => Marker >= -1 /\ Played(L, Marker, tried)

\* While a song plays the marker is on it, or was before the song was taken off as the
\* first of the list; and the song that follows is the one after it.
OnSong == Marker \in Indices(L) /\ L.items[Marker].path = now
OffList == Marker = -1 /\ asked /\ Waiting = << >> /\ now \notin InList(L)
NextIsQueued ==
  /\ asked /\ Waiting = << >>
  /\ m_nextPlaylistItem = m_iCurrentSong + 1 /\ m_nextPlaylistItem \in Indices(L)
  /\ L.items[m_nextPlaylistItem].path = nextFile

WhilePlaying == now # NoItem =>
  /\ doing = Idle /\ m_iCurrentPlayList = Music /\ dialogs = << >>
  /\ Waiting \in IF asked THEN {<< >>, <<"queueNext">>, <<"started", "queueNext">>} ELSE {<< >>, <<"started">>}
  /\ OnSong \/ OffList
  /\ nextFile # NoItem => NextIsQueued

\* After it has ended, its end waits to be handled, or is being handled, or too many songs
\* have failed and the dialog is open, or the list is given up, in which every song has
\* had its turn.
Ended ==
  /\ Waiting \in {<<"ended">>, <<"started", "ended">>, <<"queueNext", "ended">>,
                  <<"started", "queueNext", "ended">>}
  /\ Waiting # <<"ended">> => Marker \in Indices(L)

Handling ==
  /\ m_iCurrentPlayList = Music /\ ~doing.back /\ dialogs = << >>
  /\ \/ /\ doing.op = "next"
        /\ Waiting = << >> \/ (Waiting = <<"stopped">> /\ m_iCurrentSong + 1 \notin Indices(L))
     \/ /\ doing.op = "play" /\ Waiting = << >>
        /\ doing.song \in Indices(L) /\ Played(L, doing.song - 1, tried)

InDialog ==
  /\ m_iCurrentPlayList = Music /\ doing = Idle /\ ~m_bPlaybackStarted
  /\ dialogs = << << >> >> /\ Waiting \in {<< >>, <<"stopped">>}

GivenUp ==
  /\ dialogs = << >>
  /\ \A i \in Indices(L) : L.items[i].path \in tried
  /\ Waiting \in Seq({"stopped", "listStopped"})

AfterEnd == now = NoItem =>
  /\ nextFile = NoItem
  /\ doing = Idle /\ m_iCurrentPlayList = Music /\ dialogs = << >> => Ended
  /\ doing # Idle => Handling
  /\ dialogs # << >> => InDialog
  /\ m_iCurrentPlayList = NoList => GivenUp

QueueInv == QueuedLists /\ Reached /\ WhilePlaying /\ AfterEnd

\* What the list and the modes are while nothing but queueing is done.
LEMMA QueueFacts ==
  ASSUME Types, QueuedLists
  PROVE  /\ Music \in Kinds /\ NoList # Music /\ NoItem \notin Paths
         /\ ~RepeatedOne /\ ~Repeated
         /\ IsList(L) /\ ~L.shuffled /\ L.size \in Nat /\ m_iCurrentSong \in Int
         /\ m_iCurrentPlayList = Music => Current = L
<1>1. Music \in Kinds /\ NoList # Music /\ NoItem \notin Paths
  BY PlayerAssumption
<1>2. ~RepeatedOne /\ ~Repeated
  BY <1>1 DEF QueuedLists, RepeatedOne, Repeated
<1>3. IsList(L) /\ ~L.shuffled /\ m_iCurrentSong \in Int
  BY <1>1 DEF Types, QueuedLists, L
<1>4. L.size \in Nat
  BY <1>3 DEF IsList
<1>5. m_iCurrentPlayList = Music => Current = L
  BY <1>1 DEF Current, L
<1>6. QED
  BY <1>1, <1>2, <1>3, <1>4, <1>5

\* A step that leaves the lists, and one that changes the music list.
LEMMA SameLists ==
  ASSUME QueuedLists, UNCHANGED <<lists, m_repeatState>>, m_iCurrentPlayList' \in {Music, NoList},
         tried \subseteq tried'
  PROVE  QueuedLists' /\ L' = L
<1>1. L' = L
  BY DEF L
<1>2. Counted1(L, tried')
  BY CountedMore DEF QueuedLists
<1>3. QED
  BY <1>1, <1>2 DEF QueuedLists

\* A step that changes the music list, to one that is not shuffled and counted right.
LEMMA OneList ==
  ASSUME Types, QueuedLists, NEW m, lists' = [lists EXCEPT ![Music] = m], ~m.shuffled,
         UNCHANGED m_repeatState, m_iCurrentPlayList' \in {Music, NoList}, Counted1(m, tried')
  PROVE  QueuedLists' /\ L' = m
<1>1. L' = m
  BY PlayerAssumption DEF Types, L
<1>2. \A k \in Kinds : m_repeatState'[k] = "none" /\ ~lists'[k].shuffled
  BY PlayerAssumption DEF QueuedLists, Types
<1>3. QED
  BY <1>1, <1>2 DEF QueuedLists

\* What is in front of the messages.
LEMMA Heads ==
  /\ \A x : <<x>> # << >> /\ Head(<<x>>) = x
  /\ \A x, y : <<x, y>> # << >> /\ Head(<<x, y>>) = x
  /\ \A x, y, z : <<x, y, z>> # << >> /\ Head(<<x, y, z>>) = x
OBVIOUS

\* The messages of a list that is given up.
LEMMA StopMessages ==
  LET S == Seq({"stopped", "listStopped"})
  IN  /\ << >> \in S /\ <<"stopped">> \in S /\ <<"listStopped">> \in S
      /\ \A s, t \in S : s \o t \in S
      /\ S \subseteq Seq(Messages)
<1> DEFINE T == {"stopped", "listStopped"}
<1>1. T \subseteq Messages
  BY DEF Messages
<1>2. << >> \in Seq(T) /\ \A x \in T : <<x>> \in Seq(T)
  OBVIOUS
<1>3. \A s, t \in Seq(T) : s \o t \in Seq(T)
  BY ConcatProperties
<1>4. ASSUME NEW s \in Seq(T) PROVE s \in Seq(Messages)
  <2>1. s \in [1 .. Len(s) -> T] /\ Len(s) \in Nat
    BY LenProperties
  <2>2. s \in [1 .. Len(s) -> Messages]
    BY <1>1, <2>1
  <2>3. QED
    BY <2>1, <2>2
<1>5. "stopped" \in T /\ "listStopped" \in T
  OBVIOUS
<1>6. QED
  BY <1>2, <1>3, <1>4, <1>5

\* The handler in progress goes on to play a song, or to the next one.
LEMMA PlayGoesOn ==
  ASSUME doing \in Handlings, NEW i \in Int
  PROVE  LET h == Then(PlaySong(i, FALSE))
         IN  h.op = "play" /\ h.song = i /\ ~h.back /\ h # Idle
<1> DEFINE p == PlaySong(i, FALSE)
<1>1. FALSE \in BOOLEAN
  OBVIOUS
<1>2. p \in Handlings /\ p.op = "play" /\ p.song = i /\ p.back = FALSE /\ Idle.op = "idle"
  BY <1>1, HandlingsAre
<1> HIDE DEF p
<1>3. Then(p).op = "play" /\ Then(p).song = i /\ Then(p).back = FALSE
  BY <1>2, HandlingsAre
<1>4. QED
  BY <1>2, <1>3 DEF p

\* When a song plays, no handler is in progress; a handler in progress is one of these.
LEMMA HandlerInProgress ==
  ASSUME Types, QueueInv, doing.op # "idle"
  PROVE  now = NoItem /\ nextFile = NoItem /\ doing # Idle /\ Handling /\ dialogs = << >>
<1>1. doing # Idle
  BY DEF Idle
<1>2. now = NoItem
  BY <1>1 DEF QueueInv, WhilePlaying
<1>3. QED
  BY <1>1, <1>2 DEF QueueInv, AfterEnd, Handling

\* Nothing is queued at the start.
LEMMA InitQueue == Init => QueueInv
<1> SUFFICES ASSUME Init PROVE QueueInv
  OBVIOUS
<1>1. L = NewList /\ Music # NoList
  BY PlayerAssumption DEF Init, L
<1>2. Indices(L) = {} /\ L.size = 0 /\ ~L.shuffled
  BY <1>1, NewListIsList DEF Indices
<1>3. Waiting = << >> /\ << >> \in Seq({"stopped", "listStopped"})
  BY DEF Init, Waiting
<1>4. QueuedLists
  BY <1>2, NewListIsList DEF QueuedLists, Init, Counted1
<1>5. Reached /\ WhilePlaying
  BY <1>1 DEF Init, Reached, WhilePlaying
<1>6. AfterEnd
  BY <1>1, <1>2, <1>3 DEF Init, AfterEnd, GivenUp
<1>7. QED
  BY <1>4, <1>5, <1>6 DEF QueueInv

\* PlayNext goes on to the song after the marker, or gives up a list in which every
\* song has had its turn.
LEMMA PlayNextQueue == ASSUME Types, QueueInv, PlayNext PROVE QueueInv'
<1>1. /\ now = NoItem /\ nextFile = NoItem /\ Handling /\ doing.op = "next" /\ doing \in Handlings
      /\ dialogs = << >>
  BY HandlerInProgress DEF PlayNext, Types
<1>2. /\ m_iCurrentPlayList = Music /\ ~doing.back
      /\ Waiting = << >> \/ (Waiting = <<"stopped">> /\ m_iCurrentSong + 1 \notin Indices(L))
  BY <1>1 DEF Handling
<1>3. /\ Current = L /\ IsList(L) /\ L.size \in Nat /\ m_iCurrentSong \in Int /\ Music # NoList
      /\ ~RepeatedOne /\ ~Repeated
  BY <1>2, QueueFacts DEF QueueInv
<1>4. Marker = m_iCurrentSong
  BY <1>2, Heads DEF Marker
<1>5. m_iCurrentSong >= -1 /\ Played(L, m_iCurrentSong, tried)
  BY <1>2, <1>4 DEF QueueInv, Reached
<1>6. NextSong = IF L.size = 0 THEN -1 ELSE m_iCurrentSong + 1
  BY <1>3 DEF NextSong
<1>7. /\ UNCHANGED <<lists, m_repeatState, tried, now, nextFile, m_nextPlaylistItem, batch, dialogs>>
      /\ m_iCurrentPlayList' \in {Music, NoList}
  BY <1>2 DEF PlayNext, playervars, history
<1>8. QueuedLists' /\ L' = L
  BY <1>7, SameLists DEF QueueInv
<1>9. CASE NextSong \in Indices(Current) /\ Current.playable > 0
  <2>1. /\ doing' = Then(PlaySong(NextSong, FALSE))
        /\ UNCHANGED <<m_iCurrentPlayList, m_iCurrentSong, msgs>>
    BY <1>9 DEF PlayNext
  <2>2. NextSong = m_iCurrentSong + 1 /\ NextSong \in Indices(L) /\ NextSong \in Int
    BY <1>3, <1>6, <1>9 DEF Indices
  <2>3. Waiting = << >> /\ Waiting' = Waiting
    BY <1>2, <1>7, <2>1, <2>2 DEF Waiting
  <2>4. doing'.op = "play" /\ doing'.song = NextSong /\ ~doing'.back /\ doing' # Idle
    BY <1>1, <2>1, <2>2, PlayGoesOn
  <2>5. Played(L, NextSong - 1, tried)
    BY <1>3, <1>5, <2>2
  <2>6. Handling'
    BY <1>1, <1>2, <1>7, <1>8, <2>1, <2>2, <2>3, <2>4, <2>5 DEF Handling
  <2>7. Reached'
    BY <1>7, <1>8, <2>1, <2>3 DEF QueueInv, Reached, Marker
  <2>8. WhilePlaying' /\ AfterEnd'
    BY <1>1, <1>2, <1>3, <1>7, <2>1, <2>4, <2>6 DEF WhilePlaying, AfterEnd
  <2>9. QED
    BY <1>8, <2>7, <2>8 DEF QueueInv
<1>10. CASE ~(NextSong \in Indices(Current) /\ Current.playable > 0)
  <2>1. m_iCurrentPlayList' = NoList /\ msgs' = Append(msgs, "listStopped") /\ doing' = Idle
    BY <1>10 DEF PlayNext
  <2>2. \A i \in Indices(L) : L.items[i].path \in tried
    <3>1. CASE NextSong \notin Indices(L)
      <4>1. \A i \in Indices(L) : i <= m_iCurrentSong
        BY <1>3, <1>5, <1>6, <3>1 DEF Indices
      <4>2. QED
        BY <1>5, <4>1 DEF Played
    <3>2. CASE ~(L.playable > 0)
      <4>1. L.playable <= 0
        BY <1>3, <3>2 DEF IsList
      <4>2. QED
        BY <1>3, <4>1, NoneLeft DEF QueueInv, QueuedLists
    <3>3. QED
      BY <1>3, <1>10, <3>1, <3>2
  <2>3. Waiting' \in Seq({"stopped", "listStopped"})
    <3>1. Waiting' = Waiting \o <<"listStopped">>
      BY <1>7, <2>1, WaitingOne DEF Messages
    <3>2. QED
      BY <1>2, <3>1, StopMessages
  <2>4. GivenUp'
    BY <1>1, <1>7, <1>8, <2>2, <2>3 DEF GivenUp
  <2>5. Reached' /\ WhilePlaying' /\ AfterEnd'
    BY <1>1, <1>3, <1>7, <2>1, <2>4 DEF Reached, WhilePlaying, AfterEnd
  <2>6. QED
    BY <1>8, <2>5 DEF QueueInv
<1>11. QED
  BY <1>9, <1>10

\* PlayPrevious and an empty list do not happen.
LEMMA NoPrevious == ASSUME Types, QueueInv, PlayPrevious \/ PlayNothing PROVE FALSE
<1>1. doing.op \in {"previous", "play"}
  BY DEF PlayPrevious, PlayNothing
<1>2. Handling
  BY <1>1, HandlerInProgress
<1>3. /\ doing.op = "play" /\ m_iCurrentPlayList = Music /\ doing.song \in Indices(L)
  BY <1>1, <1>2 DEF Handling, PlayPrevious
<1>4. PlayNothing
  BY <1>3 DEF PlayPrevious
<1>5. Current = L /\ L.size # 0 /\ Music # NoList
  BY <1>3, QueueFacts DEF QueueInv, Indices
<1>6. QED
  BY <1>3, <1>4, <1>5 DEF PlayNothing, CannotPlay

\* The song that is to be played is in the list, and those before it have had their turn.
LEMMA ToPlay ==
  ASSUME Types, QueueInv, doing.op = "play"
  PROVE  /\ now = NoItem /\ nextFile = NoItem /\ m_iCurrentPlayList = Music /\ ~doing.back
         /\ dialogs = << >>
         /\ Current = L /\ IsList(L) /\ Waiting = << >>
         /\ Chosen = doing.song /\ Chosen \in Indices(L) /\ ChosenPath = L.items[Chosen].path
         /\ Played(L, Chosen - 1, tried) /\ Played(L, Chosen, tried \cup {ChosenPath})
<1>1. now = NoItem /\ nextFile = NoItem /\ Handling /\ dialogs = << >>
  BY HandlerInProgress
<1>2. /\ m_iCurrentPlayList = Music /\ ~doing.back /\ Waiting = << >>
      /\ doing.song \in Indices(L) /\ Played(L, doing.song - 1, tried)
  BY <1>1 DEF Handling
<1>3. Current = L /\ IsList(L) /\ L.size \in Nat
  BY <1>2, QueueFacts DEF QueueInv
<1>4. Chosen = doing.song
  BY <1>2, <1>3 DEF Chosen, Indices
<1>5. ChosenPath = L.items[Chosen].path
  BY <1>3 DEF ChosenPath
<1>6. Played(L, Chosen, tried \cup {ChosenPath})
  <2>1. \A i \in Indices(L) : i <= Chosen => i <= Chosen - 1 \/ i = Chosen
    BY <1>2, <1>4 DEF Indices
  <2>2. QED
    BY <1>2, <1>4, <1>5, <2>1 DEF Played
<1>7. QED
  BY <1>1, <1>2, <1>3, <1>4, <1>5, <1>6

\* The song that opens plays, with the marker on it and its start to be told.
LEMMA PlayOpensQueue == ASSUME Types, QueueInv, PlayOpens PROVE QueueInv'
<1> DEFINE m == [L EXCEPT !.played = TRUE]
<1>1. doing.op = "play"
  BY DEF PlayOpens
<1>2. /\ m_iCurrentPlayList = Music /\ IsList(L) /\ Waiting = << >> /\ dialogs = << >>
      /\ Chosen \in Indices(L) /\ ChosenPath = L.items[Chosen].path
      /\ Played(L, Chosen, tried \cup {ChosenPath}) /\ ChosenPath \in Paths /\ NoItem \notin Paths
  BY <1>1, ToPlay, ItemOfList, PlayerAssumption
<1>3. /\ IsList(m) /\ m.items = L.items /\ Indices(m) = Indices(L) /\ m.shuffled = L.shuffled
  BY <1>2, PlayedIsList
<1>4. Counted1(m, tried \cup {ChosenPath})
  <2>1. Counted1(L, tried \cup {ChosenPath})
    BY CountedMore DEF QueueInv, QueuedLists
  <2>2. QED
    BY <1>2, <2>1, CountedPlayed
<1>5. /\ lists' = [lists EXCEPT ![Music] = m] /\ tried' = tried \cup {ChosenPath}
      /\ m_iCurrentSong' = Chosen /\ now' = ChosenPath /\ nextFile' = NoItem /\ asked' = FALSE
      /\ m_nextPlaylistItem' = -1 /\ msgs' = Append(msgs, "started") /\ doing' = Idle
      /\ UNCHANGED <<m_iCurrentPlayList, m_repeatState, batch, dialogs>>
  BY <1>2 DEF PlayOpens, L
<1> HIDE DEF m
<1>6. QueuedLists' /\ L' = m
  BY <1>2, <1>3, <1>4, <1>5, OneList, QueueFacts DEF QueueInv
<1>7. Waiting' = <<"started">>
  BY <1>2, <1>5, WaitingOne, Backs DEF Messages
<1>8. Marker' = Chosen /\ Chosen \in Int /\ Chosen >= 0
  <2>1. Marker' = m_iCurrentSong'
    BY <1>5 DEF Marker
  <2>2. QED
    BY <1>2, <1>5, <2>1 DEF Indices
<1>9. Reached'
  <2>1. Played(m, Chosen, tried \cup {ChosenPath})
    BY <1>2, <1>3 DEF Played
  <2>2. Played(L', Marker', tried') /\ Marker' >= -1
    BY <1>5, <1>6, <1>8, <2>1
  <2>3. QED
    BY <2>2 DEF Reached
<1>10. WhilePlaying'
  <2>1. OnSong'
    BY <1>2, <1>3, <1>5, <1>6, <1>8 DEF OnSong
  <2>2. QED
    BY <1>2, <1>5, <1>7, <2>1 DEF WhilePlaying
<1>11. AfterEnd'
  BY <1>2, <1>5 DEF AfterEnd
<1>12. QED
  BY <1>6, <1>9, <1>10, <1>11 DEF QueueInv

\* GetNextSong() when nothing is repeated.
LEMMA TakesNext ==
  ASSUME NEW l, NEW current, l.size # 0, ~RepeatedOne, ~Repeated
  PROVE  LET t == TakeNextSong(l, current)
         IN  /\ t.ret = current /\ t.song = current - 1 /\ ~t.stuck
             /\ t.l = Remove(l, IF current = 0 THEN 0 ELSE current - 1)
BY DEF TakeNextSong

\* What GetNextSong() inside a failed PlayFile leaves: the songs up to the index have had
\* their turn, and it announces a stop only if the index is at the end of the list.
LEMMA AskedList ==
  ASSUME Types, QueueInv, doing.op = "play", NEW atOpen \in BOOLEAN
  PROVE  LET t == Asked(atOpen)
             turns == tried \cup {ChosenPath}
         IN  /\ ~t.stuck /\ IsList(t.l) /\ ~t.l.shuffled /\ Counted1(t.l, turns)
             /\ t.song \in Int /\ t.song >= -1 /\ Played(t.l, t.song, turns)
             /\ InList(L) \ InList(t.l) \subseteq turns
             /\ atOpen /\ t.ret \notin 0 .. t.l.size - 1 => t.song + 1 \notin Indices(t.l)
<1> DEFINE l == [L EXCEPT !.played = TRUE]
           turns == tried \cup {ChosenPath}
           t == Asked(atOpen)
<1>1. /\ m_iCurrentPlayList = Music /\ Current = L /\ IsList(L)
      /\ Chosen \in Indices(L) /\ Played(L, Chosen, turns)
  BY ToPlay
<1>2. ~RepeatedOne /\ ~Repeated /\ ~L.shuffled
  BY QueueFacts DEF QueueInv
<1>3. Counted1(L, turns)
  BY CountedMore DEF QueueInv, QueuedLists
<1>4. /\ IsList(l) /\ l.items = L.items /\ Indices(l) = Indices(L) /\ ~l.shuffled
      /\ Counted1(l, turns) /\ InList(l) = InList(L) /\ l.size # 0
  <2>1. IsList(l) /\ l.items = L.items /\ Indices(l) = Indices(L) /\ ~l.shuffled
    BY <1>1, <1>2, PlayedIsList
  <2>2. Counted1(l, turns)
    BY <1>1, <1>3, CountedPlayed
  <2>3. l.size # 0
    BY <1>1, <2>1 DEF Indices
  <2> HIDE DEF l
  <2>4. InList(l) = InList(L)
    BY <2>1 DEF InList
  <2>5. QED
    BY <2>1, <2>2, <2>3, <2>4
<1>5. t = IF atOpen THEN TakeNextSong(l, Chosen)
          ELSE [ret |-> 0, l |-> l, song |-> Chosen, stuck |-> FALSE]
  BY <1>1 DEF Asked
<1>6. Chosen \in Int /\ Chosen >= 0 /\ Played(l, Chosen, turns)
  <2> HIDE DEF l, turns
  <2>1. Chosen \in Int /\ Chosen >= 0
    BY <1>1 DEF Indices
  <2>2. Played(l, Chosen, turns)
    BY <1>1, <1>4 DEF Played
  <2>3. QED
    BY <2>1, <2>2
<1> HIDE DEF l, turns, t
<1>7. CASE atOpen
  <2> DEFINE m == Remove(l, IF Chosen = 0 THEN 0 ELSE Chosen - 1)
  <2>1. t.ret = Chosen /\ t.song = Chosen - 1 /\ ~t.stuck /\ t.l = m
    BY <1>2, <1>4, <1>5, <1>7, TakesNext
  <2>2. /\ IsList(m) /\ m.shuffled = l.shuffled /\ Counted1(m, turns)
        /\ Played(m, Chosen - 1, turns) /\ InList(l) \ InList(m) \subseteq turns
    BY <1>1, <1>4, <1>6, TakenOff
  <2> HIDE DEF m
  <2>3. Chosen \notin 0 .. m.size - 1 => (Chosen - 1) + 1 \notin Indices(m)
    BY <1>6 DEF Indices
  <2>4. QED
    BY <1>4, <1>6, <2>1, <2>2, <2>3 DEF t, turns
<1>8. CASE ~atOpen
  <2>1. t.song = Chosen /\ ~t.stuck /\ t.l = l
    BY <1>5, <1>8
  <2>2. QED
    BY <1>4, <1>6, <1>8, <2>1 DEF t, turns
<1>9. QED
  BY <1>7, <1>8

\* The song that failed is marked in it.
LEMMA MarkedList ==
  ASSUME Types, QueueInv, doing.op = "play", NEW atOpen \in BOOLEAN
  PROVE  LET t == Asked(atOpen)
             m == Marked(atOpen)
             turns == tried \cup {ChosenPath}
         IN  /\ IsList(m) /\ ~m.shuffled /\ Counted1(m, turns) /\ Indices(m) = Indices(t.l)
             /\ Played(m, t.song, turns) /\ InList(L) \ InList(m) \subseteq turns
<1> DEFINE t == Asked(atOpen)
           l == t.l
           m == Marked(atOpen)
           turns == tried \cup {ChosenPath}
<1>1. /\ IsList(l) /\ ~l.shuffled /\ Counted1(l, turns)
      /\ t.song \in Int /\ Played(l, t.song, turns) /\ InList(L) \ InList(l) \subseteq turns
  BY AskedList
<1>2. m = SetUnPlayable(l, t.song)
  BY DEF Marked
<1> HIDE DEF m, l, t, turns
<1>3. /\ IsList(m) /\ m.size = l.size /\ m.shuffled = l.shuffled
      /\ \A i \in Indices(l) : m.items[i].path = l.items[i].path
  BY <1>1, <1>2, Marked1
<1>4. Counted1(m, turns)
  <2>1. t.song \in Indices(l) => l.items[t.song].path \in turns
    BY <1>1 DEF Played
  <2>2. QED
    BY <1>1, <1>2, <2>1, CountedMarked
<1>5. Indices(m) = Indices(l)
  BY <1>3 DEF Indices
<1>6. Played(m, t.song, turns) /\ InList(m) = InList(l)
  BY <1>1, <1>3, <1>5 DEF Played, InList
<1>7. QED
  BY <1>1, <1>3, <1>4, <1>5, <1>6 DEF m, l, t, turns

\* What a failure changes, without repetition: the song is marked, and its list goes on to
\* the next one, or is left to the error dialog, or is given up.
LEMMA PlayFailsLists ==
  ASSUME Types, QueueInv, NEW atOpen \in BOOLEAN, PlayFails(atOpen)
  PROVE  LET t == Asked(atOpen)
             m == Marked(atOpen)
             stop == IF atOpen /\ t.ret \notin 0 .. t.l.size - 1 THEN <<"stopped">> ELSE << >>
         IN  /\ doing.op = "play" /\ tried' = tried \cup {ChosenPath} /\ ~doing.back
             /\ now' = NoItem /\ nextFile' = NoItem /\ m_nextPlaylistItem' = -1
             /\ m_bPlaybackStarted' = FALSE
             /\ UNCHANGED <<m_repeatState, raced>>
             /\ lists' = [lists EXCEPT ![Music] = m]
             /\ \/ /\ m_iCurrentPlayList' = Music /\ m_iCurrentSong' = t.song
                   /\ msgs' = msgs \o stop
                   /\ \/ doing' = Retry(Next1) /\ UNCHANGED <<batch, dialogs>>
                      \/ doing' = Idle /\ dialogs' = <<batch>> \o dialogs /\ batch' = << >>
                \/ /\ m.playable <= 0 /\ UNCHANGED <<batch, dialogs>>
                   /\ m_iCurrentPlayList' = NoList /\ m_iCurrentSong' = -1 /\ doing' = Idle
                   /\ msgs' = (msgs \o stop) \o <<"listStopped">>
<1> DEFINE t == Asked(atOpen)
           m == Marked(atOpen)
           stop == IF atOpen /\ t.ret \notin 0 .. t.l.size - 1 THEN <<"stopped">> ELSE << >>
<1>1. doing.op = "play"
  BY DEF PlayFails
<1>2. now = NoItem /\ nextFile = NoItem /\ m_iCurrentPlayList = Music /\ ~doing.back /\ ~t.stuck
  BY <1>1, ToPlay, AskedList
<1>3. PICK late \in {FALSE, TimesOut} :
         LET over == ~TooMany(late) /\ m.playable <= 0
         IN  /\ lists' = [lists EXCEPT ![m_iCurrentPlayList] = m]
             /\ m_iCurrentPlayList' = IF over \/ t.stuck THEN NoList ELSE m_iCurrentPlayList
             /\ m_iCurrentSong' = IF over THEN -1 ELSE t.song
             /\ m_iFailedSongs' = FailedSongs
             /\ doing' = IF over \/ TooMany(late) THEN Idle
                         ELSE Retry(IF doing.back THEN Previous1 ELSE Next1)
             /\ msgs' = msgs \o ((IF t.stuck THEN <<"listStopped">> ELSE << >>)
                          \o (IF atOpen /\ t.ret \notin 0 .. (IF t.stuck THEN 0 ELSE t.l.size) - 1
                              THEN <<"stopped">> ELSE << >>))
                        \o (IF over THEN <<"listStopped">> ELSE << >>)
             /\ IF TooMany(late) THEN dialogs' = <<batch>> \o dialogs /\ batch' = << >>
                ELSE UNCHANGED <<dialogs, batch>>
  BY PlayFailsDoes, Zenon
<1>4. /\ tried' = tried \cup {ChosenPath} /\ m_nextPlaylistItem' = -1 /\ m_bPlaybackStarted' = FALSE
      /\ UNCHANGED <<m_repeatState, raced>>
  BY DEF PlayFails
<1>5. now' = NoItem /\ nextFile' = NoItem
  BY <1>2 DEF PlayFails
<1> HIDE DEF t, m
<1>6. stop \in Seq(Messages) /\ msgs \in Seq(Messages)
  <2>1. stop \in {<< >>, <<"stopped">>}
    OBVIOUS
  <2>2. QED
    BY <2>1, StopMessages DEF Types
<1>7. /\ (IF t.stuck THEN <<"listStopped">> ELSE << >>)
           \o (IF atOpen /\ t.ret \notin 0 .. (IF t.stuck THEN 0 ELSE t.l.size) - 1
               THEN <<"stopped">> ELSE << >>) = << >> \o stop
  BY <1>2, Zenon
<1>8. << >> \o stop = stop
  BY <1>6, ConcatEmptySeq
<1>9. msgs \o stop \in Seq(Messages) /\ (msgs \o stop) \o << >> = msgs \o stop
  BY <1>6, ConcatProperties, ConcatEmptySeq
<1>10. msgs' = (msgs \o stop)
                 \o (IF ~TooMany(late) /\ m.playable <= 0 THEN <<"listStopped">> ELSE << >>)
  BY <1>3, <1>7, <1>8, Zenon
<1>11. lists' = [lists EXCEPT ![Music] = m]
  BY <1>2, <1>3
<1> HIDE DEF stop
<1>12. CASE ~TooMany(late) /\ m.playable <= 0
  <2>1. m_iCurrentPlayList' = NoList /\ m_iCurrentSong' = -1 /\ doing' = Idle
    BY <1>3, <1>12
  <2>2. msgs' = (msgs \o stop) \o <<"listStopped">> /\ UNCHANGED <<batch, dialogs>>
    BY <1>3, <1>10, <1>12
  <2>3. QED
    BY <1>1, <1>2, <1>4, <1>5, <1>11, <1>12, <2>1, <2>2, Zenon DEF t, m, stop
<1>13. CASE ~(~TooMany(late) /\ m.playable <= 0)
  <2>1. m_iCurrentPlayList' = Music /\ m_iCurrentSong' = t.song
    BY <1>2, <1>3, <1>13
  <2>2. msgs' = msgs \o stop
    BY <1>9, <1>10, <1>13
  <2>3. \/ doing' = Retry(Next1) /\ UNCHANGED <<batch, dialogs>>
        \/ doing' = Idle /\ dialogs' = <<batch>> \o dialogs /\ batch' = << >>
    BY <1>2, <1>3, <1>13
  <2>4. QED
    BY <1>1, <1>2, <1>4, <1>5, <1>11, <2>1, <2>2, <2>3, Zenon DEF t, m, stop
<1>14. QED
  BY <1>12, <1>13

\* After a failure the song after it is next, or the dialog waits to be closed, or every
\* song has had its turn.
LEMMA PlayFailsQueue ==
  ASSUME Types, QueueInv, NEW atOpen \in BOOLEAN, PlayFails(atOpen) PROVE QueueInv'
<1> DEFINE t == Asked(atOpen)
           m == Marked(atOpen)
           turns == tried \cup {ChosenPath}
           stop == IF atOpen /\ t.ret \notin 0 .. t.l.size - 1 THEN <<"stopped">> ELSE << >>
<1>1. /\ doing.op = "play" /\ tried' = turns /\ now' = NoItem /\ nextFile' = NoItem
      /\ m_nextPlaylistItem' = -1 /\ m_bPlaybackStarted' = FALSE /\ UNCHANGED m_repeatState
      /\ lists' = [lists EXCEPT ![Music] = m]
  BY PlayFailsLists
<1>2. Waiting = << >> /\ IsList(L) /\ Music # NoList /\ dialogs = << >>
  BY <1>1, ToPlay, PlayerAssumption
<1>3. /\ IsList(m) /\ ~m.shuffled /\ Counted1(m, turns) /\ Indices(m) = Indices(t.l)
      /\ Played(m, t.song, turns)
  BY <1>1, MarkedList
<1>4. /\ t.song \in Int /\ t.song >= -1
      /\ stop = <<"stopped">> => t.song + 1 \notin Indices(t.l)
  <2>1. t.song \in Int /\ t.song >= -1
    BY <1>1, AskedList
  <2>2. atOpen /\ t.ret \notin 0 .. t.l.size - 1 => t.song + 1 \notin Indices(t.l)
    BY <1>1, AskedList
  <2>3. stop = <<"stopped">> => atOpen /\ t.ret \notin 0 .. t.l.size - 1
    OBVIOUS
  <2>4. QED
    BY <2>1, <2>2, <2>3
<1>5. stop \in {<< >>, <<"stopped">>} /\ <<"listStopped">> \in Seq(Messages)
  BY DEF Messages
<1>6. stop \in Seq({"stopped", "listStopped"}) /\ stop \in Seq(Messages) /\ msgs \in Seq(Messages)
  BY <1>5, StopMessages DEF Types
<1>7. \/ /\ m_iCurrentPlayList' = Music /\ m_iCurrentSong' = t.song /\ msgs' = msgs \o stop
         /\ \/ doing' = Retry(Next1) /\ UNCHANGED <<batch, dialogs>>
            \/ doing' = Idle /\ dialogs' = <<batch>> \o dialogs /\ batch' = << >>
      \/ /\ m.playable <= 0 /\ UNCHANGED <<batch, dialogs>>
         /\ m_iCurrentPlayList' = NoList /\ m_iCurrentSong' = -1 /\ doing' = Idle
         /\ msgs' = (msgs \o stop) \o <<"listStopped">>
  BY PlayFailsLists, Zenon
<1> HIDE DEF t, m, turns, stop
<1>8. batch = << >>
  <2>1. batch \in Seq(Messages) /\ Len(batch \o msgs) = Len(batch) + Len(msgs)
    BY <1>6, ConcatProperties DEF Types
  <2>2. Len(batch) \in Nat /\ Len(msgs) \in Nat /\ Len(batch \o msgs) = 0
    BY <1>2, <1>6, <2>1 DEF Waiting
  <2>3. Len(batch) = 0
    BY <2>1, <2>2
  <2>4. QED
    BY <2>1, <2>3, EmptySeq
<1>9. CASE /\ m_iCurrentPlayList' = Music /\ m_iCurrentSong' = t.song /\ msgs' = msgs \o stop
           /\ \/ doing' = Retry(Next1) /\ UNCHANGED <<batch, dialogs>>
              \/ doing' = Idle /\ dialogs' = <<batch>> \o dialogs /\ batch' = << >>
  <2>1. QueuedLists' /\ L' = m
    BY <1>1, <1>3, <1>9, OneList DEF QueueInv
  <2>2. Waiting' = stop
    <3>1. batch' = batch
      BY <1>8, <1>9
    <3>2. QED
      BY <1>2, <1>6, <1>9, <3>1, WaitingAdded, ConcatEmptySeq
  <2>3. Marker' = m_iCurrentSong'
    <3>1. stop = << >> \/ Head(stop) # "started"
      BY <1>5, Heads
    <3>2. QED
      BY <2>2, <3>1 DEF Marker
  <2>4. Reached'
    BY <1>1, <1>3, <1>4, <1>9, <2>1, <2>3 DEF Reached
  <2>5. CASE doing' = Retry(Next1) /\ UNCHANGED <<batch, dialogs>>
    <3>1. doing'.op = "next" /\ ~doing'.back /\ doing' # Idle
      <4>1. doing \in Handlings
        BY DEF Types
      <4>2. Next1 \in Handlings /\ Next1.op = "next" /\ ~Next1.back /\ Idle.op = "idle"
        BY <4>1, HandlingsAre
      <4>3. Retry(Next1).op = "next" /\ ~Retry(Next1).back
        BY <4>1, <4>2, HandlingsAre
      <4>4. QED
        BY <2>5, <4>2, <4>3
    <3>2. Handling'
      <4>1. stop = <<"stopped">> => m_iCurrentSong' + 1 \notin Indices(L')
        BY <1>3, <1>4, <1>9, <2>1
      <4>2. QED
        BY <1>2, <1>5, <1>9, <2>2, <2>5, <3>1, <4>1 DEF Handling
    <3>3. WhilePlaying' /\ AfterEnd'
      BY <1>1, <1>2, <1>9, <2>5, <3>1, <3>2 DEF WhilePlaying, AfterEnd
    <3>4. QED
      BY <2>1, <2>4, <3>3 DEF QueueInv
  <2>6. CASE doing' = Idle /\ dialogs' = <<batch>> \o dialogs /\ batch' = << >>
    <3>1. dialogs' = << << >> >> /\ dialogs' # << >>
      <4>1. <<batch>> = << << >> >> /\ << << >> >> # << >> /\ << << >> >> \in Seq(Seq(Messages))
        BY <1>8
      <4>2. << << >> >> \o << >> = << << >> >>
        BY <4>1, ConcatEmptySeq
      <4>3. QED
        BY <1>2, <2>6, <4>1, <4>2
    <3>2. InDialog'
      BY <1>1, <1>5, <1>9, <2>2, <2>6, <3>1 DEF InDialog
    <3>3. WhilePlaying' /\ AfterEnd'
      BY <1>1, <1>2, <1>9, <2>6, <3>1, <3>2 DEF WhilePlaying, AfterEnd
    <3>4. QED
      BY <2>1, <2>4, <3>3 DEF QueueInv
  <2>7. QED
    BY <1>9, <2>5, <2>6
<1>10. CASE /\ m.playable <= 0 /\ UNCHANGED <<batch, dialogs>>
            /\ m_iCurrentPlayList' = NoList /\ m_iCurrentSong' = -1 /\ doing' = Idle
            /\ msgs' = (msgs \o stop) \o <<"listStopped">>
  <2>1. \A i \in Indices(m) : m.items[i].path \in turns
    BY <1>3, <1>10, NoneLeft
  <2>2. QueuedLists' /\ L' = m
    BY <1>1, <1>3, <1>10, OneList DEF QueueInv
  <2>3. Waiting' \in Seq({"stopped", "listStopped"})
    <3>1. stop \o <<"listStopped">> \in Seq({"stopped", "listStopped"})
      BY <1>6, StopMessages
    <3>2. stop \o <<"listStopped">> \in Seq(Messages) /\ << >> \in Seq(Messages)
      BY <3>1, StopMessages
    <3>3. (msgs \o stop) \o <<"listStopped">> = msgs \o (stop \o <<"listStopped">>)
      BY <1>5, <1>6, ConcatAssociative
    <3>4. Waiting' = << >> \o (stop \o <<"listStopped">>)
      BY <1>2, <1>10, <3>2, <3>3, WaitingAdded
    <3>5. QED
      BY <3>1, <3>2, <3>4, ConcatEmptySeq
  <2>4. GivenUp' /\ dialogs' = << >>
    BY <1>1, <1>2, <1>10, <2>1, <2>2, <2>3 DEF GivenUp
  <2>5. Reached' /\ WhilePlaying' /\ AfterEnd'
    BY <1>1, <1>2, <1>10, <2>4 DEF Reached, WhilePlaying, AfterEnd
  <2>6. QED
    BY <2>2, <2>5 DEF QueueInv
<1>11. QED
  BY <1>7, <1>9, <1>10

\* With the dialog closed the list is empty and given up.
LEMMA CloseDialogQueue == ASSUME Types, QueueInv, CloseDialog PROVE QueueInv'
<1>1. /\ doing = Idle /\ dialogs # << >> /\ batch = << >> /\ batch' = Head(dialogs)
      /\ dialogs' = Tail(dialogs) /\ m_iCurrentPlayList' = NoList /\ m_iCurrentSong' = -1
      /\ msgs' = Append(msgs, "listStopped")
      /\ lists' = IF m_iCurrentPlayList = NoList THEN lists
                  ELSE [lists EXCEPT ![m_iCurrentPlayList] = Clear(@)]
      /\ UNCHANGED <<m_repeatState, now, nextFile, asked, m_nextPlaylistItem, doing, tried>>
  BY DEF CloseDialog, Reset, playervars, history
<1>2. now = NoItem /\ InDialog
  BY <1>1 DEF QueueInv, WhilePlaying, AfterEnd
<1>3. /\ m_iCurrentPlayList = Music /\ dialogs = << << >> >> /\ Waiting \in {<< >>, <<"stopped">>}
      /\ Music # NoList /\ Music \in Kinds
  BY <1>2, PlayerAssumption DEF InDialog
<1>4. batch' = << >> /\ dialogs' = << >>
  <2>1. batch' = Head(<< << >> >>) /\ dialogs' = Tail(<< << >> >>)
    BY <1>1, <1>3, Zenon
  <2>2. Head(<< << >> >>) = << >> /\ Tail(<< << >> >>) = << >>
    OBVIOUS
  <2>3. QED
    BY <2>1, <2>2
<1>5. lists' = [lists EXCEPT ![Music] = Clear(L)] /\ IsList(L) /\ L.shuffled = FALSE
  BY <1>1, <1>3, QueueFacts DEF L, QueueInv
<1>6. ~Clear(L).shuffled /\ Counted1(Clear(L), tried) /\ Indices(Clear(L)) = {}
  <2>1. Clear(L).shuffled = FALSE
    BY <1>5, ClearIsList
  <2>2. QED
    BY <1>5, <2>1, CountedCleared
<1>7. QueuedLists' /\ L' = Clear(L)
  BY <1>1, <1>5, <1>6, OneList DEF QueueInv
<1>8. Waiting' \in Seq({"stopped", "listStopped"})
  <2>1. Waiting' = Waiting \o <<"listStopped">>
    BY <1>1, <1>4, WaitingOne DEF Messages
  <2>2. QED
    BY <1>3, <2>1, StopMessages
<1>9. GivenUp'
  BY <1>1, <1>4, <1>6, <1>7, <1>8 DEF GivenUp
<1>10. nextFile' = NoItem
  BY <1>1, <1>2 DEF QueueInv, AfterEnd
<1>11. Reached' /\ WhilePlaying' /\ AfterEnd'
  BY <1>1, <1>2, <1>3, <1>4, <1>9, <1>10 DEF Reached, WhilePlaying, AfterEnd
<1>12. QED
  BY <1>7, <1>11 DEF QueueInv

\* The message in front, by what is going on.
Taken(m, r) ==
  \/ /\ m_iCurrentPlayList = Music /\ now # NoItem /\ OnSong /\ dialogs = << >>
     /\ \/ m = "started" /\ r = IF asked THEN <<"queueNext">> ELSE << >>
        \/ m = "queueNext" /\ asked /\ r = << >>
  \/ /\ m_iCurrentPlayList = Music /\ now = NoItem /\ dialogs = << >>
     /\ \/ m = "ended" /\ r = << >>
        \/ m = "started" /\ r \in {<<"ended">>, <<"queueNext", "ended">>} /\ Marker \in Indices(L)
        \/ m = "queueNext" /\ r = <<"ended">> /\ Marker \in Indices(L)
  \/ InDialog /\ now = NoItem /\ m = "stopped" /\ r = << >>
  \/ /\ m_iCurrentPlayList = NoList /\ now = NoItem /\ GivenUp
     /\ m \in {"stopped", "listStopped"} /\ r \in Seq({"stopped", "listStopped"})

\* A sequence of such messages, and what follows its first one.
LEMMA StopsTaken ==
  ASSUME NEW m \in Messages, NEW r \in Seq(Messages), <<m>> \o r \in Seq({"stopped", "listStopped"})
  PROVE  m \in {"stopped", "listStopped"} /\ r \in Seq({"stopped", "listStopped"})
<1> DEFINE T == {"stopped", "listStopped"}
           s == <<m>> \o r
<1>1. s[1] = m /\ 1 \in 1 .. Len(s) /\ \A i \in 1 .. Len(r) : r[i] = s[i + 1] /\ i + 1 \in 1 .. Len(s)
  BY Fronts, Zenon
<1>2. \A i \in 1 .. Len(s) : s[i] \in T
  BY ElementOfSeq
<1> HIDE DEF s
<1>3. m \in T
  BY <1>1, <1>2
<1>4. \A i \in 1 .. Len(r) : r[i] \in T
  BY <1>1, <1>2
<1>5. r \in [1 .. Len(r) -> T] /\ Len(r) \in Nat
  BY <1>4, LenProperties
<1>6. QED
  BY <1>3, <1>5

\* A message that is handled was sent by what is going on: the song that plays, the song
\* that ended, or the list that was given up.
LEMMA MessageTaken ==
  ASSUME Types, QueueInv, NEW m, Handle(m)
  PROVE  /\ doing = Idle
         /\ \E r \in Seq(Messages) : /\ Waiting = <<m>> \o r /\ (msgs' = msgs => Waiting' = r)
                                     /\ Waiting # << >> /\ Head(Waiting) = m /\ Taken(m, r)
<1>1. doing = Idle /\ m \in Messages
  BY WaitingTaken
<1>2. PICK r \in Seq(Messages) : Waiting = <<m>> \o r /\ (msgs' = msgs => Waiting' = r)
  BY WaitingTaken
<1>3. /\ Waiting # << >> /\ Head(Waiting) = m
      /\ \A x : Waiting = <<x>> => m = x /\ r = << >>
      /\ \A x, y : Waiting = <<x, y>> => m = x /\ r = <<y>>
      /\ \A x, y, z : Waiting = <<x, y, z>> => m = x /\ r = <<y, z>>
  <2>1. m \in Messages /\ r \in Seq(Messages) /\ Waiting = <<m>> \o r
    BY <1>1, <1>2
  <2> DEFINE s == <<m>> \o r
  <2>2. /\ s # << >> /\ Head(s) = m
        /\ \A x : s = <<x>> => m = x /\ r = << >>
        /\ \A x, y : s = <<x, y>> => m = x /\ r = <<y>>
        /\ \A x, y, z : s = <<x, y, z>> => m = x /\ r = <<y, z>>
    BY <2>1, Fronts, Zenon
  <2>3. Waiting = s
    BY <2>1
  <2> HIDE DEF s
  <2>4. QED
    BY ONLY <2>2, <2>3, Zenon
<1>4. m_iCurrentPlayList \in {Music, NoList}
  BY DEF QueueInv, QueuedLists
<1>5. CASE now # NoItem
  <2>1. /\ m_iCurrentPlayList = Music /\ OnSong /\ dialogs = << >>
        /\ Waiting \in IF asked THEN {<< >>, <<"queueNext">>, <<"started", "queueNext">>} ELSE {<< >>, <<"started">>}
    BY <1>3, <1>5 DEF QueueInv, WhilePlaying, OffList
  <2>2. CASE asked
    <3>1. Waiting = <<"queueNext">> \/ Waiting = <<"started", "queueNext">>
      BY <1>3, <2>1, <2>2
    <3>2. (m = "queueNext" /\ r = << >>) \/ (m = "started" /\ r = <<"queueNext">>)
      BY <1>3, <3>1
    <3>3. QED
      BY <1>1, <1>2, <1>3, <1>5, <2>1, <2>2, <3>2 DEF Taken
  <2>3. CASE ~asked
    <3>1. Waiting = <<"started">>
      BY <1>3, <2>1, <2>3
    <3>2. m = "started" /\ r = << >>
      BY <1>3, <3>1
    <3>3. QED
      BY <1>1, <1>2, <1>3, <1>5, <2>1, <2>3, <3>2 DEF Taken
  <2>4. QED
    BY <2>2, <2>3
<1>6. CASE now = NoItem /\ m_iCurrentPlayList = Music /\ dialogs = << >>
  <2>1. Ended
    BY <1>1, <1>6 DEF QueueInv, AfterEnd
  <2>2. \/ m = "ended" /\ r = << >>
        \/ m = "started" /\ r \in {<<"ended">>, <<"queueNext", "ended">>}
        \/ m = "queueNext" /\ r = <<"ended">>
    BY <1>3, <2>1 DEF Ended
  <2>3. m # "ended" => Waiting # <<"ended">>
    BY <1>3
  <2>4. QED
    BY <1>1, <1>2, <1>3, <1>6, <2>1, <2>2, <2>3 DEF Taken, Ended
<1>7. CASE m_iCurrentPlayList = NoList
  <2>1. now = NoItem /\ GivenUp
    BY <1>7, PlayerAssumption DEF QueueInv, WhilePlaying, AfterEnd
  <2>2. m \in {"stopped", "listStopped"} /\ r \in Seq({"stopped", "listStopped"})
    BY <1>1, <1>2, <2>1, StopsTaken DEF GivenUp
  <2>3. QED
    BY <1>1, <1>2, <1>3, <1>7, <2>1, <2>2 DEF Taken
<1>8. CASE now = NoItem /\ dialogs # << >>
  <2>1. InDialog
    BY <1>8 DEF QueueInv, AfterEnd
  <2>2. Waiting = <<"stopped">>
    BY <1>3, <2>1 DEF InDialog
  <2>3. m = "stopped" /\ r = << >>
    BY <1>3, <2>2
  <2>4. QED
    BY <1>1, <1>2, <1>3, <1>8, <2>1, <2>3 DEF Taken
<1>9. QED
  BY <1>4, <1>5, <1>6, <1>7, <1>8

\* A step that changes neither the messages that wait nor what the invariant is about.
LEMMA Unmoved ==
  ASSUME QueueInv, Waiting' = Waiting,
         UNCHANGED <<lists, m_iCurrentPlayList, m_iCurrentSong, m_bPlaybackStarted, m_repeatState, doing,
                     now, nextFile, asked, m_nextPlaylistItem, dialogs, tried>>
  PROVE  QueueInv'
<1>1. L' = L /\ Marker' = Marker
  BY DEF L, Marker
<1>2. QueuedLists' /\ Reached'
  BY <1>1 DEF QueueInv, QueuedLists, Reached
<1>3. WhilePlaying'
  BY <1>1 DEF QueueInv, WhilePlaying, OnSong, OffList, NextIsQueued
<1>4. AfterEnd'
  BY <1>1 DEF QueueInv, AfterEnd, Ended, Handling, InDialog, GivenUp
<1>5. QED
  BY <1>2, <1>3, <1>4 DEF QueueInv

\* Messages taken to be dispatched wait as before.
LEMMA DispatchQueue == ASSUME Types, QueueInv, DispatchThreadMessages PROVE QueueInv'
<1>1. batch = << >> /\ batch' = msgs /\ msgs' = << >> /\ msgs \in Seq(Messages)
  BY DEF DispatchThreadMessages, Types
<1>2. Waiting' = Waiting
  BY <1>1, ConcatEmptySeq DEF Waiting
<1>3. QED
  BY <1>2, Unmoved DEF DispatchThreadMessages, listvars, playervars, history

\* GetNextSong() takes a song off the list that has had its turn, and what follows in
\* the list is the song after the one that plays.
LEMMA QueueNextTakes ==
  ASSUME Types, QueueInv, HandleQueueNext
  PROVE  LET c == m_iCurrentSong
             m == Remove(L, IF c = 0 THEN 0 ELSE c - 1)
         IN  /\ m_iCurrentPlayList = Music /\ doing = Idle /\ dialogs = << >> /\ c \in Indices(L)
             /\ \/ now # NoItem /\ L.items[c].path = now /\ asked /\ Waiting' = << >> /\ nextFile = NoItem
                \/ now = NoItem /\ Waiting' = <<"ended">>
             /\ IsList(m) /\ ~m.shuffled /\ Counted1(m, tried) /\ Played(m, c - 1, tried)
             /\ c = 0 => L.items[c].path \notin InList(m)
             /\ c # 0 => c - 1 \in Indices(m) /\ m.items[c - 1].path = L.items[c].path
             /\ InList(L) \ InList(m) \subseteq tried
             /\ lists' = [lists EXCEPT ![Music] = m] /\ m_iCurrentSong' = c - 1 /\ m_iCurrentPlayList' = Music
             /\ \/ /\ c \in Indices(m) /\ m_nextPlaylistItem' = c
                   /\ nextFile' = IF IsPlaying THEN m.items[c].path ELSE nextFile
                \/ UNCHANGED <<nextFile, m_nextPlaylistItem>>
<1> DEFINE c == m_iCurrentSong
           m == Remove(L, IF c = 0 THEN 0 ELSE c - 1)
<1>1. Handle("queueNext") /\ UNCHANGED <<m_repeatState, now, asked, doing, dialogs, tried>>
  BY DEF HandleQueueNext, history
<1>2. PICK r \in Seq(Messages) :
        /\ Waiting = <<"queueNext">> \o r /\ (msgs' = msgs => Waiting' = r)
        /\ Waiting # << >> /\ Head(Waiting) = "queueNext" /\ Taken("queueNext", r)
  BY <1>1, MessageTaken
<1>3. /\ m_iCurrentPlayList = Music /\ doing = Idle /\ dialogs = << >> /\ Marker \in Indices(L)
      /\ \/ now # NoItem /\ OnSong /\ asked /\ r = << >>
         \/ now = NoItem /\ r = <<"ended">>
  BY <1>1, <1>2, MessageTaken DEF Taken, OnSong
<1>4. /\ Current = L /\ IsList(L) /\ Music # NoList /\ ~RepeatedOne /\ ~Repeated /\ ~L.shuffled
      /\ L.size \in Nat
  BY <1>3, QueueFacts DEF QueueInv
<1>5. Marker = c /\ c \in Indices(L) /\ c \in Int /\ c >= 0 /\ L.size # 0
  <2>1. Marker = c
    BY <1>2 DEF Marker
  <2>2. QED
    BY <1>3, <1>4, <2>1 DEF Indices
<1>6. Played(L, c, tried) /\ Counted1(L, tried)
  BY <1>3, <1>5 DEF QueueInv, Reached, QueuedLists
<1> HIDE DEF c
<1>7. /\ IsList(m) /\ m.shuffled = L.shuffled /\ Counted1(m, tried) /\ Played(m, c - 1, tried)
      /\ c = 0 => L.items[c].path \notin InList(m)
      /\ c # 0 => c - 1 \in Indices(m) /\ m.items[c - 1].path = L.items[c].path
      /\ InList(L) \ InList(m) \subseteq tried
  BY <1>4, <1>5, <1>6, TakenOff
<1>8. LET t == TakeNextSong(Current, c) IN t.ret = c /\ t.song = c - 1 /\ ~t.stuck /\ t.l = m
  BY <1>4, <1>5, TakesNext
<1> HIDE DEF m
<1>9. /\ lists' = [lists EXCEPT ![Music] = m] /\ m_iCurrentSong' = c - 1 /\ m_iCurrentPlayList' = Music
      /\ msgs' = msgs \o << >>
      /\ \/ /\ c \in Indices(m) /\ m_nextPlaylistItem' = c
            /\ nextFile' = IF IsPlaying THEN m.items[c].path ELSE nextFile
         \/ UNCHANGED <<nextFile, m_nextPlaylistItem>>
  BY <1>3, <1>4, <1>8 DEF HandleQueueNext, c
<1>10. Waiting' = r
  BY <1>2, <1>3, <1>9, ConcatEmptySeq DEF Types
<1>11. now # NoItem => nextFile = NoItem
  BY <1>2 DEF QueueInv, WhilePlaying, NextIsQueued
<1>12. now # NoItem => L.items[c].path = now
  BY <1>3, <1>5 DEF OnSong
<1>13. QED
  BY <1>3, <1>4, <1>5, <1>7, <1>9, <1>10, <1>11, <1>12 DEF c, m

\* What the player is offered is the song after its own.
LEMMA QueueNextQueue == ASSUME Types, QueueInv, HandleQueueNext PROVE QueueInv'
<1> DEFINE c == m_iCurrentSong
           m == Remove(L, IF c = 0 THEN 0 ELSE c - 1)
<1>1. UNCHANGED <<m_repeatState, now, asked, doing, dialogs, tried>>
  BY DEF HandleQueueNext, history
<1>2. /\ m_iCurrentPlayList = Music /\ doing = Idle /\ dialogs = << >> /\ c \in Indices(L)
      /\ \/ now # NoItem /\ L.items[c].path = now /\ asked /\ Waiting' = << >> /\ nextFile = NoItem
         \/ now = NoItem /\ Waiting' = <<"ended">>
  BY QueueNextTakes
<1>3. /\ IsList(m) /\ ~m.shuffled /\ Counted1(m, tried) /\ Played(m, c - 1, tried)
      /\ c = 0 => L.items[c].path \notin InList(m)
      /\ c # 0 => c - 1 \in Indices(m) /\ m.items[c - 1].path = L.items[c].path
  BY QueueNextTakes
<1>4. /\ lists' = [lists EXCEPT ![Music] = m] /\ m_iCurrentSong' = c - 1 /\ m_iCurrentPlayList' = Music
      /\ \/ /\ c \in Indices(m) /\ m_nextPlaylistItem' = c
            /\ nextFile' = IF IsPlaying THEN m.items[c].path ELSE nextFile
         \/ UNCHANGED <<nextFile, m_nextPlaylistItem>>
  BY QueueNextTakes
<1>5. c \in Int /\ c >= 0 /\ Music # NoList
  BY <1>2, PlayerAssumption DEF Indices
<1> HIDE DEF m, c
<1>6. QueuedLists' /\ L' = m
  BY <1>1, <1>3, <1>4, OneList DEF QueueInv
<1>7. Marker' = c - 1
  <2>1. Waiting' = << >> \/ Head(Waiting') # "started"
    BY <1>2, Heads
  <2>2. QED
    BY <1>4, <2>1 DEF Marker
<1>8. Reached'
  BY <1>1, <1>3, <1>5, <1>6, <1>7 DEF Reached
<1>9. CASE now # NoItem
  <2>1. OnSong' \/ OffList'
    <3>1. CASE c = 0
      BY <1>1, <1>2, <1>3, <1>6, <1>7, <1>9, <3>1 DEF OffList
    <3>2. CASE c # 0
      BY <1>1, <1>2, <1>3, <1>6, <1>7, <1>9, <3>2 DEF OnSong
    <3>3. QED
      BY <3>1, <3>2
  <2>2. nextFile' # NoItem => NextIsQueued'
    <3>1. ASSUME nextFile' # NoItem
          PROVE  /\ c \in Indices(m) /\ m_nextPlaylistItem' = c /\ nextFile' = m.items[c].path
      BY <1>2, <1>4, <1>9, <3>1 DEF IsPlaying
    <3>2. c = (c - 1) + 1
      BY <1>5
    <3>3. QED
      BY <1>1, <1>2, <1>4, <1>6, <1>9, <3>1, <3>2 DEF NextIsQueued
  <2>3. WhilePlaying'
    BY <1>1, <1>2, <1>4, <1>9, <2>1, <2>2 DEF WhilePlaying
  <2>4. AfterEnd'
    BY <1>1, <1>9 DEF AfterEnd
  <2>5. QED
    BY <1>6, <1>8, <2>3, <2>4 DEF QueueInv
<1>10. CASE now = NoItem
  <2>1. nextFile' = NoItem
    BY <1>4, <1>10 DEF QueueInv, AfterEnd, IsPlaying
  <2>2. Ended'
    BY <1>2, <1>10 DEF Ended
  <2>3. WhilePlaying' /\ AfterEnd'
    BY <1>1, <1>2, <1>4, <1>5, <1>10, <2>1, <2>2 DEF WhilePlaying, AfterEnd
  <2>4. QED
    BY <1>6, <1>8, <2>3 DEF QueueInv
<1>11. QED
  BY <1>9, <1>10

\* The marker is moved to where it was bound for.
LEMMA StartedQueue == ASSUME Types, QueueInv, HandleStarted PROVE QueueInv'
<1>1. /\ Handle("started")
      /\ UNCHANGED <<lists, m_iCurrentPlayList, m_repeatState, now, nextFile, asked,
                     m_nextPlaylistItem, doing, msgs, dialogs, tried>>
  BY DEF HandleStarted, playervars, history
<1>2. PICK r \in Seq(Messages) :
        /\ Waiting = <<"started">> \o r /\ (msgs' = msgs => Waiting' = r)
        /\ Waiting # << >> /\ Head(Waiting) = "started" /\ Taken("started", r)
  BY <1>1, MessageTaken
<1>3. /\ m_iCurrentPlayList = Music /\ doing = Idle /\ dialogs = << >> /\ Marker \in Indices(L)
      /\ Waiting' = r
      /\ \/ now # NoItem /\ OnSong /\ r = IF asked THEN <<"queueNext">> ELSE << >>
         \/ now = NoItem /\ r \in {<<"ended">>, <<"queueNext", "ended">>}
  BY <1>1, <1>2, MessageTaken DEF Taken, OnSong
<1>4. Current = L /\ L.size \in Nat /\ Music # NoList
  BY <1>3, QueueFacts DEF QueueInv
<1>5. m_iCurrentSong' = Marker
  BY <1>2, <1>3, <1>4 DEF HandleStarted, Marker, Indices
<1>6. Marker' = Marker
  <2>1. r = << >> \/ Head(r) # "started"
    BY <1>3, Heads
  <2>2. QED
    BY <1>3, <1>5, <2>1 DEF Marker
<1>7. QueuedLists' /\ L' = L
  BY <1>1, <1>3, SameLists DEF QueueInv
<1>8. Reached'
  BY <1>1, <1>6, <1>7 DEF QueueInv, Reached
<1>9. CASE now # NoItem
  <2>1. OnSong' /\ nextFile' = NoItem
    BY <1>1, <1>2, <1>3, <1>6, <1>7, <1>9 DEF OnSong, QueueInv, WhilePlaying, NextIsQueued
  <2>2. Waiting' = IF asked' THEN <<"queueNext">> ELSE << >>
    BY <1>1, <1>3, <1>9
  <2>3. WhilePlaying' /\ AfterEnd'
    BY <1>1, <1>3, <1>9, <2>1, <2>2 DEF WhilePlaying, AfterEnd
  <2>4. QED
    BY <1>7, <1>8, <2>3 DEF QueueInv
<1>10. CASE now = NoItem
  <2>1. nextFile' = NoItem
    BY <1>1, <1>10 DEF QueueInv, AfterEnd
  <2>2. Ended'
    BY <1>3, <1>6, <1>7, <1>10 DEF Ended
  <2>3. WhilePlaying' /\ AfterEnd'
    BY <1>1, <1>3, <1>4, <1>10, <2>1, <2>2 DEF WhilePlaying, AfterEnd
  <2>4. QED
    BY <1>7, <1>8, <2>3 DEF QueueInv
<1>11. QED
  BY <1>9, <1>10

\* The end of a song starts the next one, from the marker on.
LEMMA EndedQueue == ASSUME Types, QueueInv, HandleEnded PROVE QueueInv'
<1>1. /\ Handle("ended") /\ doing' = Next1
      /\ UNCHANGED <<lists, m_iCurrentPlayList, m_iCurrentSong, m_repeatState, now, nextFile, asked,
                     m_nextPlaylistItem, msgs, dialogs, tried>>
  BY DEF HandleEnded, listvars, playervars, history
<1>2. PICK r \in Seq(Messages) :
        /\ Waiting = <<"ended">> \o r /\ (msgs' = msgs => Waiting' = r)
        /\ Waiting # << >> /\ Head(Waiting) = "ended" /\ Taken("ended", r)
  BY <1>1, MessageTaken
<1>3. m_iCurrentPlayList = Music /\ now = NoItem /\ dialogs = << >> /\ Waiting' = << >>
  BY <1>1, <1>2 DEF Taken
<1>4. Marker' = Marker
  BY <1>1, <1>2, <1>3 DEF Marker
<1>5. QueuedLists' /\ L' = L
  BY <1>1, <1>3, SameLists DEF QueueInv
<1>6. Reached'
  BY <1>1, <1>4, <1>5 DEF QueueInv, Reached
<1>7. doing'.op = "next" /\ ~doing'.back /\ doing' # Idle
  BY <1>1, HandlingsAre DEF Types
<1>8. Handling' /\ nextFile' = NoItem
  BY <1>1, <1>3, <1>7 DEF Handling, QueueInv, AfterEnd
<1>9. WhilePlaying' /\ AfterEnd'
  BY <1>1, <1>3, <1>7, <1>8, PlayerAssumption DEF WhilePlaying, AfterEnd
<1>10. QED
  BY <1>5, <1>6, <1>9 DEF QueueInv

\* Stops are announced only of a list that has been given up, or while the dialog is open.
LEMMA StoppedQueue == ASSUME Types, QueueInv, HandleStopped \/ HandleListStopped PROVE QueueInv'
<1>1. PICK m \in {"stopped", "listStopped"} : Handle(m)
  BY DEF HandleStopped, HandleListStopped
<1>2. PICK r \in Seq(Messages) :
        /\ Waiting = <<m>> \o r /\ (msgs' = msgs => Waiting' = r)
        /\ Waiting # << >> /\ Head(Waiting) = m /\ Taken(m, r)
  BY <1>1, MessageTaken
<1>3. /\ now = NoItem /\ doing = Idle
      /\ \/ m_iCurrentPlayList = NoList /\ GivenUp /\ r \in Seq({"stopped", "listStopped"})
         \/ InDialog /\ r = << >> /\ ~m_bPlaybackStarted /\ m_iCurrentPlayList = Music
  BY <1>1, <1>2, MessageTaken DEF Taken, InDialog
<1>4. Announced = << >> /\ msgs \o << >> = msgs
  BY <1>3, ConcatEmptySeq DEF Announced, IsPlaying, Types
<1>5. /\ msgs' = msgs /\ now' = NoItem /\ nextFile' = NoItem
      /\ UNCHANGED <<lists, m_iCurrentPlayList, m_repeatState, doing, dialogs, tried>>
  BY <1>3, <1>4 DEF HandleStopped, HandleListStopped, StopPlayer, listvars, history
<1>6. QueuedLists' /\ L' = L
  BY <1>3, <1>5, SameLists DEF QueueInv
<1>7. CASE m_iCurrentPlayList = NoList /\ GivenUp /\ r \in Seq({"stopped", "listStopped"})
  <2>1. GivenUp'
    BY <1>2, <1>5, <1>6, <1>7 DEF GivenUp
  <2>2. dialogs' = << >>
    BY <2>1 DEF GivenUp
  <2>3. Reached' /\ WhilePlaying' /\ AfterEnd'
    BY <1>3, <1>5, <1>7, <2>1, <2>2, PlayerAssumption DEF Reached, WhilePlaying, AfterEnd
  <2>4. QED
    BY <1>6, <2>3 DEF QueueInv
<1>8. CASE InDialog /\ r = << >> /\ ~m_bPlaybackStarted /\ m_iCurrentPlayList = Music
  <2>1. /\ m_iCurrentSong' = m_iCurrentSong /\ m_bPlaybackStarted' = m_bPlaybackStarted
        /\ m_nextPlaylistItem' = m_nextPlaylistItem
    BY <1>1, <1>8 DEF HandleStopped, HandleListStopped, listvars
  <2>2. Waiting' = << >> /\ Waiting \in {<< >>, <<"stopped">>}
    BY <1>2, <1>5, <1>8 DEF InDialog
  <2>3. Marker' = Marker
    <3>1. Waiting = << >> \/ Head(Waiting) # "started"
      BY <2>2, Heads
    <3>2. QED
      BY <2>1, <2>2, <3>1 DEF Marker
  <2>4. InDialog'
    BY <1>5, <1>8, <2>1, <2>2 DEF InDialog
  <2>5. dialogs' # << >>
    BY <2>4, Heads DEF InDialog
  <2>6. Reached'
    BY <1>5, <1>6, <2>3 DEF QueueInv, Reached
  <2>7. WhilePlaying' /\ AfterEnd'
    BY <1>3, <1>5, <1>8, <2>4, <2>5, PlayerAssumption DEF WhilePlaying, AfterEnd
  <2>8. QED
    BY <1>6, <2>6, <2>7 DEF QueueInv
<1>9. QED
  BY <1>3, <1>7, <1>8

\* The player asks for a song once, ends, or goes over to the song it was given; the main
\* thread learns of it in that order.
LEMMA AskQueue == ASSUME Types, QueueInv, AskForNext PROVE QueueInv'
<1>1. /\ now # NoItem /\ ~asked /\ asked' = TRUE /\ msgs' = Append(msgs, "queueNext")
      /\ UNCHANGED <<lists, m_iCurrentPlayList, m_iCurrentSong, m_repeatState, now, nextFile,
                     m_nextPlaylistItem, doing, batch, dialogs, tried>>
  BY DEF AskForNext, IsPlaying, listvars, history
<1>2. /\ doing = Idle /\ m_iCurrentPlayList = Music /\ dialogs = << >> /\ Waiting \in {<< >>, <<"started">>}
      /\ OnSong /\ nextFile = NoItem
  BY <1>1 DEF QueueInv, WhilePlaying, OffList, NextIsQueued
<1>3. Waiting' = Waiting \o <<"queueNext">>
  BY <1>1, WaitingOne DEF Messages
<1>4. /\ Waiting' \in {<<"queueNext">>, <<"started", "queueNext">>}
      /\ Marker' = Marker
  <2>1. "queueNext" \in Messages /\ "started" \in Messages
    BY DEF Messages
  <2>2. CASE Waiting = << >>
    <3>1. Waiting' = <<"queueNext">>
      BY <1>3, <2>1, <2>2, Backs
    <3>2. QED
      BY <1>1, <2>2, <3>1, Heads DEF Marker
  <2>3. CASE Waiting = <<"started">>
    <3>1. Waiting' = <<"started", "queueNext">>
      BY <1>3, <2>1, <2>3, Backs
    <3>2. QED
      BY <1>1, <2>3, <3>1, Heads DEF Marker
  <2>4. QED
    BY <1>2, <2>2, <2>3
<1>5. QueuedLists' /\ L' = L
  BY <1>1, <1>2, SameLists DEF QueueInv
<1>6. Reached' /\ OnSong'
  BY <1>1, <1>2, <1>4, <1>5 DEF QueueInv, Reached, OnSong
<1>7. WhilePlaying' /\ AfterEnd'
  BY <1>1, <1>2, <1>4, <1>6 DEF WhilePlaying, AfterEnd
<1>8. QED
  BY <1>5, <1>6, <1>7 DEF QueueInv

\* The song the player goes over to is the one after the marker, which follows it.
LEMMA GoOverQueue == ASSUME Types, QueueInv, GoOver PROVE QueueInv'
<1>1. /\ now # NoItem /\ nextFile # NoItem /\ now' = nextFile /\ nextFile' = NoItem /\ ~asked'
      /\ tried' = tried \cup {nextFile} /\ msgs' = Append(msgs, "started")
      /\ UNCHANGED <<lists, m_iCurrentPlayList, m_iCurrentSong, m_repeatState,
                     m_nextPlaylistItem, doing, batch, dialogs>>
  BY DEF GoOver, IsPlaying, listvars
<1>2. /\ doing = Idle /\ m_iCurrentPlayList = Music /\ dialogs = << >> /\ Waiting = << >>
      /\ m_nextPlaylistItem = m_iCurrentSong + 1 /\ m_nextPlaylistItem \in Indices(L)
      /\ L.items[m_nextPlaylistItem].path = nextFile
  BY <1>1 DEF QueueInv, WhilePlaying, NextIsQueued
<1>3. Waiting' = <<"started">>
  <2>1. "started" \in Messages
    BY DEF Messages
  <2>2. Waiting' = Waiting \o <<"started">>
    BY <1>1, <2>1, WaitingOne
  <2>3. QED
    BY <1>2, <2>1, <2>2, Backs
<1>4. m_nextPlaylistItem \in Int /\ m_nextPlaylistItem >= 0 /\ m_iCurrentSong \in Int
  BY <1>2 DEF Types, Indices
<1>5. Marker = m_iCurrentSong /\ Marker' = m_nextPlaylistItem
  BY <1>1, <1>2, <1>3, <1>4, Heads DEF Marker
<1>6. QueuedLists' /\ L' = L
  BY <1>1, <1>2, SameLists DEF QueueInv
<1>7. Played(L, m_nextPlaylistItem, tried')
  <2>1. Played(L, m_iCurrentSong, tried)
    BY <1>2, <1>5 DEF QueueInv, Reached
  <2>2. \A i \in Indices(L) : i <= m_nextPlaylistItem => i <= m_iCurrentSong \/ i = m_nextPlaylistItem
    BY <1>2, <1>4 DEF Indices
  <2>3. QED
    BY <1>1, <1>2, <2>1, <2>2 DEF Played
<1>8. Reached'
  BY <1>1, <1>4, <1>5, <1>6, <1>7 DEF Reached
<1>9. WhilePlaying' /\ AfterEnd'
  BY <1>1, <1>2, <1>3, <1>5, <1>6 DEF WhilePlaying, AfterEnd, OnSong
<1>10. QED
  BY <1>6, <1>8, <1>9 DEF QueueInv

\* The end of a song is told after everything else about it.
LEMMA FinishQueue == ASSUME Types, QueueInv, Finish PROVE QueueInv'
<1>1. /\ now # NoItem /\ now' = NoItem /\ nextFile' = NoItem /\ msgs' = Append(msgs, "ended")
      /\ UNCHANGED <<lists, m_iCurrentPlayList, m_iCurrentSong, m_repeatState,
                     m_nextPlaylistItem, doing, batch, dialogs, tried>>
  BY DEF Finish, IsPlaying, listvars, history
<1>2. /\ doing = Idle /\ m_iCurrentPlayList = Music /\ dialogs = << >>
      /\ Waiting \in {<< >>, <<"queueNext">>, <<"started">>, <<"started", "queueNext">>}
      /\ Waiting # << >> => Marker \in Indices(L)
  BY <1>1 DEF QueueInv, WhilePlaying, OffList, OnSong
<1>3. Waiting' = Waiting \o <<"ended">>
  BY <1>1, WaitingOne DEF Messages
<1>4. /\ Waiting' \in {<<"ended">>, <<"started", "ended">>, <<"queueNext", "ended">>,
                       <<"started", "queueNext", "ended">>}
      /\ Waiting' # <<"ended">> => Waiting # << >>
      /\ Marker' = Marker
  <2>1. "queueNext" \in Messages /\ "started" \in Messages /\ "ended" \in Messages
    BY DEF Messages
  <2>2. CASE Waiting = << >>
    <3>1. Waiting' = <<"ended">>
      BY <1>3, <2>1, <2>2, Backs
    <3>2. QED
      BY <1>1, <2>2, <3>1, Heads DEF Marker
  <2>3. CASE Waiting = <<"started">>
    <3>1. Waiting' = <<"started", "ended">>
      BY <1>3, <2>1, <2>3, Backs
    <3>2. QED
      BY <1>1, <2>3, <3>1, Heads DEF Marker
  <2>4. CASE Waiting = <<"queueNext">>
    <3>1. Waiting' = <<"queueNext", "ended">>
      BY <1>3, <2>1, <2>4, Backs
    <3>2. QED
      BY <1>1, <2>4, <3>1, Heads DEF Marker
  <2>5. CASE Waiting = <<"started", "queueNext">>
    <3>1. Waiting' = <<"started", "queueNext", "ended">>
      BY <1>3, <2>1, <2>5, Backs
    <3>2. QED
      BY <1>1, <2>5, <3>1, Heads DEF Marker
  <2>6. QED
    BY <1>2, <2>2, <2>3, <2>4, <2>5
<1>5. QueuedLists' /\ L' = L
  BY <1>1, <1>2, SameLists DEF QueueInv
<1>6. Reached' /\ Ended'
  BY <1>1, <1>2, <1>4, <1>5 DEF QueueInv, Reached, Ended
<1>7. WhilePlaying' /\ AfterEnd'
  BY <1>1, <1>2, <1>6, PlayerAssumption DEF WhilePlaying, AfterEnd
<1>8. QED
  BY <1>5, <1>6, <1>7 DEF QueueInv

\* A queued song comes behind all others; if nothing plays, all others have had their turn
\* and it is the one to be played.
LEMMA QueueSongQueue ==
  ASSUME Types, QueueInv, OnlyQueues, NEW p, QueueSong(p), ~raced' PROVE QueueInv'
<1> DEFINE m == AddAll(L, <<p>>)
           n == L.size
<1>1. /\ p \in NewSongs /\ p \in Paths /\ p # now /\ p # nextFile
      /\ tried' = tried \ {p} /\ doing = Idle /\ batch = << >> /\ dialogs = << >>
      /\ UNCHANGED <<m_repeatState, now, nextFile, asked, m_nextPlaylistItem, msgs, batch, dialogs>>
  BY DEF QueueSong, NewSongs, AtHand, MainIdle, playervars
<1>2. IsList(L) /\ ~L.shuffled /\ n \in Nat /\ Music \in Kinds /\ Music # NoList
  BY QueueFacts DEF QueueInv
<1>3. Fresh(L, <<p>>, 1) /\ p \notin InList(L)
  BY <1>1, <1>2, NewSongIsFresh DEF L, NewSongs
<1>4. /\ IsList(m) /\ m.size = n + 1 /\ m.shuffled = L.shuffled
      /\ \A i \in 0 .. n - 1 : m.items[i] = L.items[i]
      /\ \A i \in n .. n + 1 - 1 : m.items[i].path = <<p>>[i - n + 1]
  BY <1>2, <1>3, Added1
<1>5. Counted1(m, tried \ {p})
  BY <1>2, <1>3, CountedAdded DEF QueueInv, QueuedLists
<1>6. lists' = [lists EXCEPT ![Music] = m]
  <2>1. PICK l \in ReShuffles(Music, m, n) : lists' = [lists EXCEPT ![Music] = l]
    BY DEF QueueSong, L
  <2>2. l = m
    BY <1>2, <1>4, ReShufflesReorder
  <2>3. QED
    BY <2>1, <2>2
<1> HIDE DEF m, n
<1>7. /\ Indices(m) = 0 .. n /\ Indices(L) = 0 .. n - 1 /\ n \in Int
      /\ \A i \in Indices(L) : i \in Indices(m) /\ m.items[i] = L.items[i] /\ L.items[i].path # p
      /\ n \in Indices(m) /\ m.items[n].path = p
  <2>1. Indices(m) = 0 .. n /\ Indices(L) = 0 .. n - 1
    BY <1>2, <1>4 DEF Indices, n
  <2>2. \A i \in Indices(L) : L.items[i].path # p
    BY <1>3 DEF InList
  <2>3. m.items[n].path = p
    <3>1. n \in n .. n + 1 - 1 /\ n - n + 1 = 1
      BY <1>2
    <3>2. <<p>>[1] = p
      OBVIOUS
    <3>3. QED
      BY <1>4, <3>1, <3>2
  <2>4. QED
    BY <1>2, <1>4, <2>1, <2>2, <2>3
<1>8. CASE now # NoItem
  <2>1. UNCHANGED <<m_iCurrentPlayList, m_iCurrentSong, doing>>
    BY <1>8 DEF QueueSong, IsPlaying
  <2>2. m_iCurrentPlayList = Music
    BY <1>8 DEF QueueInv, WhilePlaying
  <2>3. QueuedLists' /\ L' = m
    BY <1>1, <1>2, <1>4, <1>5, <1>6, <2>1, <2>2, OneList DEF QueueInv
  <2>4. Waiting' = Waiting /\ Marker' = Marker
    BY <1>1, <2>1 DEF Waiting, Marker
  <2>5. (Marker \in Indices(L) \/ Marker = -1) /\ Marker >= -1 /\ Played(L, Marker, tried)
    BY <1>8, <2>2 DEF QueueInv, WhilePlaying, OnSong, OffList, Reached
  <2>6. Reached'
    <3>1. \A i \in Indices(m) : i <= Marker => i \in Indices(L)
      BY <1>7, <2>5
    <3>2. Played(m, Marker, tried \ {p})
      BY <1>7, <2>5, <3>1 DEF Played
    <3>3. QED
      BY <1>1, <2>3, <2>4, <2>5, <3>2 DEF Reached
  <2>7. OnSong => OnSong'
    BY <1>1, <1>7, <2>3, <2>4 DEF OnSong
  <2>8. OffList => OffList'
    <3>1. InList(m) \subseteq InList(L) \cup {p}
      <4>1. \A i \in Indices(m) : i \in Indices(L) \/ i = n
        BY <1>7
      <4>2. QED
        BY <1>7, <4>1 DEF InList
    <3>2. QED
      BY <1>1, <2>3, <2>4, <3>1 DEF OffList
  <2>9. NextIsQueued => NextIsQueued'
    BY <1>1, <1>7, <2>1, <2>3, <2>4 DEF NextIsQueued
  <2>10. WhilePlaying'
    BY <1>1, <1>8, <2>1, <2>4, <2>7, <2>8, <2>9 DEF QueueInv, WhilePlaying
  <2>11. QED
    BY <1>1, <1>8, <2>3, <2>6, <2>10 DEF QueueInv, AfterEnd
<1>9. CASE now = NoItem
  <2>1. m_iCurrentPlayList' = Music /\ m_iCurrentSong' = -1 /\ doing' = PlaySong(n, FALSE)
    BY <1>9 DEF QueueSong, IsPlaying, Reset, L, n
  <2>2. msgs = << >> /\ Waiting = << >> /\ Waiting' = << >>
    <3>1. ~Races
      BY DEF QueueSong
    <3>2. msgs = << >>
      BY <1>9, <3>1 DEF Races, IsPlaying, OnlyQueues
    <3>3. << >> \o << >> = << >>
      OBVIOUS
    <3>4. QED
      BY <1>1, <3>2, <3>3 DEF Waiting
  <2>3. m_iCurrentPlayList = NoList
    BY <1>1, <1>9, <2>2 DEF QueueInv, AfterEnd, Ended, QueuedLists
  <2>4. \A i \in Indices(L) : L.items[i].path \in tried
    BY <1>9, <2>3 DEF QueueInv, AfterEnd, GivenUp
  <2>5. QueuedLists' /\ L' = m
    BY <1>1, <1>2, <1>4, <1>5, <1>6, <2>1, OneList DEF QueueInv
  <2>6. Marker' = -1
    BY <2>1, <2>2 DEF Marker
  <2>7. Reached'
    <3>1. Played(m, -1, tried \ {p})
      BY <1>7 DEF Played
    <3>2. QED
      BY <1>1, <2>5, <2>6, <3>1 DEF Reached
  <2>8. doing'.op = "play" /\ doing'.song = n /\ ~doing'.back /\ doing' # Idle
    <3>1. doing \in Handlings /\ FALSE \in BOOLEAN
      BY DEF Types
    <3>2. PlaySong(n, FALSE).op = "play" /\ PlaySong(n, FALSE).song = n /\ PlaySong(n, FALSE).back = FALSE
      BY <1>7, <3>1, HandlingsAre
    <3>3. Idle.op = "idle"
      BY <3>1, HandlingsAre
    <3>4. QED
      BY <2>1, <3>2, <3>3
  <2>9. Handling'
    <3>1. Played(m, n - 1, tried \ {p})
      <4>1. \A i \in Indices(m) : i <= n - 1 => i \in Indices(L)
        BY <1>7
      <4>2. QED
        BY <1>7, <2>4, <4>1 DEF Played
    <3>2. QED
      BY <1>1, <1>7, <2>1, <2>2, <2>5, <2>8, <3>1 DEF Handling
  <2>10. WhilePlaying' /\ AfterEnd'
    BY <1>1, <1>2, <1>9, <2>1, <2>8, <2>9 DEF QueueInv, WhilePlaying, AfterEnd
  <2>11. QED
    BY <2>5, <2>7, <2>10 DEF QueueInv
<1>10. QED
  BY <1>8, <1>9

\* The users' part of a step, when all they do is to queue songs.
LEMMA OnlySongsAreQueued == ASSUME OnlyQueues, User PROVE \E p \in Paths : QueueSong(p)
BY DEF OnlyQueues, User, InsertSongs, RemoveSong, RemoveLastSong, JumpTo, SwapSongs, ClearSongs,
       SetShuffle, SetRepeat, PlayNumber, Skip, Stop

\* Once there was a race, there was one.
LEMMA RacedStays == Next => (raced => raced')
<1> SUFFICES ASSUME Next, raced PROVE raced'
  OBVIOUS
<1>1. CASE Playing \/ Handlers \/ Player
  BY <1>1 DEF Playing, PlayNext, PlayPrevious, PlayNothing, PlayOpens, PlayFails, CloseDialog, Handlers, Player,
              DispatchThreadMessages, HandleQueueNext, HandleStarted, HandleEnded, HandleStopped,
              HandleListStopped, AskForNext, GoOver, Finish, history
<1>2. CASE User
  BY <1>2 DEF User, QueueSong, InsertSongs, RemoveSong, RemoveLastSong, RemoveAt, JumpTo, SwapSongs,
              ClearSongs, SetShuffle, SetRepeat, PlayNumber, Skip, Stop, OnlyLists, history
<1>3. QED
  BY <1>1, <1>2 DEF Next

\* Every step keeps it, unless the step is a race.
LEMMA StepQueue ==
  ASSUME OnlyQueues, Types, raced \/ QueueInv, [Next]_vars
  PROVE  (raced \/ QueueInv)'
<1> SUFFICES ASSUME ~raced' PROVE QueueInv'
  OBVIOUS
<1>1. CASE UNCHANGED vars
  <2>1. QueueInv
    BY <1>1 DEF vars, history
  <2>2. QED
    BY <1>1, <2>1, Unmoved DEF vars, listvars, playervars, history, Waiting
<1>2. CASE Next
  <2>1. QueueInv
    BY <1>2, RacedStays
  <2>2. CASE Playing
    BY <2>1, <2>2, PlayNextQueue, NoPrevious, PlayOpensQueue, PlayFailsQueue, CloseDialogQueue DEF Playing
  <2>3. CASE Handlers
    BY <2>1, <2>3, DispatchQueue, QueueNextQueue, StartedQueue, EndedQueue, StoppedQueue DEF Handlers
  <2>4. CASE Player
    BY <2>1, <2>4, AskQueue, GoOverQueue, FinishQueue DEF Player
  <2>5. CASE User
    <3>1. PICK p \in Paths : QueueSong(p)
      BY <2>5, OnlySongsAreQueued
    <3>2. QED
      BY <2>1, <3>1, QueueSongQueue
  <2>6. QED
    BY <1>2, <2>2, <2>3, <2>4, <2>5 DEF Next
<1>3. QED
  BY <1>1, <1>2

\* The invariant of a player whose users only queue songs, up to a race.
THEOREM QueueHolds == ASSUME OnlyQueues PROVE Spec => [](raced \/ QueueInv)
<1>1. Init => raced \/ QueueInv
  BY InitQueue
<1>2. Types /\ (raced \/ QueueInv) /\ [Next]_vars => (raced \/ QueueInv)'
  BY StepQueue
<1>3. QED
  BY <1>1, <1>2, TypesHold, PTL DEF Spec

-----------------------------------------------------------------------------
(* The marker and the index of the next song                                *)

\* With no message waiting the marker is on the song that plays.
LEMMA MarkerStands == ASSUME Types, QueueInv PROVE MarkerOnPlayingSong
<1> SUFFICES ASSUME doing = Idle, Waiting = << >>, now \in InList(Current)
             PROVE  m_iCurrentSong \in Indices(Current) /\ Current.items[m_iCurrentSong].path = now
  BY DEF MarkerOnPlayingSong, Waiting
<1>1. now # NoItem
  <2>1. PICK i \in Indices(Current) : now = Current.items[i].path
    BY DEF InList
  <2>2. QED
    BY <2>1, CurrentIsList, ItemOfList, PlayerAssumption
<1>2. m_iCurrentPlayList = Music /\ (OnSong \/ OffList)
  BY <1>1 DEF QueueInv, WhilePlaying
<1>3. Current = L
  BY <1>2, QueueFacts DEF QueueInv
<1>4. OnSong /\ Marker = m_iCurrentSong
  BY <1>2, <1>3 DEF OffList, Marker
<1>5. QED
  BY <1>3, <1>4 DEF OnSong

\* The index of the next song stands for the file the player was given.
LEMMA NextItemStands == ASSUME Types, QueueInv PROVE NextItemIsTheQueuedFile
<1> SUFFICES ASSUME nextFile # NoItem
             PROVE  /\ m_nextPlaylistItem \in Indices(Current)
                    /\ Current.items[m_nextPlaylistItem].path = nextFile
  BY DEF NextItemIsTheQueuedFile
<1>1. now # NoItem
  BY DEF QueueInv, AfterEnd
<1>2. m_iCurrentPlayList = Music /\ NextIsQueued
  BY <1>1 DEF QueueInv, WhilePlaying
<1>3. Current = L
  BY <1>2, QueueFacts DEF QueueInv
<1>4. QED
  BY <1>2, <1>3 DEF NextIsQueued

\* An index about to be retrieved from the list is in range.
LEMMA RetrievedStands == ASSUME Types, QueueInv PROVE RetrievedInRange
<1> SUFFICES ASSUME doing = Idle, batch # << >>, Head(batch) = "started", m_nextPlaylistItem >= 0
             PROVE  m_nextPlaylistItem \in Indices(Current)
  BY DEF RetrievedInRange
<1>1. /\ batch \in Seq(Messages) /\ msgs \in Seq(Messages) /\ "started" \in Messages
      /\ Tail(batch) \in Seq(Messages) /\ batch = <<"started">> \o Tail(batch)
  <2>1. batch \in Seq(Messages) /\ msgs \in Seq(Messages) /\ "started" \in Messages
    BY DEF Types, Messages
  <2>2. QED
    BY <2>1, HeadTailProperties, ConcatProperties
<1>2. PICK r \in Seq(Messages) : Waiting = <<"started">> \o r
  <2>1. <<"started">> \in Seq(Messages) /\ Tail(batch) \o msgs \in Seq(Messages)
    BY <1>1, ConcatProperties
  <2>2. (<<"started">> \o Tail(batch)) \o msgs = <<"started">> \o (Tail(batch) \o msgs)
    BY <1>1, <2>1, ConcatAssociative
  <2>3. QED
    BY <1>1, <2>1, <2>2 DEF Waiting
<1>3. Waiting # << >> /\ Head(Waiting) = "started" /\ Waiting # <<"ended">>
  <2> DEFINE s == <<"started">> \o r
  <2>1. s # << >> /\ Head(s) = "started"
    BY <1>1, Fronts, Zenon
  <2>2. Waiting = s
    BY <1>2
  <2> HIDE DEF s
  <2>3. QED
    BY <2>1, <2>2, Heads
<1>4. Marker = m_nextPlaylistItem
  BY <1>3 DEF Marker
<1>5. m_iCurrentPlayList = Music /\ Marker \in Indices(L)
  <2>1. m_iCurrentPlayList # NoList
    <3>1. SUFFICES ASSUME m_iCurrentPlayList = NoList PROVE FALSE
      OBVIOUS
    <3>2. GivenUp
      BY <3>1, PlayerAssumption DEF QueueInv, WhilePlaying, AfterEnd
    <3>3. "started" \in {"stopped", "listStopped"}
      BY <1>1, <1>2, <3>2, StopsTaken DEF GivenUp
    <3>4. QED
      BY <3>3
  <2>2. m_iCurrentPlayList = Music
    BY <2>1 DEF QueueInv, QueuedLists
  <2>3. CASE now # NoItem
    BY <1>3, <2>2, <2>3 DEF QueueInv, WhilePlaying, OnSong, OffList
  <2>4. CASE now = NoItem
    <3>1. ~InDialog
      BY <1>3, Heads DEF InDialog
    <3>2. QED
      BY <1>3, <2>2, <2>4, <3>1 DEF QueueInv, AfterEnd, Ended
  <2>5. QED
    BY <2>2, <2>3, <2>4
<1>6. Current = L
  BY <1>5, QueueFacts DEF QueueInv
<1>7. QED
  BY <1>4, <1>5, <1>6

\* The marker and the index of the next song stand for the songs the player has, however
\* the main thread, which shortens the list, and the player, which goes on, take turns.
THEOREM IndicesStandTheorem == ASSUME OnlyQueues PROVE Spec => []IndicesStandForTheirSongs
<1>1. Types /\ (raced \/ QueueInv) => IndicesStandForTheirSongs
  BY MarkerStands, NextItemStands, RetrievedStands DEF IndicesStandForTheirSongs
<1>2. QED
  BY <1>1, QueueHolds, TypesHold, PTL

-----------------------------------------------------------------------------
(* No song is lost                                                          *)

Kept == \A k \in Kinds : \A p \in InList(lists[k]) \ InList(lists'[k]) : p \in tried' \/ GivesUp

\* When one list changes, only its songs can go.
LEMMA OthersKept ==
  ASSUME Types, NEW m, lists' = [lists EXCEPT ![Music] = m], InList(L) \ InList(m) \subseteq tried'
  PROVE  Kept
<1>1. lists'[Music] = m /\ \A k \in Kinds : k # Music => lists'[k] = lists[k]
  BY PlayerAssumption DEF Types
<1>2. QED
  BY <1>1 DEF Kept, L

\* The songs that a step takes off the music list have had their turn, or the error dialog
\* is closed.
LEMMA StepKept ==
  ASSUME OnlyQueues, Types, QueueInv, [Next]_vars, ~raced' PROVE Kept
<1>1. CASE UNCHANGED lists
  BY <1>1 DEF Kept
<1>2. CASE PlayOpens
  <2> DEFINE m == [L EXCEPT !.played = TRUE]
  <2>1. m_iCurrentPlayList = Music /\ IsList(L)
    BY <1>2, ToPlay DEF PlayOpens
  <2>2. lists' = [lists EXCEPT ![Music] = m]
    BY <1>2, <2>1 DEF PlayOpens, L
  <2>3. m.items = L.items /\ Indices(m) = Indices(L)
    BY <2>1, PlayedIsList
  <2> HIDE DEF m
  <2>4. InList(m) = InList(L)
    BY <2>3 DEF InList
  <2>5. QED
    BY <2>2, <2>4, OthersKept
<1>3. CASE \E atOpen \in BOOLEAN : PlayFails(atOpen)
  <2>1. PICK atOpen \in BOOLEAN : PlayFails(atOpen)
    BY <1>3
  <2>2. doing.op = "play" /\ tried' = tried \cup {ChosenPath}
    BY <2>1, PlayFailsLists
  <2>3. InList(L) \ InList(Marked(atOpen)) \subseteq tried'
    BY <2>2, MarkedList
  <2>4. lists' = [lists EXCEPT ![Music] = Marked(atOpen)]
    BY <2>1, PlayFailsLists
  <2>5. QED
    BY <2>3, <2>4, OthersKept
<1>4. CASE HandleQueueNext
  <2> DEFINE m == Remove(L, IF m_iCurrentSong = 0 THEN 0 ELSE m_iCurrentSong - 1)
  <2>1. InList(L) \ InList(m) \subseteq tried /\ lists' = [lists EXCEPT ![Music] = m]
    BY <1>4, QueueNextTakes
  <2>2. tried' = tried
    BY <1>4 DEF HandleQueueNext, history
  <2> HIDE DEF m
  <2>3. QED
    BY <2>1, <2>2, OthersKept
<1>5. CASE User
  <2> DEFINE n == L.size
  <2>1. PICK p \in Paths : QueueSong(p)
    BY <1>5, OnlySongsAreQueued
  <2> DEFINE m == AddAll(L, <<p>>)
  <2>2. IsList(L) /\ ~L.shuffled /\ Fresh(L, <<p>>, 1) /\ n \in Nat
    BY <2>1, QueueFacts, NewSongIsFresh DEF QueueInv, QueueSong, L
  <2>3. /\ IsList(m) /\ m.size = n + 1 /\ m.shuffled = L.shuffled
        /\ \A i \in 0 .. n - 1 : m.items[i] = L.items[i]
    BY <2>2, Added1
  <2>4. PICK l \in ReShuffles(Music, m, n) : lists' = [lists EXCEPT ![Music] = l]
    BY <2>1 DEF QueueSong, L
  <2>5. l = m
    BY <2>2, <2>3, <2>4, ReShufflesReorder
  <2> HIDE DEF m, n
  <2>6. InList(L) \subseteq InList(m)
    <3>1. Indices(L) = 0 .. n - 1 /\ Indices(m) = 0 .. n
      BY <2>2, <2>3 DEF Indices, n
    <3>2. \A i \in Indices(L) : i \in Indices(m) /\ m.items[i] = L.items[i]
      BY <2>2, <2>3, <3>1
    <3>3. QED
      BY <3>2 DEF InList
  <2>7. QED
    BY <2>4, <2>5, <2>6, OthersKept
<1>6. CASE PlayNext \/ PlayPrevious \/ PlayNothing
  <2>1. UNCHANGED lists
    BY <1>6 DEF PlayNext, PlayPrevious, PlayNothing, listvars
  <2>2. QED
    BY <1>1, <2>1
<1>7. CASE \/ DispatchThreadMessages \/ HandleStarted \/ HandleEnded \/ HandleStopped
           \/ HandleListStopped \/ Player
  <2>1. UNCHANGED lists
    BY <1>7 DEF DispatchThreadMessages, HandleStarted, HandleEnded, HandleStopped, HandleListStopped,
                Player, AskForNext, GoOver, Finish, listvars
  <2>2. QED
    BY <1>1, <2>1
<1>8. CASE UNCHANGED vars
  BY <1>1, <1>8 DEF vars, listvars
<1>9. CASE CloseDialog
  <2>1. dialogs \in Seq(Seq(Messages)) /\ dialogs # << >> /\ dialogs' = Tail(dialogs)
    BY <1>9 DEF CloseDialog, Types
  <2>2. Len(dialogs') < Len(dialogs)
    BY <2>1, HeadTailProperties
  <2>3. QED
    BY <2>2 DEF Kept, GivesUp
<1>10. QED
  BY <1>2, <1>3, <1>4, <1>5, <1>6, <1>7, <1>8, <1>9 DEF Next, Playing, Handlers

\* A queued song leaves the list only after it had its turn, unless the list is cleared
\* when the error dialog is closed.
THEOREM NoSongIsLostTheorem == ASSUME OnlyQueues PROVE Spec => NoSongIsLost
<1>1. Types /\ (raced \/ QueueInv) /\ [Next]_vars =>
        [\A k \in Kinds : \A p \in InList(lists[k]) \ InList(lists'[k]) :
           p \in tried' \/ GivesUp \/ raced']_vars
  <2> SUFFICES ASSUME Types, raced \/ QueueInv, [Next]_vars, ~raced', ~UNCHANGED vars
               PROVE  Kept
    BY DEF Kept
  <2>1. QueueInv
    BY RacedStays
  <2>2. QED
    BY <2>1, StepKept
<1>2. QED
  BY <1>1, QueueHolds, TypesHold, PTL DEF Spec, NoSongIsLost

-----------------------------------------------------------------------------
(* Songs have their turn in order                                           *)

InOrder ==
  \A i, j \in Indices(Current) :
    i < j /\ Current.items[j].path \in tried' \ tried => Current.items[i].path \in tried

\* The song that has its turn is in the music list, and those before it had theirs.
LEMMA OneInOrder ==
  ASSUME Types, QueueInv, m_iCurrentPlayList = Music, NEW c \in Indices(L),
         tried' = tried \cup {L.items[c].path}, Played(L, c - 1, tried)
  PROVE  InOrder
<1>1. Current = L /\ IsList(L)
  BY QueueFacts DEF QueueInv
<1>2. SUFFICES ASSUME NEW i \in Indices(L), NEW j \in Indices(L), i < j, L.items[j].path \in tried' \ tried
               PROVE  L.items[i].path \in tried
  BY <1>1 DEF InOrder
<1>3. j = c
  BY <1>1, <1>2 DEF IsList, Once
<1>4. i <= c - 1
  BY <1>2, <1>3 DEF Indices
<1>5. QED
  BY <1>2, <1>4 DEF Played

\* A song that is opened or gone over to comes after songs that had their turn.
LEMMA StepInOrder == ASSUME OnlyQueues, Types, QueueInv, [Next]_vars PROVE InOrder
<1>1. CASE PlayOpens \/ \E atOpen \in BOOLEAN : PlayFails(atOpen)
  <2>1. doing.op = "play" /\ tried' = tried \cup {ChosenPath}
    BY <1>1, PlayFailsGuard DEF PlayOpens
  <2>2. /\ m_iCurrentPlayList = Music /\ Chosen \in Indices(L) /\ ChosenPath = L.items[Chosen].path
        /\ Played(L, Chosen - 1, tried)
    BY <2>1, ToPlay
  <2>3. QED
    BY <2>1, <2>2, OneInOrder
<1>2. CASE GoOver
  <2>1. now # NoItem /\ nextFile # NoItem /\ tried' = tried \cup {nextFile}
    BY <1>2 DEF GoOver, IsPlaying
  <2>2. /\ m_iCurrentPlayList = Music /\ Waiting = << >> /\ m_nextPlaylistItem = m_iCurrentSong + 1
        /\ m_nextPlaylistItem \in Indices(L) /\ L.items[m_nextPlaylistItem].path = nextFile
    BY <2>1 DEF QueueInv, WhilePlaying, NextIsQueued
  <2>3. Marker = m_iCurrentSong /\ m_iCurrentSong \in Int
    BY <2>2 DEF Marker, Types
  <2>4. Played(L, m_iCurrentSong, tried)
    BY <2>2, <2>3 DEF QueueInv, Reached
  <2>5. m_nextPlaylistItem - 1 = m_iCurrentSong
    BY <2>2, <2>3
  <2>6. QED
    BY <2>1, <2>2, <2>4, <2>5, OneInOrder
<1>3. CASE tried' \subseteq tried
  BY <1>3 DEF InOrder
<1>4. CASE \/ PlayNext \/ PlayPrevious \/ PlayNothing \/ CloseDialog \/ Handlers \/ AskForNext
           \/ Finish \/ UNCHANGED vars
  <2>1. tried' = tried
    BY <1>4 DEF PlayNext, PlayPrevious, PlayNothing, CloseDialog, Handlers, DispatchThreadMessages, HandleQueueNext,
                HandleStarted, HandleEnded, HandleStopped, HandleListStopped, AskForNext, Finish, vars,
                history
  <2>2. QED
    BY <1>3, <2>1
<1>5. CASE User
  BY <1>3, <1>5, OnlySongsAreQueued DEF QueueSong
<1>6. QED
  BY <1>1, <1>2, <1>4, <1>5 DEF Next, Playing, Player

\* Songs have their turn in the order of the list.
THEOREM PlaysInOrderTheorem == ASSUME OnlyQueues PROVE Spec => PlaysInOrder
<1>1. Types /\ (raced \/ QueueInv) /\ [Next]_vars =>
        [\A i, j \in Indices(Current) :
           (i < j /\ Current.items[j].path \in tried' \ tried /\ ~raced')
             => Current.items[i].path \in tried]_vars
  <2> SUFFICES ASSUME Types, raced \/ QueueInv, [Next]_vars, ~raced', ~UNCHANGED vars
               PROVE  InOrder
    BY DEF InOrder
  <2>1. QueueInv
    BY RacedStays
  <2>2. QED
    BY <2>1, StepInOrder
<1>2. QED
  BY <1>1, QueueHolds, TypesHold, PTL DEF Spec, PlaysInOrder

-----------------------------------------------------------------------------
(* No song is cut short                                                     *)

\* While a song plays no stop is waiting, so it stops only by itself.
LEMMA StepPlaysOn ==
  ASSUME OnlyQueues, Types, QueueInv, [Next]_vars, doing = Idle, now # NoItem, now' = NoItem
  PROVE  msgs' = Append(msgs, "ended")
<1>1. doing.op = "idle" /\ m_iCurrentPlayList = Music /\ Music # NoList /\ dialogs = << >>
  BY PlayerAssumption DEF Idle, QueueInv, WhilePlaying
<1>2. ~Playing
  BY <1>1, PlayFailsGuard DEF Playing, PlayNext, PlayPrevious, PlayNothing, PlayOpens, CloseDialog
<1>3. ~HandleStopped /\ ~HandleListStopped
  <2>1. SUFFICES ASSUME NEW m \in {"stopped", "listStopped"}, Handle(m) PROVE FALSE
    BY DEF HandleStopped, HandleListStopped
  <2>2. PICK r \in Seq(Messages) : Taken(m, r)
    BY <2>1, MessageTaken
  <2>3. QED
    BY <1>1, <2>1, <2>2 DEF Taken
<1>4. CASE Handlers \/ AskForNext \/ GoOver
  BY <1>3, <1>4 DEF Handlers, DispatchThreadMessages, HandleQueueNext, HandleStarted, HandleEnded,
                    AskForNext, GoOver, playervars
<1>5. CASE Finish
  BY <1>5 DEF Finish
<1>6. CASE User
  BY <1>6, OnlySongsAreQueued DEF QueueSong, playervars
<1>7. CASE UNCHANGED vars
  BY <1>7 DEF vars, playervars
<1>8. QED
  BY <1>2, <1>4, <1>5, <1>6, <1>7 DEF Next, Player

\* No message left over from the song before stops a song: it stops by itself.
THEOREM NoSongIsCutShortTheorem == ASSUME OnlyQueues PROVE Spec => NoSongIsCutShort
<1>1. Types /\ (raced \/ QueueInv) /\ [Next]_vars =>
        [(doing = Idle /\ IsPlaying /\ now' = NoItem /\ ~raced) => msgs' = Append(msgs, "ended")]_vars
  BY StepPlaysOn DEF IsPlaying
<1>2. QED
  BY <1>1, QueueHolds, TypesHold, PTL DEF Spec, NoSongIsCutShort
=============================================================================
