--------------------------- MODULE PlayListProofs ---------------------------
(***************************************************************************)
(* Proofs about PlayList, for any paths and any size of the list: the order *)
(* numbers stay a permutation, the counter of playable items is never too   *)
(* low, and the list implements PlayOrder.                                  *)
(*                                                                         *)
(* The lemmas go from the items of a vector, over the queued order that the *)
(* orders of a vector spell, to what each operation leaves of a list.       *)
(***************************************************************************)
EXTENDS PlayList, FiniteSetTheorems, SequenceTheorems, TLAPS

-----------------------------------------------------------------------------
(* Vectors of items                                                         *)

Items == [path : Paths, order : Nat, unplayable : BOOLEAN]

\* The orders are a permutation of the positions.
Permuted(v, n) ==
  /\ \A i \in 0 .. n - 1 : v[i].order \in 0 .. n - 1
  /\ \A i, j \in 0 .. n - 1 : v[i].order = v[j].order => i = j

\* Every item is where its order says.
InPlace(v, n) == \A i \in 0 .. n - 1 : v[i].order = i

Vector(v, n) == v \in [0 .. n - 1 -> Items] /\ Permuted(v, n)

\* IncrementOrder changes nothing of an item but its order.
LEMMA BumpedItem ==
  ASSUME NEW item \in Items, NEW order \in Nat, NEW n \in Nat
  PROVE  /\ Bumped(item, order, n) \in Items
         /\ Bumped(item, order, n).path = item.path
         /\ Bumped(item, order, n).unplayable = item.unplayable
         /\ Bumped(item, order, n).order = IF item.order >= order THEN item.order + n ELSE item.order
BY DEF Bumped, Items

\* DecrementOrder changes nothing of an item but its order.
LEMMA LoweredItem ==
  ASSUME NEW item \in Items, NEW order \in Nat, NEW newSize \in Nat
  PROVE  LET low == item.order > order /\ order # newSize
         IN  /\ Lowered(item, order, newSize) \in Items
             /\ Lowered(item, order, newSize).path = item.path
             /\ Lowered(item, order, newSize).unplayable = item.unplayable
             /\ Lowered(item, order, newSize).order = IF low THEN item.order - 1 ELSE item.order
BY DEF Lowered, Items

\* An item that is added has the order it is given, and is playable.
LEMMA NewItemFields ==
  ASSUME NEW path \in Paths, NEW order \in Nat
  PROVE  /\ NewItem(path, order) \in Items /\ NewItem(path, order).path = path
         /\ NewItem(path, order).order = order /\ ~NewItem(path, order).unplayable
BY DEF NewItem, Items

\* The items that have not failed, and their number.
Songs(v, n) == {i \in 0 .. n - 1 : ~v[i].unplayable}
Count(v, n) == Cardinality(Songs(v, n))

\* The playable items of a vector can be counted.
LEMMA SongsFinite ==
  ASSUME NEW v, NEW n \in Nat
  PROVE  IsFiniteSet(Songs(v, n)) /\ Count(v, n) \in Nat
<1>1. IsFiniteSet(0 .. n - 1)
  BY FS_Interval
<1>2. IsFiniteSet(Songs(v, n))
  BY <1>1, FS_Subset DEF Songs
<1> QED BY <1>2, FS_CardinalityType DEF Count

\* If every playable item of w but at most k comes from a playable item of v of its
\* own, w has at most k playable items more.
LEMMA CountBound ==
  ASSUME NEW n \in Nat, NEW m \in Nat, NEW k \in Nat, NEW v, NEW w,
         NEW f \in [0 .. m - 1 -> 0 .. n + k - 1],
         \A i, j \in 0 .. m - 1 : f[i] = f[j] => i = j,
         \A i \in 0 .. m - 1 : f[i] < n /\ ~w[i].unplayable => ~v[f[i]].unplayable
  PROVE  Count(w, m) <= Count(v, n) + k
<1> DEFINE T == Songs(v, n) \cup (n .. n + k - 1)
           g == [i \in Songs(w, m) |-> f[i]]
<1>1. /\ IsFiniteSet(T)
      /\ Cardinality(T) = Count(v, n) + k
  <2>1. IsFiniteSet(n .. n + k - 1) /\ Cardinality(n .. n + k - 1) = k
    BY FS_Interval
  <2>2. Songs(v, n) \cap (n .. n + k - 1) = {}
    BY DEF Songs
  <2>3. Cardinality(Songs(v, n) \cap (n .. n + k - 1)) = 0
    BY <2>2, FS_EmptySet
  <2>4. IsFiniteSet(Songs(v, n)) /\ Cardinality(Songs(v, n)) \in Nat
    BY SongsFinite DEF Count
  <2> DEFINE A == Songs(v, n)
             B == n .. n + k - 1
  <2>5. /\ IsFiniteSet(A \cup B)
        /\ Cardinality(A \cup B) = Cardinality(A) + Cardinality(B) - Cardinality(A \cap B)
    <3> HIDE DEF A, B
    <3> QED BY <2>1, <2>4, FS_Union DEF A, B
  <2> QED BY <2>1, <2>3, <2>4, <2>5 DEF Count
<1>2. \A i \in Songs(w, m) : i \in 0 .. m - 1 /\ f[i] \in T
  <2> SUFFICES ASSUME NEW i \in Songs(w, m) PROVE i \in 0 .. m - 1 /\ f[i] \in T
    OBVIOUS
  <2>1. i \in 0 .. m - 1 /\ ~w[i].unplayable
    BY DEF Songs
  <2>2. f[i] \in 0 .. n + k - 1
    BY <2>1
  <2>3. CASE f[i] < n
    BY <2>1, <2>2, <2>3 DEF Songs
  <2>4. CASE f[i] >= n
    BY <2>1, <2>2, <2>4
  <2> QED BY <2>1, <2>2, <2>3, <2>4
<1>3. g \in Injection(Songs(w, m), T)
  <2> HIDE DEF T
  <2>1. g \in [Songs(w, m) -> T]
    BY <1>2
  <2>2. \A i, j \in Songs(w, m) : g[i] = g[j] => i = j
    BY <1>2
  <2> QED BY <2>1, <2>2 DEF Injection, IsInjective
<1>4. Cardinality(Songs(w, m)) <= Cardinality(T)
  <2> HIDE DEF T, g
  <2> QED BY <1>1, <1>3, FS_Injection
<1> QED BY <1>1, <1>4 DEF Count

\* Putting k new items in (Add at the end, Insert in the middle of a list whose orders
\* are its positions) leaves the orders a permutation.
LEMMA Inserted ==
  ASSUME NEW n \in Nat, NEW k \in Nat, NEW pos \in 0 .. n, NEW v, NEW w,
         Vector(v, n), pos = n \/ InPlace(v, n), w \in [0 .. n + k - 1 -> Items],
         \A i \in pos .. pos + k - 1 : w[i].order = i,
         \A i \in 0 .. pos - 1 : w[i] = v[i],
         \A i \in pos + k .. n + k - 1 : w[i] = Bumped(v[i - k], pos, k)
  PROVE  Vector(w, n + k) /\ (InPlace(v, n) => InPlace(w, n + k))
<1>1. \A i \in 0 .. n - 1 : v[i].order \in 0 .. n - 1 /\ v[i] \in Items
  BY DEF Vector, Permuted
<1>2. ASSUME NEW i \in pos + k .. n + k - 1
      PROVE  /\ i - k \in pos .. n - 1 /\ i - k \in 0 .. n - 1
             /\ w[i].path = v[i - k].path
             /\ w[i].order = i /\ v[i - k].order = i - k
  <2>1. i - k \in pos .. n - 1 /\ i - k \in 0 .. n - 1
    OBVIOUS
  <2>2. InPlace(v, n)
    BY <2>1
  <2>3. v[i - k].order = i - k
    BY <2>1, <2>2 DEF InPlace
  <2>4. v[i - k] \in Items /\ pos \in Nat
    BY <1>1, <2>1
  <2>5. w[i].path = v[i - k].path /\ w[i].order = v[i - k].order + k
    <3> DEFINE item == v[i - k]
    <3>1. item.order >= pos
      BY <2>1, <2>3
    <3>2. w[i] = Bumped(item, pos, k)
      OBVIOUS
    <3>3. item \in Items
      BY <2>4
    <3> HIDE DEF item
    <3>4. /\ Bumped(item, pos, k).path = item.path
          /\ Bumped(item, pos, k).order = IF item.order >= pos THEN item.order + k ELSE item.order
      BY <2>4, <3>3, BumpedItem, Zenon
    <3>5. w[i].path = item.path /\ w[i].order = item.order + k
      BY <3>1, <3>2, <3>4
    <3> QED BY <3>5 DEF item
  <2> QED BY <2>1, <2>3, <2>5
<1>3. ASSUME NEW i \in 0 .. n + k - 1
      PROVE  i \in 0 .. pos - 1 \/ i \in pos .. pos + k - 1 \/ i \in pos + k .. n + k - 1
  OBVIOUS
<1>4. \A i \in 0 .. pos - 1 : i \in 0 .. n - 1
  OBVIOUS
<1>5. \A i \in pos .. n + k - 1 : w[i].order = i
  BY <1>2
<1>6. \A i \in 0 .. pos - 1 : w[i].order \in 0 .. n - 1 /\ w[i].order \in 0 .. pos - 1
  BY <1>1, <1>4 DEF InPlace
<1>7. Permuted(w, n + k)
  <2>1. \A i \in 0 .. n + k - 1 : w[i].order \in 0 .. n + k - 1
    BY <1>5, <1>6
  <2>2. \A i, j \in 0 .. pos - 1 : w[i].order = w[j].order => i = j
    BY <1>4 DEF Vector, Permuted
  <2>3. \A i, j \in 0 .. n + k - 1 : w[i].order = w[j].order => i = j
    BY <1>5, <1>6, <2>2
  <2> QED BY <2>1, <2>3 DEF Permuted
<1>9. InPlace(v, n) => InPlace(w, n + k)
  BY <1>4, <1>5 DEF InPlace
<1> QED BY <1>7, <1>9 DEF Vector

\* ... and at most k more playable items.
LEMMA InsertedCount ==
  ASSUME NEW n \in Nat, NEW k \in Nat, NEW pos \in 0 .. n, NEW v, NEW w,
         v \in [0 .. n - 1 -> Items],
         \A i \in 0 .. pos - 1 : w[i] = v[i],
         \A i \in pos + k .. n + k - 1 : w[i] = Bumped(v[i - k], pos, k)
  PROVE  Count(w, n + k) <= Count(v, n) + k
<1> DEFINE From(i) == IF i < pos THEN i ELSE IF i < pos + k THEN n + i - pos ELSE i - k
           f == [i \in 0 .. n + k - 1 |-> From(i)]
<1>1. n + k \in Nat /\ pos \in Nat
  OBVIOUS
<1>2. f \in [0 .. n + k - 1 -> 0 .. n + k - 1]
  OBVIOUS
<1>3. \A i, j \in 0 .. n + k - 1 : f[i] = f[j] => i = j
  OBVIOUS
<1>4. ASSUME NEW i \in 0 .. n + k - 1, f[i] < n, ~w[i].unplayable
      PROVE  ~v[f[i]].unplayable
  <2>1. CASE i < pos
    BY <2>1, <1>4
  <2>2. CASE i >= pos + k
    <3>1. i \in pos + k .. n + k - 1 /\ i - k \in 0 .. n - 1 /\ f[i] = i - k
      BY <2>2
    <3>2. v[i - k] \in Items
      BY <3>1
    <3>3. w[i] = Bumped(v[i - k], pos, k)
      BY <3>1
    <3>4. Bumped(v[i - k], pos, k).unplayable = v[i - k].unplayable
      BY <1>1, <3>2, BumpedItem, Zenon
    <3> QED BY <1>4, <3>1, <3>3, <3>4
  <2> QED BY <1>4, <2>1, <2>2
<1>5. \A i \in 0 .. n + k - 1 : f[i] < n /\ ~w[i].unplayable => ~v[f[i]].unplayable
  BY <1>4
<1> DEFINE m == n + k
<1>6. /\ n \in Nat /\ m \in Nat /\ k \in Nat /\ f \in [0 .. m - 1 -> 0 .. n + k - 1]
      /\ \A i, j \in 0 .. m - 1 : f[i] = f[j] => i = j
      /\ \A i \in 0 .. m - 1 : f[i] < n /\ ~w[i].unplayable => ~v[f[i]].unplayable
  BY <1>1, <1>2, <1>3, <1>5
<1> HIDE DEF f, m
<1>7. Count(w, m) <= Count(v, n) + k
  BY ONLY <1>6, CountBound
<1> QED BY <1>7 DEF m

\* The positions of a vector with one taken out.
\* Where item i was before the one at pos was erased.
Skip(pos, i) == IF i < pos THEN i ELSE i + 1

\* DecrementOrder closes the gap of order o without making two orders equal.
LEMMA LoweredOrders ==
  ASSUME NEW a \in Int, NEW b \in Int, NEW o \in Int, a # o, b # o, NEW c, NEW d,
         c = IF a > o THEN a - 1 ELSE a, d = IF b > o THEN b - 1 ELSE b, c = d
  PROVE  a = b
OBVIOUS

\* Remove leaves the orders a permutation.
LEMMA Removed ==
  ASSUME NEW n \in Nat, NEW pos \in 0 .. n - 1, NEW v, NEW w, Vector(v, n),
         w \in [0 .. n - 2 -> Items],
         \A i \in 0 .. n - 2 : w[i] = Lowered(v[Skip(pos, i)], v[pos].order, n - 1)
  PROVE  /\ Vector(w, n - 1) /\ (InPlace(v, n) => InPlace(w, n - 1))
         /\ \A i \in 0 .. n - 2 :
              LET j == Skip(pos, i)
              IN  /\ w[i].path = v[j].path
                  /\ w[i].order = IF v[j].order > v[pos].order THEN v[j].order - 1 ELSE v[j].order
<1> DEFINE o == v[pos].order
<1>1. o \in 0 .. n - 1 /\ n - 1 \in Nat /\ n - 2 = (n - 1) - 1
  BY DEF Vector, Permuted
<1>2. ASSUME NEW i \in 0 .. n - 2
      PROVE  LET j == Skip(pos, i)
             IN  /\ j \in 0 .. n - 1 /\ j # pos
                 /\ v[j].order \in 0 .. n - 1 /\ v[j].order # o
                 /\ w[i].path = v[j].path /\ w[i].unplayable = v[j].unplayable
                 /\ w[i].order = IF v[j].order > o THEN v[j].order - 1 ELSE v[j].order
  <2> DEFINE j == Skip(pos, i)
  <2>1. j \in 0 .. n - 1 /\ j # pos
    BY DEF Skip
  <2>2. v[j] \in Items /\ v[j].order \in 0 .. n - 1 /\ v[j].order # o
    BY <2>1 DEF Vector, Permuted
  <2> HIDE DEF j, o
  <2>3. LET low == v[j].order > o /\ o # n - 1
        IN  /\ Lowered(v[j], o, n - 1).path = v[j].path
            /\ Lowered(v[j], o, n - 1).unplayable = v[j].unplayable
            /\ Lowered(v[j], o, n - 1).order = IF low THEN v[j].order - 1 ELSE v[j].order
    <3>1. o \in Nat
      BY <1>1
    <3> QED BY <1>1, <2>2, <3>1, LoweredItem, Zenon
  <2>4. w[i] = Lowered(v[j], o, n - 1)
    BY DEF j, o
  <2>5. v[j].order > o => o # n - 1
    BY <2>2, <1>1
  <2>6. w[i].order = IF v[j].order > o THEN v[j].order - 1 ELSE v[j].order
    BY <2>3, <2>4, <2>5
  <2>7. w[i].path = v[j].path /\ w[i].unplayable = v[j].unplayable
    BY <2>3, <2>4
  <2> QED BY <2>1, <2>2, <2>6, <2>7 DEF j
<1>3. \A i, j \in 0 .. n - 2 : Skip(pos, i) = Skip(pos, j) => i = j
  BY DEF Skip
<1> HIDE DEF o
<1>4. Permuted(w, n - 1)
  <2>1. ASSUME NEW i \in 0 .. n - 2 PROVE w[i].order \in 0 .. n - 2
    <3> DEFINE a == v[Skip(pos, i)].order
    <3>1. a \in 0 .. n - 1 /\ a # o /\ w[i].order = IF a > o THEN a - 1 ELSE a
      BY <1>2
    <3> HIDE DEF a
    <3> QED BY <1>1, <3>1
  <2>2. ASSUME NEW i \in 0 .. n - 2, NEW j \in 0 .. n - 2, w[i].order = w[j].order PROVE i = j
    <3> DEFINE a == v[Skip(pos, i)].order
               b == v[Skip(pos, j)].order
    <3>3. a \in 0 .. n - 1 /\ a # o /\ w[i].order = IF a > o THEN a - 1 ELSE a
      BY <1>2
    <3>4. b \in 0 .. n - 1 /\ b # o /\ w[j].order = IF b > o THEN b - 1 ELSE b
      BY <1>2
    <3>5. a \in Int /\ b \in Int /\ o \in Int
      BY <1>1, <3>3, <3>4
    <3> HIDE DEF a, b
    <3>6. a = b
      BY <2>2, <3>3, <3>4, <3>5, LoweredOrders, Zenon
    <3>1. v[Skip(pos, i)].order = v[Skip(pos, j)].order
      BY <3>6 DEF a, b
    <3>2. Skip(pos, i) = Skip(pos, j)
      BY <1>2, <3>1 DEF Vector, Permuted
    <3> QED BY <1>3, <3>2
  <2> QED BY <1>1, <2>1, <2>2 DEF Permuted
<1>6. InPlace(v, n) => InPlace(w, n - 1)
  BY <1>1, <1>2 DEF InPlace, Skip, o
<1> QED BY <1>1, <1>2, <1>4, <1>6 DEF Vector, o

\* w are the items that are left of v when some are erased, each from where f says, and
\* DecrementOrder is called for the order o.
Erased(v, n, w, m, f, o, size) ==
  /\ n \in Nat /\ m \in Nat /\ o \in Nat /\ size \in Nat
  /\ v \in [0 .. n - 1 -> Items] /\ f \in [0 .. m - 1 -> 0 .. n - 1]
  /\ \A i, j \in 0 .. m - 1 : f[i] = f[j] => i = j
  /\ w = [i \in 0 .. m - 1 |-> Lowered(v[f[i]], o, size)]

\* They count no more playable items.
LEMMA KeptCount ==
  ASSUME NEW v, NEW n, NEW w, NEW m, NEW f, NEW o, NEW size, Erased(v, n, w, m, f, o, size)
  PROVE  w \in [0 .. m - 1 -> Items] /\ Count(w, m) <= Count(v, n)
<1>0. /\ n \in Nat /\ m \in Nat /\ o \in Nat /\ size \in Nat
      /\ v \in [0 .. n - 1 -> Items] /\ f \in [0 .. m - 1 -> 0 .. n - 1]
      /\ \A i, j \in 0 .. m - 1 : f[i] = f[j] => i = j
      /\ w = [i \in 0 .. m - 1 |-> Lowered(v[f[i]], o, size)]
  BY Zenon DEF Erased
<1>1. ASSUME NEW i \in 0 .. m - 1
      PROVE  w[i] \in Items /\ w[i].unplayable = v[f[i]].unplayable
  <2>1. v[f[i]] \in Items
    BY <1>0
  <2> DEFINE item == v[f[i]]
  <2> HIDE DEF item
  <2>3. item \in Items
    BY <2>1 DEF item
  <2>2. LET low == item.order > o /\ o # size
        IN  /\ Lowered(item, o, size) \in Items
            /\ Lowered(item, o, size).path = item.path
            /\ Lowered(item, o, size).unplayable = item.unplayable
            /\ Lowered(item, o, size).order = IF low THEN item.order - 1 ELSE item.order
    BY <1>0, <2>3, LoweredItem, Zenon
  <2> QED BY <1>0, <2>2 DEF item
<1>2. w \in [0 .. m - 1 -> Items]
  BY <1>0, <1>1
<1>3. f \in [0 .. m - 1 -> 0 .. n + 0 - 1]
  BY <1>0
<1>4. \A i \in 0 .. m - 1 : f[i] < n /\ ~w[i].unplayable => ~v[f[i]].unplayable
  BY <1>1
<1>5. Count(w, m) <= Count(v, n) + 0
  BY <1>0, <1>3, <1>4, CountBound
<1> QED BY <1>0, <1>2, <1>5, SongsFinite

\* So does any rearrangement.
LEMMA Rearranged ==
  ASSUME NEW n \in Nat, NEW v, NEW w, Vector(v, n), NEW p \in [0 .. n - 1 -> 0 .. n - 1],
         IsInjective(p), w \in [0 .. n - 1 -> Items],
         \A i \in 0 .. n - 1 : w[i] = v[p[i]]
  PROVE  Vector(w, n)
<1>1. \A i, j \in 0 .. n - 1 : p[i] = p[j] => i = j
  BY DEF IsInjective
<1>2. \A i \in 0 .. n - 1 : p[i] \in 0 .. n - 1
  OBVIOUS
<1>3. Permuted(w, n)
  BY <1>1, <1>2 DEF Vector, Permuted
<1> QED BY <1>3 DEF Vector

\* If each item of w is playable only if the item of v is that p names, w has no more
\* playable items.
LEMMA NoMorePlayable ==
  ASSUME NEW n \in Nat, NEW v, NEW w, NEW p \in [0 .. n - 1 -> 0 .. n - 1],
         \A i, j \in 0 .. n - 1 : p[i] = p[j] => i = j,
         \A i \in 0 .. n - 1 : ~w[i].unplayable => ~v[p[i]].unplayable
  PROVE  Count(w, n) <= Count(v, n)
<1>1. p \in [0 .. n - 1 -> 0 .. n + 0 - 1]
  OBVIOUS
<1>2. Count(w, n) <= Count(v, n) + 0
  BY <1>1, CountBound
<1> QED BY <1>2, SongsFinite

\* The positions in front of x and behind it.
LEMMA IntervalSizes ==
  ASSUME NEW n \in Nat, NEW x \in 0 .. n - 1
  PROVE  /\ IsFiniteSet(0 .. x - 1) /\ Cardinality(0 .. x - 1) = x
         /\ IsFiniteSet(x + 1 .. n - 1) /\ Cardinality(x + 1 .. n - 1) = n - 1 - x
<1>1. IsFiniteSet(0 .. x - 1) /\ Cardinality(0 .. x - 1) = x
  BY FS_Interval
<1>2. IsFiniteSet(x + 1 .. n - 1) /\ Cardinality(x + 1 .. n - 1) = n - 1 - x
  BY FS_Interval
<1> QED BY <1>1, <1>2

\* An order of n numbers that never falls is the one from 0 on.
LEMMA SortedInPlace ==
  ASSUME NEW n \in Nat, NEW w, Vector(w, n),
         \A i, j \in 0 .. n - 1 : i < j => w[i].order <= w[j].order
  PROVE  InPlace(w, n)
<1>1. \A i \in 0 .. n - 1 : w[i].order \in 0 .. n - 1
  BY DEF Vector, Permuted
<1>2. \A i, j \in 0 .. n - 1 : i < j => w[i].order < w[j].order
  BY <1>1 DEF Vector, Permuted
<1>3. SUFFICES ASSUME NEW i \in 0 .. n - 1 PROVE w[i].order = i
  BY DEF InPlace
<1> DEFINE o == w[i].order
<1>4. o \in 0 .. n - 1
  BY <1>1
<1>5. i <= o
  <2> DEFINE f == [j \in 0 .. i - 1 |-> w[j].order]
  <2>1. \A j \in 0 .. i - 1 : w[j].order \in 0 .. o - 1
    BY <1>1, <1>2
  <2>2. \A j, k \in 0 .. i - 1 : w[j].order = w[k].order => j = k
    BY DEF Vector, Permuted
  <2>3. f \in Injection(0 .. i - 1, 0 .. o - 1)
    BY <2>1, <2>2 DEF Injection, IsInjective
  <2>4. IsFiniteSet(0 .. o - 1) /\ Cardinality(0 .. o - 1) = o /\ Cardinality(0 .. i - 1) = i
    BY <1>4, IntervalSizes
  <2> HIDE DEF f
  <2> QED BY <2>3, <2>4, FS_Injection
<1>6. o <= i
  <2> DEFINE f == [j \in i + 1 .. n - 1 |-> w[j].order]
  <2>1. \A j \in i + 1 .. n - 1 : w[j].order \in o + 1 .. n - 1
    BY <1>1, <1>2
  <2>2. \A j, k \in i + 1 .. n - 1 : w[j].order = w[k].order => j = k
    BY DEF Vector, Permuted
  <2>3. f \in Injection(i + 1 .. n - 1, o + 1 .. n - 1)
    BY <2>1, <2>2 DEF Injection, IsInjective
  <2>4. /\ IsFiniteSet(o + 1 .. n - 1) /\ Cardinality(o + 1 .. n - 1) = n - 1 - o
        /\ Cardinality(i + 1 .. n - 1) = n - 1 - i
    BY <1>4, IntervalSizes
  <2> HIDE DEF f
  <2>5. n - 1 - i <= n - 1 - o
    BY <2>3, <2>4, FS_Injection
  <2> QED BY <1>4, <2>5
<1> QED BY <1>4, <1>5, <1>6

\* What position i becomes when a and b change places.
Exchanged(a, b, i) == IF i = a THEN b ELSE IF i = b THEN a ELSE i

\* The items at a and b have changed places, with their orders only in shuffle.
SwapsTwo(v, n, w, a, b, shuffled) ==
  \A i \in 0 .. n - 1 :
    LET j == Exchanged(a, b, i)
    IN  /\ w[i].path = v[j].path /\ w[i].unplayable = v[j].unplayable
        /\ w[i].order = IF shuffled THEN v[j].order ELSE v[i].order

\* Swap leaves the orders a permutation, and outside shuffle in place.
LEMMA Swapped ==
  ASSUME NEW n \in Nat, NEW v, NEW w, Vector(v, n), NEW a \in 0 .. n - 1, NEW b \in 0 .. n - 1,
         NEW shuffled, w \in [0 .. n - 1 -> Items],
         SwapsTwo(v, n, w, a, b, shuffled)
  PROVE  Vector(w, n) /\ (~shuffled => (InPlace(v, n) => InPlace(w, n)))
<1>1. \A i \in 0 .. n - 1 : Exchanged(a, b, i) \in 0 .. n - 1
  BY DEF Exchanged
<1>2. \A i, j \in 0 .. n - 1 : Exchanged(a, b, i) = Exchanged(a, b, j) => i = j
  BY DEF Exchanged
<1>0. \A i \in 0 .. n - 1 :
        LET j == Exchanged(a, b, i)
        IN  /\ w[i].path = v[j].path /\ w[i].unplayable = v[j].unplayable
            /\ w[i].order = IF shuffled THEN v[j].order ELSE v[i].order
  BY DEF SwapsTwo
<1>3. Permuted(w, n)
  <2>1. CASE shuffled
    <3>1. \A i \in 0 .. n - 1 : w[i].order = v[Exchanged(a, b, i)].order
      BY <1>0, <2>1
    <3>2. ASSUME NEW i \in 0 .. n - 1 PROVE w[i].order \in 0 .. n - 1
      BY <1>1, <3>1 DEF Vector, Permuted
    <3>3. ASSUME NEW i \in 0 .. n - 1, NEW j \in 0 .. n - 1, w[i].order = w[j].order PROVE i = j
      <4>1. v[Exchanged(a, b, i)].order = v[Exchanged(a, b, j)].order
        BY <3>1, <3>3
      <4>2. Exchanged(a, b, i) = Exchanged(a, b, j)
        BY <1>1, <4>1 DEF Vector, Permuted
      <4> QED BY <1>2, <4>2
    <3> QED BY <3>2, <3>3 DEF Permuted
  <2>2. CASE ~shuffled
    <3>1. \A i \in 0 .. n - 1 : w[i].order = v[i].order
      BY <1>0, <2>2
    <3> QED BY <3>1 DEF Vector, Permuted
  <2> QED BY <2>1, <2>2
<1>6. ~shuffled /\ InPlace(v, n) => InPlace(w, n)
  BY <1>0 DEF InPlace
<1> QED BY <1>3, <1>6 DEF Vector

\* ... and counts no more playable items.
LEMMA SwappedCount ==
  ASSUME NEW n \in Nat, NEW v, NEW w, NEW a \in 0 .. n - 1, NEW b \in 0 .. n - 1,
         NEW shuffled, SwapsTwo(v, n, w, a, b, shuffled)
  PROVE  Count(w, n) <= Count(v, n)
<1> DEFINE f == [i \in 0 .. n - 1 |-> Exchanged(a, b, i)]
<1>1. f \in [0 .. n - 1 -> 0 .. n - 1]
  BY DEF Exchanged
<1>2. \A i, j \in 0 .. n - 1 : f[i] = f[j] => i = j
  BY DEF Exchanged
<1>3. \A i \in 0 .. n - 1 : ~w[i].unplayable => ~v[f[i]].unplayable
  BY DEF SwapsTwo
<1> HIDE DEF f
<1> QED BY <1>1, <1>2, <1>3, NoMorePlayable

\* Items with the same orders are as good.
LEMMA SameOrders ==
  ASSUME NEW n \in Nat, NEW v, NEW w, Vector(v, n), w \in [0 .. n - 1 -> Items],
         \A i \in 0 .. n - 1 : w[i].order = v[i].order
  PROVE  Vector(w, n) /\ (InPlace(v, n) => InPlace(w, n))
<1>1. Vector(w, n)
  BY DEF Vector, Permuted
<1>2. InPlace(v, n) => InPlace(w, n)
  BY DEF InPlace
<1> QED BY <1>1, <1>2

\* SetUnPlayable leaves one playable item less.
LEMMA MarkedCount ==
  ASSUME NEW n \in Nat, NEW v, NEW w, NEW pos \in 0 .. n - 1,
         ~v[pos].unplayable, w[pos].unplayable,
         \A i \in 0 .. n - 1 : i # pos => w[i].unplayable = v[i].unplayable
  PROVE  Count(w, n) = Count(v, n) - 1
<1>3. Songs(w, n) = Songs(v, n) \ {pos} /\ pos \in Songs(v, n)
  BY DEF Songs
<1>4. Cardinality(Songs(v, n) \ {pos}) = Cardinality(Songs(v, n)) - 1
  BY <1>3, SongsFinite, FS_RemoveElement
<1> QED BY <1>3, <1>4 DEF Count

\* Concatenation, as an operator whose definition the provers are shown only in Joined.
Cat(a, b) == a \o b

\* What the concatenation of two sequences holds.
LEMMA Joined ==
  ASSUME NEW S, NEW a \in Seq(S), NEW b \in Seq(S), NEW m \in Nat, NEW k \in Nat,
         Len(a) = m, Len(b) = k
  PROVE  /\ Cat(a, b) \in Seq(S) /\ Len(Cat(a, b)) = m + k
         /\ \A x \in 1 .. m : Cat(a, b)[x] = a[x]
         /\ \A x \in 1 .. k : Cat(a, b)[m + x] = b[x]
<1> DEFINE c == Cat(a, b)
<1>1. /\ c \in Seq(S) /\ Len(c) = Len(a) + Len(b)
      /\ \A i \in 1 .. Len(a) + Len(b) : c[i] = IF i <= Len(a) THEN a[i] ELSE b[i - Len(a)]
  BY ConcatProperties DEF Cat
<1> HIDE DEF c
<1>2. /\ c \in Seq(S) /\ Len(c) = m + k
      /\ \A i \in 1 .. m + k : c[i] = IF i <= m THEN a[i] ELSE b[i - m]
  BY <1>1, Zenon
<1>3. ASSUME NEW x \in 1 .. m PROVE c[x] = a[x]
  BY <1>2
<1>4. ASSUME NEW x \in 1 .. k PROVE c[m + x] = b[x]
  <2>1. m + x \in 1 .. m + k /\ ~(m + x <= m) /\ (m + x) - m = x
    OBVIOUS
  <2> QED BY <1>2, <2>1
<1> QED BY <1>2, <1>3, <1>4 DEF c

-----------------------------------------------------------------------------
(* The two orders of a vector                                               *)

\* q is the queued order that the orders of the items spell.
Queue(v, n, q) ==
  /\ q \in Seq(Paths) /\ Len(q) = n
  /\ \A i \in 0 .. n - 1 : q[v[i].order + 1] = v[i].path

\* A permutation has every order: FindOrder finds an item.
LEMMA EveryOrder ==
  ASSUME NEW n \in Nat, NEW v, Vector(v, n), NEW k \in 0 .. n - 1
  PROVE  \E i \in 0 .. n - 1 : v[i].order = k
<1> DEFINE S == 0 .. n - 1
           f == [i \in S |-> v[i].order]
<1>1. f \in Injection(S, S)
  BY DEF Vector, Permuted, Injection, IsInjective
<1>2. IsFiniteSet(S)
  BY FS_Interval
<1>3. f \in Surjection(S, S)
  <2> HIDE DEF S, f
  <2> QED BY <1>1, <1>2, FS_Injection
<1>4. PICK i \in S : f[i] = k
  BY <1>3 DEF Surjection
<1> QED BY <1>4

\* The orders spell one queued order only.
LEMMA OneQueue ==
  ASSUME NEW n \in Nat, NEW v, Vector(v, n), NEW q, NEW r, Queue(v, n, q), Queue(v, n, r)
  PROVE  q = r
<1>1. q \in Seq(Paths) /\ r \in Seq(Paths) /\ Len(q) = n /\ Len(r) = n
  BY DEF Queue
<1>2. ASSUME NEW k \in 1 .. n PROVE q[k] = r[k]
  <2>1. k - 1 \in 0 .. n - 1
    OBVIOUS
  <2>2. PICK i \in 0 .. n - 1 : v[i].order = k - 1
    BY <2>1, EveryOrder
  <2>3. v[i].order + 1 = k
    BY <2>2
  <2> QED BY <2>3 DEF Queue
<1> QED BY <1>1, <1>2, SeqEqual

\* A vector without a change of orders or paths.
LEMMA Carried ==
  ASSUME NEW n \in Nat, NEW v, NEW w, NEW q, Queue(v, n, q), NEW p \in [0 .. n - 1 -> 0 .. n - 1],
         \A i \in 0 .. n - 1 : w[i].path = v[p[i]].path /\ w[i].order = v[p[i]].order
  PROVE  Queue(w, n, q)
BY DEF Queue

\* The playing order of a vector.
Paths1(v, n) == [k \in 1 .. n |-> v[k - 1].path]

\* The playing order is a sequence of paths.
LEMMA PathsSequence ==
  ASSUME NEW n \in Nat, NEW v, v \in [0 .. n - 1 -> Items]
  PROVE  /\ Paths1(v, n) \in Seq(Paths) /\ Len(Paths1(v, n)) = n
         /\ \A k \in 1 .. n : Paths1(v, n)[k] = v[k - 1].path
<1>1. \A i \in 0 .. n - 1 : v[i].path \in Paths
  BY DEF Items
<1>2. Paths1(v, n) \in [1 .. n -> Paths]
  BY <1>1 DEF Paths1
<1> QED BY <1>2 DEF Paths1

\* A vector with every item in its place plays in its queued order.
LEMMA PathsQueue ==
  ASSUME NEW n \in Nat, NEW v, Vector(v, n), InPlace(v, n)
  PROVE  Queue(v, n, Paths1(v, n))
<1>3. Paths1(v, n) \in Seq(Paths) /\ Len(Paths1(v, n)) = n
  BY PathsSequence DEF Vector
<1>4. ASSUME NEW i \in 0 .. n - 1 PROVE Paths1(v, n)[v[i].order + 1] = v[i].path
  <2>1. i + 1 \in 1 .. n /\ (i + 1) - 1 = i /\ v[i].order = i
    BY DEF InPlace
  <2> QED BY <2>1 DEF Paths1
<1> QED BY <1>3, <1>4 DEF Queue

\* The k songs of s put at the end of a vector.
Appended(v, n, w, s, k) ==
  /\ \A i \in 0 .. n - 1 : w[i] = v[i]
  /\ \A i \in n .. n + k - 1 : w[i].order = i /\ w[i].path = s[i - n + 1]

\* Add puts the new songs at the end of the queued order.
LEMMA AppendedQueue ==
  ASSUME NEW n \in Nat, NEW k \in Nat, NEW v, NEW w, NEW q, Vector(v, n), Queue(v, n, q),
         NEW s \in Seq(Paths), Len(s) = k,
         Appended(v, n, w, s, k)
  PROVE  Queue(w, n + k, Cat(q, s))
<1>1. q \in Seq(Paths) /\ Len(q) = n /\ s \in Seq(Paths) /\ Len(s) = k /\ n \in Nat /\ k \in Nat
  BY DEF Queue
<1> DEFINE c == Cat(q, s)
<1>2. /\ c \in Seq(Paths) /\ Len(c) = n + k
      /\ \A x \in 1 .. n : c[x] = q[x]
      /\ \A x \in 1 .. k : c[n + x] = s[x]
  BY ONLY <1>1, Joined
<1> HIDE DEF c
<1>3. ASSUME NEW i \in 0 .. n + k - 1 PROVE c[w[i].order + 1] = w[i].path
  <2>1. CASE i < n
    <3> DEFINE x == v[i].order + 1
    <3>1. x \in 1 .. n /\ q[x] = v[i].path
      BY <2>1 DEF Vector, Permuted, Queue
    <3>2. w[i] = v[i]
      BY <2>1 DEF Appended
    <3> HIDE DEF x
    <3>3. c[x] = q[x]
      BY <1>2, <3>1
    <3> QED BY <3>1, <3>2, <3>3 DEF x
  <2>2. CASE i >= n
    <3>1. w[i].order = i /\ w[i].path = s[i - n + 1]
      BY <2>2 DEF Appended
    <3>2. i - n + 1 \in 1 .. k /\ n + (i - n + 1) = i + 1
      BY <2>2
    <3>3. c[n + (i - n + 1)] = s[i - n + 1]
      BY <1>2, <3>2
    <3> QED BY <3>1, <3>2, <3>3
  <2> QED BY <2>1, <2>2
<1>4. n + k \in Nat
  OBVIOUS
<1> QED BY <1>2, <1>3, <1>4 DEF Queue, c

\* What RemoveAt leaves of a sequence.
LEMMA RemovedAt ==
  ASSUME NEW n \in Nat, NEW q \in Seq(Paths), Len(q) = n, NEW o \in 0 .. n - 1
  PROVE  /\ Order!RemoveAt(q, o + 1) \in Seq(Paths) /\ Len(Order!RemoveAt(q, o + 1)) = n - 1
         /\ \A x \in 1 .. n - 1 : Order!RemoveAt(q, o + 1)[x] = IF x <= o THEN q[x] ELSE q[x + 1]
<1> DEFINE a == SubSeq(q, 1, (o + 1) - 1)
           b == SubSeq(q, (o + 1) + 1, Len(q))
           k == n - 1 - o
<1>1. \A x \in 1 .. n : q[x] \in Paths
  OBVIOUS
<1>2. a \in Seq(Paths) /\ Len(a) = o /\ \A x \in 1 .. o : a[x] = q[x]
  BY <1>1, SubSeqProperties
<1>3. b \in Seq(Paths) /\ Len(b) = k /\ \A x \in 1 .. k : b[x] = q[x + o + 1]
  BY <1>1, SubSeqProperties
<1>4. Order!RemoveAt(q, o + 1) = Cat(a, b)
  BY DEF Order!RemoveAt, Cat
<1>5. k \in Nat /\ o \in Nat /\ o + k = n - 1
  OBVIOUS
<1> HIDE DEF a, b, k
<1>6. /\ Cat(a, b) \in Seq(Paths) /\ Len(Cat(a, b)) = o + k
      /\ \A x \in 1 .. o : Cat(a, b)[x] = a[x]
      /\ \A x \in 1 .. k : Cat(a, b)[o + x] = b[x]
  BY <1>2, <1>3, <1>5, Joined
<1>7. ASSUME NEW x \in 1 .. n - 1 PROVE Cat(a, b)[x] = IF x <= o THEN q[x] ELSE q[x + 1]
  <2>1. CASE x <= o
    <3>1. x \in 1 .. o
      BY <2>1
    <3> QED BY <1>2, <1>6, <2>1, <3>1
  <2>2. CASE x > o
    <3>1. x - o \in 1 .. k /\ o + (x - o) = x /\ (x - o) + o + 1 = x + 1 /\ ~(x <= o)
      BY <1>5, <2>2
    <3> QED BY <1>3, <1>6, <3>1
  <2> QED BY <2>1, <2>2
<1> QED BY <1>4, <1>5, <1>6, <1>7

\* Remove takes the song out of the queued order, where its order says.
LEMMA RemovedQueue ==
  ASSUME NEW n \in Nat, NEW v, NEW w, NEW q, Vector(v, n), Queue(v, n, q), NEW pos \in 0 .. n - 1,
         \A i \in 0 .. n - 2 :
           LET j == Skip(pos, i)
           IN  /\ w[i].path = v[j].path
               /\ w[i].order = IF v[j].order > v[pos].order THEN v[j].order - 1 ELSE v[j].order
  PROVE  Queue(w, n - 1, Order!RemoveAt(q, v[pos].order + 1))
<1> DEFINE o == v[pos].order
           r == Order!RemoveAt(q, o + 1)
<1>1. o \in 0 .. n - 1 /\ q \in Seq(Paths) /\ Len(q) = n
  BY DEF Vector, Permuted, Queue
<1>2. /\ r \in Seq(Paths) /\ Len(r) = n - 1
      /\ \A x \in 1 .. n - 1 : r[x] = IF x <= o THEN q[x] ELSE q[x + 1]
  <2> HIDE DEF o
  <2> QED BY <1>1, RemovedAt
<1>3. ASSUME NEW i \in 0 .. (n - 1) - 1 PROVE r[w[i].order + 1] = w[i].path
  <2> DEFINE j == Skip(pos, i)
             a == v[j].order
  <2>1. j \in 0 .. n - 1 /\ j # pos
    BY DEF Skip
  <2>2. a \in 0 .. n - 1 /\ a # o /\ q[a + 1] = v[j].path
    BY <2>1 DEF Vector, Permuted, Queue
  <2>3. w[i].path = v[j].path /\ w[i].order = IF a > o THEN a - 1 ELSE a
    OBVIOUS
  <2> HIDE DEF r, o, a, j
  <2>4. CASE a > o
    <3>1. a \in 1 .. n - 1 /\ ~(a <= o) /\ w[i].order + 1 = a
      BY <1>1, <2>2, <2>3, <2>4
    <3> QED BY <1>2, <2>2, <2>3, <3>1
  <2>5. CASE a < o
    <3>1. a + 1 \in 1 .. n - 1 /\ a + 1 <= o /\ w[i].order = a
      BY <1>1, <2>2, <2>3, <2>5
    <3> QED BY <1>2, <2>2, <2>3, <3>1
  <2> QED BY <1>1, <2>2, <2>4, <2>5
<1> QED BY <1>2, <1>3 DEF Queue

\* Remove takes the song out of the playing order, where its position says.
LEMMA RemovedPaths ==
  ASSUME NEW n \in Nat, NEW v, NEW w, NEW pos \in 0 .. n - 1,
         v \in [0 .. n - 1 -> Items], w \in [0 .. n - 2 -> Items],
         \A i \in 0 .. n - 2 : w[i].path = v[Skip(pos, i)].path
  PROVE  Paths1(w, n - 1) = Order!RemoveAt(Paths1(v, n), pos + 1)
<1> DEFINE p == Paths1(v, n)
           q == Paths1(w, n - 1)
<1>1. n - 1 \in Nat /\ n - 2 = (n - 1) - 1
  OBVIOUS
<1>2. p \in Seq(Paths) /\ Len(p) = n /\ \A k \in 1 .. n : p[k] = v[k - 1].path
  BY PathsSequence
<1>3. q \in Seq(Paths) /\ Len(q) = n - 1 /\ \A k \in 1 .. n - 1 : q[k] = w[k - 1].path
  BY <1>1, PathsSequence
<1> HIDE DEF p, q
<1>4. /\ Order!RemoveAt(p, pos + 1) \in Seq(Paths) /\ Len(Order!RemoveAt(p, pos + 1)) = n - 1
      /\ \A x \in 1 .. n - 1 : Order!RemoveAt(p, pos + 1)[x] = IF x <= pos THEN p[x] ELSE p[x + 1]
  BY <1>2, RemovedAt
<1>5. ASSUME NEW k \in 1 .. n - 1 PROVE q[k] = Order!RemoveAt(p, pos + 1)[k]
  <2>1. k - 1 \in 0 .. n - 2 /\ q[k] = v[Skip(pos, k - 1)].path
    BY <1>3
  <2>2. CASE k <= pos
    <3>1. Skip(pos, k - 1) = k - 1 /\ k \in 1 .. n
      BY <2>2 DEF Skip
    <3> QED BY <1>2, <1>4, <2>1, <2>2, <3>1
  <2>3. CASE k > pos
    <3>1. Skip(pos, k - 1) = (k + 1) - 1 /\ k + 1 \in 1 .. n /\ ~(k <= pos)
      BY <2>3 DEF Skip
    <3> QED BY <1>2, <1>4, <2>1, <3>1
  <2> QED BY <2>2, <2>3
<1>6. q = Order!RemoveAt(p, pos + 1)
  BY <1>3, <1>4, <1>5, SeqEqual
<1> QED BY <1>6 DEF p, q

\* r is q with s in the place of the cut songs behind the first i.
IsSplice(r, q, n, i, cut, s, k) ==
  /\ r \in Seq(Paths) /\ Len(r) = n - cut + k
  /\ \A x \in 1 .. i : r[x] = q[x]
  /\ \A x \in 1 .. k : r[i + x] = s[x]
  /\ \A x \in 1 .. n - cut - i : r[i + k + x] = q[i + cut + x]

\* What Splice leaves of a sequence.
LEMMA Spliced ==
  ASSUME NEW n \in Nat, NEW k \in Nat, NEW q \in Seq(Paths), Len(q) = n,
         NEW s \in Seq(Paths), Len(s) = k, NEW i \in 0 .. n, NEW cut \in 0 .. 1, i + cut <= n
  PROVE  IsSplice(Order!Splice(q, i + 1, cut, s), q, n, i, cut, s, k)
<1> DEFINE a == SubSeq(q, 1, (i + 1) - 1)
           b == SubSeq(q, (i + 1) + cut, Len(q))
           m == n - cut - i
           c == Cat(a, s)
           r == Cat(c, b)
<1>1. \A x \in 1 .. n : q[x] \in Paths
  OBVIOUS
<1>2. a \in Seq(Paths) /\ Len(a) = i /\ \A x \in 1 .. i : a[x] = q[x]
  BY <1>1, SubSeqProperties
<1>3. b \in Seq(Paths) /\ Len(b) = m /\ \A x \in 1 .. m : b[x] = q[i + cut + x]
  <2>1. \A x \in (i + 1) + cut .. n : q[x] \in Paths
    BY <1>1
  <2>2. (i + 1) + cut \in Int /\ n \in Int
    OBVIOUS
  <2>3. /\ b \in Seq(Paths)
        /\ Len(b) = IF (i + 1) + cut <= n THEN n - ((i + 1) + cut) + 1 ELSE 0
        /\ \A x \in 1 .. n - ((i + 1) + cut) + 1 : b[x] = q[((i + 1) + cut) + x - 1]
    BY <2>1, <2>2, SubSeqProperties
  <2>4. n - ((i + 1) + cut) + 1 = m
    OBVIOUS
  <2>5. \A x \in 1 .. m : ((i + 1) + cut) + x - 1 = i + cut + x
    OBVIOUS
  <2>6. (IF (i + 1) + cut <= n THEN n - ((i + 1) + cut) + 1 ELSE 0) = m
    OBVIOUS
  <2> HIDE DEF b, m
  <2>7. Len(b) = m /\ \A x \in 1 .. m : b[x] = q[((i + 1) + cut) + x - 1]
    BY <2>3, <2>4, <2>6, Zenon
  <2> QED BY <2>3, <2>5, <2>7, Zenon
<1>4. Order!Splice(q, i + 1, cut, s) = r
  BY DEF Order!Splice, Cat
<1>5. m \in Nat /\ i \in Nat /\ i + k \in Nat /\ i + k + m = n - cut + k /\ k \in Nat
  OBVIOUS
<1>6. s \in Seq(Paths) /\ Len(s) = k
  OBVIOUS
<1> HIDE DEF a, b, m
<1>7. /\ c \in Seq(Paths) /\ Len(c) = i + k
      /\ \A x \in 1 .. i : c[x] = a[x]
      /\ \A x \in 1 .. k : c[i + x] = s[x]
  BY ONLY <1>2, <1>5, <1>6, Joined
<1> HIDE DEF c
<1>8. /\ r \in Seq(Paths) /\ Len(r) = i + k + m
      /\ \A x \in 1 .. i + k : r[x] = c[x]
      /\ \A x \in 1 .. m : r[i + k + x] = b[x]
  BY ONLY <1>3, <1>5, <1>7, Joined
<1> HIDE DEF r
<1>9. \A x \in 1 .. i : r[x] = q[x]
  <2>1. \A x \in 1 .. i : x \in 1 .. i + k
    OBVIOUS
  <2> QED BY <1>2, <1>7, <1>8, <2>1
<1>10. \A x \in 1 .. k : r[i + x] = s[x]
  <2>1. \A x \in 1 .. k : i + x \in 1 .. i + k
    OBVIOUS
  <2> QED BY <1>7, <1>8, <2>1
<1>11. \A x \in 1 .. m : r[i + k + x] = q[i + cut + x]
  BY <1>3, <1>8
<1> QED BY <1>4, <1>5, <1>8, <1>9, <1>10, <1>11 DEF IsSplice, m

\* A splice is determined by its parts.
LEMMA OneSplice ==
  ASSUME NEW n \in Nat, NEW k \in Nat, NEW q, NEW s, NEW i \in 0 .. n, NEW cut \in 0 .. 1,
         i + cut <= n, NEW r, NEW t,
         IsSplice(r, q, n, i, cut, s, k), IsSplice(t, q, n, i, cut, s, k)
  PROVE  r = t
<1>1. r \in Seq(Paths) /\ t \in Seq(Paths) /\ Len(r) = n - cut + k /\ Len(t) = n - cut + k
  BY DEF IsSplice
<1>2. ASSUME NEW x \in 1 .. n - cut + k PROVE r[x] = t[x]
  <2>1. CASE x <= i
    <3>1. x \in 1 .. i
      BY <2>1
    <3> QED BY <3>1 DEF IsSplice
  <2>2. CASE x > i /\ x <= i + k
    <3>1. x - i \in 1 .. k /\ i + (x - i) = x
      BY <2>2
    <3>2. r[i + (x - i)] = s[x - i] /\ t[i + (x - i)] = s[x - i]
      BY <3>1 DEF IsSplice
    <3> QED BY <3>1, <3>2
  <2>3. CASE x > i + k
    <3> DEFINE y == x - i - k
    <3>1. y \in 1 .. n - cut - i /\ i + k + y = x
      BY <2>3
    <3> HIDE DEF y
    <3>2. r[i + k + y] = q[i + cut + y] /\ t[i + k + y] = q[i + cut + y]
      BY <3>1 DEF IsSplice
    <3> QED BY <3>1, <3>2
  <2> QED BY <2>1, <2>2, <2>3
<1> QED BY <1>1, <1>2, SeqEqual

\* The k songs of s put at position pos of a vector.
PutPaths(v, n, w, pos, s, k) ==
  /\ n \in Nat /\ k \in Nat /\ pos \in 0 .. n /\ s \in Seq(Paths) /\ Len(s) = k
  /\ v \in [0 .. n - 1 -> Items] /\ w \in [0 .. n + k - 1 -> Items]
  /\ \A i \in 0 .. pos - 1 : w[i].path = v[i].path
  /\ \A i \in pos .. pos + k - 1 : w[i].path = s[i - pos + 1]
  /\ \A i \in pos + k .. n + k - 1 : w[i].path = v[i - k].path

\* Insert splices the new songs into the playing order.
LEMMA SplicedPaths ==
  ASSUME NEW n, NEW k, NEW v, NEW w, NEW pos, NEW s, PutPaths(v, n, w, pos, s, k)
  PROVE  Paths1(w, n + k) = Order!Splice(Paths1(v, n), pos + 1, 0, s)
<1>0. /\ n \in Nat /\ k \in Nat /\ pos \in 0 .. n /\ s \in Seq(Paths) /\ Len(s) = k
      /\ v \in [0 .. n - 1 -> Items] /\ w \in [0 .. n + k - 1 -> Items]
  BY DEF PutPaths
<1> DEFINE p == Paths1(v, n)
           q == Paths1(w, n + k)
<1>1. p \in Seq(Paths) /\ Len(p) = n /\ \A x \in 1 .. n : p[x] = v[x - 1].path
  BY <1>0, PathsSequence
<1>2. q \in Seq(Paths) /\ Len(q) = n + k /\ \A x \in 1 .. n + k : q[x] = w[x - 1].path
  <2> DEFINE m == n + k
  <2>1. m \in Nat /\ w \in [0 .. m - 1 -> Items]
    BY <1>0
  <2> HIDE DEF m
  <2>2. /\ Paths1(w, m) \in Seq(Paths) /\ Len(Paths1(w, m)) = m
        /\ \A x \in 1 .. m : Paths1(w, m)[x] = w[x - 1].path
    BY ONLY <2>1, PathsSequence
  <2> QED BY <2>2 DEF m
<1> HIDE DEF p, q
<1>6. /\ \A i \in 0 .. pos - 1 : w[i].path = v[i].path
      /\ \A i \in pos .. pos + k - 1 : w[i].path = s[i - pos + 1]
      /\ \A i \in pos + k .. n + k - 1 : w[i].path = v[i - k].path
  BY DEF PutPaths
<1>3. IsSplice(Order!Splice(p, pos + 1, 0, s), p, n, pos, 0, s, k)
  BY <1>0, <1>1, Spliced
<1>4. IsSplice(q, p, n, pos, 0, s, k)
  <2>1. ASSUME NEW x \in 1 .. pos PROVE q[x] = p[x]
    <3>1. x - 1 \in 0 .. pos - 1 /\ x \in 1 .. n /\ x \in 1 .. n + k
      BY <1>0
    <3> QED BY <1>1, <1>2, <1>6, <3>1
  <2>2. ASSUME NEW x \in 1 .. k PROVE q[pos + x] = s[x]
    <3>1. /\ (pos + x) - 1 \in pos .. pos + k - 1 /\ pos + x \in 1 .. n + k
          /\ ((pos + x) - 1) - pos + 1 = x
      BY <1>0
    <3>2. q[pos + x] = w[(pos + x) - 1].path
      BY <1>2, <3>1
    <3>3. w[(pos + x) - 1].path = s[((pos + x) - 1) - pos + 1]
      BY <1>6, <3>1
    <3> QED BY <3>1, <3>2, <3>3
  <2>3. ASSUME NEW x \in 1 .. n - 0 - pos PROVE q[pos + k + x] = p[pos + 0 + x]
    <3>1. /\ (pos + k + x) - 1 \in pos + k .. n + k - 1 /\ pos + k + x \in 1 .. n + k
          /\ pos + x \in 1 .. n /\ pos + 0 + x = pos + x
          /\ ((pos + k + x) - 1) - k = (pos + x) - 1
      BY <1>0
    <3>2. q[pos + k + x] = w[(pos + k + x) - 1].path
      BY <1>2, <3>1
    <3>3. w[(pos + k + x) - 1].path = v[((pos + k + x) - 1) - k].path
      BY <1>6, <3>1
    <3>4. p[pos + x] = v[(pos + x) - 1].path
      BY <1>1, <3>1
    <3> QED BY <3>1, <3>2, <3>3, <3>4
  <2> QED BY <1>0, <1>2, <2>1, <2>2, <2>3 DEF IsSplice
<1>5. q = Order!Splice(p, pos + 1, 0, s)
  <2>1. 0 \in 0 .. 1 /\ pos + 0 <= n
    BY <1>0
  <2> QED BY <1>0, <1>3, <1>4, <2>1, OneSplice, Zenon
<1> QED BY <1>5 DEF p, q

\* Taking one song out and putting others in its place.
LEMMA SplicedRemoved ==
  ASSUME NEW n \in Nat, NEW k \in Nat, NEW q \in Seq(Paths), Len(q) = n,
         NEW s \in Seq(Paths), Len(s) = k, NEW i \in 0 .. n - 1
  PROVE  Order!Splice(Order!RemoveAt(q, i + 1), i + 1, 0, s) = Order!Splice(q, i + 1, 1, s)
<1> DEFINE p == Order!RemoveAt(q, i + 1)
           r == Order!Splice(p, i + 1, 0, s)
<1>1. /\ p \in Seq(Paths) /\ Len(p) = n - 1
      /\ \A x \in 1 .. n - 1 : p[x] = IF x <= i THEN q[x] ELSE q[x + 1]
  BY RemovedAt
<1>2. IsSplice(Order!Splice(q, i + 1, 1, s), q, n, i, 1, s, k)
  BY Spliced
<1> HIDE DEF p
<1>3. IsSplice(r, p, n - 1, i, 0, s, k)
  <2>1. n - 1 \in Nat /\ i \in 0 .. n - 1 /\ i + 0 <= n - 1
    OBVIOUS
  <2> QED BY <1>1, <2>1, Spliced
<1> HIDE DEF r
<1>4. IsSplice(r, q, n, i, 1, s, k)
  <2>1. r \in Seq(Paths) /\ Len(r) = n - 1 + k /\ \A x \in 1 .. k : r[i + x] = s[x]
    BY <1>3 DEF IsSplice
  <2>2. ASSUME NEW x \in 1 .. i PROVE r[x] = q[x]
    <3>1. x \in 1 .. n - 1
      OBVIOUS
    <3>2. p[x] = q[x]
      BY <1>1, <3>1
    <3> QED BY <1>3, <3>2 DEF IsSplice
  <2>3. ASSUME NEW x \in 1 .. n - 1 - i PROVE r[i + k + x] = q[i + 1 + x]
    <3>1. x \in 1 .. (n - 1) - 0 - i /\ i + 0 + x = i + x /\ i + x \in 1 .. n - 1
          /\ ~(i + x <= i) /\ (i + x) + 1 = i + 1 + x
      OBVIOUS
    <3>2. r[i + k + x] = p[i + 0 + x]
      BY <1>3, <3>1 DEF IsSplice
    <3>3. p[i + x] = q[(i + x) + 1]
      BY <1>1, <3>1
    <3> QED BY <3>1, <3>2, <3>3
  <2> QED BY <2>1, <2>2, <2>3 DEF IsSplice
<1>5. r = Order!Splice(q, i + 1, 1, s)
  <2>1. 1 \in 0 .. 1 /\ i \in 0 .. n /\ i + 1 <= n
    OBVIOUS
  <2> QED BY <1>2, <1>4, <2>1, OneSplice, Zenon
<1> QED BY <1>5 DEF p, r

-----------------------------------------------------------------------------
(* Lists                                                                    *)

Fields == {"size", "items", "playable", "shuffled", "played"}

\* What each list is, whatever has happened to it.
IsTyped(l) ==
  /\ DOMAIN l = Fields
  /\ l.size \in Nat /\ l.playable \in Int /\ l.shuffled \in BOOLEAN
  /\ l.items \in [0 .. l.size - 1 -> Items]

\* The counter of playable items is high enough.
Enough(l) == Count(l.items, l.size) <= l.playable \/ l.size = 0

\* m is a list, and its counter is high enough if that of l is.
Carries(l, m) == IsTyped(m) /\ (Enough(l) => Enough(m))

\* A list whose orders are a permutation, shuffled or not.
IsList(l) == IsTyped(l) /\ Vector(l.items, l.size)

\* A list whose orders are as they should be.
Good(l) == IsList(l) /\ (~l.shuffled => InPlace(l.items, l.size))

\* QueuedOrder, found order by order, is what the orders spell.
LEMMA QueuedQueue ==
  ASSUME NEW l, IsList(l)
  PROVE  Queue(l.items, l.size, QueuedOrder(l))
<1> DEFINE n == l.size
           v == l.items
           q == QueuedOrder(l)
           Path(k) == LET i == FindOrder(l, k - 1) IN IF i = -1 THEN << >> ELSE l.items[i].path
<1>1. n \in Nat /\ Vector(v, n)
  BY DEF IsList, IsTyped
<1>2. ASSUME NEW i \in 0 .. n - 1 PROVE FindOrder(l, v[i].order) = i
  <2> DEFINE found == {j \in Indices(l) : l.items[j].order = v[i].order}
  <2>1. found = {i}
    BY <1>1 DEF Vector, Permuted, Indices
  <2>2. FindOrder(l, v[i].order) =
          IF found = {} THEN -1 ELSE CHOOSE x \in found : \A j \in found : x <= j
    BY DEF FindOrder
  <2> HIDE DEF found
  <2>3. i <= i /\ i \in found /\ found # {}
    BY <2>1
  <2>4. (CHOOSE x \in found : \A j \in found : x <= j) = i
    BY <2>1, <2>3
  <2> QED BY <2>2, <2>3, <2>4
<1>3. q = [k \in 1 .. n |-> Path(k)]
  BY DEF QueuedOrder
<1> HIDE DEF n, v, q
<1>4. ASSUME NEW i \in 0 .. n - 1
      PROVE  /\ v[i].order + 1 \in 1 .. n /\ v[i].path \in Paths
             /\ Path(v[i].order + 1) = v[i].path
  <2>1. v[i].order \in 0 .. n - 1 /\ v[i].path \in Paths
    BY <1>1 DEF Vector, Permuted, Items
  <2>2. v[i].order + 1 \in 1 .. n /\ (v[i].order + 1) - 1 = v[i].order /\ i # -1
    BY <1>1, <2>1
  <2>3. FindOrder(l, (v[i].order + 1) - 1) = i
    BY <1>2, <2>2 DEF n, v
  <2> QED BY <2>1, <2>2, <2>3 DEF v
<1>5. ASSUME NEW k \in 1 .. n PROVE Path(k) \in Paths
  <2>1. k - 1 \in 0 .. n - 1
    BY <1>1
  <2>2. PICK i \in 0 .. n - 1 : v[i].order = k - 1
    BY <1>1, <2>1, EveryOrder
  <2>3. v[i].order + 1 = k
    BY <1>1, <2>2
  <2> QED BY <1>4, <2>3
<1> HIDE DEF Path
<1>6. q \in [1 .. n -> Paths]
  BY <1>3, <1>5
<1>7. q \in Seq(Paths) /\ Len(q) = n
  BY <1>1, <1>6
<1>8. \A i \in 0 .. n - 1 : q[v[i].order + 1] = v[i].path
  BY <1>3, <1>4
<1>9. Queue(v, n, q)
  BY <1>7, <1>8 DEF Queue
<1> QED BY <1>9 DEF n, v, q

\* ... and is the only sequence they spell.
LEMMA QueuedIs ==
  ASSUME NEW l, IsList(l), NEW q, Queue(l.items, l.size, q)
  PROVE  QueuedOrder(l) = q
<1>1. l.size \in Nat /\ Vector(l.items, l.size)
  BY DEF IsList, IsTyped
<1>2. Queue(l.items, l.size, QueuedOrder(l))
  BY QueuedQueue
<1> QED BY <1>1, <1>2, OneQueue

\* PlayingOrder is the sequence of the paths.
LEMMA PlayingPaths ==
  ASSUME NEW l
  PROVE  PlayingOrder(l) = Paths1(l.items, l.size)
BY DEF PlayingOrder, Paths1

\* A list that is not shuffled plays in its queued order.
LEMMA PlayedAsQueued ==
  ASSUME NEW l, IsList(l), InPlace(l.items, l.size)
  PROVE  QueuedOrder(l) = PlayingOrder(l)
<1>1. Queue(l.items, l.size, Paths1(l.items, l.size))
  BY PathsQueue DEF IsList, IsTyped
<1> QED BY <1>1, QueuedIs, PlayingPaths

\* Playable counts the playable items.
LEMMA PlayableCount ==
  ASSUME NEW l
  PROVE  Playable(l) = Count(l.items, l.size)
BY DEF Playable, Count, Songs, Indices
-----------------------------------------------------------------------------
(* What each operation leaves                                               *)

\* The counter of playable items after an Add is high enough, also when it starts at -1.
LEMMA CountedEnough ==
  ASSUME NEW l, IsTyped(l), NEW k \in Nat, NEW c \in Nat, c <= Count(l.items, l.size) + k
  PROVE  Counted(l, k) \in Int /\ (Enough(l) => c <= Counted(l, k))
<1>1. l.playable \in Int /\ l.size \in Nat /\ Count(l.items, l.size) \in Nat
  BY SongsFinite DEF IsTyped
<1>2. CASE l.size = 0
  <2>1. Songs(l.items, l.size) = {}
    BY <1>2 DEF Songs
  <2>2. Count(l.items, l.size) = 0
    BY <2>1, FS_EmptySet DEF Count
  <2> QED BY <1>1, <2>2 DEF Counted
<1>3. CASE l.size # 0
  BY <1>1, <1>3 DEF Enough, Counted
<1> QED BY <1>2, <1>3

\* A list of other items that counts no more playable ones carries over.
LEMMA CarriesItems ==
  ASSUME NEW l, IsTyped(l), NEW m, NEW n \in Nat, DOMAIN m = Fields, m.size = n,
         m.items \in [0 .. n - 1 -> Items], m.playable = l.playable, m.shuffled \in BOOLEAN,
         Count(m.items, n) <= Count(l.items, l.size), l.size = 0 => n = 0
  PROVE  Carries(l, m)
<1>1. IsTyped(m)
  BY DEF IsTyped
<1>2. Count(m.items, n) \in Nat /\ Count(l.items, l.size) \in Nat /\ l.playable \in Int
  BY SongsFinite DEF IsTyped
<1>3. Enough(l) => Enough(m)
  BY <1>2 DEF Enough
<1> QED BY <1>1, <1>3 DEF Carries

\* A splice behind the last song is a concatenation.
LEMMA SpliceAtEnd ==
  ASSUME NEW n \in Nat, NEW k \in Nat, NEW q \in Seq(Paths), Len(q) = n,
         NEW s \in Seq(Paths), Len(s) = k
  PROVE  Order!Splice(q, n + 1, 0, s) = Cat(q, s)
<1> DEFINE c == Cat(q, s)
<1>1. n \in 0 .. n /\ 0 \in 0 .. 1 /\ n + 0 <= n
  OBVIOUS
<1>2. IsSplice(Order!Splice(q, n + 1, 0, s), q, n, n, 0, s, k)
  BY <1>1, Spliced
<1>3. /\ c \in Seq(Paths) /\ Len(c) = n + k
      /\ \A x \in 1 .. n : c[x] = q[x]
      /\ \A x \in 1 .. k : c[n + x] = s[x]
  BY Joined
<1> HIDE DEF c
<1>4. IsSplice(c, q, n, n, 0, s, k)
  BY <1>3 DEF IsSplice
<1>5. Order!Splice(q, n + 1, 0, s) = c
  BY <1>1, <1>2, <1>4, OneSplice, Zenon
<1> QED BY <1>5 DEF c

\* The items of a list with new ones put at a position.
PutItem(l, paths, k, pos, i) ==
  IF i < pos THEN l.items[i]
  ELSE IF i < pos + k THEN NewItem(paths[i - pos + 1], i)
  ELSE Bumped(l.items[i - k], pos, k)

\* m is l with k new items put at a position.
Put(l, m, paths, k, pos) ==
  /\ IsTyped(l) /\ k \in Nat /\ paths \in Seq(Paths) /\ Len(paths) = k /\ pos \in 0 .. l.size
  /\ DOMAIN m = Fields /\ m.size = l.size + k /\ m.shuffled = l.shuffled
  /\ m.playable = Counted(l, k)
  /\ m.items = [i \in 0 .. l.size + k - 1 |-> PutItem(l, paths, k, pos, i)]

\* The items in front of the new ones, the new ones and those behind them.
PutParts(v, n, w, paths, k, pos) ==
  /\ w \in [0 .. n + k - 1 -> Items]
  /\ \A i \in 0 .. pos - 1 : i \in 0 .. n - 1 /\ w[i] = v[i] /\ w[i] \in Items
  /\ \A i \in pos .. pos + k - 1 :
       /\ i - pos + 1 \in 1 .. k /\ w[i] \in Items
       /\ w[i].path = paths[i - pos + 1] /\ w[i].order = i
  /\ \A i \in pos + k .. n + k - 1 :
       w[i] = Bumped(v[i - k], pos, k) /\ w[i] \in Items /\ w[i].path = v[i - k].path

\* What Add and Insert make of the vector.
LEMMA PutItems ==
  ASSUME NEW l, NEW m, NEW paths, NEW k, NEW pos, Put(l, m, paths, k, pos)
  PROVE  PutParts(l.items, l.size, m.items, paths, k, pos)
<1> DEFINE n == l.size
           v == l.items
           w == m.items
<1>1. n \in Nat /\ k \in Nat /\ pos \in 0 .. n /\ IsTyped(l) /\ paths \in Seq(Paths) /\ Len(paths) = k
  BY DEF IsTyped, Put
<1>2. /\ \A x \in 1 .. k : paths[x] \in Paths
      /\ w = [i \in 0 .. n + k - 1 |-> PutItem(l, paths, k, pos, i)]
  BY <1>1 DEF Put
<1>3. \A i \in 0 .. n - 1 : v[i] \in Items
  BY <1>1 DEF IsTyped
<1> HIDE DEF n
<1>4. ASSUME NEW i \in 0 .. pos - 1 PROVE i \in 0 .. n - 1 /\ w[i] = v[i] /\ w[i] \in Items
  <2>1. i \in 0 .. n - 1 /\ i \in 0 .. n + k - 1 /\ i < pos
    BY <1>1
  <2>2. w[i] = PutItem(l, paths, k, pos, i)
    BY <1>2, <2>1, Zenon
  <2>3. w[i] = v[i]
    BY <2>1, <2>2 DEF PutItem
  <2> QED BY <1>3, <2>1, <2>3, Zenon
<1>5. ASSUME NEW i \in pos .. pos + k - 1
      PROVE  /\ i - pos + 1 \in 1 .. k
             /\ w[i] \in Items /\ w[i].path = paths[i - pos + 1] /\ w[i].order = i
  <2>1. i - pos + 1 \in 1 .. k /\ i \in Nat /\ i \in 0 .. n + k - 1 /\ ~(i < pos) /\ i < pos + k
    BY <1>1
  <2>2. w[i] = NewItem(paths[i - pos + 1], i)
    BY <1>2, <2>1 DEF PutItem
  <2>3. paths[i - pos + 1] \in Paths
    BY <1>2, <2>1
  <2> QED BY <2>1, <2>2, <2>3, NewItemFields
<1>6. ASSUME NEW i \in pos + k .. n + k - 1
      PROVE  w[i] = Bumped(v[i - k], pos, k) /\ w[i] \in Items /\ w[i].path = v[i - k].path
  <2>1. i - k \in 0 .. n - 1 /\ i \in 0 .. n + k - 1 /\ ~(i < pos) /\ ~(i < pos + k) /\ pos \in Nat
    BY <1>1
  <2>2. w[i] = Bumped(v[i - k], pos, k)
    BY <1>2, <2>1 DEF PutItem
  <2>3. Bumped(v[i - k], pos, k) \in Items /\ Bumped(v[i - k], pos, k).path = v[i - k].path
    BY <1>1, <1>3, <2>1, BumpedItem, Zenon
  <2> QED BY <2>2, <2>3
<1>7. w \in [0 .. n + k - 1 -> Items]
  <2>1. ASSUME NEW i \in 0 .. n + k - 1 PROVE w[i] \in Items
    <3>1. i \in 0 .. pos - 1 \/ i \in pos .. pos + k - 1 \/ i \in pos + k .. n + k - 1
      BY <1>1
    <3> QED BY <1>4, <1>5, <1>6, <3>1
  <2> QED BY <1>2, <2>1
<1> HIDE DEF v, w
<1>8. PutParts(v, n, w, paths, k, pos)
  BY <1>4, <1>5, <1>6, <1>7, Zenon DEF PutParts
<1> QED BY <1>8 DEF n, v, w

\* The counter goes up with the items, whatever the orders are.
LEMMA PutCarries ==
  ASSUME NEW l, NEW m, NEW paths, NEW k, NEW pos, Put(l, m, paths, k, pos)
  PROVE  Carries(l, m)
<1> DEFINE n == l.size
           v == l.items
           w == m.items
           s == n + k
<1>10. IsTyped(l) /\ k \in Nat /\ pos \in 0 .. l.size
  BY Zenon DEF Put
<1>0. n \in Nat /\ s \in Nat /\ v \in [0 .. n - 1 -> Items]
  BY <1>10 DEF IsTyped
<1>9. m.shuffled \in BOOLEAN
  BY <1>10, Zenon DEF IsTyped, Put
<1>1. /\ n \in Nat /\ s \in Nat /\ v \in [0 .. n - 1 -> Items]
      /\ m.size = s /\ m.playable = Counted(l, k) /\ DOMAIN m = Fields /\ m.shuffled \in BOOLEAN
  BY <1>0, <1>9, Zenon DEF Put
<1>11. PutParts(v, n, w, paths, k, pos)
  BY PutItems
<1>2. w \in [0 .. s - 1 -> Items]
  <2>1. w \in [0 .. n + k - 1 -> Items]
    BY <1>11, Zenon DEF PutParts
  <2>2. n + k - 1 = s - 1
    BY <1>0, <1>10
  <2> HIDE DEF w, s
  <2> QED BY <2>1, <2>2
<1>3. /\ \A i \in 0 .. pos - 1 : w[i] = v[i]
      /\ \A i \in pos + k .. n + k - 1 : w[i] = Bumped(v[i - k], pos, k)
  BY <1>11 DEF PutParts
<1>4. pos \in 0 .. n
  BY <1>10
<1>5. Count(w, s) <= Count(v, n) + k
  <2> HIDE DEF n, v, w
  <2>1. n \in Nat /\ k \in Nat /\ pos \in 0 .. n /\ v \in [0 .. n - 1 -> Items]
    BY <1>0, <1>4, <1>10
  <2>2. Count(w, n + k) <= Count(v, n) + k
    BY ONLY <1>3, <2>1, InsertedCount
  <2> QED BY <2>2
<1>7. Count(w, s) \in Nat
  BY <1>1, SongsFinite
<1>8. Counted(l, k) \in Int /\ (Enough(l) => Count(w, s) <= Counted(l, k))
  <2> HIDE DEF s, w
  <2> QED BY <1>5, <1>7, <1>10, CountedEnough DEF n, v
<1> QED BY <1>1, <1>2, <1>8 DEF Carries, IsTyped, Enough

\* What Add and Insert leave of a list in order: the songs where they belong.
LEMMA PutIn ==
  ASSUME NEW l, Good(l), NEW m, NEW paths, NEW k, NEW pos, Put(l, m, paths, k, pos),
         pos = l.size \/ ~l.shuffled
  PROVE  /\ Good(m)
         /\ PlayingOrder(m) = Order!Splice(PlayingOrder(l), pos + 1, 0, paths)
         /\ pos = l.size => QueuedOrder(m) = Cat(QueuedOrder(l), paths)
<1> DEFINE n == l.size
           v == l.items
           w == m.items
<1>7. k \in Nat /\ paths \in Seq(Paths) /\ Len(paths) = k /\ pos \in 0 .. n
  BY Zenon DEF Put
<1>1. /\ n \in Nat /\ Vector(v, n) /\ l.shuffled \in BOOLEAN /\ pos \in 0 .. n
      /\ (pos = n \/ InPlace(v, n)) /\ IsTyped(l) /\ v \in [0 .. n - 1 -> Items]
  BY <1>7 DEF Good, IsList, IsTyped
<1>8. PutParts(v, n, w, paths, k, pos)
  BY PutItems
<1>2. PutParts(v, n, w, paths, k, pos) /\ w \in [0 .. n + k - 1 -> Items]
  BY <1>8 DEF PutParts
<1>5. IsTyped(m)
  BY <1>1, PutCarries DEF Carries
<1>6. n + k \in Nat
  BY <1>1, <1>7
<1>3. IsTyped(m) /\ m.size = n + k /\ n + k \in Nat /\ m.shuffled = l.shuffled
  BY <1>5, <1>6, Zenon DEF Put
<1> HIDE DEF n, v, w
<1>4. /\ \A i \in 0 .. pos - 1 : w[i] = v[i]
      /\ \A i \in pos .. pos + k - 1 : w[i].order = i /\ w[i].path = paths[i - pos + 1]
      /\ \A i \in pos + k .. n + k - 1 : w[i] = Bumped(v[i - k], pos, k) /\ w[i].path = v[i - k].path
  BY <1>2, Zenon DEF PutParts
<1>9. Vector(w, n + k) /\ (InPlace(v, n) => InPlace(w, n + k))
  <2>1. n \in Nat /\ k \in Nat /\ pos \in 0 .. n /\ Vector(v, n) /\ (pos = n \/ InPlace(v, n))
    BY <1>1, <1>7
  <2>2. \A i \in 0 .. pos - 1 : w[i] = v[i]
    BY <1>4
  <2>3. \A i \in pos + k .. n + k - 1 : w[i] = Bumped(v[i - k], pos, k)
    BY <1>4
  <2>4. \A i \in pos .. pos + k - 1 : w[i].order = i
    BY <1>4
  <2> QED BY ONLY <1>2, <2>1, <2>2, <2>3, <2>4, Inserted
<1>12. Good(m)
  BY <1>1, <1>3, <1>9 DEF Good, IsList, n, v, w
<1>13. PlayingOrder(m) = Order!Splice(PlayingOrder(l), pos + 1, 0, paths)
  <2>1. Paths1(w, n + k) = Order!Splice(Paths1(v, n), pos + 1, 0, paths)
    <3>1. PutPaths(v, n, w, pos, paths, k)
      BY <1>1, <1>2, <1>4, <1>7, Zenon DEF PutPaths
    <3> QED BY <3>1, SplicedPaths
  <2> QED BY <1>3, <2>1, PlayingPaths DEF n, v, w
<1>14. ASSUME pos = n PROVE QueuedOrder(m) = Cat(QueuedOrder(l), paths)
  <2> DEFINE q == QueuedOrder(l)
  <2>1. Queue(v, n, q)
    BY QueuedQueue DEF Good, n, v
  <2> HIDE DEF q
  <2>2. \A i \in 0 .. n - 1 : w[i] = v[i]
    BY <1>4, <1>14
  <2>3. \A i \in n .. n + k - 1 : w[i].order = i /\ w[i].path = paths[i - n + 1]
    BY <1>4, <1>14
  <2>4. Queue(w, n + k, Cat(q, paths))
    <3>1. n \in Nat /\ k \in Nat /\ Vector(v, n) /\ paths \in Seq(Paths) /\ Len(paths) = k
      BY <1>1, <1>7
    <3>2. Appended(v, n, w, paths, k)
      BY <2>2, <2>3, Zenon DEF Appended
    <3> QED BY <2>1, <3>1, <3>2, AppendedQueue
  <2> QED BY <1>3, <1>12, <2>4, QueuedIs DEF Good, q, w
<1> QED BY <1>12, <1>13, <1>14 DEF n

\* Add puts its songs at the end (PlayList.cpp:31-83).
LEMMA AddAllPuts ==
  ASSUME NEW l, IsTyped(l), NEW k \in Nat, NEW paths \in Seq(Paths), Len(paths) = k
  PROVE  Put(l, AddAll(l, paths), paths, k, l.size)
<1> DEFINE m == AddAll(l, paths)
           its == [i \in 0 .. l.size + k - 1 |-> PutItem(l, paths, k, l.size, i)]
<1>1. l.size \in Nat
  BY DEF IsTyped
<1>2. [i \in 0 .. l.size + k - 1 |->
         IF i < l.size THEN l.items[i] ELSE NewItem(paths[i - l.size + 1], i)] = its
  BY <1>1 DEF PutItem
<1>3. m = [l EXCEPT !.size = l.size + k, !.items = its, !.playable = Counted(l, k)]
  BY <1>2, Zenon DEF AddAll
<1> HIDE DEF its, m
<1>4. /\ DOMAIN m = Fields /\ m.size = l.size + k /\ m.items = its /\ m.playable = Counted(l, k)
      /\ m.shuffled = l.shuffled
  BY <1>3 DEF IsTyped, Fields
<1>5. l.size \in 0 .. l.size
  BY <1>1
<1> QED BY <1>4, <1>5 DEF Put, its, m

\* Insert puts its songs at the position (PlayList.cpp:85-126).
LEMMA InsertAllPuts ==
  ASSUME NEW l, IsTyped(l), NEW k \in Nat, NEW paths \in Seq(Paths), Len(paths) = k,
         NEW pos \in 0 .. l.size
  PROVE  Put(l, InsertAll(l, paths, pos), paths, k, pos)
<1> DEFINE m == InsertAll(l, paths, pos)
           its == [i \in 0 .. l.size + k - 1 |-> PutItem(l, paths, k, pos, i)]
<1>1. l.size \in Nat
  BY DEF IsTyped
<1>2. CASE pos = l.size
  <2>1. m = AddAll(l, paths)
    BY <1>1, <1>2 DEF InsertAll, Indices
  <2> HIDE DEF m
  <2> QED BY <1>2, <2>1, AddAllPuts DEF m
<1>3. CASE pos # l.size
  <2>1. [i \in 0 .. l.size + k - 1 |->
           IF i < pos THEN l.items[i]
           ELSE IF i < pos + k THEN NewItem(paths[i - pos + 1], i)
           ELSE Bumped(l.items[i - k], pos, k)] = its
    BY DEF PutItem
  <2>2. pos \in Indices(l)
    BY <1>1, <1>3 DEF Indices
  <2>3. m = [l EXCEPT !.size = l.size + k, !.items = its, !.playable = Counted(l, k)]
    BY <2>1, <2>2, Zenon DEF InsertAll
  <2> HIDE DEF its, m
  <2>4. /\ DOMAIN m = Fields /\ m.size = l.size + k /\ m.items = its /\ m.playable = Counted(l, k)
        /\ m.shuffled = l.shuffled
    BY <2>3 DEF IsTyped, Fields
  <2> QED BY <2>4 DEF Put, its, m
<1> QED BY <1>2, <1>3

\* What Add leaves of a list in order.
LEMMA AddAllLeaves ==
  ASSUME NEW l, Good(l), NEW k \in Nat, NEW paths \in Seq(Paths), Len(paths) = k
  PROVE  /\ Good(AddAll(l, paths))
         /\ AddAll(l, paths).shuffled = l.shuffled
         /\ PlayingOrder(AddAll(l, paths)) = Cat(PlayingOrder(l), paths)
         /\ QueuedOrder(AddAll(l, paths)) = Cat(QueuedOrder(l), paths)
<1> DEFINE m == AddAll(l, paths)
<1>1. l.size \in Nat /\ l.size \in 0 .. l.size
  BY DEF Good, IsList, IsTyped
<1>4. Put(l, m, paths, k, l.size)
  BY AddAllPuts DEF Good, IsList
<1> HIDE DEF m
<1>2. l.size = l.size \/ ~l.shuffled
  OBVIOUS
<1>5. /\ Good(m) /\ PlayingOrder(m) = Order!Splice(PlayingOrder(l), l.size + 1, 0, paths)
      /\ QueuedOrder(m) = Cat(QueuedOrder(l), paths)
  BY <1>2, <1>4, PutIn, SMTT(30)
<1>6. Order!Splice(PlayingOrder(l), l.size + 1, 0, paths) = Cat(PlayingOrder(l), paths)
  <2>1. PlayingOrder(l) \in Seq(Paths) /\ Len(PlayingOrder(l)) = l.size
    BY <1>1, PlayingPaths, PathsSequence DEF Good, IsList, IsTyped, Vector
  <2> QED BY <1>1, <2>1, SpliceAtEnd
<1> QED BY <1>4, <1>5, <1>6 DEF Put, m

\* What Insert leaves, in a list that is not shuffled.
LEMMA InsertAllLeaves ==
  ASSUME NEW l, Good(l), NEW k \in Nat, NEW paths \in Seq(Paths), Len(paths) = k,
         NEW pos \in 0 .. l.size, ~l.shuffled
  PROVE  /\ Good(InsertAll(l, paths, pos))
         /\ InsertAll(l, paths, pos).shuffled = l.shuffled
         /\ PlayingOrder(InsertAll(l, paths, pos)) = Order!Splice(PlayingOrder(l), pos + 1, 0, paths)
<1> DEFINE m == InsertAll(l, paths, pos)
<1>1. Put(l, m, paths, k, pos)
  BY InsertAllPuts DEF Good, IsList
<1> HIDE DEF m
<1>2. Good(m) /\ PlayingOrder(m) = Order!Splice(PlayingOrder(l), pos + 1, 0, paths)
  BY <1>1, PutIn, SMTT(30)
<1> QED BY <1>1, <1>2 DEF Put, m

\* m is l without the item at pos (Remove(position), PlayList.cpp:329-341).
Taken(l, m, pos) ==
  /\ DOMAIN m = Fields /\ m.size = l.size - 1
  /\ m.playable = l.playable /\ m.shuffled = l.shuffled
  /\ m.items = [i \in 0 .. l.size - 2 |->
                  Lowered(l.items[Skip(pos, i)], l.items[pos].order, l.size - 1)]

\* Remove(position) takes the item out.
LEMMA RemoveTakes ==
  ASSUME NEW l, IsTyped(l), NEW pos \in 0 .. l.size - 1
  PROVE  Taken(l, Remove(l, pos), pos)
<1> DEFINE w == [i \in 0 .. l.size - 2 |->
                   Lowered(l.items[Skip(pos, i)], l.items[pos].order, l.size - 1)]
           m == Remove(l, pos)
<1>1. pos \in Indices(l)
  BY DEF IsTyped, Indices
<1>2. [i \in 0 .. l.size - 2 |->
         Lowered(IF i < pos THEN l.items[i] ELSE l.items[i + 1], l.items[pos].order, l.size - 1)] = w
  <2>1. \A i \in 0 .. l.size - 2 :
          (IF i < pos THEN l.items[i] ELSE l.items[i + 1]) = l.items[Skip(pos, i)]
    BY DEF Skip
  <2> QED BY <2>1
<1>3. m = [l EXCEPT !.size = l.size - 1, !.items = w]
  BY <1>1, <1>2, Zenon DEF Remove
<1> HIDE DEF w, m
<1>4. /\ DOMAIN m = Fields /\ m.size = l.size - 1 /\ m.items = w
      /\ m.playable = l.playable /\ m.shuffled = l.shuffled
  BY <1>3 DEF IsTyped, Fields
<1> QED BY <1>4 DEF Taken, m, w

\* What Remove(position) leaves carries the counter, which it does not touch.
LEMMA TakenCarries ==
  ASSUME NEW l, IsTyped(l), NEW pos \in 0 .. l.size - 1, NEW m, Taken(l, m, pos)
  PROVE  Carries(l, m)
<1> DEFINE n == l.size
           v == l.items
           o == v[pos].order
           k == n - 1
           f == [i \in 0 .. k - 1 |-> Skip(pos, i)]
           w == [i \in 0 .. k - 1 |-> Lowered(v[f[i]], o, k)]
<1>1. n \in Nat /\ k \in Nat /\ v \in [0 .. n - 1 -> Items] /\ pos \in 0 .. n - 1 /\ n - 2 = k - 1
  BY DEF IsTyped
<1>2. o \in Nat
  BY <1>1 DEF Items
<1>3. f \in [0 .. k - 1 -> 0 .. n - 1] /\ \A i, j \in 0 .. k - 1 : f[i] = f[j] => i = j
  BY <1>1 DEF Skip
<1>4. m.items = w
  <2>1. m.items = [i \in 0 .. n - 2 |-> Lowered(v[Skip(pos, i)], o, n - 1)]
    BY Zenon DEF Taken
  <2>2. \A i \in 0 .. k - 1 : v[Skip(pos, i)] = v[f[i]]
    OBVIOUS
  <2> HIDE DEF f, o
  <2> QED BY <1>1, <2>1, <2>2
<1>5. w \in [0 .. k - 1 -> Items] /\ Count(w, k) <= Count(v, n)
  <2> HIDE DEF w, k, f, o, n, v
  <2>1. w = [i \in 0 .. k - 1 |-> Lowered(v[f[i]], o, k)]
    BY Zenon DEF w
  <2>2. Erased(v, n, w, k, f, o, k)
    BY <1>1, <1>2, <1>3, <2>1, Zenon DEF Erased
  <2> QED BY <2>2, KeptCount, Zenon
<1>6. DOMAIN m = Fields /\ m.size = k /\ m.playable = l.playable /\ m.shuffled = l.shuffled
  BY Zenon DEF Taken
<1>7. m.shuffled \in BOOLEAN
  BY <1>6, Zenon DEF IsTyped
<1>8. l.size # 0
  BY <1>1
<1> HIDE DEF w, k, f, o
<1> QED BY <1>1, <1>4, <1>5, <1>6, <1>7, <1>8, CarriesItems DEF n, v

\* What Remove(position) leaves of a list in order.
LEMMA RemoveLeaves ==
  ASSUME NEW l, Good(l), NEW pos \in 0 .. l.size - 1
  PROVE  LET m == Remove(l, pos)
         IN  /\ Good(m) /\ m.size = l.size - 1 /\ m.shuffled = l.shuffled
             /\ PlayingOrder(m) = Order!RemoveAt(PlayingOrder(l), pos + 1)
             /\ QueuedOrder(m) = Order!RemoveAt(QueuedOrder(l), l.items[pos].order + 1)
<1> DEFINE n == l.size
           v == l.items
           o == v[pos].order
           m == Remove(l, pos)
           w == m.items
<1>1. n \in Nat /\ Vector(v, n) /\ pos \in 0 .. n - 1 /\ IsTyped(l)
  BY DEF Good, IsList, IsTyped
<1>2. Taken(l, m, pos) /\ Carries(l, m)
  BY <1>1, RemoveTakes, TakenCarries
<1> HIDE DEF w, m
<1>3. DOMAIN m = Fields /\ m.size = n - 1 /\ m.shuffled = l.shuffled
  BY <1>2, Zenon DEF Taken
<1>4. IsTyped(m) /\ w \in [0 .. n - 2 -> Items]
  <2>1. IsTyped(m) /\ w \in [0 .. (n - 1) - 1 -> Items]
    BY <1>2, <1>3 DEF Carries, IsTyped, w
  <2>2. (n - 1) - 1 = n - 2
    BY <1>1
  <2> QED BY <2>1, <2>2
<1>5. \A i \in 0 .. n - 2 : w[i] = Lowered(v[Skip(pos, i)], v[pos].order, n - 1)
  BY <1>2 DEF Taken, w
<1> HIDE DEF n, v
<1>7. /\ Vector(w, n - 1) /\ (InPlace(v, n) => InPlace(w, n - 1))
      /\ \A i \in 0 .. n - 2 :
           LET j == Skip(pos, i)
           IN  /\ w[i].path = v[j].path
               /\ w[i].order = IF v[j].order > v[pos].order THEN v[j].order - 1 ELSE v[j].order
  BY <1>1, <1>4, <1>5, Removed
<1>8. Good(m)
  BY <1>3, <1>4, <1>7 DEF Good, IsList, n, v, w
<1>9. PlayingOrder(m) = Order!RemoveAt(PlayingOrder(l), pos + 1)
  <2>1. v \in [0 .. n - 1 -> Items]
    BY <1>1 DEF Vector
  <2>2. \A i \in 0 .. n - 2 : w[i].path = v[Skip(pos, i)].path
    BY <1>7
  <2>3. Paths1(w, n - 1) = Order!RemoveAt(Paths1(v, n), pos + 1)
    BY <1>1, <1>4, <2>1, <2>2, RemovedPaths
  <2> QED BY <1>3, <2>3, PlayingPaths DEF n, v, w
<1>10. QueuedOrder(m) = Order!RemoveAt(QueuedOrder(l), o + 1)
  <2> DEFINE q == QueuedOrder(l)
  <2>1. Queue(v, n, q)
    BY QueuedQueue DEF Good, n, v
  <2> HIDE DEF q
  <2>2. Queue(w, n - 1, Order!RemoveAt(q, v[pos].order + 1))
    BY <1>1, <1>7, <2>1, RemovedQueue
  <2> QED BY <1>3, <1>8, <2>2, QueuedIs DEF Good, q, n, w
<1> QED BY <1>3, <1>8, <1>9, <1>10 DEF m, v, n

\* How many members of K are lower than k.
Rank(K, k) == Cardinality({j \in K : j < k})

\* Nth enumerates a finite set of positions, each once.
LEMMA NthOf ==
  ASSUME NEW K \in SUBSET Nat, IsFiniteSet(K)
  PROVE  /\ \A i \in 0 .. Cardinality(K) - 1 : Nth(K, i) \in K /\ Rank(K, Nth(K, i)) = i
         /\ \A j, k \in K : Rank(K, j) = Rank(K, k) => j = k
<1> DEFINE c == Cardinality(K)
           Below(k) == {j \in K : j < k}
           r == [k \in K |-> Rank(K, k)]
<1>1. c \in Nat
  BY FS_CardinalityType
<1>2. ASSUME NEW k \in K PROVE IsFiniteSet(Below(k)) /\ Rank(K, k) \in 0 .. c - 1
  <2>1. Below(k) \subseteq K \ {k}
    OBVIOUS
  <2>2. IsFiniteSet(K \ {k}) /\ Cardinality(K \ {k}) = c - 1
    BY FS_RemoveElement
  <2>3. IsFiniteSet(Below(k)) /\ Cardinality(Below(k)) <= c - 1
    BY <2>1, <2>2, FS_Subset
  <2>4. Cardinality(Below(k)) \in Nat
    BY <2>3, FS_CardinalityType
  <2> QED BY <1>1, <2>3, <2>4 DEF Rank
<1>3. ASSUME NEW j \in K, NEW k \in K, j < k PROVE Rank(K, j) # Rank(K, k)
  <2>4. /\ K \in SUBSET Nat /\ j \in K /\ k \in K /\ j < k /\ j \in Int /\ k \in Int
        /\ \A x \in K : x \in Int
    BY <1>3
  <2>5. \A x \in K : x < j => x < k
    BY ONLY <2>4
  <2>6. Below(j) \subseteq Below(k)
    BY <2>5, Zenon
  <2>7. j \in Below(k)
    BY <1>3
  <2>8. ~(j < j)
    BY ONLY <2>4
  <2>9. j \notin Below(j)
    BY <2>8, Zenon
  <2>1. Below(j) \subseteq Below(k) /\ j \in Below(k) /\ j \notin Below(j)
    BY <2>6, <2>7, <2>9
  <2>2. IsFiniteSet(Below(k)) /\ Below(j) # Below(k)
    BY <1>2, <2>1
  <2>3. Cardinality(Below(j)) # Cardinality(Below(k))
    <3> HIDE DEF Below
    <3> QED BY <2>1, <2>2, FS_Subset
  <2> QED BY <2>3 DEF Rank
<1>4. \A j, k \in K : Rank(K, j) = Rank(K, k) => j = k
  <2>1. \A j, k \in K : j < k \/ k < j \/ j = k
    OBVIOUS
  <2> QED BY <1>3, <2>1
<1>5. r \in Injection(K, 0 .. c - 1)
  BY <1>2, <1>4 DEF Injection, IsInjective
<1>6. r \in Surjection(K, 0 .. c - 1)
  <2>2. Cardinality(K) = c
    OBVIOUS
  <2> HIDE DEF r, c
  <2>1. IsFiniteSet(0 .. c - 1) /\ Cardinality(0 .. c - 1) = c
    BY <1>1, FS_Interval
  <2>3. /\ IsFiniteSet(K) /\ IsFiniteSet(0 .. c - 1) /\ r \in Injection(K, 0 .. c - 1)
        /\ Cardinality(K) = Cardinality(0 .. c - 1)
    BY <1>5, <2>1, <2>2
  <2> QED BY ONLY <2>3, FS_Injection
<1>7. ASSUME NEW i \in 0 .. c - 1 PROVE Nth(K, i) \in K /\ Rank(K, Nth(K, i)) = i
  <2>1. \E k \in K : r[k] = i
    BY <1>6 DEF Surjection
  <2>2. \E k \in K : Rank(K, k) = i
    BY <2>1
  <2>3. Nth(K, i) = CHOOSE k \in K : Rank(K, k) = i
    BY DEF Nth, Rank
  <2> QED BY <2>2, <2>3
<1> QED BY <1>4, <1>7

\* The i-th of the positions without g is i, or i + 1 from g on.
LEMMA NthKept ==
  ASSUME NEW n \in Nat, NEW g \in 0 .. n - 1
  PROVE  LET kept == (0 .. n - 1) \ {g}
         IN  /\ Cardinality(kept) = n - 1
             /\ \A i \in 0 .. n - 2 : Nth(kept, i) = Skip(g, i)
<1> DEFINE K == (0 .. n - 1) \ {g}
<1>1. K \in SUBSET Nat /\ IsFiniteSet(K) /\ Cardinality(K) = n - 1
  <2> DEFINE S == 0 .. n - 1
  <2>1. IsFiniteSet(S) /\ Cardinality(S) = n /\ g \in S
    BY FS_Interval
  <2>2. K \in SUBSET Nat
    OBVIOUS
  <2> HIDE DEF S
  <2>3. IsFiniteSet(S \ {g}) /\ Cardinality(S \ {g}) = n - 1
    BY <2>1, FS_RemoveElement
  <2> QED BY <2>2, <2>3 DEF S
<1>2. ASSUME NEW k \in K PROVE Rank(K, k) = IF k < g THEN k ELSE k - 1
  <2>1. k \in 0 .. n - 1 /\ k # g
    OBVIOUS
  <2>2. IsFiniteSet(0 .. k - 1) /\ Cardinality(0 .. k - 1) = k
    BY <2>1, IntervalSizes
  <2>3. CASE k < g
    <3>1. {j \in K : j < k} = 0 .. k - 1
      BY <2>1, <2>3
    <3> QED BY <2>2, <2>3, <3>1 DEF Rank
  <2>4. CASE k > g
    <3>1. {j \in K : j < k} = (0 .. k - 1) \ {g} /\ g \in 0 .. k - 1
      BY <2>1, <2>4
    <3>2. Cardinality((0 .. k - 1) \ {g}) = k - 1
      BY <2>1, <2>2, <3>1, FS_RemoveElement
    <3>3. Rank(K, k) = k - 1
      BY <3>1, <3>2, Zenon DEF Rank
    <3> QED BY <2>1, <2>4, <3>3
  <2> QED BY <2>1, <2>3, <2>4
<1>3. ASSUME NEW i \in 0 .. n - 2 PROVE Skip(g, i) \in K /\ Rank(K, Skip(g, i)) = i
  <2>1. Skip(g, i) \in K
    BY DEF Skip
  <2> QED BY <1>2, <2>1 DEF Skip
<1> HIDE DEF K
<1>4. ASSUME NEW i \in 0 .. n - 2 PROVE Nth(K, i) = Skip(g, i)
  <2>1. i \in 0 .. Cardinality(K) - 1
    BY <1>1
  <2>2. Nth(K, i) \in K /\ Rank(K, Nth(K, i)) = i
    BY <1>1, <2>1, NthOf
  <2>3. \A j, k \in K : Rank(K, j) = Rank(K, k) => j = k
    BY <1>1, NthOf
  <2> QED BY <1>3, <2>2, <2>3, Zenon
<1> QED BY <1>1, <1>4 DEF K

\* A set of positions that is not empty has a lowest one.
LEMMA LowestOf ==
  ASSUME NEW n \in Nat, NEW K \in SUBSET (0 .. n - 1), K # {}
  PROVE  \E x \in K : \A j \in K : x <= j
<1>1. IsFiniteSet(K) /\ K \in SUBSET Nat
  <2>1. IsFiniteSet(0 .. n - 1)
    BY FS_Interval
  <2>2. K \in SUBSET Nat
    OBVIOUS
  <2> QED BY <2>1, <2>2, FS_Subset
<1>2. Cardinality(K) \in Nat /\ Cardinality(K) # 0
  BY <1>1, FS_CardinalityType, FS_EmptySet
<1>3. 0 \in 0 .. Cardinality(K) - 1
  BY <1>2
<1> DEFINE x == Nth(K, 0)
<1>4. x \in K /\ Rank(K, x) = 0
  BY <1>1, <1>3, NthOf
<1> HIDE DEF x
<1> DEFINE below == {j \in K : j < x}
<1>5. IsFiniteSet(below) /\ Cardinality(below) = 0
  BY <1>1, <1>4, FS_Subset DEF Rank
<1>6. below = {}
  <2> HIDE DEF below
  <2> QED BY <1>5, FS_EmptySet
<1>7. \A j \in K : ~(j < x)
  BY <1>6
<1>8. \A j \in K : x <= j
  BY <1>1, <1>4, <1>7
<1> QED BY <1>4, <1>8

\* ... and a highest one.
LEMMA HighestOf ==
  ASSUME NEW n \in Nat, NEW K \in SUBSET (0 .. n - 1), K # {}
  PROVE  \E x \in K : \A j \in K : j <= x
<1> DEFINE M == {j \in 0 .. n - 1 : n - 1 - j \in K}
<1>1. \A k \in K : k \in 0 .. n - 1
  OBVIOUS
<1>2. PICK k \in K : TRUE
  OBVIOUS
<1>3. n - 1 - k \in 0 .. n - 1 /\ n - 1 - (n - 1 - k) = k
  BY <1>1, <1>2
<1>4. n - 1 - k \in M
  BY <1>2, <1>3
<1>5. M \in SUBSET (0 .. n - 1) /\ M # {}
  BY <1>4
<1>6. PICK y \in M : \A j \in M : y <= j
  <2> HIDE DEF M
  <2> QED BY <1>5, LowestOf
<1>7. y \in 0 .. n - 1 /\ n - 1 - y \in K
  BY <1>6
<1>8. ASSUME NEW j \in K PROVE j <= n - 1 - y
  <2>1. j \in 0 .. n - 1 /\ n - 1 - j \in 0 .. n - 1 /\ n - 1 - (n - 1 - j) = j
    BY <1>1
  <2>2. n - 1 - j \in M
    BY <2>1
  <2>3. y <= n - 1 - j
    BY <1>6, <2>2
  <2> QED BY <1>7, <2>1, <2>3
<1> QED BY <1>7, <1>8

\* What Remove(strFileName) leaves carries the counter, however many items it erases.
LEMMA RemovePathCarries ==
  ASSUME NEW l, IsTyped(l), NEW path
  PROVE  Carries(l, RemovePath(l, path))
<1> DEFINE gone == Positions(l, path)
           kept == Indices(l) \ gone
           n == l.size
           v == l.items
           k == Cardinality(kept)
           last == CHOOSE x \in gone : \A j \in gone : j <= x
           o == v[last].order
           f == [i \in 0 .. k - 1 |-> Nth(kept, i)]
           w == [i \in 0 .. k - 1 |-> Lowered(v[f[i]], o, k)]
           m == RemovePath(l, path)
<1>1. n \in Nat /\ v \in [0 .. n - 1 -> Items] /\ Indices(l) = 0 .. n - 1
  BY DEF IsTyped, Indices
<1>2. CASE gone = {}
  BY <1>2 DEF RemovePath, Carries
<1>3. CASE gone # {}
  <2>1. gone \in SUBSET (0 .. n - 1)
    BY <1>1 DEF Positions
  <2>2. last \in 0 .. n - 1
    <3> HIDE DEF gone
    <3>1. \E x \in gone : \A j \in gone : j <= x
      BY <1>1, <1>3, <2>1, HighestOf
    <3>2. last \in gone
      BY <3>1, Zenon
    <3> QED BY <2>1, <3>2
  <2>3. o \in Nat
    <3> HIDE DEF last
    <3> QED BY <1>1, <2>2 DEF Items
  <2>4. kept \in SUBSET Nat /\ kept \subseteq 0 .. n - 1 /\ IsFiniteSet(kept) /\ k \in Nat
    <3>1. kept \in SUBSET Nat /\ kept \subseteq 0 .. n - 1
      BY <1>1
    <3> HIDE DEF kept
    <3>2. IsFiniteSet(0 .. n - 1)
      BY <1>1, FS_Interval
    <3>3. IsFiniteSet(kept)
      BY <3>1, <3>2, FS_Subset
    <3> QED BY <3>1, <3>3, FS_CardinalityType
  <2>5. m = [l EXCEPT !.size = k, !.items = [i \in 0 .. k - 1 |-> Lowered(v[Nth(kept, i)], o, k)]]
    BY <1>3, Zenon DEF RemovePath
  <2> HIDE DEF kept, o, m, gone, last
  <2>6. /\ \A i \in 0 .. k - 1 : Nth(kept, i) \in kept /\ Rank(kept, Nth(kept, i)) = i
        /\ \A i, j \in kept : Rank(kept, i) = Rank(kept, j) => i = j
    BY <2>4, NthOf
  <2>7. f \in [0 .. k - 1 -> 0 .. n - 1]
    BY <2>4, <2>6
  <2>8. \A i, j \in 0 .. k - 1 : f[i] = f[j] => i = j
    BY <2>6
  <2>9. [i \in 0 .. k - 1 |-> Lowered(v[Nth(kept, i)], o, k)] = w
    OBVIOUS
  <2>10. m = [l EXCEPT !.size = k, !.items = w]
    BY <2>5, <2>9, Zenon
  <2>11. w = [i \in 0 .. k - 1 |-> Lowered(v[f[i]], o, k)]
    OBVIOUS
  <2>12. k = 0 \/ n # 0
    <3>1. n = 0 => kept = {}
      BY <1>1, <2>4
    <3> QED BY <3>1, FS_EmptySet
  <2> HIDE DEF w, f, k
  <2>13. w \in [0 .. k - 1 -> Items] /\ Count(w, k) <= Count(v, n)
    <3> HIDE DEF n, v
    <3>1. Erased(v, n, w, k, f, o, k)
      BY <1>1, <2>3, <2>4, <2>7, <2>8, <2>11, Zenon DEF Erased
    <3> QED BY <3>1, KeptCount, Zenon
  <2>14. DOMAIN l = Fields /\ l.shuffled \in BOOLEAN
    BY DEF IsTyped
  <2>15. /\ DOMAIN m = Fields /\ m.size = k /\ m.items = w /\ m.playable = l.playable
         /\ m.shuffled = l.shuffled
    BY <2>10, <2>14 DEF Fields
  <2>16. m.shuffled \in BOOLEAN
    BY <2>14, <2>15, Zenon
  <2> QED BY <2>4, <2>12, <2>13, <2>15, <2>16, CarriesItems DEF n, v, m
<1> QED BY <1>2, <1>3

\* Remove(strFileName) of a path that is there once is one Remove(position), and else nothing.
LEMMA RemovePathLeaves ==
  ASSUME NEW l, Good(l), NEW path, ~\E i, j \in Positions(l, path) : i # j
  PROVE  \/ RemovePath(l, path) = l
         \/ \E g \in 0 .. l.size - 1 : RemovePath(l, path) = Remove(l, g)
<1> DEFINE gone == Positions(l, path)
           n == l.size
<1>1. n \in Nat /\ Vector(l.items, n) /\ Indices(l) = 0 .. n - 1
  BY DEF Good, IsList, IsTyped, Indices
<1>2. CASE gone = {}
  BY <1>2 DEF RemovePath
<1>3. CASE gone # {}
  <2>1. PICK g \in 0 .. n - 1 : g \in gone
    BY <1>1, <1>3 DEF Positions
  <2>2. gone = {g}
    BY <2>1
  <2> DEFINE kept == Indices(l) \ gone
             last == CHOOSE k \in gone : \A j \in gone : j <= k
             its == [i \in 0 .. n - 2 |-> Lowered(l.items[Skip(g, i)], l.items[g].order, n - 1)]
  <2>3. last = g
    <3>1. g <= g
      OBVIOUS
    <3> HIDE DEF gone
    <3> QED BY <2>2, <3>1
  <2>4. Cardinality(kept) = n - 1 /\ \A i \in 0 .. n - 2 : Nth(kept, i) = Skip(g, i)
    <3>1. kept = (0 .. n - 1) \ {g}
      BY <1>1, <2>2
    <3> HIDE DEF kept, n
    <3> QED BY <1>1, <3>1, NthKept
  <2>5. RemovePath(l, path) =
          [l EXCEPT !.size = Cardinality(kept),
                    !.items = [i \in 0 .. Cardinality(kept) - 1 |->
                                 Lowered(l.items[Nth(kept, i)], l.items[last].order, Cardinality(kept))]]
    BY <1>3, Zenon DEF RemovePath
  <2>6. [i \in 0 .. Cardinality(kept) - 1 |->
           Lowered(l.items[Nth(kept, i)], l.items[last].order, Cardinality(kept))] = its
    <3> HIDE DEF kept, last, n
    <3>1. (n - 1) - 1 = n - 2
      BY <1>1
    <3> QED BY <2>3, <2>4, <3>1
  <2>7. RemovePath(l, path) = [l EXCEPT !.size = n - 1, !.items = its]
    BY <2>4, <2>5, <2>6, Zenon
  <2>8. [i \in 0 .. l.size - 2 |->
           Lowered(IF i < g THEN l.items[i] ELSE l.items[i + 1], l.items[g].order, l.size - 1)] = its
    <3>1. \A i \in 0 .. l.size - 2 :
            (IF i < g THEN l.items[i] ELSE l.items[i + 1]) = l.items[Skip(g, i)]
      BY DEF Skip
    <3> QED BY <3>1
  <2>9. Remove(l, g) = [l EXCEPT !.size = n - 1, !.items = its]
    <3>1. g \in Indices(l)
      BY <1>1, <2>1
    <3> QED BY <2>8, <3>1, Zenon DEF Remove
  <2> QED BY <2>1, <2>7, <2>9, Zenon
<1> QED BY <1>2, <1>3

\* The songs of a playlist file other than itself, as Expand takes them.
LEMMA OthersOf ==
  ASSUME NEW k \in Nat, NEW loaded \in [1 .. k -> Paths], NEW K, K \subseteq 1 .. k
  PROVE  LET s == [x \in 1 .. Cardinality(K) |-> loaded[Nth(K, x - 1)]]
         IN  /\ s \in Seq(Paths) /\ Len(s) = Cardinality(K) /\ Cardinality(K) \in 0 .. k
             /\ s \in [1 .. Cardinality(K) -> Paths]
<1> DEFINE c == Cardinality(K)
           s == [x \in 1 .. c |-> loaded[Nth(K, x - 1)]]
<1>1. K \in SUBSET Nat /\ IsFiniteSet(K) /\ c \in 0 .. k
  <2>1. IsFiniteSet(1 .. k) /\ Cardinality(1 .. k) = k
    BY FS_Interval
  <2>4. K \in SUBSET Nat
    OBVIOUS
  <2> DEFINE I == 1 .. k
  <2>5. IsFiniteSet(I) /\ Cardinality(I) = k /\ K \subseteq I
    BY <2>1
  <2> HIDE DEF I, c
  <2>2. IsFiniteSet(K) /\ c <= k
    BY <2>5, FS_Subset DEF c
  <2>3. c \in Nat
    BY <2>2, FS_CardinalityType DEF c
  <2> QED BY <2>2, <2>3, <2>4
<1> HIDE DEF c
<1>2. ASSUME NEW x \in 1 .. c PROVE Nth(K, x - 1) \in 1 .. k
  <2>1. x - 1 \in 0 .. c - 1
    BY <1>1
  <2>2. Nth(K, x - 1) \in K
    BY <1>1, <2>1, NthOf DEF c
  <2> QED BY <2>2
<1>3. s \in [1 .. c -> Paths]
  BY <1>2
<1>4. s \in Seq(Paths) /\ Len(s) = c
  BY <1>1, <1>3
<1> QED BY <1>1, <1>3, <1>4 DEF c

\* What Expand leaves is the list, or one with an item removed and others inserted.
LEMMA ExpandIs ==
  ASSUME NEW l, IsTyped(l), NEW pos \in 0 .. l.size - 1,
         NEW k \in Nat, NEW loaded \in [1 .. k -> Paths]
  PROVE  \/ Expand(l, pos, loaded) = l
         \/ \E c \in 0 .. k : \E s \in [1 .. c -> Paths] :
              /\ s \in Seq(Paths) /\ Len(s) = c
              /\ Expand(l, pos, loaded) = InsertAll(Remove(l, pos), s, pos)
<1> DEFINE K == {x \in DOMAIN loaded : loaded[x] # l.items[pos].path}
           c == Cardinality(K)
           s == [x \in 1 .. c |-> loaded[Nth(K, x - 1)]]
<1>1. Expand(l, pos, loaded) = IF s = << >> THEN l ELSE InsertAll(Remove(l, pos), s, pos)
  BY DEF Expand
<1>2. K \subseteq 1 .. k
  OBVIOUS
<1> HIDE DEF K
<1>3. s \in Seq(Paths) /\ Len(s) = c /\ c \in 0 .. k /\ s \in [1 .. c -> Paths]
  BY <1>2, OthersOf
<1> HIDE DEF s
<1> QED BY <1>1, <1>3

\* Expand carries the counter.
LEMMA ExpandCarries ==
  ASSUME NEW l, IsTyped(l), NEW pos \in 0 .. l.size - 1,
         NEW k \in Nat, NEW loaded \in [1 .. k -> Paths]
  PROVE  Carries(l, Expand(l, pos, loaded))
<1> DEFINE r == Remove(l, pos)
<1>1. CASE Expand(l, pos, loaded) = l
  BY <1>1 DEF Carries
<1>2. ASSUME NEW c \in 0 .. k, NEW s \in [1 .. c -> Paths], s \in Seq(Paths), Len(s) = c,
             Expand(l, pos, loaded) = InsertAll(r, s, pos)
      PROVE  Carries(l, Expand(l, pos, loaded))
  <2>1. Taken(l, r, pos) /\ Carries(l, r)
    BY RemoveTakes, TakenCarries
  <2> HIDE DEF r
  <2>2. IsTyped(r) /\ r.size = l.size - 1 /\ l.size \in Nat
    BY <2>1 DEF Carries, Taken, IsTyped
  <2>3. pos \in 0 .. r.size /\ c \in Nat
    BY <2>2
  <2>4. Put(r, InsertAll(r, s, pos), s, c, pos)
    BY <1>2, <2>2, <2>3, InsertAllPuts
  <2>5. Carries(r, InsertAll(r, s, pos))
    BY <2>4, PutCarries
  <2> QED BY <1>2, <2>1, <2>5 DEF Carries
<1> QED BY <1>1, <1>2, ExpandIs

\* What Expand leaves: the songs of the playlist file in the place of the item, or nothing new.
LEMMA ExpandLeaves ==
  ASSUME NEW l, Good(l), ~l.shuffled, NEW pos \in 0 .. l.size - 1,
         NEW k \in Nat, NEW loaded \in [1 .. k -> Paths]
  PROVE  \/ Expand(l, pos, loaded) = l
         \/ LET m == Expand(l, pos, loaded)
            IN  /\ Good(m) /\ ~m.shuffled
                /\ \E c \in 0 .. k : \E s \in [1 .. c -> Paths] :
                     PlayingOrder(m) = Order!Splice(PlayingOrder(l), pos + 1, 1, s)
<1> DEFINE r == Remove(l, pos)
<1>1. l.size \in Nat /\ IsTyped(l)
  BY DEF Good, IsList, IsTyped
<1>2. /\ Good(r) /\ r.size = l.size - 1 /\ ~r.shuffled
      /\ PlayingOrder(r) = Order!RemoveAt(PlayingOrder(l), pos + 1)
  BY RemoveLeaves
<1> HIDE DEF r
<1>3. ASSUME NEW c \in 0 .. k, NEW s \in [1 .. c -> Paths], s \in Seq(Paths), Len(s) = c
      PROVE  LET m == InsertAll(r, s, pos)
             IN  /\ Good(m) /\ ~m.shuffled
                 /\ PlayingOrder(m) = Order!Splice(PlayingOrder(l), pos + 1, 1, s)
  <2> DEFINE m == InsertAll(r, s, pos)
  <2>1. pos \in 0 .. r.size /\ c \in Nat
    BY <1>1, <1>2
  <2>2. /\ Good(m) /\ ~m.shuffled
        /\ PlayingOrder(m) = Order!Splice(PlayingOrder(r), pos + 1, 0, s)
    BY <1>2, <1>3, <2>1, InsertAllLeaves
  <2> HIDE DEF m
  <2>3. PlayingOrder(l) \in Seq(Paths) /\ Len(PlayingOrder(l)) = l.size
    BY <1>1, PlayingPaths, PathsSequence DEF Good, IsList, IsTyped, Vector
  <2>4. Order!Splice(Order!RemoveAt(PlayingOrder(l), pos + 1), pos + 1, 0, s)
          = Order!Splice(PlayingOrder(l), pos + 1, 1, s)
    BY <1>1, <1>3, <2>1, <2>3, SplicedRemoved
  <2> QED BY <1>2, <2>2, <2>4 DEF m
<1>4. \/ Expand(l, pos, loaded) = l
      \/ \E c \in 0 .. k : \E s \in [1 .. c -> Paths] :
           /\ s \in Seq(Paths) /\ Len(s) = c
           /\ Expand(l, pos, loaded) = InsertAll(r, s, pos)
  BY <1>1, ExpandIs DEF r
<1> QED BY <1>3, <1>4

\* m is l with its items in the places that p gives them, and the flag b.
ReorderedBy(l, m, b, p) ==
  /\ p \in [0 .. l.size - 1 -> 0 .. l.size - 1] /\ IsInjective(p)
  /\ b \in BOOLEAN
  /\ DOMAIN m = Fields /\ m.size = l.size /\ m.shuffled = b /\ m.playable = l.playable
  /\ m.items = [i \in 0 .. l.size - 1 |-> l.items[p[i]]]

\* A rearrangement carries the counter.
LEMMA ReorderedCarries ==
  ASSUME NEW l, IsTyped(l), NEW m, NEW b, NEW p, ReorderedBy(l, m, b, p)
  PROVE  Carries(l, m)
<1> DEFINE n == l.size
           v == l.items
           w == m.items
<1>1. n \in Nat /\ v \in [0 .. n - 1 -> Items]
  BY DEF IsTyped
<1>2. /\ p \in [0 .. n - 1 -> 0 .. n - 1] /\ w = [i \in 0 .. n - 1 |-> v[p[i]]]
      /\ \A i, j \in 0 .. n - 1 : p[i] = p[j] => i = j
  BY DEF ReorderedBy, IsInjective
<1>3. DOMAIN m = Fields /\ m.size = n /\ m.playable = l.playable
  BY Zenon DEF ReorderedBy
<1>4. m.shuffled \in BOOLEAN
  BY Zenon DEF ReorderedBy
<1> HIDE DEF n, v, w
<1>5. w \in [0 .. n - 1 -> Items]
  BY <1>1, <1>2
<1>6. \A i \in 0 .. n - 1 : w[i] = v[p[i]]
  BY <1>2
<1>7. Count(w, n) <= Count(v, n)
  BY <1>1, <1>2, <1>6, NoMorePlayable
<1> QED BY <1>1, <1>3, <1>4, <1>5, <1>7, CarriesItems DEF n, v, w

\* A rearrangement leaves a list in order with the same queued order.
LEMMA Reordered ==
  ASSUME NEW l, Good(l), NEW m, NEW b, NEW p, ReorderedBy(l, m, b, p),
         ~b => InPlace(m.items, l.size)
  PROVE  Good(m) /\ QueuedOrder(m) = QueuedOrder(l)
<1> DEFINE n == l.size
           v == l.items
           w == m.items
           q == QueuedOrder(l)
<1>1. n \in Nat /\ Vector(v, n) /\ v \in [0 .. n - 1 -> Items] /\ IsTyped(l)
  BY DEF Good, IsList, IsTyped, Vector
<1>2. IsTyped(m)
  BY <1>1, ReorderedCarries DEF Carries
<1>3. /\ p \in [0 .. n - 1 -> 0 .. n - 1] /\ IsInjective(p)
      /\ \A i \in 0 .. n - 1 : w[i] = v[p[i]]
      /\ m.size = n
  BY DEF ReorderedBy
<1>4. ~m.shuffled => InPlace(w, n)
  BY Zenon DEF ReorderedBy
<1>5. w \in [0 .. n - 1 -> Items]
  BY <1>2, <1>3 DEF IsTyped
<1>6. Queue(v, n, q)
  BY QueuedQueue DEF Good
<1> HIDE DEF n, v, q
<1>7. Vector(w, n)
  BY ONLY <1>1, <1>3, <1>5, Rearranged
<1>8. Good(m)
  BY <1>2, <1>3, <1>4, <1>7 DEF Good, IsList
<1>9. QueuedOrder(m) = q
  <2>1. Queue(w, n, q)
    BY <1>1, <1>3, <1>6, Carried
  <2>2. IsList(m) /\ Queue(m.items, m.size, q)
    BY <1>3, <1>8, <2>1 DEF Good
  <2> QED BY ONLY <2>2, QueuedIs
<1> QED BY <1>8, <1>9 DEF q

\* Shuffle rearranges, or does nothing.
LEMMA ShuffleReorders ==
  ASSUME NEW l, IsTyped(l), NEW pos, NEW m, m \in Shuffles(l, pos), m # l
  PROVE  \E p : ReorderedBy(l, m, TRUE, p)
<1>2. PICK p \in Bijections(l.size) :
        m = [l EXCEPT !.shuffled = TRUE, !.items = [i \in Indices(l) |-> l.items[p[i]]]]
  BY DEF Shuffles
<1>3. p \in [0 .. l.size - 1 -> 0 .. l.size - 1] /\ IsInjective(p)
  BY <1>2 DEF Bijections
<1> DEFINE w == [i \in 0 .. l.size - 1 |-> l.items[p[i]]]
<1>4. m = [l EXCEPT !.shuffled = TRUE, !.items = w]
  BY <1>2, Zenon DEF Indices
<1> HIDE DEF w
<1>6. /\ DOMAIN m = Fields /\ m.size = l.size /\ m.items = w
      /\ m.playable = l.playable /\ m.shuffled = TRUE
  BY <1>4 DEF IsTyped, Fields
<1>8. ReorderedBy(l, m, TRUE, p)
  BY <1>3, <1>6 DEF ReorderedBy, w
<1> QED BY <1>8

\* What Shuffle leaves: the same songs in another order, queued as before.
LEMMA ShufflesLeave ==
  ASSUME NEW l, Good(l), NEW pos, NEW m, m \in Shuffles(l, pos)
  PROVE  \/ m = l
         \/ /\ Good(m) /\ m.shuffled /\ m.size = l.size
            /\ QueuedOrder(m) = QueuedOrder(l)
            /\ \E p \in [0 .. l.size - 1 -> 0 .. l.size - 1] :
                 /\ IsInjective(p)
                 /\ \A i \in 0 .. l.size - 1 : m.items[i] = l.items[p[i]]
<1>1. CASE m = l
  BY <1>1
<1>2. CASE m # l
  <2>1. PICK p : ReorderedBy(l, m, TRUE, p)
    BY <1>2, ShuffleReorders DEF Good, IsList
  <2>2. Good(m) /\ QueuedOrder(m) = QueuedOrder(l)
    BY <2>1, Reordered
  <2>3. /\ p \in [0 .. l.size - 1 -> 0 .. l.size - 1] /\ IsInjective(p)
        /\ m.shuffled = TRUE /\ m.size = l.size
        /\ \A i \in 0 .. l.size - 1 : m.items[i] = l.items[p[i]]
    BY <2>1 DEF ReorderedBy
  <2> QED BY <2>2, <2>3
<1> QED BY <1>1, <1>2

\* UnShuffle rearranges by the orders.
LEMMA UnShuffleReorders ==
  ASSUME NEW l, IsTyped(l), NEW m, m \in UnShuffles(l)
  PROVE  \E p : /\ ReorderedBy(l, m, FALSE, p)
                /\ \A i, j \in 0 .. l.size - 1 : i < j => l.items[p[i]].order <= l.items[p[j]].order
<1>1. PICK p \in Bijections(l.size) :
        /\ \A i, j \in Indices(l) : i < j => l.items[p[i]].order <= l.items[p[j]].order
        /\ m = [l EXCEPT !.shuffled = FALSE, !.items = [i \in Indices(l) |-> l.items[p[i]]]]
  BY Zenon DEF UnShuffles
<1>2. p \in [0 .. l.size - 1 -> 0 .. l.size - 1] /\ IsInjective(p)
  BY <1>1 DEF Bijections
<1> DEFINE w == [i \in 0 .. l.size - 1 |-> l.items[p[i]]]
<1>3. m = [l EXCEPT !.shuffled = FALSE, !.items = w]
  BY <1>1, Zenon DEF Indices
<1> HIDE DEF w
<1>4. /\ DOMAIN m = Fields /\ m.size = l.size /\ m.items = w
      /\ m.playable = l.playable /\ m.shuffled = FALSE
  BY <1>3 DEF IsTyped, Fields
<1>5. ReorderedBy(l, m, FALSE, p)
  BY <1>2, <1>4 DEF ReorderedBy, w
<1>6. \A i, j \in 0 .. l.size - 1 : i < j => l.items[p[i]].order <= l.items[p[j]].order
  BY <1>1, Zenon DEF Indices
<1> QED BY <1>5, <1>6

\* What UnShuffle leaves: the queued order is the one that plays.
LEMMA UnShufflesLeave ==
  ASSUME NEW l, Good(l), NEW m, m \in UnShuffles(l)
  PROVE  /\ Good(m) /\ ~m.shuffled
         /\ QueuedOrder(m) = QueuedOrder(l) /\ PlayingOrder(m) = QueuedOrder(l)
<1> DEFINE n == l.size
           w == m.items
<1>1. n \in Nat /\ Vector(l.items, n) /\ IsTyped(l)
  BY DEF Good, IsList, IsTyped
<1>2. PICK p : /\ ReorderedBy(l, m, FALSE, p)
               /\ \A i, j \in 0 .. n - 1 : i < j => l.items[p[i]].order <= l.items[p[j]].order
  BY <1>1, UnShuffleReorders
<1>3. /\ p \in [0 .. n - 1 -> 0 .. n - 1] /\ IsInjective(p) /\ m.size = n /\ m.shuffled = FALSE
      /\ \A i \in 0 .. n - 1 : w[i] = l.items[p[i]]
  BY <1>2 DEF ReorderedBy
<1>4. IsTyped(m)
  BY <1>1, <1>2, ReorderedCarries DEF Carries
<1>5. w \in [0 .. n - 1 -> Items]
  BY <1>3, <1>4 DEF IsTyped
<1> DEFINE v == l.items
<1> HIDE DEF n, w, v
<1>6. Vector(w, n)
  <2>1. n \in Nat /\ Vector(v, n)
    BY <1>1 DEF v
  <2>2. \A i \in 0 .. n - 1 : w[i] = v[p[i]]
    BY <1>3 DEF v
  <2> QED BY ONLY <1>3, <1>5, <2>1, <2>2, Rearranged
<1>7. \A i, j \in 0 .. n - 1 : i < j => w[i].order <= w[j].order
  BY <1>2, <1>3
<1>8. InPlace(w, n)
  BY ONLY <1>1, <1>6, <1>7, SortedInPlace
<1>9. Good(m) /\ QueuedOrder(m) = QueuedOrder(l)
  BY <1>2, <1>8, Reordered DEF n, w
<1>10. QueuedOrder(m) = PlayingOrder(m)
  BY <1>3, <1>8, <1>9, PlayedAsQueued DEF Good, w
<1> QED BY <1>3, <1>9, <1>10

\* m is l with the items at a and b exchanged.
SwappedIn(l, m, a, b) ==
  /\ DOMAIN m = Fields /\ m.size = l.size /\ m.playable = l.playable /\ m.shuffled = l.shuffled
  /\ m.items \in [0 .. l.size - 1 -> Items]
  /\ SwapsTwo(l.items, l.size, m.items, a, b, l.shuffled)

\* Swap exchanges two items.
LEMMA SwapIs ==
  ASSUME NEW l, IsTyped(l), NEW a \in 0 .. l.size - 1, NEW b \in 0 .. l.size - 1
  PROVE  SwappedIn(l, Swap(l, a, b), a, b)
<1> DEFINE n == l.size
           v == l.items
           Order1(x, y) == IF l.shuffled THEN v[x].order ELSE v[y].order
           w == [v EXCEPT ![a] = [v[b] EXCEPT !.order = Order1(b, a)],
                          ![b] = [v[a] EXCEPT !.order = Order1(a, b)]]
           m == Swap(l, a, b)
<1>1. n \in Nat /\ v \in [0 .. n - 1 -> Items] /\ a \in 0 .. n - 1 /\ b \in 0 .. n - 1
  BY DEF IsTyped
<1>2. m = [l EXCEPT !.items = w]
  <2>1. l.items = v
    OBVIOUS
  <2>2. DOMAIN l = Fields
    BY DEF IsTyped
  <2> QED BY <2>1, <2>2 DEF Swap, Fields
<1> HIDE DEF m
<1>3. \A i \in 0 .. n - 1 : v[i] \in Items
  BY <1>1
<1> HIDE DEF n, v
<1>4. ASSUME NEW i \in 0 .. n - 1
      PROVE  LET j == Exchanged(a, b, i)
             IN  /\ j \in 0 .. n - 1
                 /\ w[i].path = v[j].path /\ w[i].unplayable = v[j].unplayable
                 /\ w[i].order = IF l.shuffled THEN v[j].order ELSE v[i].order
                 /\ w[i] \in Items
  <2>1. v[a] \in Items /\ v[b] \in Items /\ v[i] \in Items
    BY <1>1, <1>3
  <2>2. CASE i = b
    <3>1. w[i] = [v[a] EXCEPT !.order = Order1(a, b)]
      BY <1>1, <2>2
    <3>2. Exchanged(a, b, i) = a
      BY <2>2 DEF Exchanged
    <3> QED BY <1>1, <2>1, <2>2, <3>1, <3>2 DEF Items
  <2>3. CASE i # b /\ i = a
    <3>1. w[i] = [v[b] EXCEPT !.order = Order1(b, a)]
      BY <1>1, <2>3
    <3>2. Exchanged(a, b, i) = b
      BY <2>3 DEF Exchanged
    <3> QED BY <1>1, <2>1, <2>3, <3>1, <3>2 DEF Items
  <2>4. CASE i # b /\ i # a
    <3>1. w[i] = v[i]
      BY <1>1, <2>4
    <3>2. Exchanged(a, b, i) = i
      BY <2>4 DEF Exchanged
    <3> HIDE DEF w
    <3> QED BY <1>1, <2>1, <3>1, <3>2
  <2> QED BY <2>2, <2>3, <2>4
<1>5. w \in [0 .. n - 1 -> Items]
  <2>1. \A i \in 0 .. n - 1 : w[i] \in Items
    BY <1>4
  <2>2. w = [i \in 0 .. n - 1 |-> w[i]]
    BY <1>1
  <2> HIDE DEF w
  <2> QED BY <2>1, <2>2, Zenon
<1>6. /\ DOMAIN m = Fields /\ m.size = l.size /\ m.items = w
      /\ m.playable = l.playable /\ m.shuffled = l.shuffled
  <2> HIDE DEF w
  <2> QED BY <1>2 DEF IsTyped, Fields
<1> HIDE DEF w
<1>7. SwapsTwo(v, n, w, a, b, l.shuffled)
  BY <1>4, Zenon DEF SwapsTwo
<1> QED BY <1>5, <1>6, <1>7 DEF SwappedIn, m, n, v

\* It carries the counter.
LEMMA SwapCarries ==
  ASSUME NEW l, IsTyped(l), NEW a \in 0 .. l.size - 1, NEW b \in 0 .. l.size - 1
  PROVE  Carries(l, Swap(l, a, b))
<1> DEFINE m == Swap(l, a, b)
<1>1. SwappedIn(l, m, a, b)
  BY SwapIs
<1> HIDE DEF m
<1>2. l.size \in Nat /\ SwapsTwo(l.items, l.size, m.items, a, b, l.shuffled)
  BY <1>1 DEF IsTyped, SwappedIn
<1>3. Count(m.items, l.size) <= Count(l.items, l.size)
  BY <1>2, SwappedCount
<1>4. m.shuffled \in BOOLEAN
  BY <1>1, Zenon DEF IsTyped, SwappedIn
<1>5. /\ DOMAIN m = Fields /\ m.size = l.size /\ m.playable = l.playable
      /\ m.items \in [0 .. l.size - 1 -> Items]
  BY <1>1, Zenon DEF SwappedIn
<1>6. l.size = 0 => l.size = 0
  OBVIOUS
<1>7. Carries(l, m)
  BY ONLY IsTyped(l), <1>2, <1>3, <1>4, <1>5, <1>6, CarriesItems
<1> QED BY <1>7 DEF m

\* What Swap leaves: two songs exchanged, and in shuffle the queued order as before.
LEMMA SwapLeaves ==
  ASSUME NEW l, Good(l), NEW a \in 0 .. l.size - 1, NEW b \in 0 .. l.size - 1
  PROVE  LET m == Swap(l, a, b)
         IN  /\ Good(m) /\ m.size = l.size /\ m.shuffled = l.shuffled
             /\ PlayingOrder(m) = Order!Exchange(PlayingOrder(l), a + 1, b + 1)
             /\ l.shuffled => QueuedOrder(m) = QueuedOrder(l)
<1> DEFINE n == l.size
           v == l.items
           m == Swap(l, a, b)
           w == m.items
<1>1. /\ n \in Nat /\ Vector(v, n) /\ v \in [0 .. n - 1 -> Items] /\ IsTyped(l)
      /\ a \in 0 .. n - 1 /\ b \in 0 .. n - 1
  BY DEF Good, IsList, IsTyped, Vector
<1>2. SwappedIn(l, m, a, b) /\ IsTyped(m)
  BY <1>1, SwapIs, SwapCarries DEF Carries
<1> HIDE DEF w, m
<1>6. /\ m.size = l.size /\ m.items = w /\ m.shuffled = l.shuffled
      /\ w \in [0 .. n - 1 -> Items] /\ SwapsTwo(v, n, w, a, b, l.shuffled)
  BY <1>2 DEF SwappedIn, w
<1>3. ~l.shuffled => InPlace(v, n)
  BY DEF Good
<1> HIDE DEF n, v
<1>5. w \in [0 .. n - 1 -> Items]
  BY <1>6
<1>4. ASSUME NEW i \in 0 .. n - 1
      PROVE  LET j == Exchanged(a, b, i)
             IN  /\ j \in 0 .. n - 1
                 /\ w[i].path = v[j].path /\ w[i].unplayable = v[j].unplayable
                 /\ w[i].order = IF l.shuffled THEN v[j].order ELSE v[i].order
  BY <1>1, <1>6 DEF SwapsTwo, Exchanged
<1>7. Vector(w, n) /\ (~l.shuffled => (InPlace(v, n) => InPlace(w, n)))
  <2> DEFINE s == l.shuffled
  <2>1. /\ n \in Nat /\ Vector(v, n) /\ a \in 0 .. n - 1 /\ b \in 0 .. n - 1
        /\ w \in [0 .. n - 1 -> Items]
    BY <1>1, <1>5
  <2>2. SwapsTwo(v, n, w, a, b, s)
    BY <1>6
  <2> HIDE DEF s
  <2>3. Vector(w, n) /\ (~s => (InPlace(v, n) => InPlace(w, n)))
    BY ONLY <2>1, <2>2, Swapped
  <2> QED BY <2>3 DEF s
<1>8. Good(m)
  BY <1>2, <1>6, <1>7, <1>3 DEF Good, IsList, n
<1>9. PlayingOrder(m) = Order!Exchange(PlayingOrder(l), a + 1, b + 1)
  <2> DEFINE q == Paths1(v, n)
             r == Paths1(w, n)
  <2>1. /\ q \in Seq(Paths) /\ Len(q) = n /\ \A k \in 1 .. n : q[k] = v[k - 1].path
        /\ r \in Seq(Paths) /\ Len(r) = n /\ \A k \in 1 .. n : r[k] = w[k - 1].path
    BY <1>1, <1>5, PathsSequence
  <2> HIDE DEF q, r
  <2>2. ASSUME NEW k \in 1 .. n PROVE r[k] = Order!Exchange(q, a + 1, b + 1)[k]
    <3>1. k - 1 \in 0 .. n - 1
      BY <1>1
    <3>2. r[k] = v[Exchanged(a, b, k - 1)].path
      BY <1>4, <2>1, <3>1
    <3>3. q[a + 1] = v[a].path /\ q[b + 1] = v[b].path /\ a + 1 \in 1 .. n /\ b + 1 \in 1 .. n
      BY <1>1, <2>1
    <3>4. DOMAIN q = 1 .. n
      BY <2>1
    <3>5. /\ k - 1 = a <=> k = a + 1
          /\ k - 1 = b <=> k = b + 1
      BY <1>1
    <3> QED BY <2>1, <3>1, <3>2, <3>3, <3>4, <3>5 DEF Order!Exchange, Exchanged
  <2>3. DOMAIN Order!Exchange(q, a + 1, b + 1) = 1 .. n /\ DOMAIN r = 1 .. n
    BY <2>1 DEF Order!Exchange
  <2>4. r = Order!Exchange(q, a + 1, b + 1)
    <3>1. Order!Exchange(q, a + 1, b + 1) = [k \in 1 .. n |-> Order!Exchange(q, a + 1, b + 1)[k]]
      BY <2>3 DEF Order!Exchange
    <3>2. r = [k \in 1 .. n |-> r[k]]
      BY <2>1, <2>3
    <3> QED BY <2>2, <3>1, <3>2, Zenon
  <2> QED BY <1>6, <2>4, PlayingPaths DEF q, r, n, v
<1>10. ASSUME l.shuffled PROVE QueuedOrder(m) = QueuedOrder(l)
  <2> DEFINE q == QueuedOrder(l)
             p == [i \in 0 .. n - 1 |-> Exchanged(a, b, i)]
  <2>1. Queue(v, n, q)
    BY QueuedQueue DEF Good, n, v
  <2>2. p \in [0 .. n - 1 -> 0 .. n - 1]
    BY <1>4
  <2>3. \A i \in 0 .. n - 1 : w[i].path = v[p[i]].path /\ w[i].order = v[p[i]].order
    BY <1>4, <1>10
  <2> HIDE DEF q, p
  <2>4. Queue(w, n, q)
    BY <1>1, <2>1, <2>2, <2>3, Carried
  <2>5. IsList(m)
    BY <1>8 DEF Good
  <2> QED BY <1>6, <2>4, <2>5, QueuedIs DEF q, n
<1> QED BY <1>6, <1>8, <1>9, <1>10 DEF m

\* Items with the same paths and orders keep both orders of the list.
LEMMA SameSongs ==
  ASSUME NEW l, Good(l), NEW m, IsTyped(m), m.size = l.size, m.shuffled = l.shuffled,
         \A i \in 0 .. l.size - 1 :
           m.items[i].path = l.items[i].path /\ m.items[i].order = l.items[i].order
  PROVE  /\ Good(m) /\ m.shuffled = l.shuffled
         /\ PlayingOrder(m) = PlayingOrder(l) /\ QueuedOrder(m) = QueuedOrder(l)
<1> DEFINE n == l.size
           v == l.items
           w == m.items
           q == QueuedOrder(l)
           p == [i \in 0 .. n - 1 |-> i]
<1>1. n \in Nat /\ Vector(v, n) /\ w \in [0 .. n - 1 -> Items]
  BY DEF Good, IsList, IsTyped, Vector
<1>2. \A i \in 0 .. n - 1 : w[i].path = v[i].path /\ w[i].order = v[i].order
  OBVIOUS
<1>3. Queue(v, n, q)
  BY QueuedQueue DEF Good
<1>4. p \in [0 .. n - 1 -> 0 .. n - 1] /\ \A i \in 0 .. n - 1 : p[i] = i
  OBVIOUS
<1>5. ~l.shuffled => InPlace(v, n)
  BY DEF Good
<1> HIDE DEF n, v, w, q, p
<1>6. Vector(w, n) /\ (InPlace(v, n) => InPlace(w, n))
  BY <1>1, <1>2, SameOrders
<1>7. Good(m)
  BY <1>5, <1>6, Zenon DEF Good, IsList, n, w
<1>8. PlayingOrder(m) = PlayingOrder(l)
  <2>1. \A k \in 1 .. n : k - 1 \in 0 .. n - 1
    BY <1>1
  <2>2. Paths1(w, n) = Paths1(v, n)
    BY <1>2, <2>1 DEF Paths1
  <2> QED BY <2>2, PlayingPaths DEF n, v, w
<1>9. QueuedOrder(m) = q
  <2>1. Queue(w, n, q)
    BY <1>1, <1>2, <1>3, <1>4, Carried
  <2>2. IsList(m) /\ Queue(m.items, m.size, q)
    BY <1>7, <2>1 DEF Good, n, w
  <2> QED BY <2>2, QueuedIs
<1> QED BY <1>7, <1>8, <1>9 DEF q

\* m is l with another item at pos and another value of the counter.
Changed(l, m, pos, item, playable) ==
  /\ IsTyped(l) /\ pos \in 0 .. l.size - 1 /\ item \in Items /\ playable \in Int
  /\ DOMAIN m = Fields /\ m.size = l.size /\ m.shuffled = l.shuffled /\ m.playable = playable
  /\ m.items = [l.items EXCEPT ![pos] = item]

\* What such a change leaves.
LEMMA ChangedLeaves ==
  ASSUME NEW l, NEW m, NEW pos, NEW item, NEW playable, Changed(l, m, pos, item, playable)
  PROVE  /\ IsTyped(m) /\ m.size = l.size /\ m.shuffled = l.shuffled /\ m.playable = playable
         /\ m.items[pos] = item
         /\ \A i \in 0 .. l.size - 1 : i # pos => m.items[i] = l.items[i]
<1>7. IsTyped(l) /\ pos \in 0 .. l.size - 1 /\ item \in Items /\ playable \in Int
  BY Zenon DEF Changed
<1>1. l.items \in [0 .. l.size - 1 -> Items] /\ l.size \in Nat
  BY <1>7 DEF IsTyped
<1>2. DOMAIN m = Fields /\ m.size = l.size /\ m.playable = playable
      /\ m.items = [l.items EXCEPT ![pos] = item]
  BY Zenon DEF Changed
<1>3. m.shuffled = l.shuffled
  BY Zenon DEF Changed
<1>4. m.shuffled \in BOOLEAN
  BY <1>3, <1>7, Zenon DEF IsTyped
<1>5. /\ m.items \in [0 .. l.size - 1 -> Items] /\ m.items[pos] = item
      /\ \A i \in 0 .. l.size - 1 : i # pos => m.items[i] = l.items[i]
  BY <1>1, <1>2, <1>7
<1>6. IsTyped(m)
  BY <1>1, <1>2, <1>4, <1>5, <1>7 DEF IsTyped
<1> QED BY <1>2, <1>3, <1>5, <1>6

\* SetUnPlayable marks an item that is not marked, and counts it off.
LEMMA MarkChanges ==
  ASSUME NEW l, IsTyped(l), NEW pos, SetUnPlayable(l, pos) # l
  PROVE  /\ pos \in 0 .. l.size - 1 /\ ~l.items[pos].unplayable
         /\ Changed(l, SetUnPlayable(l, pos), pos,
                    [l.items[pos] EXCEPT !.unplayable = TRUE], l.playable - 1)
<1> DEFINE m == SetUnPlayable(l, pos)
<1>1. pos \in Indices(l) /\ ~l.items[pos].unplayable
  BY DEF SetUnPlayable
<1>2. DOMAIN l = Fields
  BY DEF IsTyped
<1>3. /\ DOMAIN m = Fields /\ m.size = l.size /\ m.playable = l.playable - 1
      /\ m.items = [l.items EXCEPT ![pos] = [l.items[pos] EXCEPT !.unplayable = TRUE]]
      /\ m.shuffled = l.shuffled
  BY <1>1, <1>2 DEF SetUnPlayable, Fields
<1> DEFINE item == [l.items[pos] EXCEPT !.unplayable = TRUE]
<1>4. pos \in 0 .. l.size - 1 /\ l.playable - 1 \in Int /\ l.items \in [0 .. l.size - 1 -> Items]
  BY <1>1 DEF IsTyped, Indices
<1>5. item \in Items
  BY <1>4 DEF Items
<1> HIDE DEF m, item
<1>6. Changed(l, m, pos, item, l.playable - 1)
  BY <1>3, <1>4, <1>5, Zenon DEF Changed, item
<1> QED BY <1>1, <1>4, <1>6 DEF m, item

\* SetUnPlayable carries the counter, and leaves both orders as they are.
LEMMA SetUnPlayableLeaves ==
  ASSUME NEW l, IsTyped(l), NEW pos
  PROVE  LET m == SetUnPlayable(l, pos)
         IN  /\ Carries(l, m)
             /\ Good(l) => /\ Good(m) /\ m.shuffled = l.shuffled
                           /\ PlayingOrder(m) = PlayingOrder(l)
                           /\ QueuedOrder(m) = QueuedOrder(l)
<1> DEFINE n == l.size
           v == l.items
           m == SetUnPlayable(l, pos)
           w == m.items
           item == [v[pos] EXCEPT !.unplayable = TRUE]
<1>1. CASE m = l
  BY <1>1 DEF Carries
<1>2. CASE m # l
  <2>1. pos \in 0 .. n - 1 /\ ~v[pos].unplayable /\ Changed(l, m, pos, item, l.playable - 1)
    BY <1>2, MarkChanges
  <2>2. n \in Nat /\ v \in [0 .. n - 1 -> Items] /\ l.playable \in Int
    BY DEF IsTyped
  <2>3. v[pos] \in Items
    BY <2>1, <2>2
  <2>4. item \in Items /\ item.path = v[pos].path /\ item.order = v[pos].order /\ item.unplayable
    BY <2>3 DEF Items
  <2> HIDE DEF m, item
  <2>5. /\ IsTyped(m) /\ m.size = l.size /\ m.shuffled = l.shuffled /\ m.playable = l.playable - 1
        /\ w[pos] = item /\ \A i \in 0 .. n - 1 : i # pos => w[i] = v[i]
    <3>1. Changed(l, m, pos, item, l.playable - 1)
      BY <2>1, Zenon
    <3> DEFINE c == l.playable - 1
    <3> HIDE DEF c
    <3>2. Changed(l, m, pos, item, c)
      BY <3>1 DEF c
    <3>3. /\ IsTyped(m) /\ m.size = l.size /\ m.shuffled = l.shuffled /\ m.playable = c
          /\ m.items[pos] = item
          /\ \A i \in 0 .. l.size - 1 : i # pos => m.items[i] = l.items[i]
      BY ONLY <3>2, ChangedLeaves
    <3> QED BY <3>3 DEF c
  <2> HIDE DEF n, v, w
  <2>6. Count(w, n) = Count(v, n) - 1
    BY <2>1, <2>2, <2>4, <2>5, MarkedCount
  <2>7. Count(w, n) \in Nat /\ Count(v, n) \in Nat
    BY <2>2, SongsFinite
  <2>8. Carries(l, m)
    <3>1. Enough(l) => Enough(m)
      BY <2>2, <2>5, <2>6, <2>7 DEF Enough, n, v, w
    <3> QED BY <2>5, <3>1 DEF Carries
  <2>9. \A i \in 0 .. n - 1 : w[i].path = v[i].path /\ w[i].order = v[i].order
    BY <2>4, <2>5
  <2>10. ASSUME Good(l)
         PROVE  /\ Good(m) /\ m.shuffled = l.shuffled
                /\ PlayingOrder(m) = PlayingOrder(l) /\ QueuedOrder(m) = QueuedOrder(l)
    BY <2>5, <2>9, <2>10, SameSongs DEF n, v, w
  <2> QED BY <2>8, <2>10 DEF m
<1> QED BY <1>1, <1>2

\* UpdateItem puts the copy in the place of the first item of its path.
LEMMA UpdateChanges ==
  ASSUME NEW l, IsTyped(l), NEW copy \in Items, Positions(l, copy.path) # {}
  PROVE  \E pos \in 0 .. l.size - 1 :
           /\ Found(l, copy.path) = l.items[pos] /\ l.items[pos].path = copy.path
           /\ Changed(l, Update(l, copy), pos, copy, l.playable)
<1> DEFINE found == Positions(l, copy.path)
           pos == CHOOSE i \in found : \A j \in found : i <= j
           m == Update(l, copy)
<1>1. l.size \in Nat /\ found \in SUBSET (0 .. l.size - 1)
  BY DEF IsTyped, Positions, Indices
<1>2. pos \in found
  <2> HIDE DEF found
  <2>1. \E i \in found : \A j \in found : i <= j
    BY <1>1, LowestOf DEF found
  <2> QED BY <2>1, Zenon
<1>3. pos \in 0 .. l.size - 1 /\ l.items[pos].path = copy.path
  <2> HIDE DEF pos
  <2> QED BY <1>1, <1>2 DEF Positions
<1>4. m = [l EXCEPT !.items[pos] = copy]
  BY Zenon DEF Update
<1>5. Found(l, copy.path) = l.items[pos]
  BY Zenon DEF Found
<1> HIDE DEF pos, m, found
<1>6. /\ DOMAIN m = Fields /\ m.size = l.size /\ m.playable = l.playable /\ m.shuffled = l.shuffled
      /\ m.items = [l.items EXCEPT ![pos] = copy]
  BY <1>4 DEF IsTyped, Fields
<1>8. l.playable \in Int
  BY DEF IsTyped
<1>7. Changed(l, m, pos, copy, l.playable)
  BY <1>3, <1>6, <1>8, Zenon DEF Changed
<1> QED BY <1>3, <1>5, <1>7 DEF m

\* UpdateItem carries the counter unless the mark is lost, and leaves both orders as they
\* are unless the copy has another one.
LEMMA UpdateLeaves ==
  ASSUME NEW l, IsTyped(l), NEW copy \in Items, Positions(l, copy.path) # {}
  PROVE  LET m == Update(l, copy)
             old == Found(l, copy.path)
         IN  /\ IsTyped(m)
             /\ (old.unplayable => copy.unplayable) => Carries(l, m)
             /\ Good(l) /\ copy.order = old.order =>
                  /\ Good(m) /\ m.shuffled = l.shuffled
                  /\ PlayingOrder(m) = PlayingOrder(l) /\ QueuedOrder(m) = QueuedOrder(l)
<1> DEFINE n == l.size
           v == l.items
           m == Update(l, copy)
           w == m.items
           p == [i \in 0 .. n - 1 |-> i]
<1>1. PICK pos \in 0 .. n - 1 :
        /\ Found(l, copy.path) = v[pos] /\ v[pos].path = copy.path
        /\ Changed(l, m, pos, copy, l.playable)
  BY UpdateChanges
<1>2. n \in Nat /\ v \in [0 .. n - 1 -> Items] /\ l.playable \in Int
  BY DEF IsTyped
<1> HIDE DEF m
<1>3. /\ IsTyped(m) /\ m.size = l.size /\ m.shuffled = l.shuffled /\ m.playable = l.playable
      /\ w[pos] = copy /\ \A i \in 0 .. n - 1 : i # pos => w[i] = v[i]
  <2>1. Changed(l, m, pos, copy, l.playable)
    BY <1>1, Zenon
  <2> DEFINE c == l.playable
  <2> HIDE DEF c
  <2>2. Changed(l, m, pos, copy, c)
    BY <2>1 DEF c
  <2>3. /\ IsTyped(m) /\ m.size = l.size /\ m.shuffled = l.shuffled /\ m.playable = c
        /\ m.items[pos] = copy
        /\ \A i \in 0 .. l.size - 1 : i # pos => m.items[i] = l.items[i]
    BY ONLY <2>2, ChangedLeaves
  <2> QED BY <2>3 DEF c
<1>4. p \in [0 .. n - 1 -> 0 .. n - 1] /\ \A i \in 0 .. n - 1 : p[i] = i
  OBVIOUS
<1> HIDE DEF n, v, w, p
<1>5. ASSUME v[pos].unplayable => copy.unplayable
      PROVE  Carries(l, m)
  <2>1. \A i \in 0 .. n - 1 : ~w[i].unplayable => ~v[i].unplayable
    BY <1>3, <1>5
  <2>2. \A i \in 0 .. n - 1 : ~w[i].unplayable => ~v[p[i]].unplayable
    BY <1>4, <2>1
  <2>3. \A i, j \in 0 .. n - 1 : p[i] = p[j] => i = j
    BY <1>4
  <2>4. Count(w, n) <= Count(v, n)
    BY <1>2, <1>4, <2>2, <2>3, NoMorePlayable
  <2>5. Count(w, n) \in Nat /\ Count(v, n) \in Nat
    BY <1>2, SongsFinite
  <2>6. Enough(l) => Enough(m)
    BY <1>2, <1>3, <2>4, <2>5 DEF Enough, n, v, w
  <2> QED BY <1>3, <2>6 DEF Carries
<1>6. ASSUME Good(l), copy.order = v[pos].order
      PROVE  /\ Good(m) /\ m.shuffled = l.shuffled
             /\ PlayingOrder(m) = PlayingOrder(l) /\ QueuedOrder(m) = QueuedOrder(l)
  <2>1. \A i \in 0 .. n - 1 : w[i].path = v[i].path /\ w[i].order = v[i].order
    BY <1>1, <1>3, <1>6
  <2> QED BY <1>3, <1>6, <2>1, SameSongs DEF n, v, w
<1> QED BY <1>1, <1>3, <1>5, <1>6 DEF m

\* An empty list, new or cleared.
LEMMA EmptyLists ==
  ASSUME NEW m, DOMAIN m = Fields, m.size = 0, m.items = EmptyItems, m.playable \in Int,
         m.shuffled \in BOOLEAN
  PROVE  /\ Good(m) /\ Enough(m) /\ IsTyped(m)
         /\ PlayingOrder(m) = << >> /\ QueuedOrder(m) = << >>
<1>1. m.items \in [0 .. 0 - 1 -> Items] /\ Permuted(m.items, 0) /\ InPlace(m.items, 0)
  BY DEF EmptyItems, Permuted, InPlace
<1>2. Good(m) /\ IsTyped(m) /\ Enough(m)
  BY <1>1 DEF Good, IsList, IsTyped, Vector, Enough
<1>3. PlayingOrder(m) = << >>
  BY DEF PlayingOrder
<1>4. QueuedOrder(m) = PlayingOrder(m)
  BY <1>1, <1>2, PlayedAsQueued DEF Good
<1> QED BY <1>2, <1>3, <1>4

\* What Clear leaves, whatever the list was.
LEMMA ClearLeaves ==
  ASSUME NEW l, IsTyped(l)
  PROVE  LET m == Clear(l)
         IN  /\ Good(m) /\ Enough(m) /\ IsTyped(m) /\ m.shuffled = l.shuffled
             /\ PlayingOrder(m) = << >> /\ QueuedOrder(m) = << >>
<1> DEFINE m == Clear(l)
<1>1. DOMAIN l = Fields /\ l.shuffled \in BOOLEAN
  BY DEF IsTyped
<1>2. /\ DOMAIN m = Fields /\ m.size = 0 /\ m.items = EmptyItems /\ m.playable = -1
      /\ m.shuffled = l.shuffled
  BY <1>1 DEF Clear, Fields
<1> HIDE DEF m
<1>3. m.playable \in Int /\ m.shuffled \in BOOLEAN
  BY <1>1, <1>2
<1> QED BY <1>2, <1>3, EmptyLists DEF m

\* SetPlayed changes nothing else.
LEMMA PlayedLeaves ==
  ASSUME NEW l, IsTyped(l)
  PROVE  LET m == [l EXCEPT !.played = TRUE]
         IN  /\ Carries(l, m)
             /\ Good(l) => /\ Good(m) /\ m.shuffled = l.shuffled
                           /\ PlayingOrder(m) = PlayingOrder(l)
                           /\ QueuedOrder(m) = QueuedOrder(l)
<1> DEFINE m == [l EXCEPT !.played = TRUE]
<1>1. /\ DOMAIN m = Fields /\ m.size = l.size /\ m.items = l.items
      /\ m.playable = l.playable /\ m.shuffled = l.shuffled
  BY DEF IsTyped, Fields
<1> HIDE DEF m
<1>2. Carries(l, m)
  BY <1>1 DEF Carries, IsTyped, Enough
<1>3. Good(l) => /\ Good(m) /\ m.shuffled = l.shuffled
                 /\ PlayingOrder(m) = PlayingOrder(l) /\ QueuedOrder(m) = QueuedOrder(l)
  BY <1>1, <1>2, SameSongs DEF Carries
<1> QED BY <1>2, <1>3 DEF m

-----------------------------------------------------------------------------
(* The steps                                                                *)

\* A call adds one song or two.
LEMMA AddedLengths ==
  ASSUME NEW paths \in Added
  PROVE  \E n \in 1 .. 2 : paths \in [1 .. n -> Paths] /\ Len(paths) = n
<1>1. PICK n \in 1 .. 2 : paths \in [1 .. n -> Paths]
  BY DEF Added
<1>2. Len(paths) = n
  BY <1>1
<1> QED BY <1>1, <1>2

\* What the abstract specification calls a call's songs.
LEMMA AddedSequences ==
  ASSUME NEW n \in 0 .. 2, NEW s \in [1 .. n -> Paths]
  PROVE  s \in Order!SeqOf(Paths, 2)
BY DEF Order!SeqOf

\* A new list is in order, and the initial state of PlayOrder.
LEMMA ListInit ==
  ASSUME Init
  PROVE  Good(list) /\ Enough(list) /\ IsTyped(list) /\ Order!Init
<1> DEFINE m == NewList
<1>1. /\ DOMAIN m = Fields /\ m.size = 0 /\ m.items = EmptyItems /\ m.playable = -1
      /\ m.shuffled = FALSE
  BY DEF NewList, Fields
<1>2. list = m
  BY DEF Init
<1> HIDE DEF m
<1>3. m.playable \in Int
  BY <1>1
<1>4. m.shuffled \in BOOLEAN
  BY <1>1, Zenon
<1>5. /\ Good(m) /\ Enough(m) /\ IsTyped(m)
      /\ PlayingOrder(m) = << >> /\ QueuedOrder(m) = << >>
  BY <1>1, <1>3, <1>4, EmptyLists
<1> QED BY <1>2, <1>4, <1>5 DEF Order!Init

\* Nothing of the two orders changes.
Kept(l, m) == Good(m) /\ m.shuffled = l.shuffled
                      /\ PlayingOrder(m) = PlayingOrder(l) /\ QueuedOrder(m) = QueuedOrder(l)

\* A step of the list keeps it good, and is a step of the order of songs or none.
Step == Good(list') /\ [Order!Next]_(Order!povars)

\* A step that keeps both orders is a stuttering step of PlayOrder.
LEMMA KeptIsStep ==
  ASSUME Kept(list, list')
  PROVE  Step
BY DEF Kept, Step, Order!povars

\* Add is AddLast.
LEMMA AddStep ==
  ASSUME Good(list), AddItems
  PROVE  Step
<1>1. PICK paths \in Added : list' = AddAll(list, paths)
  BY DEF AddItems
<1>2. PICK n \in 1 .. 2 : paths \in [1 .. n -> Paths]
  BY <1>1, AddedLengths
<1>3. n \in Nat /\ n \in 0 .. 2
  BY <1>2
<1>4. paths \in Seq(Paths) /\ Len(paths) = n
  BY <1>2, <1>3
<1>5. /\ Good(list') /\ list'.shuffled = list.shuffled
      /\ PlayingOrder(list') = Cat(PlayingOrder(list), paths)
      /\ QueuedOrder(list') = Cat(QueuedOrder(list), paths)
  BY <1>1, <1>3, <1>4, AddAllLeaves
<1>6. paths \in Order!SeqOf(Paths, 2)
  BY <1>2, <1>3, AddedSequences
<1>7. Order!AddLast(paths)
  BY <1>5 DEF Order!AddLast, Cat
<1> QED BY <1>5, <1>6, <1>7 DEF Step, Order!Next

\* A list that is not shuffled plays in the queued order, before the step and after.
LEMMA PutIsStep ==
  ASSUME Good(list), ~list.shuffled, Good(list'), ~list'.shuffled,
         NEW n \in 0 .. 2, NEW s \in [1 .. n -> Paths], NEW pos \in 0 .. list.size - 1,
         NEW cut \in 0 .. 1,
         PlayingOrder(list') = Order!Splice(PlayingOrder(list), pos + 1, cut, s)
  PROVE  Step
<1>1. QueuedOrder(list) = PlayingOrder(list) /\ QueuedOrder(list') = PlayingOrder(list')
  BY PlayedAsQueued DEF Good
<1>2. list.shuffled = FALSE /\ list'.shuffled = FALSE
  BY DEF Good, IsList, IsTyped
<1>3. Order!PutAt(pos + 1, cut, s)
  BY <1>1, <1>2 DEF Order!PutAt
<1>4. s \in Order!SeqOf(Paths, 2)
  BY AddedSequences
<1>5. pos + 1 \in 1 .. Len(QueuedOrder(list))
  <2>1. list.size \in Nat /\ Len(QueuedOrder(list)) = list.size
    BY QueuedQueue DEF Good, IsList, IsTyped, Queue
  <2> QED BY <2>1
<1> QED BY <1>3, <1>4, <1>5 DEF Step, Order!Next

\* Insert is PutAt, in a list that is not shuffled.
LEMMA InsertStep ==
  ASSUME Good(list), InsertItems, ~list.shuffled
  PROVE  Step
<1>1. PICK paths \in Added, pos \in Indices(list) :
        list' = InsertAll(list, paths, pos)
  BY DEF InsertItems
<1>2. PICK n \in 1 .. 2 : paths \in [1 .. n -> Paths]
  BY <1>1, AddedLengths
<1>3. n \in Nat /\ n \in 0 .. 2
  BY <1>2
<1>4. paths \in Seq(Paths) /\ Len(paths) = n
  BY <1>2, <1>3
<1>5. list.size \in Nat /\ pos \in 0 .. list.size - 1 /\ pos \in 0 .. list.size
  BY <1>1 DEF Good, IsList, IsTyped, Indices
<1>6. /\ Good(list') /\ list'.shuffled = list.shuffled
      /\ PlayingOrder(list') = Order!Splice(PlayingOrder(list), pos + 1, 0, paths)
  BY <1>1, <1>3, <1>4, <1>5, InsertAllLeaves
<1>7. 0 \in 0 .. 1
  OBVIOUS
<1> QED BY <1>1, <1>2, <1>3, <1>5, <1>6, <1>7, PutIsStep

\* Expand is PutAt in the place of one song, or a stuttering step.
LEMMA ExpandStep ==
  ASSUME Good(list), ExpandItem, ~list.shuffled
  PROVE  Step
<1>1. PICK loaded \in Added, pos \in Indices(list) :
        list' = Expand(list, pos, loaded)
  BY DEF ExpandItem
<1>2. PICK n \in 1 .. 2 : loaded \in [1 .. n -> Paths]
  BY <1>1, AddedLengths
<1>3. n \in Nat /\ pos \in 0 .. list.size - 1
  BY <1>1, <1>2 DEF Indices
<1>5. CASE list' = list
  BY <1>5, KeptIsStep DEF Kept
<1>6. ASSUME NEW c \in 0 .. n, NEW s \in [1 .. c -> Paths], Good(list'), ~list'.shuffled,
             PlayingOrder(list') = Order!Splice(PlayingOrder(list), pos + 1, 1, s)
      PROVE  Step
  <2>1. c \in 0 .. 2 /\ 1 \in 0 .. 1
    BY <1>2
  <2> QED BY <1>1, <1>3, <1>6, <2>1, PutIsStep
<1>7. \/ list' = list
      \/ /\ Good(list') /\ ~list'.shuffled
         /\ \E c \in 0 .. n : \E s \in [1 .. c -> Paths] :
              PlayingOrder(list') = Order!Splice(PlayingOrder(list), pos + 1, 1, s)
  BY <1>1, <1>2, <1>3, ExpandLeaves
<1> QED BY <1>5, <1>6, <1>7

\* Remove(position) is TakeOut, at the position of one order and the order number of the other.
LEMMA TakeIsStep ==
  ASSUME Good(list), NEW pos \in 0 .. list.size - 1, list' = Remove(list, pos)
  PROVE  Step
<1> DEFINE n == list.size
           o == list.items[pos].order
           q == QueuedOrder(list)
           r == PlayingOrder(list)
<1>1. /\ Good(list') /\ list'.shuffled = list.shuffled
      /\ PlayingOrder(list') = Order!RemoveAt(r, pos + 1)
      /\ QueuedOrder(list') = Order!RemoveAt(q, o + 1)
  BY RemoveLeaves
<1>2. n \in Nat /\ o \in 0 .. n - 1 /\ Len(q) = n /\ q[o + 1] = list.items[pos].path
  BY QueuedQueue DEF Good, IsList, IsTyped, Vector, Permuted, Queue
<1>3. r[pos + 1] = list.items[pos].path
  BY <1>2 DEF PlayingOrder
<1> HIDE DEF o
<1>4. pos + 1 \in 1 .. Len(q) /\ o + 1 \in 1 .. Len(q)
  BY <1>2
<1>5. Order!TakeOut
  BY <1>1, <1>2, <1>3, <1>4 DEF Order!TakeOut
<1> QED BY <1>1, <1>5 DEF Step, Order!Next

\* Both removals are TakeOut, or a stuttering step, unless a path is removed that is there twice.
LEMMA RemoveStep ==
  ASSUME Good(list), RemoveItem \/ RemoveByPath, "removed" \notin disturbed'
  PROVE  Step
<1>1. CASE RemoveItem
  BY <1>1, TakeIsStep DEF RemoveItem, Indices
<1>2. CASE RemoveByPath
  <2>1. PICK path \in Paths :
          list' = RemovePath(list, path) /\ ~\E i, j \in Positions(list, path) : i # j
    BY <1>2 DEF RemoveByPath, Disturbs
  <2>2. \/ list' = list
        \/ \E g \in 0 .. list.size - 1 : list' = Remove(list, g)
    BY <2>1, RemovePathLeaves
  <2>3. CASE list' = list
    BY <2>3, KeptIsStep DEF Kept
  <2> QED BY <2>2, <2>3, TakeIsStep
<1> QED BY <1>1, <1>2

\* Clear is Empty, whatever the list was.
LEMMA ClearStep ==
  ASSUME IsTyped(list), ClearList
  PROVE  Step
<1>1. /\ Good(list') /\ list'.shuffled = list.shuffled
      /\ PlayingOrder(list') = << >> /\ QueuedOrder(list') = << >>
  BY ClearLeaves DEF ClearList
<1>2. Order!Empty
  BY <1>1 DEF Order!Empty
<1> QED BY <1>1, <1>2 DEF Step, Order!Next

\* Shuffle is Shuffle, or a stuttering step.
LEMMA ShuffleStep ==
  ASSUME Good(list), ShuffleList
  PROVE  Step
<1>1. PICK pos \in 0 .. list.size : list' \in Shuffles(list, pos)
  BY DEF ShuffleList
<1>2. CASE list' = list
  BY <1>2, KeptIsStep DEF Kept
<1>3. ASSUME Good(list'), list'.shuffled, list'.size = list.size,
             QueuedOrder(list') = QueuedOrder(list),
             NEW p \in [0 .. list.size - 1 -> 0 .. list.size - 1],
             IsInjective(p), \A i \in 0 .. list.size - 1 : list'.items[i] = list.items[p[i]]
      PROVE  Step
  <2> DEFINE n == list.size
             r == PlayingOrder(list)
             t == PlayingOrder(list')
             f == [i \in 1 .. n |-> p[i - 1] + 1]
  <2>1. n \in Nat /\ Len(r) = n /\ Len(t) = n /\ t \in Seq(Paths)
    BY <1>3, PlayingPaths, PathsSequence DEF Good, IsList, IsTyped, Vector
  <2>2. /\ \A i \in 1 .. n : r[i] = list.items[i - 1].path
        /\ t = [i \in 1 .. n |-> list'.items[i - 1].path]
    BY <1>3 DEF PlayingOrder
  <2> HIDE DEF r, t
  <2>3. \A i \in 1 .. n : i - 1 \in 0 .. n - 1 /\ p[i - 1] \in 0 .. n - 1
    BY <2>1
  <2>4. f \in [1 .. n -> 1 .. n] /\ IsInjective(f)
    <3>1. \A i \in 1 .. n : p[i - 1] + 1 \in 1 .. n
      BY <2>1, <2>3
    <3>2. ASSUME NEW i \in 1 .. n, NEW j \in 1 .. n, p[i - 1] + 1 = p[j - 1] + 1 PROVE i = j
      <4>1. p[i - 1] = p[j - 1]
        BY <2>1, <2>3, <3>2
      <4>2. i - 1 = j - 1
        BY <1>3, <2>3, <4>1 DEF IsInjective
      <4> QED BY <4>2
    <3> QED BY <3>1, <3>2 DEF IsInjective
  <2>5. \A i \in 1 .. n : list'.items[i - 1].path = r[f[i]]
    <3> SUFFICES ASSUME NEW i \in 1 .. n PROVE list'.items[i - 1].path = r[f[i]]
      OBVIOUS
    <3>1. list'.items[i - 1] = list.items[p[i - 1]]
      BY <1>3, <2>3
    <3>2. f[i] = p[i - 1] + 1 /\ p[i - 1] + 1 \in 1 .. n /\ (p[i - 1] + 1) - 1 = p[i - 1]
      BY <2>1, <2>3
    <3> HIDE DEF f
    <3> QED BY <2>2, <3>1, <3>2
  <2>6. t = [i \in 1 .. n |-> r[f[i]]]
    BY <2>2, <2>5, Zenon
  <2> HIDE DEF f
  <2>7. \E g \in [1 .. Len(r) -> 1 .. Len(r)] :
          IsInjective(g) /\ t = [i \in 1 .. Len(r) |-> r[g[i]]]
    BY <2>1, <2>4, <2>6
  <2>8. list'.shuffled = TRUE
    BY <1>3 DEF Good, IsList, IsTyped
  <2>9. Order!Shuffle
    BY <1>3, <2>1, <2>7, <2>8 DEF Order!Shuffle, r, t, Order!IsInjective, IsInjective
  <2> QED BY <1>3, <2>9 DEF Step, Order!Next
<1> QED BY <1>1, <1>2, <1>3, ShufflesLeave

\* UnShuffle is UnShuffle: sorting by order restores the queued order.
LEMMA UnShuffleStep ==
  ASSUME Good(list), UnShuffleList
  PROVE  Step
<1>1. /\ Good(list') /\ ~list'.shuffled
      /\ QueuedOrder(list') = QueuedOrder(list) /\ PlayingOrder(list') = QueuedOrder(list)
  BY UnShufflesLeave DEF UnShuffleList
<1>2. list'.shuffled = FALSE
  BY <1>1 DEF Good, IsList, IsTyped
<1>3. Order!UnShuffle
  BY <1>1, <1>2 DEF Order!UnShuffle
<1> QED BY <1>1, <1>3 DEF Step, Order!Next

\* Swap is SwapTwo.
LEMMA SwapStep ==
  ASSUME Good(list), SwapItems
  PROVE  Step
<1>1. PICK a \in Indices(list), b \in Indices(list) : list' = Swap(list, a, b)
  BY DEF SwapItems
<1>2. a \in 0 .. list.size - 1 /\ b \in 0 .. list.size - 1
  BY <1>1 DEF Indices
<1>3. /\ Good(list') /\ list'.shuffled = list.shuffled
      /\ PlayingOrder(list') = Order!Exchange(PlayingOrder(list), a + 1, b + 1)
      /\ list.shuffled => QueuedOrder(list') = QueuedOrder(list)
  BY <1>1, <1>2, SwapLeaves
<1>4. ~list.shuffled => /\ QueuedOrder(list) = PlayingOrder(list)
                        /\ QueuedOrder(list') = PlayingOrder(list')
  BY <1>3, PlayedAsQueued DEF Good
<1>5. QueuedOrder(list') = IF list.shuffled THEN QueuedOrder(list)
                           ELSE Order!Exchange(QueuedOrder(list), a + 1, b + 1)
  BY <1>3, <1>4, Zenon
<1>6. a + 1 \in 1 .. Len(PlayingOrder(list)) /\ b + 1 \in 1 .. Len(PlayingOrder(list))
  <2>1. list.size \in Nat /\ Len(PlayingOrder(list)) = list.size
    BY PlayingPaths, PathsSequence DEF Good, IsList, IsTyped, Vector
  <2> QED BY <1>2, <2>1
<1>7. Order!SwapTwo
  BY <1>3, <1>5, <1>6, Zenon DEF Order!SwapTwo
<1> QED BY <1>3, <1>7 DEF Step, Order!Next

\* A copy of an item.
LEMMA CopyFields ==
  ASSUME NEW path \in Paths, NEW order \in 0 .. MaxOrder, NEW unplayable \in BOOLEAN
  PROVE  LET copy == [path |-> path, order |-> order, unplayable |-> unplayable]
         IN  /\ copy \in Items /\ copy.path = path /\ copy.order = order
             /\ copy.unplayable = unplayable
BY DEF Items

\* What a step of UpdateItem does.
LEMMA UpdateItemIs ==
  ASSUME UpdateItem
  PROVE  \E copy \in Items :
           /\ Positions(list, copy.path) # {} /\ list' = Update(list, copy)
           /\ "updated" \in disturbed' \/ copy.order = Found(list, copy.path).order
           /\ "unmarked" \in disturbed' \/ (Found(list, copy.path).unplayable => copy.unplayable)
           /\ disturbed \subseteq disturbed'
<1>1. PICK path \in Paths, order \in 0 .. MaxOrder, unplayable \in BOOLEAN :
        LET old == Found(list, path)
        IN  /\ Positions(list, path) # {}
            /\ list' = Update(list, [path |-> path, order |-> order, unplayable |-> unplayable])
            /\ disturbed' = disturbed
                 \cup (IF order # old.order THEN {"updated"} ELSE {})
                 \cup (IF old.unplayable /\ ~unplayable THEN {"unmarked"} ELSE {})
  BY Zenon DEF UpdateItem
<1> DEFINE copy == [path |-> path, order |-> order, unplayable |-> unplayable]
<1>2. /\ copy \in Items /\ copy.path = path /\ copy.order = order
      /\ copy.unplayable = unplayable
  BY CopyFields
<1>3. list' = Update(list, copy)
  BY <1>1
<1> HIDE DEF copy
<1>4. "updated" \in disturbed' \/ order = Found(list, path).order
  BY <1>1
<1>5. "unmarked" \in disturbed' \/ (Found(list, path).unplayable => unplayable)
  BY <1>1
<1>6. disturbed \subseteq disturbed' /\ Positions(list, path) # {}
  BY <1>1
<1> QED BY <1>2, <1>3, <1>4, <1>5, <1>6

\* SetUnPlayable, SetPlayed and an update with a copy of the same order are stuttering steps.
LEMMA SmallSteps ==
  ASSUME Good(list), MarkUnPlayable \/ SetPlayed \/ UpdateItem, "updated" \notin disturbed'
  PROVE  Step
<1>0. IsTyped(list)
  BY DEF Good, IsList
<1>1. CASE MarkUnPlayable
  BY <1>0, <1>1, SetUnPlayableLeaves, KeptIsStep DEF MarkUnPlayable, Kept
<1>2. CASE SetPlayed
  BY <1>0, <1>2, PlayedLeaves, KeptIsStep DEF SetPlayed, Kept
<1>3. CASE UpdateItem
  <2>1. PICK copy \in Items :
          /\ Positions(list, copy.path) # {} /\ list' = Update(list, copy)
          /\ copy.order = Found(list, copy.path).order
    BY <1>3, UpdateItemIs
  <2> QED BY <1>0, <2>1, UpdateLeaves, KeptIsStep DEF Kept
<1> QED BY <1>1, <1>2, <1>3

\* Only Clear takes a disturbance back.
LEMMA Remembered ==
  ASSUME Next, ~ClearList
  PROVE  disturbed \subseteq disturbed'
<1>1. CASE InsertItems
  BY <1>1 DEF InsertItems, Disturbs
<1>2. CASE ExpandItem
  BY <1>2 DEF ExpandItem, Disturbs
<1>3. CASE RemoveByPath
  BY <1>3 DEF RemoveByPath, Disturbs
<1>4. CASE UpdateItem
  BY <1>4, UpdateItemIs
<1> QED BY <1>1, <1>2, <1>3, <1>4 DEF Next, AddItems, RemoveItem, ShuffleList, UnShuffleList,
          SwapItems, MarkUnPlayable, SetPlayed

\* A list in order stays in order unless it is disturbed, and takes a step of PlayOrder or none.
LEMMA EveryStep ==
  ASSUME Good(list), Next, OrdersIntact'
  PROVE  Step
<1>1. "inserted" \notin disturbed' /\ "removed" \notin disturbed' /\ "updated" \notin disturbed'
  BY DEF OrdersIntact
<1>2. CASE InsertItems
  <2>1. ~list.shuffled
    BY <1>1, <1>2 DEF InsertItems, Disturbs
  <2> QED BY <1>2, <2>1, InsertStep
<1>3. CASE ExpandItem
  <2>1. ~list.shuffled
    BY <1>1, <1>3 DEF ExpandItem, Disturbs
  <2> QED BY <1>3, <2>1, ExpandStep
<1>4. CASE ClearList
  BY <1>4, ClearStep DEF Good, IsList
<1> QED BY <1>1, <1>2, <1>3, <1>4, AddStep, RemoveStep, ShuffleStep, UnShuffleStep, SwapStep,
          SmallSteps DEF Next

\* A call's songs carry the counter, added or inserted.
LEMMA PutStepCarries ==
  ASSUME IsTyped(list), AddItems \/ InsertItems
  PROVE  Carries(list, list')
<1>1. list.size \in Nat /\ \A i \in Indices(list) : i \in 0 .. list.size
  BY DEF IsTyped, Indices
<1>2. list.size \in 0 .. list.size
  BY <1>1
<1>3. PICK paths \in Added : \/ list' = AddAll(list, paths)
                             \/ \E i \in Indices(list) : list' = InsertAll(list, paths, i)
  BY DEF AddItems, InsertItems
<1>4. PICK n \in 1 .. 2 : paths \in [1 .. n -> Paths]
  BY AddedLengths
<1>5. n \in Nat /\ paths \in Seq(Paths) /\ Len(paths) = n
  BY <1>4
<1>6. CASE list' = AddAll(list, paths)
  <2>1. Put(list, list', paths, n, list.size)
    BY <1>5, <1>6, AddAllPuts
  <2> QED BY <2>1, PutCarries
<1>7. ASSUME NEW i \in Indices(list), list' = InsertAll(list, paths, i)
      PROVE  Carries(list, list')
  <2>1. i \in 0 .. list.size
    BY <1>1
  <2>2. Put(list, list', paths, n, i)
    BY <1>5, <1>7, <2>1, InsertAllPuts
  <2> QED BY <2>2, PutCarries
<1> QED BY <1>3, <1>6, <1>7

\* Whatever the orders are, a step carries the counter, or is Clear, or takes a mark off.
LEMMA EveryStepCarries ==
  ASSUME IsTyped(list), Next, ~ClearList
  PROVE  Carries(list, list') \/ (IsTyped(list') /\ "unmarked" \in disturbed')
<1>0. \A i \in Indices(list) : i \in 0 .. list.size - 1
  BY DEF Indices
<1>1. CASE AddItems \/ InsertItems
  BY <1>1, PutStepCarries
<1>2. CASE ExpandItem
  <2>1. PICK loaded \in Added, pos \in Indices(list) : list' = Expand(list, pos, loaded)
    BY <1>2 DEF ExpandItem
  <2>2. PICK n \in 1 .. 2 : loaded \in [1 .. n -> Paths]
    BY AddedLengths
  <2>3. n \in Nat
    BY <2>2
  <2> QED BY <1>0, <2>1, <2>2, <2>3, ExpandCarries
<1>3. CASE RemoveItem
  <2>1. PICK pos \in Indices(list) : list' = Remove(list, pos)
    BY <1>3 DEF RemoveItem
  <2>2. Taken(list, list', pos)
    BY <1>0, <2>1, RemoveTakes
  <2> QED BY <1>0, <2>2, TakenCarries
<1>4. CASE RemoveByPath
  BY <1>4, RemovePathCarries DEF RemoveByPath
<1>5. CASE ShuffleList
  <2>1. PICK pos : list' \in Shuffles(list, pos)
    BY <1>5 DEF ShuffleList
  <2>2. CASE list' = list
    BY <2>2 DEF Carries
  <2>3. CASE list' # list
    BY <2>1, <2>3, ShuffleReorders, ReorderedCarries
  <2> QED BY <2>2, <2>3
<1>6. CASE UnShuffleList
  BY <1>6, UnShuffleReorders, ReorderedCarries DEF UnShuffleList
<1>7. CASE SwapItems
  BY <1>0, <1>7, SwapCarries DEF SwapItems
<1>8. CASE MarkUnPlayable
  BY <1>8, SetUnPlayableLeaves DEF MarkUnPlayable
<1>9. CASE SetPlayed
  BY <1>9, PlayedLeaves DEF SetPlayed
<1>10. CASE UpdateItem
  <2>1. PICK copy \in Items :
          /\ Positions(list, copy.path) # {} /\ list' = Update(list, copy)
          /\ "unmarked" \in disturbed' \/ (Found(list, copy.path).unplayable => copy.unplayable)
    BY <1>10, UpdateItemIs
  <2> QED BY <2>1, UpdateLeaves
<1> QED BY <1>1, <1>2, <1>3, <1>4, <1>5, <1>6, <1>7, <1>8, <1>9, <1>10 DEF Next

-----------------------------------------------------------------------------
(* The theorems, of everything the program does with a list.                *)

\* The inductive invariant: the counter is high enough until a copy has taken a mark off,
\* and until one of the other disturbances the orders are a permutation, in place in a
\* list that is not shuffled.  The two need each other in neither direction: what
\* disturbs the orders does not disturb the counter.
ListInv ==
  /\ IsTyped(list)
  /\ "unmarked" \notin disturbed => Enough(list)
  /\ OrdersIntact => Good(list)

\* Each step keeps the invariant, and is a step of PlayOrder or none while the orders
\* are intact.
LEMMA ListStep ==
  ASSUME ListInv, [Next]_vars
  PROVE  ListInv' /\ [OrdersIntact' => Order!Next]_(Order!povars)
<1>1. CASE UNCHANGED vars
  BY <1>1 DEF vars, ListInv, OrdersIntact, Order!povars
<1>2. CASE ClearList
  <2>1. Step
    BY <1>2, ClearStep DEF ListInv
  <2>2. Enough(list') /\ IsTyped(list') /\ Good(list')
    BY <1>2, ClearLeaves DEF ListInv, ClearList
  <2> QED BY <2>1, <2>2 DEF Step, ListInv
<1>3. CASE Next /\ ~ClearList
  <2>1. disturbed \subseteq disturbed'
    BY <1>3, Remembered
  <2>2. IsTyped(list') /\ ("unmarked" \notin disturbed' => Enough(list'))
    BY <1>3, <2>1, EveryStepCarries DEF ListInv, Carries
  <2>3. OrdersIntact' => Step
    <3>1. OrdersIntact' => OrdersIntact
      BY <2>1 DEF OrdersIntact
    <3> QED BY <1>3, <3>1, EveryStep DEF ListInv
  <2> QED BY <2>2, <2>3 DEF Step, ListInv
<1> QED BY <1>1, <1>2, <1>3

\* The inductive invariant, for any paths, any size of the list and any sequence of
\* the calls of CPlayList, the same song queued twice, inserts in shuffle and copies
\* of other items sent back included.
THEOREM ListStaysGood == Spec => []ListInv
<1>1. Init => ListInv
  BY ListInit DEF ListInv
<1>2. ListInv /\ [Next]_vars => ListInv'
  BY ListStep
<1> QED BY <1>1, <1>2, PTL DEF Spec

\* The order numbers stay a permutation of the positions, so that FindOrder finds one
\* item, until the list is disturbed by an insert in shuffle, the removal of a path that
\* is there twice, or a copy of another order (OrdersArePermutation).
THEOREM OrdersStayPermutation == Spec => []OrdersArePermutation
<1>1. ListInv => OrdersArePermutation
  BY DEF ListInv, Good, IsList, IsTyped, Vector, Permuted, OrdersArePermutation, Indices
<1> QED BY <1>1, ListStaysGood, PTL

\* GetPlayable never says that nothing can be played while something can, whatever is
\* done with the list, until a copy without the mark takes the place of an unplayable
\* item (PlayableNeverTooLow).
THEOREM PlayableIsNeverTooLow == Spec => []PlayableNeverTooLow
<1>1. ListInv => PlayableNeverTooLow
  BY PlayableCount DEF ListInv, Enough, PlayableNeverTooLow
<1> QED BY <1>1, ListStaysGood, PTL

\* The list with its order numbers implements PlayOrder until it is disturbed: switching
\* shuffle off gives the queued order back, whatever was added, inserted, removed,
\* swapped or shuffled before (ImplementsPlayOrder).
THEOREM ListImplementsPlayOrder == Spec => ImplementsPlayOrder
<1>1. Init => Order!Init
  BY ListInit
<1>2. ListInv /\ [Next]_vars => [OrdersIntact' => Order!Next]_(Order!povars)
  BY ListStep
<1> QED BY <1>1, <1>2, ListStaysGood, PTL DEF Spec, ImplementsPlayOrder
=============================================================================
