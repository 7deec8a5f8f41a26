------------------------ MODULE CacheCircularProofs ------------------------
(***************************************************************************)
(* Proofs about CacheCircular for every Front, Back and FileLen.            *)
(***************************************************************************)
EXTENDS CacheCircular, TLAPS

-----------------------------------------------------------------------------
(* Arithmetic of slots                                                       *)

LEMMA DivMod ==
  ASSUME NEW N \in Nat \ {0}, NEW i \in Nat
  PROVE  /\ i % N \in 0 .. N - 1
         /\ i \div N \in Nat
         /\ i = N * (i \div N) + (i % N)
OBVIOUS

\* A quotient and a remainder are determined by the number they make.
LEMMA UniqueRemainder ==
  ASSUME NEW N \in Nat \ {0}, NEW a \in Int, NEW b \in Int,
         NEW x \in 0 .. N - 1, NEW y \in 0 .. N - 1,
         N * a + x = N * b + y
  PROVE  x = y
<1>1. CASE a = b
  BY <1>1
<1>2. CASE a < b
  <2>1. N * b >= N * (a + 1)
    BY <1>2
  <2>2. N * (a + 1) = N * a + N
    OBVIOUS
  <2>3. QED
    BY <2>1, <2>2
<1>3. CASE b < a
  <2>1. N * a >= N * (b + 1)
    BY <1>3
  <2>2. N * (b + 1) = N * b + N
    OBVIOUS
  <2>3. QED
    BY <2>1, <2>2
<1>4. QED
  BY <1>1, <1>2, <1>3

\* Two positions less than N apart use different slots.
LEMMA DistinctSlots ==
  ASSUME NEW N \in Nat \ {0}, NEW p \in Nat, NEW q \in Nat,
         q < p, p - q < N
  PROVE  p % N # q % N
<1>1. SUFFICES ASSUME p % N = q % N PROVE FALSE
  OBVIOUS
<1> DEFINE a == p \div N
           b == q \div N
<1>2. /\ a \in Nat /\ b \in Nat
      /\ p = N * a + (p % N) /\ q = N * b + (q % N)
      /\ p % N \in 0 .. N - 1
  BY DivMod
<1> HIDE DEF a, b
<1>3. p - q = N * a - N * b
  BY <1>1, <1>2
<1>4. CASE a <= b
  <2>1. N * a <= N * b
    BY <1>2, <1>4
  <2>2. QED
    BY <1>2, <1>3, <2>1
<1>5. CASE a >= b + 1
  <2>1. N * a >= N * (b + 1)
    BY <1>2, <1>5
  <2>2. N * (b + 1) = N * b + N
    BY <1>2
  <2>3. QED
    BY <1>2, <1>3, <2>1, <2>2
<1>6. QED
  BY <1>2, <1>4, <1>5

\* The slots of consecutive positions are consecutive up to the array's end.
LEMMA ConsecutiveSlots ==
  ASSUME NEW N \in Nat \ {0}, NEW p \in Nat, NEW k \in Nat,
         k < N - (p % N)
  PROVE  (p + k) % N = (p % N) + k
<1> DEFINE a == p \div N
           x == p % N
           b == (p + k) \div N
           y == (p + k) % N
<1>1. /\ x \in 0 .. N - 1 /\ a \in Nat /\ p = N * a + x
  BY DivMod
<1>2. /\ y \in 0 .. N - 1 /\ b \in Nat /\ p + k = N * b + y
  <2>1. p + k \in Nat
    OBVIOUS
  <2>2. QED
    BY <2>1, DivMod
<1>3. k < N - x
  OBVIOUS
<1> HIDE DEF a, b, x, y
<1>4. x + k \in 0 .. N - 1
  BY <1>1, <1>3
<1>5. N * a + (x + k) = N * b + y
  BY <1>1, <1>2
<1>6. x + k = y
  BY <1>1, <1>2, <1>4, <1>5, UniqueRemainder
<1>7. QED
  BY <1>6 DEF x, y

-----------------------------------------------------------------------------
(* The inductive invariant                                                   *)

LEMMA SizeFacts == /\ m_size \in Nat \ {0}
                   /\ Front \in Nat \ {0} /\ Back \in Nat /\ FileLen \in Nat
                   /\ m_size = Front + Back
  BY CacheAssumption DEF m_size

LEMMA SlotInRange == \A p \in Nat : p % m_size \in Slots
  BY SizeFacts, DivMod DEF Slots

IInv == TypeOK /\ WindowOK /\ ContentOK

\* What WriteToCache accepts fits in front of the reader and in the array.
LEMMA AcceptedBounds ==
  ASSUME TypeOK, WindowOK, NEW len \in Nat
  PROVE  /\ Accepted(len) \in Nat
         /\ Accepted(len) <= len
         /\ Accepted(len) <= m_size - (m_end % m_size)
         /\ m_end + Accepted(len) - m_cur <= m_size - Least(m_cur - m_beg, Back)
<1> DEFINE x == m_end % m_size
<1>1. x \in 0 .. m_size - 1
  BY SlotInRange DEF TypeOK, Slots
<1> HIDE DEF x
<1>2. Limit \in Nat
  BY SizeFacts DEF Limit, Least, TypeOK, WindowOK
<1>3. QED
  <2>1. Accepted(len) = Least(len, Least(Limit, m_size - x))
    BY DEF Accepted, x
  <2>2. /\ Accepted(len) \in Nat /\ Accepted(len) <= len
        /\ Accepted(len) <= m_size - x /\ Accepted(len) <= Limit
    BY <1>1, <1>2, <2>1, SizeFacts DEF Least
  <2>3. m_end + Limit - m_cur = m_size - Least(m_cur - m_beg, Back)
    BY SizeFacts DEF Limit, Least, TypeOK, WindowOK
  <2>4. Least(m_cur - m_beg, Back) \in Int
    BY SizeFacts DEF Least, TypeOK
  <2>5. QED
    BY <2>2, <2>3, <2>4, <1>2, SizeFacts DEF x, TypeOK

LEMMA InitIInv == Init => IInv
<1> SUFFICES ASSUME Init PROVE IInv
  OBVIOUS
<1>1. TypeOK
  BY SizeFacts DEF Init, TypeOK, Slots, Unset
<1>2. WindowOK
  BY SizeFacts DEF Init, WindowOK
<1>3. ContentOK
  BY DEF Init, ContentOK
<1>4. QED
  BY <1>1, <1>2, <1>3 DEF IInv

LEMMA WriteIInv ==
  ASSUME IInv, NEW len \in 1 .. FileLen - m_end, WriteToCache(m_end, len)
  PROVE  IInv'
<1> DEFINE n == Accepted(len)
           x == m_end % m_size
<1>1. TypeOK /\ WindowOK /\ ContentOK
  BY DEF IInv
<1>2. /\ n \in Nat /\ n > 0 /\ n <= len
      /\ n <= m_size - x
      /\ m_end + n - m_cur <= m_size - Least(m_cur - m_beg, Back)
  <2>1. len \in Nat
    BY <1>1, SizeFacts DEF TypeOK
  <2>2. QED
    BY <2>1, <1>1, AcceptedBounds DEF WriteToCache
<1>3. /\ m_end' = m_end + n
      /\ m_beg' = IF m_end + n - m_beg > m_size THEN m_end + n - m_size ELSE m_beg
      /\ m_cur' = m_cur /\ m_out' = m_out
      /\ m_buf' = Stored(x, m_end, n)
  BY DEF WriteToCache
<1>4. x \in 0 .. m_size - 1
  BY <1>1, SlotInRange DEF TypeOK, Slots
<1>0. x = m_end % m_size
  OBVIOUS
<1> HIDE DEF n, x
<1>5. TypeOK'
  <2>1. m_buf' \in [Slots -> Int]
    BY <1>1, <1>2, <1>3, <1>4, SizeFacts DEF Stored, TypeOK, Slots
  <2>2. QED
    BY <1>1, <1>2, <1>3, <2>1, SizeFacts DEF TypeOK, WindowOK
<1>6. WindowOK'
  BY <1>1, <1>2, <1>3, SizeFacts DEF TypeOK, WindowOK, Least
<1>7. ContentOK'
  <2> SUFFICES ASSUME NEW p \in m_beg' .. m_end' - 1
               PROVE  m_buf'[p % m_size] = p
    BY DEF ContentOK
  <2>1. p \in Nat /\ p % m_size \in Slots /\ m_end \in Nat /\ m_size \in Nat \ {0}
    <3>1. p \in Nat
      BY <1>5 DEF TypeOK
    <3>2. QED
      BY <3>1, <1>1, SlotInRange, SizeFacts DEF TypeOK
  <2>2. CASE p >= m_end
    <3> DEFINE k == p - m_end
    <3>1. k \in Nat /\ k < n /\ p = m_end + k
      BY <2>1, <2>2, <1>2, <1>3
    <3>2. (m_end + k) % m_size = x + k
      BY <3>1, <2>1, <1>2, <1>4, <1>0, ConsecutiveSlots
    <3>3. x + k \in Slots /\ x + k \in x .. x + n - 1
      BY <3>1, <1>2, <1>4, SizeFacts DEF Slots
    <3>4. m_buf'[x + k] = m_end + k
      BY <3>3, <3>1, <1>3, <1>4, <2>1 DEF Stored
    <3>5. QED
      BY <3>1, <3>2, <3>4
  <2>3. CASE p < m_end
    <3>1. p \in m_beg .. m_end - 1 /\ p >= m_end + n - m_size
      BY <2>1, <2>3, <1>1, <1>2, <1>3, SizeFacts DEF TypeOK, WindowOK
    <3>2. m_buf[p % m_size] = p
      BY <3>1, <1>1 DEF ContentOK
    <3>3. p % m_size \notin x .. x + n - 1
      <4>1. SUFFICES ASSUME p % m_size \in x .. x + n - 1 PROVE FALSE
        OBVIOUS
      <4> DEFINE y == p % m_size
                 k == y - x
                 q == m_end + k
      <4>y. y \in Slots /\ y = p % m_size /\ y \in x .. x + n - 1
        BY <2>1, <4>1
      <4> HIDE DEF y
      <4>2. k \in Nat /\ k < n /\ y = x + k
        BY <4>y, <1>2, <1>4, SizeFacts DEF Slots
      <4> HIDE DEF k
      <4>3. q % m_size = y
        <5>1. (m_end + k) % m_size = (m_end % m_size) + k
          <6>1. k < m_size - (m_end % m_size)
            BY <4>2, <1>2, <1>4, <1>0, SizeFacts
          <6>2. QED
            BY <6>1, <4>2, <2>1, ConsecutiveSlots
        <5>2. QED
          BY <5>1, <4>2, <1>0
      <4>4. q \in Nat /\ p < q /\ q - p < m_size
        BY <4>2, <3>1, <2>1, <2>3, <1>2, SizeFacts
      <4> HIDE DEF q
      <4>5. QED
        BY <4>3, <4>4, <4>y, <2>1, DistinctSlots
    <3>4. m_buf'[p % m_size] = m_buf[p % m_size]
      BY <3>3, <1>3, <2>1 DEF Stored
    <3>5. QED
      BY <3>2, <3>4
  <2>4. QED
    BY <2>1, <2>2, <2>3
<1>8. QED
  BY <1>5, <1>6, <1>7 DEF IInv

LEMMA ReadIInv ==
  ASSUME IInv, NEW len \in Nat, ReadFromCache(len)
  PROVE  /\ IInv'
         /\ \E n \in 1 .. m_end - m_cur : /\ m_out' = [k \in 1 .. n |-> m_cur + k - 1]
                                          /\ m_cur' = m_cur + n
<1> DEFINE n == Least(len, Available)
           x == m_cur % m_size
<1>1. TypeOK /\ WindowOK /\ ContentOK
  BY DEF IInv
<1>2. x \in 0 .. m_size - 1 /\ x = m_cur % m_size
  BY <1>1, SlotInRange DEF TypeOK, Slots
<1>3. n \in Nat /\ n > 0 /\ n <= m_size - x /\ n <= m_end - m_cur
  <2> HIDE DEF x
  <2>1. Available = Least(m_size - x, m_end - m_cur)
    BY DEF Available, x
  <2>2. n > 0
    BY DEF ReadFromCache
  <2>3. QED
    BY <2>1, <2>2, <1>1, <1>2, SizeFacts DEF Least, TypeOK, WindowOK
<1>4. /\ m_out' = [k \in 1 .. n |-> m_buf[x + k - 1]]
      /\ m_cur' = m_cur + n
      /\ UNCHANGED <<m_beg, m_end, m_buf>>
  BY DEF ReadFromCache
<1> HIDE DEF n, x
<1>5. \A k \in 1 .. n : m_buf[x + k - 1] = m_cur + k - 1
  <2> SUFFICES ASSUME NEW k \in 1 .. n PROVE m_buf[x + k - 1] = m_cur + k - 1
    OBVIOUS
  <2> DEFINE j == k - 1
  <2>1. j \in Nat /\ j < n /\ k = j + 1
    BY <1>3
  <2>2. m_cur \in Nat /\ m_size \in Nat \ {0}
    BY <1>1, SizeFacts DEF TypeOK
  <2> HIDE DEF j
  <2>3. (m_cur + j) % m_size = x + j
    <3>1. j < m_size - (m_cur % m_size)
      BY <2>1, <2>2, <1>2, <1>3
    <3>2. (m_cur + j) % m_size = (m_cur % m_size) + j
      BY <3>1, <2>1, <2>2, ConsecutiveSlots
    <3>3. QED
      BY <3>2, <1>2
  <2>4. m_cur + j \in m_beg .. m_end - 1
    BY <2>1, <2>2, <1>1, <1>3, SizeFacts DEF TypeOK, WindowOK
  <2>5. m_buf[(m_cur + j) % m_size] = m_cur + j
    BY <2>4, <1>1 DEF ContentOK
  <2>6. x + k - 1 = x + j /\ m_cur + k - 1 = m_cur + j
    BY <2>1, <2>2, <1>2
  <2>7. QED
    BY <2>3, <2>5, <2>6
<1>6. m_out' = [k \in 1 .. n |-> m_cur + k - 1]
  BY <1>4, <1>5
<1>7. TypeOK'
  <2>1. m_out' \in Seq(Int)
    <3>1. m_out' \in [1 .. n -> Int]
      BY <1>6, <1>1, <1>3, SizeFacts DEF TypeOK
    <3>2. QED
      BY <3>1, <1>3
  <2>2. QED
    BY <2>1, <1>1, <1>3, <1>4, SizeFacts DEF TypeOK, WindowOK
<1>8. WindowOK'
  BY <1>1, <1>3, <1>4, SizeFacts DEF TypeOK, WindowOK
<1>9. ContentOK'
  BY <1>1, <1>4, SizeFacts DEF ContentOK, m_size
<1>10. n \in 1 .. m_end - m_cur
  BY <1>1, <1>3, SizeFacts DEF TypeOK
<1>11. QED
  BY <1>4, <1>6, <1>7, <1>8, <1>9, <1>10 DEF IInv

LEMMA SeekIInv ==
  ASSUME IInv, NEW pos \in 0 .. FileLen, Seek(pos)
  PROVE  IInv'
<1>1. TypeOK /\ WindowOK /\ ContentOK
  BY DEF IInv
<1>2. TypeOK'
  BY <1>1 DEF Seek, TypeOK
<1>3. WindowOK'
  BY <1>1, SizeFacts DEF Seek, Holds, WindowOK, TypeOK, m_size
<1>4. ContentOK'
  BY <1>1 DEF Seek, ContentOK
<1>5. QED
  BY <1>2, <1>3, <1>4 DEF IInv

LEMMA ResetIInv ==
  ASSUME IInv, NEW pos \in 0 .. FileLen, Reset(pos)
  PROVE  IInv'
<1>1. TypeOK'
  BY DEF IInv, Reset, TypeOK
<1>2. WindowOK'
  BY SizeFacts DEF Reset, WindowOK, m_size
<1>3. ContentOK'
  BY SizeFacts DEF Reset, ContentOK
<1>4. QED
  BY <1>1, <1>2, <1>3 DEF IInv

LEMMA NextIInv == IInv /\ [Next]_ccvars => IInv'
<1> SUFFICES ASSUME IInv, [Next]_ccvars PROVE IInv'
  OBVIOUS
<1>1. CASE Write
  BY <1>1, WriteIInv DEF Write
<1>2. CASE Read
  BY <1>2, ReadIInv DEF Read
<1>3. CASE SeekWithin
  BY <1>3, SeekIInv DEF SeekWithin
<1>4. CASE Restart
  BY <1>4, ResetIInv DEF Restart
<1>5. CASE UNCHANGED ccvars
  BY <1>5 DEF ccvars, IInv, TypeOK, WindowOK, ContentOK
<1>6. QED
  BY <1>1, <1>2, <1>3, <1>4, <1>5 DEF Next

LEMMA Invariance == Spec => []IInv
<1>1. Spec => Init /\ [][Next]_ccvars
  BY DEF Spec
<1>2. QED
  BY <1>1, InitIInv, NextIInv, PTL

-----------------------------------------------------------------------------
(* The results                                                               *)

(***************************************************************************)
(* The relation of m_beg, m_cur and m_end documented above WriteToCache      *)
(* holds for every front and back size.                                      *)
(***************************************************************************)
THEOREM WindowTheorem == Spec => []WindowOK
<1>1. IInv => WindowOK
  BY DEF IInv
<1>2. QED
  BY <1>1, Invariance, PTL

(***************************************************************************)
(* Every position of the valid window is held by the slot a read of it uses. *)
(***************************************************************************)
THEOREM ContentTheorem == Spec => []ContentOK
<1>1. IInv => ContentOK
  BY DEF IInv
<1>2. QED
  BY <1>1, Invariance, PTL

(***************************************************************************)
(* The reader never loses so much of what lies behind it that the writer is  *)
(* blocked while fewer than Front bytes are waiting.                         *)
(***************************************************************************)
THEOREM NeverStallsTheorem == Spec => []NeverStalls
<1>1. IInv => NeverStalls
  <2> SUFFICES ASSUME IInv, m_end - m_cur < Front PROVE Accepted(1) = 1
    BY DEF NeverStalls
  <2> DEFINE x == m_end % m_size
  <2>1. TypeOK /\ WindowOK
    BY DEF IInv
  <2>2. x \in 0 .. m_size - 1
    BY <2>1, SlotInRange DEF TypeOK, Slots
  <2>3. Limit \in Nat /\ Limit > 0
    BY <2>1, SizeFacts DEF Limit, Least, TypeOK, WindowOK
  <2>4. Accepted(1) = Least(1, Least(Limit, m_size - x))
    BY DEF Accepted
  <2> HIDE DEF x
  <2>5. QED
    BY <2>2, <2>3, <2>4, SizeFacts DEF Least
<1>2. QED
  BY <1>1, Invariance, PTL

\* A step that fills the window forward and leaves the reader where it is can
\* only be a write.
LEMMA ForwardIsWrite ==
  ASSUME IInv, Next, m_end' > m_end, m_cur' = m_cur
  PROVE  Write
<1>1. CASE Read
  BY <1>1, SizeFacts DEF Read, ReadFromCache, IInv, TypeOK
<1>2. CASE SeekWithin
  BY <1>2, SizeFacts DEF SeekWithin, Seek, IInv, TypeOK
<1>3. CASE Restart
  BY <1>3, SizeFacts DEF Restart, Reset, IInv, TypeOK, WindowOK
<1>4. QED
  BY <1>1, <1>2, <1>3 DEF Next

\* A write leaves the reader the back buffer it is guaranteed.
LEMMA WriteKeepsBack ==
  ASSUME IInv, NEW len \in 1 .. FileLen - m_end, WriteToCache(m_end, len)
  PROVE  m_cur - m_beg' >= Least(m_cur - m_beg, Back)
<1>1. TypeOK /\ WindowOK
  BY DEF IInv
<1> DEFINE n == Accepted(len)
<1>2. /\ n \in Nat
      /\ m_end + n - m_cur <= m_size - Least(m_cur - m_beg, Back)
  <2>1. len \in Nat
    BY <1>1, SizeFacts DEF TypeOK
  <2>2. QED
    BY <2>1, <1>1, AcceptedBounds
<1>3. m_beg' = IF m_end + n - m_beg > m_size THEN m_end + n - m_size ELSE m_beg
  BY DEF WriteToCache
<1> HIDE DEF n
<1>4. QED
  BY <1>1, <1>2, <1>3, SizeFacts DEF TypeOK, WindowOK, Least

(***************************************************************************)
(* Whatever is written, the reader can seek back over the last Back bytes,   *)
(* or over all there were when they were fewer.                              *)
(***************************************************************************)
THEOREM BackIsKeptTheorem == Spec => BackIsKept
<1> DEFINE Kept == m_end' > m_end /\ m_cur' = m_cur
                     => m_cur - m_beg' >= Least(m_cur - m_beg, Back)
<1>1. IInv /\ [Next]_ccvars => [Kept]_ccvars
  <2> SUFFICES ASSUME IInv, Next, m_end' > m_end, m_cur' = m_cur
               PROVE  m_cur - m_beg' >= Least(m_cur - m_beg, Back)
    OBVIOUS
  <2>1. PICK len \in 1 .. FileLen - m_end : WriteToCache(m_end, len)
    BY ForwardIsWrite DEF Write
  <2>2. QED
    BY <2>1, WriteKeepsBack
<1>2. Spec => [][Kept]_ccvars
  <2>1. Spec => []IInv /\ [][Next]_ccvars
    BY Invariance DEF Spec
  <2>2. QED
    BY <2>1, <1>1, PTL
<1>3. QED
  BY <1>2 DEF BackIsKept

LEMMA WriteExtends ==
  ASSUME IInv, NEW len \in 1 .. FileLen - m_end, WriteToCache(m_end, len)
  PROVE  Window!Extend
<1>1. TypeOK /\ WindowOK /\ TypeOK' /\ WindowOK'
  BY WriteIInv DEF IInv
<1>2. m_cur - m_beg' >= Least(m_cur - m_beg, Back)
  BY WriteKeepsBack
<1>3. m_end' > m_end /\ UNCHANGED <<m_cur, m_out>>
  <2>1. Accepted(len) > 0 /\ m_end' = m_end + Accepted(len)
        /\ UNCHANGED <<m_cur, m_out>>
    BY DEF WriteToCache
  <2>2. Accepted(len) \in Nat
    <3>1. len \in Nat
      BY <1>1, SizeFacts DEF TypeOK
    <3>2. QED
      BY <3>1, <1>1, AcceptedBounds
  <2>3. QED
    BY <2>1, <2>2, <1>1, SizeFacts DEF TypeOK
<1>4. /\ m_end' \in m_end + 1 .. FileLen /\ m_beg' \in m_beg .. m_cur
      /\ m_end' - m_beg' <= Front + Back
  <2>1. m_beg' >= m_beg
    <3> DEFINE n == Accepted(len)
    <3>1. /\ m_end' = m_end + n
          /\ m_beg' = IF m_end + n - m_beg > m_size THEN m_end + n - m_size
                                                   ELSE m_beg
      BY DEF WriteToCache
    <3>2. n \in Nat
      BY <1>1, SizeFacts, AcceptedBounds DEF TypeOK
    <3> HIDE DEF n
    <3>3. QED
      BY <3>1, <3>2, <1>1, SizeFacts DEF TypeOK
  <2>2. /\ m_beg \in Nat /\ m_beg' \in Nat /\ m_cur \in Nat /\ m_end \in Nat
        /\ m_end' \in 0 .. FileLen
    BY <1>1, SizeFacts DEF TypeOK
  <2>3. /\ m_beg' <= m_cur /\ m_end' - m_beg' <= Front + Back
    <3>1. m_beg' <= m_cur' /\ m_end' - m_beg' <= m_size'
      BY <1>1 DEF WindowOK
    <3>2. m_size' = Front + Back
      BY DEF m_size
    <3>3. QED
      BY <3>1, <3>2, <1>3
  <2>4. m_end' > m_end
    BY <1>3
  <2>5. m_end' \in m_end + 1 .. FileLen
    BY <2>2, <2>4, SizeFacts
  <2>6. m_beg' \in m_beg .. m_cur
    BY <2>1, <2>2, <2>3
  <2>7. QED
    BY <2>3, <2>5, <2>6
<1>5. QED
  BY <1>2, <1>3, <1>4 DEF Window!Extend, Window!Smaller, Least

LEMMA StepRefines == IInv /\ [Next]_ccvars => [Window!Next]_(Window!swvars)
<1> SUFFICES ASSUME IInv, [Next]_ccvars
             PROVE  Window!Next \/ UNCHANGED <<m_beg, m_end, m_cur, m_out>>
  BY DEF Window!swvars
<1>1. CASE Write
  BY <1>1, WriteExtends DEF Write, Window!Next
<1>2. CASE Read
  <2>1. PICK len \in 1 .. FileLen : ReadFromCache(len)
    BY <1>2 DEF Read
  <2>2. \E n \in 1 .. m_end - m_cur : /\ m_out' = [k \in 1 .. n |-> m_cur + k - 1]
                                      /\ m_cur' = m_cur + n
    BY <2>1, ReadIInv
  <2>3. UNCHANGED <<m_beg, m_end>>
    BY <2>1 DEF ReadFromCache
  <2>4. QED
    BY <2>2, <2>3 DEF Window!Next, Window!Deliver, Window!BytesFrom
<1>3. CASE SeekWithin
  <2>1. PICK pos \in 0 .. FileLen : Seek(pos)
    BY <1>3 DEF SeekWithin
  <2>2. pos \in m_beg .. m_end
    BY <2>1 DEF Seek, Holds, IInv, TypeOK
  <2>3. QED
    BY <2>1, <2>2 DEF Seek, Window!Next, Window!Move
<1>4. CASE Restart
  BY <1>4 DEF Restart, Reset, Window!Next, Window!Restart
<1>5. CASE UNCHANGED ccvars
  BY <1>5 DEF ccvars
<1>6. QED
  BY <1>1, <1>2, <1>3, <1>4, <1>5 DEF Next

(***************************************************************************)
(* The ring buffer implements the window: every read returns the bytes of    *)
(* the source at the reading position, for every size and every history.     *)
(***************************************************************************)
THEOREM RefinementTheorem == Spec => ImplementsWindow
<1>1. Init => Window!Init
  BY DEF Init, Window!Init
<1>2. Spec => []IInv /\ Init /\ [][Next]_ccvars
  BY Invariance DEF Spec
<1>3. QED
  BY <1>1, <1>2, StepRefines, PTL DEF ImplementsWindow, Window!Spec
=============================================================================
