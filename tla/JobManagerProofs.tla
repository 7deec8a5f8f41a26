-------------------------- MODULE JobManagerProofs --------------------------
(***************************************************************************)
(* Proofs about JobManager, for every number of jobs, workers and           *)
(* priorities in use: the limit of the workers, that no job is deleted that *)
(* somebody may still use, nor worked on twice, that CancelJobs of the      *)
(* manager leaves nobody behind, and that what was cancelled in time is not *)
(* reported.                                                                *)
(***************************************************************************)
EXTENDS JobManager, FiniteSetTheorems, SequenceTheorems, TLAPS

-----------------------------------------------------------------------------
(* Lists in which a job is at most once                                     *)

Distinct(s) == \A i, k \in 1 .. Len(s) : s[i] = s[k] => i = k

\* Adding a job at the back, or (a queue that is not lifo) in front.
LEMMA AppendToList ==
  ASSUME NEW S, NEW s \in Seq(S), NEW j \in S, Distinct(s), j \notin Range0(s)
  PROVE  /\ Append(s, j) \in Seq(S) /\ Distinct(Append(s, j))
         /\ Range0(Append(s, j)) = Range0(s) \cup {j}
BY DEF Distinct, Range0

LEMMA PutInFront ==
  ASSUME NEW S, NEW s \in Seq(S), NEW j \in S, Distinct(s), j \notin Range0(s)
  PROVE  /\ <<j>> \o s \in Seq(S) /\ Distinct(<<j>> \o s)
         /\ Range0(<<j>> \o s) = Range0(s) \cup {j}
<1> DEFINE t == <<j>> \o s
<1>1. t \in Seq(S) /\ Len(t) = Len(s) + 1 /\ t[1] = j /\ \A i \in 1 .. Len(s) : t[i + 1] = s[i]
  OBVIOUS
<1>2. \A i \in 2 .. Len(t) : i - 1 \in 1 .. Len(s) /\ t[i] = s[i - 1]
  BY <1>1
<1>3. Distinct(t)
  <2> SUFFICES ASSUME NEW i \in 1 .. Len(t), NEW k \in 1 .. Len(t), t[i] = t[k] PROVE i = k
    BY DEF Distinct
  <2>1. CASE i = 1 /\ k = 1
    BY <2>1
  <2>2. CASE i = 1 /\ k # 1
    BY <1>1, <1>2, <2>2 DEF Range0
  <2>3. CASE i # 1 /\ k = 1
    BY <1>1, <1>2, <2>3 DEF Range0
  <2>4. CASE i # 1 /\ k # 1
    BY <1>1, <1>2, <2>4 DEF Distinct
  <2>5. QED
    BY <2>1, <2>2, <2>3, <2>4
<1>4. Range0(t) = Range0(s) \cup {j}
  BY <1>1, <1>2 DEF Range0
<1>5. QED
  BY <1>1, <1>3, <1>4

\* Taking the first job, or the last.
LEMMA TakeFirst ==
  ASSUME NEW S, NEW s \in Seq(S), s # << >>, Distinct(s)
  PROVE  /\ Head(s) \in Range0(s) /\ Tail(s) \in Seq(S) /\ Distinct(Tail(s))
         /\ Range0(Tail(s)) = Range0(s) \ {Head(s)}
<1>1. /\ Len(s) \in Nat \ {0} /\ Head(s) = s[1] /\ Tail(s) \in Seq(S)
      /\ Len(Tail(s)) = Len(s) - 1 /\ \A i \in 1 .. Len(s) - 1 : Tail(s)[i] = s[i + 1]
  OBVIOUS
<1>2. Distinct(Tail(s))
  BY <1>1 DEF Distinct
<1>3. ASSUME NEW i \in 2 .. Len(s) PROVE i - 1 \in 1 .. Len(Tail(s)) /\ Tail(s)[i - 1] = s[i]
  BY <1>1
<1>4. Range0(Tail(s)) \subseteq Range0(s) \ {Head(s)}
  BY <1>1 DEF Range0, Distinct
<1>5. Range0(s) \ {Head(s)} \subseteq Range0(Tail(s))
  BY <1>1, <1>3 DEF Range0
<1>6. Head(s) \in Range0(s)
  BY <1>1 DEF Range0
<1>7. QED
  BY <1>1, <1>2, <1>4, <1>5, <1>6

LEMMA TakeLast ==
  ASSUME NEW S, NEW s \in Seq(S), s # << >>, Distinct(s)
  PROVE  LET t == SubSeq(s, 1, Len(s) - 1)
             j == s[Len(s)]
         IN  /\ j \in Range0(s) /\ t \in Seq(S) /\ Distinct(t)
             /\ Range0(t) = Range0(s) \ {j}
<1> DEFINE t == SubSeq(s, 1, Len(s) - 1)
<1>1. /\ Len(s) \in Nat \ {0} /\ t \in Seq(S) /\ Len(t) = Len(s) - 1
      /\ \A i \in 1 .. Len(s) - 1 : t[i] = s[i]
  <2> DEFINE n == Len(s)
  <2>1. n \in Nat \ {0}
    OBVIOUS
  <2>2. n - 1 \in Int /\ \A i \in 1 .. n - 1 : s[i] \in S
    BY <2>1
  <2>3. /\ t \in Seq(S)
        /\ Len(t) = IF 1 <= n - 1 THEN (n - 1) - 1 + 1 ELSE 0
        /\ \A i \in 1 .. (n - 1) - 1 + 1 : t[i] = s[1 + i - 1]
    BY <2>2, SubSeqProperties
  <2> HIDE DEF t, n
  <2>4. Len(t) = n - 1
    BY <2>1, <2>3
  <2>5. ASSUME NEW i \in 1 .. n - 1 PROVE t[i] = s[i]
    BY <2>1, <2>3
  <2>6. QED
    BY <2>1, <2>3, <2>4, <2>5 DEF n
<1>2. Distinct(t) /\ s[Len(s)] \in Range0(s)
  BY <1>1 DEF Distinct, Range0
<1>3. Range0(t) = Range0(s) \ {s[Len(s)]}
  <2>1. Range0(t) \subseteq Range0(s) \ {s[Len(s)]}
    BY <1>1 DEF Range0, Distinct
  <2>2. Range0(s) \ {s[Len(s)]} \subseteq Range0(t)
    BY <1>1 DEF Range0
  <2>3. QED
    BY <2>1, <2>2
<1>4. QED
  BY <1>1, <1>2, <1>3

\* Taking a job off a list, wherever it is.
LEMMA TakeOff ==
  ASSUME NEW S, NEW s \in Seq(S), NEW j, Distinct(s)
  PROVE  /\ Without(s, j) \in Seq(S) /\ Distinct(Without(s, j))
         /\ Range0(Without(s, j)) = Range0(s) \ {j}
<1>1. CASE j \notin Range0(s)
  BY <1>1 DEF Without
<1>2. CASE j \in Range0(s)
  <2> DEFINE n == CHOOSE i \in 1 .. Len(s) : s[i] = j
             t == [i \in 1 .. Len(s) - 1 |-> s[IF i < n THEN i ELSE i + 1]]
  <2>1. n \in 1 .. Len(s) /\ s[n] = j
    BY <1>2 DEF Range0
  <2>2. Without(s, j) = t
    BY <1>2 DEF Without
  <2> HIDE DEF n
  <2>3. t \in Seq(S) /\ Len(t) = Len(s) - 1
    BY <2>1
  <2>4. ASSUME NEW i \in 1 .. Len(t) PROVE t[i] = s[IF i < n THEN i ELSE i + 1]
    BY <2>1, <2>3
  <2> HIDE DEF t
  <2>5. Distinct(t)
    BY <2>1, <2>3, <2>4 DEF Distinct
  <2>6. Range0(t) \subseteq Range0(s) \ {j}
    <3> SUFFICES ASSUME NEW i \in 1 .. Len(t) PROVE t[i] \in Range0(s) \ {j}
      BY DEF Range0
    <3> DEFINE k == IF i < n THEN i ELSE i + 1
    <3>1. k \in 1 .. Len(s) /\ k # n /\ t[i] = s[k]
      BY <2>1, <2>3, <2>4
    <3> HIDE DEF k
    <3>2. s[k] # j /\ s[k] \in Range0(s)
      BY <2>1, <3>1 DEF Range0, Distinct
    <3>3. QED
      BY <3>1, <3>2
  <2>7. Range0(s) \ {j} \subseteq Range0(t)
    <3> SUFFICES ASSUME NEW i \in 1 .. Len(s), s[i] # j PROVE s[i] \in Range0(t)
      BY DEF Range0
    <3>1. CASE i < n
      BY <2>1, <2>3, <2>4, <3>1 DEF Range0
    <3>2. CASE i > n
      <4>1. i - 1 \in 1 .. Len(t) /\ t[i - 1] = s[i]
        BY <2>1, <2>3, <2>4, <3>2
      <4>2. QED
        BY <4>1 DEF Range0
    <3>3. QED
      BY <2>1, <3>1, <3>2
  <2>8. QED
    BY <2>2, <2>3, <2>5, <2>6, <2>7
<1>3. QED
  BY <1>1, <1>2
-----------------------------------------------------------------------------
(* The invariant                                                            *)

Place == {"gone", "next", "wait", "last", "work", "report", "forget"}

Types ==
  /\ m_jobQueue \in [0 .. 2 -> Seq(Jobs)] /\ q_jobQueue \in Seq(Jobs)
  /\ q_processing \subseteq Jobs /\ added \subseteq Jobs /\ freed \subseteq added
  /\ at \in [Threads -> Place] /\ job \in [Threads -> Jobs \cup {NoJob}]

\* A worker is started only when as many jobs are in progress as there are workers.
WorkersOK ==
  /\ IsFiniteSet(m_workers) /\ Cardinality(m_workers) <= max_workers
  /\ IsFiniteSet(m_processing)

\* The jobs the manager has waiting at priority p, and those the queue has.
Q(p) == Range0(m_jobQueue[p])
OfQueue == Range0(q_jobQueue)

Lists ==
  /\ \A p \in 0 .. 2 : Distinct(m_jobQueue[p])
  /\ \A p \in 0 .. 2 : \A j \in Q(p) : Priority[j] = p
  /\ Distinct(q_jobQueue)

\* No two of these have a job in common: the manager's lists (each has the jobs of
\* its own priority), the queue's list, the workers and the jobs deleted.
Apart ==
  /\ \A p \in 0 .. 2 : \A j \in Q(p) : j \in added \ freed
  /\ \A j \in OfQueue : j \in added \ freed /\ \A p \in 0 .. 2 : j \notin Q(p)
  /\ \A w \in Threads : Busy(w) => /\ job[w] \in added \ freed /\ job[w] \notin OfQueue
                                   /\ \A p \in 0 .. 2 : job[w] \notin Q(p)
  /\ \A v, w \in Threads : Busy(v) /\ Busy(w) /\ job[v] = job[w] => v = w

IInv == Types /\ WorkersOK /\ Lists /\ Apart

LEMMA ApartMeansAlive == Types /\ Apart => JobsAreAlive
<1>1. Waiting = UNION {Q(p) : p \in 0 .. 2}
  BY DEF Waiting, Q
<1>2. ASSUME Types, Apart PROVE JobsAreAlive
  BY <1>1, <1>2 DEF Apart, JobsAreAlive
<1>3. QED
  BY <1>2

LEMMA InitHolds == Init => IInv
<1> SUFFICES ASSUME Init PROVE IInv
  OBVIOUS
<1>1. \A p \in 0 .. 2 : m_jobQueue[p] = << >>
  BY DEF Init
<1>2. Range0(<< >>) = {} /\ Distinct(<< >>)
  BY DEF Range0, Distinct
<1>3. Types
  BY DEF Init, Types, Place
<1>4. WorkersOK
  BY JobAssumption, FS_EmptySet DEF Init, WorkersOK
<1>5. Lists /\ Apart
  BY <1>1, <1>2 DEF Init, Lists, Apart, Q, OfQueue, Busy
<1>6. QED
  BY <1>3, <1>4, <1>5 DEF IInv
-----------------------------------------------------------------------------
(* What the parts of a step do                                              *)

\* StartWorkers starts one worker at most, and never beyond the limit.
LEMMA StartsWithinLimit ==
  ASSUME WorkersOK, NEW j \in Jobs, NEW place \in [Threads -> Place],
         StartWorkers(Priority[j], place)
  PROVE  /\ IsFiniteSet(m_workers') /\ Cardinality(m_workers') <= max_workers
         /\ at' \in [Threads -> Place]
         /\ \A w \in Threads : at'[w] \in {place[w], "next"}
<1>1. CASE at' = place /\ m_workers' = m_workers
  BY <1>1 DEF WorkersOK
<1>2. CASE /\ Cardinality(m_processing) < GetMaxWorkers(Priority[j])
           /\ Cardinality(m_workers) <= Cardinality(m_processing)
           /\ NewWorker(place)
  <2>1. PICK w : m_workers' = m_workers \cup {w} /\ at' = [place EXCEPT ![w] = "next"]
    BY <1>2 DEF NewWorker
  <2>2. Cardinality(m_workers) < max_workers
    BY <1>2, JobAssumption, FS_CardinalityType DEF GetMaxWorkers, WorkersOK
  <2>3. /\ IsFiniteSet(m_workers \cup {w})
        /\ Cardinality(m_workers \cup {w})
             = IF w \in m_workers THEN Cardinality(m_workers) ELSE Cardinality(m_workers) + 1
    BY FS_AddElement DEF WorkersOK
  <2>4. IsFiniteSet(m_workers') /\ Cardinality(m_workers') <= max_workers
    BY <2>1, <2>2, <2>3, JobAssumption, FS_CardinalityType DEF WorkersOK
  <2>5. at' \in [Threads -> Place] /\ \A v \in Threads : at'[v] \in {place[v], "next"}
    BY <2>1 DEF Place
  <2>6. QED
    BY <2>4, <2>5
<1>3. QED
  BY <1>1, <1>2, FS_CardinalityType, JobAssumption DEF StartWorkers, WorkersOK, GetMaxWorkers

\* The lists of the manager after a job has been added, or taken off wherever it is.
LEMMA ListsAfterAdd ==
  ASSUME Types, Lists, NEW j \in Jobs, \A p \in 0 .. 2 : j \notin Q(p),
         m_jobQueue' = [m_jobQueue EXCEPT ![Priority[j]] = Append(@, j)]
  PROVE  /\ m_jobQueue' \in [0 .. 2 -> Seq(Jobs)]
         /\ \A p \in 0 .. 2 : Distinct(m_jobQueue'[p])
         /\ \A p \in 0 .. 2 : Q(p)' = IF p = Priority[j] THEN Q(p) \cup {j} ELSE Q(p)
<1> DEFINE r == Priority[j]
<1>1. r \in 0 .. 2 /\ m_jobQueue[r] \in Seq(Jobs) /\ Distinct(m_jobQueue[r])
  BY JobAssumption DEF Types, Lists
<1>2. /\ Append(m_jobQueue[r], j) \in Seq(Jobs) /\ Distinct(Append(m_jobQueue[r], j))
      /\ Range0(Append(m_jobQueue[r], j)) = Q(r) \cup {j}
  BY <1>1, AppendToList DEF Q
<1>3. /\ m_jobQueue' \in [0 .. 2 -> Seq(Jobs)] /\ m_jobQueue'[r] = Append(m_jobQueue[r], j)
      /\ \A p \in 0 .. 2 : p # r => m_jobQueue'[p] = m_jobQueue[p]
  BY <1>1, <1>2 DEF Types
<1> HIDE DEF r
<1>4. QED
  BY <1>1, <1>2, <1>3 DEF Lists, Q, r

LEMMA ListsAfterTakeOff ==
  ASSUME Types, Lists, NEW j \in Jobs,
         m_jobQueue' = [m_jobQueue EXCEPT ![Priority[j]] = Without(@, j)]
  PROVE  /\ m_jobQueue' \in [0 .. 2 -> Seq(Jobs)]
         /\ \A p \in 0 .. 2 : Distinct(m_jobQueue'[p]) /\ Q(p)' = Q(p) \ {j}
<1> DEFINE r == Priority[j]
<1>1. r \in 0 .. 2 /\ m_jobQueue[r] \in Seq(Jobs) /\ Distinct(m_jobQueue[r])
  BY JobAssumption DEF Types, Lists
<1>2. /\ Without(m_jobQueue[r], j) \in Seq(Jobs) /\ Distinct(Without(m_jobQueue[r], j))
      /\ Range0(Without(m_jobQueue[r], j)) = Q(r) \ {j}
  BY <1>1, TakeOff DEF Q
<1>3. /\ m_jobQueue' \in [0 .. 2 -> Seq(Jobs)] /\ m_jobQueue'[r] = Without(m_jobQueue[r], j)
      /\ \A p \in 0 .. 2 : p # r => m_jobQueue'[p] = m_jobQueue[p]
  BY <1>1, <1>2 DEF Types
<1>4. \A p \in 0 .. 2 : p # r => j \notin Q(p)
  BY DEF Lists
<1> HIDE DEF r
<1>5. QED
  BY <1>1, <1>2, <1>3, <1>4 DEF Lists, Q

\* PopJob moves the first job of one of the lists to the worker.
LEMMA PopTakesFirst ==
  ASSUME Types, Lists, NEW w \in Threads, PopJob(w)
  PROVE  /\ m_jobQueue' \in [0 .. 2 -> Seq(Jobs)]
         /\ \E r \in 0 .. 2, j \in Jobs :
              /\ j \in Q(r)
              /\ \A p \in 0 .. 2 : Distinct(m_jobQueue'[p]) /\ Q(p)' = Q(p) \ {j}
              /\ m_processing' = m_processing \cup {j} /\ m_workers' = m_workers
              /\ at' = [at EXCEPT ![w] = "work"] /\ job' = [job EXCEPT ![w] = j]
<1> DEFINE r == CHOOSE p \in Ready : \A s \in Ready : s <= p
           j == Head(m_jobQueue[r])
<1>1. r \in Ready
  <2>1. Ready # {} /\ Ready \subseteq {0, 1, 2}
    BY DEF PopJob, Ready
  <2>2. \E p \in Ready : \A s \in Ready : s <= p
    <3>1. CASE 2 \in Ready
      BY <2>1, <3>1
    <3>2. CASE 2 \notin Ready /\ 1 \in Ready
      BY <2>1, <3>2
    <3>3. CASE 2 \notin Ready /\ 1 \notin Ready
      <4>1. Ready = {0}
        BY <2>1, <3>3
      <4>2. QED
        BY <4>1
    <3>4. QED
      BY <3>1, <3>2, <3>3
  <2>3. QED
    BY <2>2
<1>2. /\ m_jobQueue' = [m_jobQueue EXCEPT ![r] = Tail(@)]
      /\ m_processing' = m_processing \cup {j} /\ m_workers' = m_workers
      /\ at' = [at EXCEPT ![w] = "work"] /\ job' = [job EXCEPT ![w] = j]
  BY DEF PopJob
<1> HIDE DEF r
<1>3. r \in 0 .. 2 /\ m_jobQueue[r] \in Seq(Jobs) /\ m_jobQueue[r] # << >> /\ Distinct(m_jobQueue[r])
  BY <1>1 DEF Ready, Types, Lists
<1>4. /\ j \in Q(r) /\ j \in Jobs /\ Tail(m_jobQueue[r]) \in Seq(Jobs)
      /\ Distinct(Tail(m_jobQueue[r])) /\ Range0(Tail(m_jobQueue[r])) = Q(r) \ {j}
  BY <1>3, TakeFirst DEF Q
<1> HIDE DEF j
<1>5. /\ m_jobQueue' \in [0 .. 2 -> Seq(Jobs)] /\ m_jobQueue'[r] = Tail(m_jobQueue[r])
      /\ \A p \in 0 .. 2 : p # r => m_jobQueue'[p] = m_jobQueue[p]
  BY <1>2, <1>3, <1>4 DEF Types
<1>6. \A p \in 0 .. 2 : p # r => j \notin Q(p)
  BY <1>3, <1>4 DEF Lists
<1>7. \A p \in 0 .. 2 : Distinct(m_jobQueue'[p]) /\ Q(p)' = Q(p) \ {j}
  BY <1>3, <1>4, <1>5, <1>6 DEF Lists, Q
<1>8. QED
  BY <1>2, <1>3, <1>4, <1>5, <1>7

\* QueueNextJob leaves a part of the queue's jobs, and gives another to the manager.
LEMMA QueueGivesNext ==
  ASSUME Types, WorkersOK, Lists, NEW q \in Seq(Jobs), Distinct(q),
         \A i \in Range0(q) : \A p \in 0 .. 2 : i \notin Q(p),
         NEW s \in SUBSET Jobs, NEW place \in [Threads -> Place], QueueNextJob(q, s, place)
  PROVE  /\ m_jobQueue' \in [0 .. 2 -> Seq(Jobs)] /\ q_jobQueue' \in Seq(Jobs)
         /\ q_processing' \subseteq Jobs
         /\ at' \in [Threads -> Place]
         /\ \A w \in Threads : at'[w] \in {place[w], "next"}
         /\ WorkersOK' /\ Lists'
         /\ OfQueue' \subseteq Range0(q)
         /\ \A p \in 0 .. 2 : Q(p)' \subseteq Q(p) \cup (Range0(q) \ OfQueue')
<1>1. CASE q # << >> /\ s = {}
  <2> DEFINE j == q[Len(q)]
             t == SubSeq(q, 1, Len(q) - 1)
  <2>1. j \in Range0(q) /\ t \in Seq(Jobs) /\ Distinct(t) /\ Range0(t) = Range0(q) \ {j}
    BY <1>1, TakeLast
  <2>2. j \in Jobs
    BY <2>1 DEF Range0
  <2>3. /\ q_jobQueue' = t /\ q_processing' = {j}
        /\ m_jobQueue' = [m_jobQueue EXCEPT ![Priority[j]] = Append(@, j)]
        /\ StartWorkers(Priority[j], place) /\ m_processing' = m_processing
    BY <1>1 DEF QueueNextJob, AddToManager
  <2> HIDE DEF j, t
  <2>4. /\ m_jobQueue' \in [0 .. 2 -> Seq(Jobs)]
        /\ \A p \in 0 .. 2 : Distinct(m_jobQueue'[p])
        /\ \A p \in 0 .. 2 : Q(p)' = IF p = Priority[j] THEN Q(p) \cup {j} ELSE Q(p)
    BY <2>1, <2>2, <2>3, ListsAfterAdd
  <2>5. /\ IsFiniteSet(m_workers') /\ Cardinality(m_workers') <= max_workers
        /\ at' \in [Threads -> Place] /\ \A w \in Threads : at'[w] \in {place[w], "next"}
    BY <2>2, <2>3, StartsWithinLimit
  <2>6. WorkersOK'
    BY <2>3, <2>5 DEF WorkersOK
  <2>7. Lists'
    BY <2>1, <2>3, <2>4 DEF Lists
  <2>8. OfQueue' = Range0(q) \ {j}
    BY <2>1, <2>3 DEF OfQueue
  <2>9. QED
    BY <2>1, <2>2, <2>3, <2>4, <2>5, <2>6, <2>7, <2>8
<1>2. CASE ~(q # << >> /\ s = {})
  <2>1. /\ q_jobQueue' = q /\ q_processing' = s /\ at' = place
        /\ UNCHANGED <<m_jobQueue, m_processing, m_workers>>
    BY <1>2 DEF QueueNextJob, manager
  <2>2. \A p \in 0 .. 2 : Q(p)' = Q(p)
    BY <2>1 DEF Q
  <2>3. WorkersOK' /\ Lists' /\ OfQueue' = Range0(q)
    BY <2>1, <2>2 DEF WorkersOK, Lists, OfQueue
  <2>4. QED
    BY <2>1, <2>2, <2>3 DEF Types
<1>3. QED
  BY <1>1, <1>2
-----------------------------------------------------------------------------
(* The steps                                                                *)

LEMMA AddJobStep ==
  ASSUME IInv, NEW j \in Jobs, AddJob(j)
  PROVE  IInv'
<1> USE DEF IInv
<1>1. \A p \in 0 .. 2 : j \notin Q(p)
  BY DEF AddJob, Apart
<1>2. /\ m_jobQueue' = [m_jobQueue EXCEPT ![Priority[j]] = Append(@, j)]
      /\ StartWorkers(Priority[j], at) /\ added' = added \cup {j}
      /\ UNCHANGED <<m_processing, job, q_jobQueue, q_processing, freed>>
  BY DEF AddJob, AddToManager, queue
<1>3. /\ m_jobQueue' \in [0 .. 2 -> Seq(Jobs)]
      /\ \A p \in 0 .. 2 : Distinct(m_jobQueue'[p])
      /\ \A p \in 0 .. 2 : Q(p)' = IF p = Priority[j] THEN Q(p) \cup {j} ELSE Q(p)
  BY <1>1, <1>2, ListsAfterAdd
<1>4. /\ IsFiniteSet(m_workers') /\ Cardinality(m_workers') <= max_workers
      /\ at' \in [Threads -> Place] /\ \A w \in Threads : at'[w] \in {at[w], "next"}
  BY <1>2, StartsWithinLimit DEF Types
<1>5. Types' /\ WorkersOK'
  BY <1>2, <1>3, <1>4 DEF Types, WorkersOK
<1>6. Lists'
  BY <1>2, <1>3 DEF Lists
<1>7. Apart'
  <2>1. j \notin added /\ j \notin freed /\ OfQueue' = OfQueue
    BY <1>2 DEF AddJob, Types, OfQueue
  <2>2. \A w \in Threads : Busy(w)' => Busy(w)
    BY <1>4 DEF Busy
  <2>3. QED
    BY <1>2, <1>3, <2>1, <2>2 DEF Apart
<1>8. QED
  BY <1>5, <1>6, <1>7

LEMMA CancelJobStep ==
  ASSUME IInv, NEW j \in Jobs, CancelJob(j)
  PROVE  IInv'
<1> USE DEF IInv
<1>1. UNCHANGED <<m_processing, m_workers, at, job, q_jobQueue, q_processing, added>>
  BY DEF CancelJob, worker, queue
<1>2. /\ OfQueue' = OfQueue /\ \A w \in Threads : Busy(w)' = Busy(w)
  BY <1>1 DEF OfQueue, Busy
<1>3. CASE j \in Q(Priority[j])
  <2>1. /\ m_jobQueue' = [m_jobQueue EXCEPT ![Priority[j]] = Without(@, j)]
        /\ freed' = freed \cup {j}
    BY <1>3 DEF CancelJob, Cancel, Q
  <2>2. /\ m_jobQueue' \in [0 .. 2 -> Seq(Jobs)]
        /\ \A p \in 0 .. 2 : Distinct(m_jobQueue'[p]) /\ Q(p)' = Q(p) \ {j}
    BY <2>1, ListsAfterTakeOff
  <2>3. Types' /\ WorkersOK' /\ Lists'
    BY <1>1, <2>1, <2>2 DEF CancelJob, Types, WorkersOK, Lists
  <2>4. Priority[j] \in 0 .. 2
    BY JobAssumption
  <2>5. Apart'
    BY <1>1, <1>2, <1>3, <2>1, <2>2, <2>4 DEF Apart
  <2>6. QED
    BY <2>3, <2>5
<1>4. CASE j \notin Q(Priority[j])
  <2>1. UNCHANGED <<m_jobQueue, freed>>
    BY <1>4 DEF CancelJob, Cancel, Q
  <2>2. \A p \in 0 .. 2 : Q(p)' = Q(p)
    BY <2>1 DEF Q
  <2>3. QED
    BY <1>1, <1>2, <2>1, <2>2 DEF Types, WorkersOK, Lists, Apart
<1>5. QED
  BY <1>3, <1>4

LEMMA CancelJobsStep ==
  ASSUME IInv, CancelJobs
  PROVE  IInv'
<1> USE DEF IInv
<1>1. /\ m_jobQueue' = [p \in 0 .. 2 |-> << >>] /\ freed' = freed \cup UNION {Q(p) : p \in 0 .. 2}
      /\ UNCHANGED <<m_processing, m_workers, at, job, q_jobQueue, q_processing, added>>
  BY DEF CancelJobs, Waiting, Q, worker, queue
<1>2. \A p \in 0 .. 2 : m_jobQueue'[p] = << >> /\ Q(p)' = {} /\ Distinct(m_jobQueue'[p])
  BY <1>1 DEF Q, Range0, Distinct
<1>3. /\ OfQueue' = OfQueue /\ \A w \in Threads : Busy(w)' = Busy(w)
  BY <1>1 DEF OfQueue, Busy
<1>4. Types' /\ WorkersOK' /\ Lists'
  BY <1>1, <1>2 DEF Types, WorkersOK, Lists, Apart
<1>5. Apart'
  BY <1>1, <1>2, <1>3 DEF Apart
<1>6. QED
  BY <1>4, <1>5

LEMMA QueueJobStep ==
  ASSUME IInv, NEW j \in Jobs, QueueJob(j)
  PROVE  IInv'
<1> USE DEF IInv
<1>1. /\ added' = added \cup {j} /\ job' = job
      /\ j \notin added /\ j \notin freed /\ j \notin OfQueue /\ \A p \in 0 .. 2 : j \notin Q(p)
  BY DEF QueueJob, Types, Apart
<1>2. CASE \E i \in Range0(q_jobQueue) \cup q_processing : Same(i, j)
  <2>1. /\ freed' = freed \cup {j}
        /\ UNCHANGED <<m_jobQueue, m_processing, m_workers, at, q_jobQueue, q_processing>>
    BY <1>2 DEF QueueJob, manager, queue
  <2>2. /\ \A p \in 0 .. 2 : Q(p)' = Q(p)
        /\ OfQueue' = OfQueue /\ \A w \in Threads : Busy(w)' = Busy(w)
    BY <2>1 DEF Q, OfQueue, Busy
  <2>3. QED
    BY <1>1, <2>1, <2>2 DEF Types, WorkersOK, Lists, Apart
<1>3. CASE ~\E i \in Range0(q_jobQueue) \cup q_processing : Same(i, j)
  <2>1. /\ freed' = freed
        /\ \E q \in {Append(q_jobQueue, j), <<j>> \o q_jobQueue} : QueueNextJob(q, q_processing, at)
    BY <1>3 DEF QueueJob
  <2>2. PICK q \in {Append(q_jobQueue, j), <<j>> \o q_jobQueue} : QueueNextJob(q, q_processing, at)
    BY <2>1
  <2>3. q \in Seq(Jobs) /\ Distinct(q) /\ Range0(q) = OfQueue \cup {j}
    <3>1. q_jobQueue \in Seq(Jobs) /\ Distinct(q_jobQueue) /\ j \notin Range0(q_jobQueue)
      BY <1>1 DEF Types, Lists, OfQueue
    <3>2. CASE q = Append(q_jobQueue, j)
      BY <3>1, <3>2, AppendToList DEF OfQueue
    <3>3. CASE q = <<j>> \o q_jobQueue
      BY <3>1, <3>3, PutInFront DEF OfQueue
    <3>4. QED
      BY <2>2, <3>2, <3>3
  <2>4. \A i \in Range0(q) : \A p \in 0 .. 2 : i \notin Q(p)
    BY <1>1, <2>3 DEF Apart
  <2>5. /\ m_jobQueue' \in [0 .. 2 -> Seq(Jobs)] /\ q_jobQueue' \in Seq(Jobs)
        /\ q_processing' \subseteq Jobs /\ at' \in [Threads -> Place]
        /\ \A w \in Threads : at'[w] \in {at[w], "next"}
        /\ WorkersOK' /\ Lists'
        /\ OfQueue' \subseteq Range0(q)
        /\ \A p \in 0 .. 2 : Q(p)' \subseteq Q(p) \cup (Range0(q) \ OfQueue')
    BY <2>2, <2>3, <2>4, QueueGivesNext DEF Types
  <2>6. Types'
    BY <1>1, <2>1, <2>5 DEF Types
  <2>7. \A w \in Threads : Busy(w)' => Busy(w)
    BY <2>5 DEF Busy
  <2>8. Apart'
    BY <1>1, <2>1, <2>3, <2>5, <2>7 DEF Apart
  <2>9. QED
    BY <2>5, <2>6, <2>8
<1>4. QED
  BY <1>2, <1>3

LEMMA ReportToQueueStep ==
  ASSUME IInv, NEW w \in Threads, ReportToQueue(w)
  PROVE  IInv'
<1> USE DEF IInv
<1> DEFINE place == [at EXCEPT ![w] = "forget"]
           s == {i \in q_processing : ~Same(i, job[w])}
<1>1. /\ at[w] = "report" /\ QueueNextJob(q_jobQueue, s, place)
      /\ UNCHANGED <<job, added, freed>>
  BY DEF ReportToQueue
<1>2. /\ place \in [Threads -> Place] /\ s \in SUBSET Jobs
      /\ \A v \in Threads : place[v] = IF v = w THEN "forget" ELSE at[v]
  BY DEF Types, Place
<1> HIDE DEF place, s
<1>3. \A i \in Range0(q_jobQueue) : \A p \in 0 .. 2 : i \notin Q(p)
  BY DEF Apart, OfQueue
<1>4. /\ m_jobQueue' \in [0 .. 2 -> Seq(Jobs)] /\ q_jobQueue' \in Seq(Jobs)
      /\ q_processing' \subseteq Jobs /\ at' \in [Threads -> Place]
      /\ \A v \in Threads : at'[v] \in {place[v], "next"}
      /\ WorkersOK' /\ Lists'
      /\ OfQueue' \subseteq Range0(q_jobQueue)
      /\ \A p \in 0 .. 2 : Q(p)' \subseteq Q(p) \cup (Range0(q_jobQueue) \ OfQueue')
  BY <1>1, <1>2, <1>3, QueueGivesNext DEF Types, Lists
<1>5. Types'
  BY <1>1, <1>4 DEF Types
<1>6. \A v \in Threads : Busy(v)' => Busy(v)
  BY <1>1, <1>2, <1>4 DEF Busy
<1>7. Apart'
  BY <1>1, <1>4, <1>6 DEF Apart, OfQueue
<1>8. QED
  BY <1>4, <1>5, <1>7

LEMMA CancelQueueStep ==
  ASSUME IInv, CancelQueue
  PROVE  IInv'
<1> USE DEF IInv
<1>1. /\ q_jobQueue' = << >> /\ q_processing' = {}
      /\ UNCHANGED <<m_processing, m_workers, at, job, added>>
  BY DEF CancelQueue, worker
<1>2. /\ OfQueue' = {} /\ Distinct(q_jobQueue') /\ q_jobQueue' \in Seq(Jobs)
      /\ \A w \in Threads : Busy(w)' = Busy(w)
  BY <1>1 DEF OfQueue, Range0, Distinct, Busy
<1>3. CASE q_processing = {}
  <2>1. freed' = freed \cup OfQueue /\ m_jobQueue' = m_jobQueue
    BY <1>3 DEF CancelQueue, OfQueue
  <2>2. \A p \in 0 .. 2 : Q(p)' = Q(p)
    BY <2>1 DEF Q
  <2>3. QED
    BY <1>1, <1>2, <2>1, <2>2 DEF Types, WorkersOK, Lists, Apart
<1>4. CASE q_processing # {}
  <2>1. PICK j \in q_processing :
          /\ m_jobQueue' = [m_jobQueue EXCEPT ![Priority[j]] = Without(@, j)]
          /\ freed' = freed \cup OfQueue \cup (IF j \in Q(Priority[j]) THEN {j} ELSE {})
    BY <1>4 DEF CancelQueue, OfQueue, Q
  <2>2. j \in Jobs /\ Priority[j] \in 0 .. 2
    BY JobAssumption DEF Types
  <2>3. /\ m_jobQueue' \in [0 .. 2 -> Seq(Jobs)]
        /\ \A p \in 0 .. 2 : Distinct(m_jobQueue'[p]) /\ Q(p)' = Q(p) \ {j}
    BY <2>1, <2>2, ListsAfterTakeOff
  <2>4. freed' \subseteq added
    BY <2>1, <2>2 DEF Types, Apart
  <2>5. Types' /\ WorkersOK' /\ Lists'
    BY <1>1, <1>2, <2>3, <2>4 DEF Types, WorkersOK, Lists
  <2>6. Apart'
    BY <1>1, <1>2, <2>1, <2>2, <2>3 DEF Apart
  <2>7. QED
    BY <2>5, <2>6
<1>5. QED
  BY <1>3, <1>4

\* GetNextJob and LastLook: the worker takes a job.
LEMMA PopJobStep ==
  ASSUME IInv, NEW w \in Threads, PopJob(w), ~Busy(w),
         UNCHANGED <<q_jobQueue, q_processing, added, freed>>
  PROVE  IInv'
<1> USE DEF IInv
<1>1. PICK r \in 0 .. 2, j \in Jobs :
        /\ j \in Q(r)
        /\ \A p \in 0 .. 2 : Distinct(m_jobQueue'[p]) /\ Q(p)' = Q(p) \ {j}
        /\ m_processing' = m_processing \cup {j} /\ m_workers' = m_workers
        /\ at' = [at EXCEPT ![w] = "work"] /\ job' = [job EXCEPT ![w] = j]
  BY PopTakesFirst
<1>2. m_jobQueue' \in [0 .. 2 -> Seq(Jobs)]
  BY PopTakesFirst
<1>3. Types'
  BY <1>1, <1>2 DEF Types, Place
<1>4. WorkersOK'
  <2>1. IsFiniteSet(m_processing \cup {j})
    BY FS_AddElement DEF WorkersOK
  <2>2. QED
    BY <1>1, <2>1 DEF WorkersOK
<1>5. Lists'
  BY <1>1 DEF Lists
<1>6. /\ OfQueue' = OfQueue /\ Busy(w)' /\ job'[w] = j
      /\ \A v \in Threads \ {w} : (Busy(v)' <=> Busy(v)) /\ job'[v] = job[v]
  BY <1>1 DEF OfQueue, Busy, Types
<1>7. Apart'
  BY <1>1, <1>6 DEF Apart
<1>8. QED
  BY <1>3, <1>4, <1>5, <1>7

\* The other steps of a worker: none of them gives it a job.
LEMMA OtherWorkerStep ==
  ASSUME IInv, NEW w \in Threads, NEW place \in Place, at' = [at EXCEPT ![w] = place],
         place \in {"work", "report", "forget"} => Busy(w),
         m_workers' \in {m_workers, m_workers \ {w}},
         UNCHANGED <<m_jobQueue, m_processing, job, q_jobQueue, q_processing, added, freed>>
  PROVE  IInv'
<1> USE DEF IInv
<1>1. Types'
  BY DEF Types
<1>2. WorkersOK'
  <2>1. /\ IsFiniteSet(m_workers \ {w})
        /\ Cardinality(m_workers \ {w})
             = IF w \in m_workers THEN Cardinality(m_workers) - 1 ELSE Cardinality(m_workers)
    BY FS_RemoveElement DEF WorkersOK
  <2>2. Cardinality(m_workers) \in Nat
    BY FS_CardinalityType DEF WorkersOK
  <2>3. CASE m_workers' = m_workers
    BY <2>3 DEF WorkersOK
  <2>4. CASE m_workers' = m_workers \ {w}
    BY <2>1, <2>2, <2>4, JobAssumption DEF WorkersOK
  <2>5. QED
    BY <2>3, <2>4
<1>3. /\ \A p \in 0 .. 2 : Q(p)' = Q(p)
      /\ OfQueue' = OfQueue /\ \A v \in Threads : Busy(v)' => Busy(v)
  BY DEF Q, OfQueue, Busy, Types
<1>4. Lists' /\ Apart'
  BY <1>3 DEF Lists, Apart
<1>5. QED
  BY <1>1, <1>2, <1>4

LEMMA ForgetStep ==
  ASSUME IInv, NEW w \in Threads, Forget(w)
  PROVE  IInv'
<1> USE DEF IInv
<1>1. /\ at[w] = "forget" /\ m_processing' = m_processing \ {job[w]}
      /\ freed' = freed \cup {job[w]}
      /\ at' = [at EXCEPT ![w] = "next"] /\ job' = [job EXCEPT ![w] = NoJob]
      /\ UNCHANGED <<m_jobQueue, m_workers, q_jobQueue, q_processing, added>>
  BY DEF Forget, queue
<1>2. Busy(w) /\ job[w] \in added
  BY <1>1 DEF Busy, Apart
<1>3. Types'
  BY <1>1, <1>2 DEF Types, Place
<1>4. WorkersOK'
  <2>1. IsFiniteSet(m_processing \ {job[w]})
    BY FS_RemoveElement DEF WorkersOK
  <2>2. QED
    BY <1>1, <2>1 DEF WorkersOK
<1>5. /\ \A p \in 0 .. 2 : Q(p)' = Q(p)
      /\ OfQueue' = OfQueue
      /\ \A v \in Threads : Busy(v)' => Busy(v) /\ v # w /\ job'[v] = job[v]
  BY <1>1 DEF Q, OfQueue, Busy, Types
<1>6. Lists'
  BY <1>1, <1>5 DEF Lists
<1>7. Apart'
  BY <1>1, <1>2, <1>5 DEF Apart
<1>8. QED
  BY <1>3, <1>4, <1>6, <1>7

LEMMA StutterStep == IInv /\ UNCHANGED vars => IInv'
BY DEF IInv, Types, WorkersOK, Lists, Apart, Q, OfQueue, Busy, vars, manager, worker, queue,
       history

LEMMA WorkerStepHolds ==
  ASSUME IInv, NEW w \in Threads, WorkerStep(w)
  PROVE  IInv'
<1>1. CASE GetNextJob(w) \/ LastLook(w)
  <2>1. ~Busy(w) /\ UNCHANGED <<q_jobQueue, q_processing, added, freed>>
    BY <1>1 DEF GetNextJob, LastLook, Busy, queue, history
  <2>2. CASE PopJob(w)
    BY <2>1, <2>2, PopJobStep
  <2>3. CASE ~PopJob(w)
    <3>1. PICK place \in {"wait", "gone"} : at' = [at EXCEPT ![w] = place]
      BY <1>1, <2>3 DEF GetNextJob, LastLook, RemoveWorker
    <3>2. /\ m_workers' \in {m_workers, m_workers \ {w}}
          /\ UNCHANGED <<m_jobQueue, m_processing, job>>
      BY <1>1, <2>3 DEF GetNextJob, LastLook, RemoveWorker
    <3>3. QED
      BY <2>1, <3>1, <3>2, OtherWorkerStep DEF Place
  <2>4. QED
    BY <2>2, <2>3
<1>2. CASE WakeUp(w)
  BY <1>2, OtherWorkerStep DEF WakeUp, Place, queue, history
<1>3. CASE TimeOut(w)
  BY <1>3, OtherWorkerStep DEF TimeOut, Place, manager, queue, history
<1>4. CASE OnJobComplete(w)
  <2>1. Busy(w)
    BY <1>4 DEF OnJobComplete, Busy
  <2>2. QED
    BY <1>4, <2>1, OtherWorkerStep DEF OnJobComplete, Place, manager, queue, history
<1>5. CASE Report(w)
  <2>1. Busy(w)
    BY <1>5 DEF Report, Busy
  <2>2. QED
    BY <1>5, <2>1, OtherWorkerStep DEF Report, Place, manager, queue
<1>6. CASE ReportToQueue(w)
  BY <1>6, ReportToQueueStep
<1>7. CASE Forget(w)
  BY <1>7, ForgetStep
<1>8. QED
  BY <1>1, <1>2, <1>3, <1>4, <1>5, <1>6, <1>7 DEF WorkerStep

LEMMA StepHolds == IInv /\ [Next]_vars => IInv'
<1> SUFFICES ASSUME IInv, [Next]_vars PROVE IInv'
  OBVIOUS
<1>1. CASE WakeWorkers
  <2>1. UNCHANGED <<m_jobQueue, m_processing, m_workers, at, job, q_jobQueue, q_processing, added,
                    freed>>
    BY <1>1 DEF WakeWorkers, worker, queue, history
  <2>2. QED
    BY <2>1 DEF IInv, Types, WorkersOK, Lists, Apart, Q, OfQueue, Busy
<1>2. CASE UNCHANGED vars
  BY <1>2, StutterStep
<1>3. QED
  BY <1>1, <1>2, AddJobStep, CancelJobStep, QueueJobStep, CancelQueueStep, CancelJobsStep,
     WorkerStepHolds DEF Next
-----------------------------------------------------------------------------
(* Who is left                                                              *)

\* CJobManager knows every thread that runs, and once CancelJobs has returned there
\* is none until a job is added.
Staffed ==
  /\ \A w \in Threads : at[w] # "gone" => w \in m_workers
  /\ shutdown = "done" /\ ~straggler => m_workers = {}

\* The thread StartWorkers starts is one that CJobManager knows.
LEMMA StartsAreKnown ==
  ASSUME NEW j \in Jobs, NEW place \in [Threads -> Place], StartWorkers(Priority[j], place),
         \A w \in Threads : place[w] # "gone" => w \in m_workers
  PROVE  \A w \in Threads : at'[w] # "gone" => w \in m_workers'
<1>1. CASE at' = place /\ m_workers' = m_workers
  BY <1>1
<1>2. CASE NewWorker(place)
  BY <1>2 DEF NewWorker
<1>3. QED
  BY <1>1, <1>2 DEF StartWorkers

\* The queue gives a job to the manager, which is a job added, or changes no worker.
LEMMA NextJobIsStaffed ==
  ASSUME Types, Staffed, NEW q \in Seq(Jobs), NEW s, NEW place \in [Threads -> Place],
         QueueNextJob(q, s, place), shutdown' = shutdown,
         \A w \in Threads : place[w] # "gone" => w \in m_workers
  PROVE  Staffed'
<1>1. CASE q # << >> /\ s = {}
  <2>1. q[Len(q)] \in Jobs
    BY <1>1
  <2>2. AddToManager(q[Len(q)], place)
    BY <1>1 DEF QueueNextJob
  <2>3. StartWorkers(Priority[q[Len(q)]], place) /\ straggler' = (straggler \/ shutdown = "done")
    BY <2>2 DEF AddToManager
  <2>4. \A w \in Threads : at'[w] # "gone" => w \in m_workers'
    BY <2>1, <2>3, StartsAreKnown
  <2>5. QED
    BY <2>3, <2>4 DEF Staffed
<1>2. CASE ~(q # << >> /\ s = {})
  <2>1. at' = place /\ UNCHANGED <<m_workers, straggler>>
    BY <1>2 DEF QueueNextJob, manager
  <2>2. QED
    BY <2>1 DEF Staffed
<1>3. QED
  BY <1>1, <1>2

LEMMA WorkerIsStaffed ==
  ASSUME IInv, Staffed, NEW w \in Threads, WorkerStep(w)
  PROVE  Staffed'
<1> USE DEF Staffed
<1>1. CASE GetNextJob(w) \/ LastLook(w)
  <2>1. UNCHANGED <<shutdown, straggler>> /\ at[w] # "gone"
    BY <1>1 DEF GetNextJob, LastLook, history
  <2>2. CASE m_workers' = m_workers /\ \A v \in Threads : v # w => at'[v] = at[v]
    BY <2>1, <2>2
  <2>3. CASE RemoveWorker(w)
    BY <2>1, <2>3 DEF RemoveWorker, IInv, Types
  <2>4. QED
    BY <1>1, <2>2, <2>3 DEF GetNextJob, LastLook, PopJob, IInv, Types
<1>2. CASE WakeUp(w) \/ TimeOut(w) \/ OnJobComplete(w) \/ Report(w) \/ Forget(w)
  <2>1. at[w] # "gone" /\ UNCHANGED <<m_workers, shutdown, straggler>>
    BY <1>2 DEF WakeUp, TimeOut, OnJobComplete, Report, Forget, history, manager
  <2>2. \A v \in Threads : v # w => at'[v] = at[v]
    BY <1>2 DEF WakeUp, TimeOut, OnJobComplete, Report, Forget, IInv, Types
  <2>3. QED
    BY <2>1, <2>2
<1>3. CASE ReportToQueue(w)
  <2> DEFINE place == [at EXCEPT ![w] = "forget"]
  <2>1. /\ QueueNextJob(q_jobQueue, {i \in q_processing : ~Same(i, job[w])}, place)
        /\ shutdown' = shutdown /\ at[w] = "report"
    BY <1>3 DEF ReportToQueue
  <2>2. place \in [Threads -> Place] /\ \A v \in Threads : place[v] # "gone" => v \in m_workers
    BY <2>1 DEF IInv, Types, Place
  <2>3. q_jobQueue \in Seq(Jobs) /\ Types
    BY DEF IInv, Types
  <2> HIDE DEF place, Staffed
  <2>4. QED
    BY <2>1, <2>2, <2>3, NextJobIsStaffed
<1>4. QED
  BY <1>1, <1>2, <1>3 DEF WorkerStep

LEMMA StaffedHolds == IInv /\ Staffed /\ [Next]_vars => Staffed'
<1> SUFFICES ASSUME IInv, Staffed, [Next]_vars PROVE Staffed'
  OBVIOUS
<1>1. ASSUME NEW j \in Jobs, AddJob(j) PROVE Staffed'
  <2>1. /\ StartWorkers(Priority[j], at) /\ straggler' = (straggler \/ shutdown = "done")
        /\ shutdown' = shutdown
    BY <1>1 DEF AddJob, AddToManager
  <2>2. \A w \in Threads : at'[w] # "gone" => w \in m_workers'
    BY <2>1, StartsAreKnown DEF IInv, Types, Staffed
  <2>3. QED
    BY <2>1, <2>2 DEF Staffed
<1>2. ASSUME NEW j \in Jobs, QueueJob(j) PROVE Staffed'
  <2>1. CASE UNCHANGED <<manager, at, queue, straggler>>
    BY <1>2, <2>1 DEF QueueJob, Staffed, manager
  <2>2. CASE \E q \in {Append(q_jobQueue, j), <<j>> \o q_jobQueue} :
               QueueNextJob(q, q_processing, at)
    <3>1. PICK q \in {Append(q_jobQueue, j), <<j>> \o q_jobQueue} :
            QueueNextJob(q, q_processing, at)
      BY <2>2
    <3>2. q \in Seq(Jobs)
      <4>1. q_jobQueue \in Seq(Jobs)
        BY DEF IInv, Types
      <4>2. Append(q_jobQueue, j) \in Seq(Jobs) /\ <<j>> \o q_jobQueue \in Seq(Jobs)
        BY <4>1
      <4>3. QED
        BY <4>2
    <3>3. Types /\ at \in [Threads -> Place] /\ shutdown' = shutdown
      BY <1>2 DEF QueueJob, IInv, Types
    <3>4. \A w \in Threads : at[w] # "gone" => w \in m_workers
      BY DEF Staffed
    <3>5. QED
      BY <3>1, <3>2, <3>3, <3>4, NextJobIsStaffed
  <2>3. QED
    BY <1>2, <2>1, <2>2 DEF QueueJob
<1>3. CASE CancelJobs
  BY <1>3 DEF CancelJobs, Staffed, worker
<1>4. CASE WakeWorkers
  BY <1>4 DEF WakeWorkers, Staffed, worker, history
<1>5. CASE CancelQueue
  BY <1>5 DEF CancelQueue, Staffed, worker
<1>6. ASSUME NEW j \in Jobs, CancelJob(j) PROVE Staffed'
  BY <1>6 DEF CancelJob, Staffed, worker
<1>7. CASE UNCHANGED vars
  BY <1>7 DEF vars, Staffed, manager, worker, history
<1>8. QED
  BY <1>1, <1>2, <1>3, <1>4, <1>5, <1>6, <1>7, WorkerIsStaffed DEF Next
-----------------------------------------------------------------------------
(* Whose completion may still be reported                                   *)

\* A completion of j can still come to its callback: j waits in the manager, or a
\* worker does it and its callback is set.
MayReport(j) ==
  \/ \E p \in 0 .. 2 : j \in Q(p)
  \/ \E w \in Threads : at[w] = "work" /\ job[w] = j /\ j \in m_callback

\* CJobQueue has its own jobs only, and one of them at a time in the manager.  It
\* has noted every job of its own that may be reported, so that it can cancel it;
\* only jobs that were lost to an equal one are not noted.
Noted ==
  /\ OfQueue \subseteq Queued /\ q_processing \subseteq Queued /\ cancelled \subseteq added
  /\ \A i, k \in q_processing : i = k
  /\ \A j \in Queued : j \in added \ (freed \cup lost) /\ MayReport(j) => j \in q_processing

Silent == \A j \in cancelled \ lost : ~MayReport(j) /\ j \notin OfQueue

\* QueueNextJob moves one job from the queue to the manager, or none.
LEMMA NextJobMovesOne ==
  ASSUME Types, Lists, NEW q \in Seq(Jobs), Distinct(q),
         \A i \in Range0(q) : \A p \in 0 .. 2 : i \notin Q(p),
         NEW s \in SUBSET Jobs, NEW place \in [Threads -> Place], QueueNextJob(q, s, place)
  PROVE  /\ m_callback' = m_callback
         /\ \/ /\ q_processing' = s /\ OfQueue' = Range0(q) /\ at' = place
               /\ \A p \in 0 .. 2 : Q(p)' = Q(p)
            \/ /\ s = {}
               /\ \E j \in Range0(q) :
                    /\ q_processing' = {j} /\ OfQueue' = Range0(q) \ {j}
                    /\ \A p \in 0 .. 2 : Q(p)' \subseteq Q(p) \cup {j}
                    /\ \A w \in Threads : at'[w] \in {place[w], "next"}
<1>1. CASE q # << >> /\ s = {}
  <2> DEFINE j == q[Len(q)]
             t == SubSeq(q, 1, Len(q) - 1)
  <2>1. j \in Range0(q) /\ t \in Seq(Jobs) /\ Distinct(t) /\ Range0(t) = Range0(q) \ {j}
    BY <1>1, TakeLast
  <2>2. j \in Jobs
    BY <2>1 DEF Range0
  <2>3. /\ q_jobQueue' = t /\ q_processing' = {j} /\ m_callback' = m_callback
        /\ m_jobQueue' = [m_jobQueue EXCEPT ![Priority[j]] = Append(@, j)]
        /\ StartWorkers(Priority[j], place)
    BY <1>1 DEF QueueNextJob, AddToManager
  <2> HIDE DEF j, t
  <2>4. \A p \in 0 .. 2 : Q(p)' = IF p = Priority[j] THEN Q(p) \cup {j} ELSE Q(p)
    BY <2>1, <2>2, <2>3, ListsAfterAdd
  <2>5. \A w \in Threads : at'[w] \in {place[w], "next"}
    BY <2>3 DEF StartWorkers, NewWorker, Place
  <2>6. QED
    BY <1>1, <2>1, <2>3, <2>4, <2>5 DEF OfQueue
<1>2. CASE ~(q # << >> /\ s = {})
  BY <1>2 DEF QueueNextJob, manager, Q, OfQueue
<1>3. QED
  BY <1>1, <1>2

\* A job on the queue's list is not in the manager.
LEMMA ListedIsNotReported ==
  ASSUME Apart, NEW j \in OfQueue
  PROVE  ~MayReport(j)
BY DEF Apart, MayReport, Busy

\* A step that puts no job in the manager's lists, and none to work, and cancels none.
LEMMA QuietStep ==
  ASSUME IInv, Noted, Silent,
         UNCHANGED <<q_jobQueue, q_processing, added, lost>>,
         freed \subseteq freed', cancelled' \subseteq cancelled,
         \A p \in 0 .. 2 : Q(p)' \subseteq Q(p),
         \A w \in Threads : at'[w] = "work" => at[w] = "work" /\ job'[w] = job[w],
         m_callback' \subseteq m_callback
  PROVE  Noted' /\ Silent'
<1>1. \A j : MayReport(j)' => MayReport(j)
  BY DEF MayReport
<1>2. OfQueue' = OfQueue
  BY DEF OfQueue
<1>3. QED
  BY <1>1, <1>2 DEF Noted, Silent

\* A step in which QueueNextJob gives one of the jobs q to the manager, or none.
LEMMA NextJobIsNoted ==
  ASSUME IInv, Noted, Silent, NEW q \in Seq(Jobs), Distinct(q),
         \A i \in Range0(q) : i \in Queued \ (cancelled \ lost) /\ ~MayReport(i),
         NEW s \in SUBSET q_processing, NEW place \in [Threads -> Place],
         QueueNextJob(q, s, place),
         \A w \in Threads : place[w] = "work" => at[w] = "work",
         \A i \in q_processing \ s : MayReport(i) => i \in lost',
         OfQueue \subseteq Range0(q),
         \A j \in Queued : j \in added' => j \in added \/ j \in Range0(q),
         added \subseteq added',
         lost \subseteq lost', UNCHANGED <<job, freed, cancelled>>
  PROVE  Noted' /\ Silent'
<1>1. \A i \in Range0(q) : \A p \in 0 .. 2 : i \notin Q(p)
  BY DEF MayReport
<1>2. s \subseteq Jobs /\ Types /\ Lists
  BY DEF IInv, Types
<1>3. /\ m_callback' = m_callback
      /\ \/ /\ q_processing' = s /\ OfQueue' = Range0(q) /\ at' = place
            /\ \A p \in 0 .. 2 : Q(p)' = Q(p)
         \/ /\ s = {}
            /\ \E j \in Range0(q) :
                 /\ q_processing' = {j} /\ OfQueue' = Range0(q) \ {j}
                 /\ \A p \in 0 .. 2 : Q(p)' \subseteq Q(p) \cup {j}
                 /\ \A w \in Threads : at'[w] \in {place[w], "next"}
  BY <1>1, <1>2, NextJobMovesOne
<1>4. \A w \in Threads : at'[w] = "work" => at[w] = "work"
  BY <1>3
<1>5. CASE /\ q_processing' = s /\ OfQueue' = Range0(q)
           /\ \A p \in 0 .. 2 : Q(p)' = Q(p)
  <2>1. \A j : MayReport(j)' => MayReport(j)
    BY <1>3, <1>4, <1>5 DEF MayReport
  <2>2. QED
    BY <1>5, <2>1 DEF Noted, Silent
<1>6. ASSUME s = {},
             NEW n \in Range0(q), q_processing' = {n}, OfQueue' = Range0(q) \ {n},
             \A p \in 0 .. 2 : Q(p)' \subseteq Q(p) \cup {n}
      PROVE  Noted' /\ Silent'
  <2>1. \A j : MayReport(j)' => MayReport(j) \/ j = n
    BY <1>3, <1>4, <1>6 DEF MayReport
  <2>2. QED
    BY <1>6, <2>1 DEF Noted, Silent
<1>7. QED
  BY <1>3, <1>5, <1>6

LEMMA AddJobIsNoted ==
  ASSUME IInv, Noted, Silent, NEW j \in Jobs, AddJob(j)
  PROVE  Noted' /\ Silent'
<1>1. /\ m_jobQueue' = [m_jobQueue EXCEPT ![Priority[j]] = Append(@, j)]
      /\ StartWorkers(Priority[j], at) /\ added' = added \cup {j} /\ j \notin added \cup Queued
      /\ UNCHANGED <<m_callback, job, q_jobQueue, q_processing, freed, cancelled, lost>>
  BY DEF AddJob, AddToManager, queue
<1>2. \A p \in 0 .. 2 : j \notin Q(p)
  BY <1>1 DEF IInv, Apart
<1>3. \A p \in 0 .. 2 : Q(p)' = IF p = Priority[j] THEN Q(p) \cup {j} ELSE Q(p)
  BY <1>1, <1>2, ListsAfterAdd DEF IInv
<1>4. \A w \in Threads : at'[w] = "work" => at[w] = "work"
  BY <1>1 DEF StartWorkers, NewWorker, IInv, Types
<1>5. \A i : MayReport(i)' => MayReport(i) \/ i = j
  BY <1>1, <1>3, <1>4 DEF MayReport
<1>6. OfQueue' = OfQueue
  BY <1>1 DEF OfQueue
<1>7. QED
  BY <1>1, <1>5, <1>6 DEF Noted, Silent

LEMMA CancelJobIsNoted ==
  ASSUME IInv, Noted, Silent, NEW j \in Jobs, CancelJob(j)
  PROVE  Noted' /\ Silent'
<1>1. /\ UNCHANGED <<at, job, q_jobQueue, q_processing, added, lost>>
      /\ j \in added \ (Queued \cup freed) /\ cancelled' = (cancelled \cup {j}) \ freed'
  BY DEF CancelJob, worker, queue
<1>2. CASE j \in Q(Priority[j])
  <2>1. /\ m_jobQueue' = [m_jobQueue EXCEPT ![Priority[j]] = Without(@, j)]
        /\ freed' = freed \cup {j} /\ m_callback' = m_callback
    BY <1>2 DEF CancelJob, Cancel, Q
  <2>2. \A p \in 0 .. 2 : Q(p)' \subseteq Q(p)
    BY <2>1, ListsAfterTakeOff DEF IInv
  <2>3. cancelled' \subseteq cancelled /\ freed \subseteq freed'
    BY <1>1, <2>1
  <2>4. QED
    BY <1>1, <2>1, <2>2, <2>3, QuietStep
<1>3. CASE j \notin Q(Priority[j])
  <2>1. UNCHANGED <<m_jobQueue, freed>> /\ m_callback' = m_callback \ {j}
    BY <1>3 DEF CancelJob, Cancel, Q
  <2>2. \A p \in 0 .. 2 : Q(p)' = Q(p) /\ j \notin Q(p)
    BY <1>3, <2>1 DEF Q, IInv, Lists
  <2>3. ~MayReport(j)' /\ \A i : MayReport(i)' => MayReport(i)
    BY <1>1, <2>1, <2>2 DEF MayReport
  <2>4. OfQueue' = OfQueue
    BY <1>1 DEF OfQueue
  <2>5. QED
    BY <1>1, <2>1, <2>3, <2>4 DEF Noted, Silent
<1>4. QED
  BY <1>2, <1>3

LEMMA CancelJobsIsNoted ==
  ASSUME IInv, Noted, Silent, CancelJobs
  PROVE  Noted' /\ Silent'
<1>1. /\ m_jobQueue' = [p \in 0 .. 2 |-> << >>] /\ m_callback' = {}
      /\ UNCHANGED <<at, job, q_jobQueue, q_processing, added, lost>>
      /\ freed \subseteq freed' /\ cancelled' \subseteq cancelled
  BY DEF CancelJobs, worker, queue
<1>2. \A p \in 0 .. 2 : Q(p)' \subseteq Q(p)
  BY <1>1 DEF Q, Range0
<1>3. QED
  BY <1>1, <1>2, QuietStep

LEMMA QueueJobIsNoted ==
  ASSUME IInv, Noted, Silent, NEW j \in Jobs, QueueJob(j)
  PROVE  Noted' /\ Silent'
<1>1. /\ added' = added \cup {j} /\ job' = job /\ j \in Queued /\ j \notin added
      /\ UNCHANGED <<cancelled, lost>>
  BY DEF QueueJob
<1>2. /\ j \notin freed /\ j \notin OfQueue /\ ~MayReport(j) /\ j \notin cancelled
  BY <1>1 DEF IInv, Types, Apart, MayReport, Busy, Noted
<1>3. CASE \E i \in Range0(q_jobQueue) \cup q_processing : Same(i, j)
  <2>1. /\ freed' = freed \cup {j}
        /\ UNCHANGED <<m_jobQueue, m_callback, at, q_jobQueue, q_processing>>
    BY <1>3 DEF QueueJob, manager, queue
  <2>2. \A i : MayReport(i)' <=> MayReport(i)
    BY <1>1, <2>1 DEF MayReport, Q
  <2>3. OfQueue' = OfQueue
    BY <2>1 DEF OfQueue
  <2>4. QED
    BY <1>1, <2>1, <2>2, <2>3 DEF Noted, Silent
<1>4. CASE ~\E i \in Range0(q_jobQueue) \cup q_processing : Same(i, j)
  <2>1. /\ freed' = freed
        /\ \E q \in {Append(q_jobQueue, j), <<j>> \o q_jobQueue} : QueueNextJob(q, q_processing, at)
    BY <1>4 DEF QueueJob
  <2>2. PICK q \in {Append(q_jobQueue, j), <<j>> \o q_jobQueue} : QueueNextJob(q, q_processing, at)
    BY <2>1
  <2>3. q \in Seq(Jobs) /\ Distinct(q) /\ Range0(q) = OfQueue \cup {j}
    <3>1. q_jobQueue \in Seq(Jobs) /\ Distinct(q_jobQueue) /\ j \notin Range0(q_jobQueue)
      BY <1>2 DEF IInv, Types, Lists, OfQueue
    <3>2. CASE q = Append(q_jobQueue, j)
      BY <3>1, <3>2, AppendToList DEF OfQueue
    <3>3. CASE q = <<j>> \o q_jobQueue
      BY <3>1, <3>3, PutInFront DEF OfQueue
    <3>4. QED
      BY <2>2, <3>2, <3>3
  <2>4. \A i \in Range0(q) : i \in Queued \ (cancelled \ lost) /\ ~MayReport(i)
    BY <1>1, <1>2, <2>3, ListedIsNotReported DEF IInv, Noted, Silent
  <2>5. at \in [Threads -> Place] /\ q_processing \in SUBSET q_processing
    BY DEF IInv, Types
  <2>6. QED
    BY <1>1, <2>1, <2>2, <2>3, <2>4, <2>5, NextJobIsNoted
<1>5. QED
  BY <1>3, <1>4

\* The report of a job takes it off the jobs noted, of which no other report is to
\* come, and those equal to it, which are lost.
LEMMA ReportToQueueIsNoted ==
  ASSUME IInv, Noted, Silent, NEW w \in Threads, ReportToQueue(w)
  PROVE  Noted' /\ Silent'
<1> DEFINE place == [at EXCEPT ![w] = "forget"]
           s == {i \in q_processing : ~Same(i, job[w])}
<1>1. /\ at[w] = "report" /\ QueueNextJob(q_jobQueue, s, place)
      /\ lost' = lost \cup {i \in q_processing \ {job[w]} : Same(i, job[w])}
      /\ UNCHANGED <<job, added, freed, cancelled>>
  BY DEF ReportToQueue
<1>2. /\ place \in [Threads -> Place] /\ s \in SUBSET q_processing
      /\ \A v \in Threads : place[v] = "work" => at[v] = "work"
  BY DEF IInv, Types, Place
<1>3. ~MayReport(job[w])
  BY <1>1 DEF IInv, Apart, Busy, MayReport
<1>4. \A i \in q_processing \ s : MayReport(i) => i \in lost'
  BY <1>1, <1>3
<1> HIDE DEF place, s
<1>5. \A i \in Range0(q_jobQueue) : i \in Queued \ (cancelled \ lost) /\ ~MayReport(i)
  BY ListedIsNotReported DEF IInv, Noted, Silent, OfQueue
<1>6. q_jobQueue \in Seq(Jobs) /\ Distinct(q_jobQueue) /\ OfQueue \subseteq Range0(q_jobQueue)
  BY DEF IInv, Types, Lists, OfQueue
<1>7. QED
  BY <1>1, <1>2, <1>4, <1>5, <1>6, NextJobIsNoted

\* All jobs of the queue are cancelled: those on its list are deleted, the one it
\* has noted is found by the manager, and no other is to be reported.
LEMMA CancelQueueIsNoted ==
  ASSUME IInv, Noted, Silent, CancelQueue
  PROVE  Noted' /\ Silent'
<1>1. /\ q_jobQueue' = << >> /\ q_processing' = {}
      /\ UNCHANGED <<at, job, added, lost>>
      /\ cancelled' = (cancelled \cup (added \cap Queued)) \ freed'
  BY DEF CancelQueue, worker
<1>2. OfQueue' = {}
  BY <1>1 DEF OfQueue, Range0
<1>3. /\ freed \subseteq freed'
      /\ \A j : MayReport(j)' => MayReport(j)
      /\ \A j \in q_processing : j \notin freed' => ~MayReport(j)'
  <2>1. CASE q_processing = {}
    <3>1. freed' = freed \cup OfQueue /\ UNCHANGED <<m_jobQueue, m_callback>>
      BY <2>1 DEF CancelQueue, OfQueue
    <3>2. QED
      BY <1>1, <2>1, <3>1 DEF MayReport, Q
  <2>2. CASE q_processing # {}
    <3>1. PICK j \in q_processing :
            /\ m_jobQueue' = [m_jobQueue EXCEPT ![Priority[j]] = Without(@, j)]
            /\ m_callback' = m_callback \ {j}
            /\ freed' = freed \cup OfQueue \cup (IF j \in Q(Priority[j]) THEN {j} ELSE {})
      BY <2>2 DEF CancelQueue, OfQueue, Q
    <3>2. j \in Jobs /\ Priority[j] \in 0 .. 2
      BY JobAssumption DEF IInv, Types
    <3>3. \A p \in 0 .. 2 : Q(p)' = Q(p) \ {j}
      BY <3>1, <3>2, ListsAfterTakeOff DEF IInv
    <3>4. ~MayReport(j)' /\ \A i : MayReport(i)' => MayReport(i)
      BY <1>1, <3>1, <3>3 DEF MayReport
    <3>5. \A i \in q_processing : i = j
      BY DEF Noted
    <3>6. QED
      BY <3>1, <3>4, <3>5
  <2>3. QED
    BY <2>1, <2>2
<1>4. Noted'
  BY <1>1, <1>2, <1>3 DEF Noted
<1>5. Silent'
  BY <1>1, <1>2, <1>3 DEF Noted, Silent
<1>6. QED
  BY <1>4, <1>5

\* The worker takes a job from the manager's lists, which may have been reported
\* before, too, and which no other worker has.
LEMMA PopJobIsNoted ==
  ASSUME IInv, Noted, Silent, NEW w \in Threads, PopJob(w),
         UNCHANGED <<q_jobQueue, q_processing, added, lost, freed, cancelled>>
  PROVE  Noted' /\ Silent'
<1>1. PICK r \in 0 .. 2, j \in Jobs :
        /\ j \in Q(r)
        /\ \A p \in 0 .. 2 : Q(p)' = Q(p) \ {j}
        /\ m_processing' = m_processing \cup {j}
        /\ at' = [at EXCEPT ![w] = "work"] /\ job' = [job EXCEPT ![w] = j]
        /\ m_callback' = m_callback \cup {j}
  <2>1. PICK r \in 0 .. 2, j \in Jobs :
          /\ j \in Q(r)
          /\ \A p \in 0 .. 2 : Q(p)' = Q(p) \ {j}
          /\ m_processing' = m_processing \cup {j}
          /\ at' = [at EXCEPT ![w] = "work"] /\ job' = [job EXCEPT ![w] = j]
    BY PopTakesFirst DEF IInv
  <2>2. \E i : job' = [job EXCEPT ![w] = i] /\ m_callback' = m_callback \cup {i}
    BY DEF PopJob
  <2>3. job \in [Threads -> Jobs \cup {NoJob}]
    BY DEF IInv, Types
  <2>4. m_callback' = m_callback \cup {j}
    BY <2>1, <2>2, <2>3
  <2>5. QED
    BY <2>1, <2>4
<1>2. \A i : MayReport(i)' => MayReport(i)
  BY <1>1 DEF MayReport, IInv, Types
<1>3. OfQueue' = OfQueue
  BY DEF OfQueue
<1>4. QED
  BY <1>2, <1>3 DEF Noted, Silent

LEMMA WorkerIsNoted ==
  ASSUME IInv, Noted, Silent, NEW w \in Threads, WorkerStep(w)
  PROVE  Noted' /\ Silent'
<1>1. CASE GetNextJob(w) \/ LastLook(w)
  <2>1. UNCHANGED <<q_jobQueue, q_processing, added, lost, freed, cancelled>>
    BY <1>1 DEF GetNextJob, LastLook, queue, history
  <2>2. CASE PopJob(w)
    BY <2>1, <2>2, PopJobIsNoted
  <2>3. CASE ~PopJob(w)
    <3>1. PICK place \in {"wait", "gone"} : at' = [at EXCEPT ![w] = place]
      BY <1>1, <2>3 DEF GetNextJob, LastLook, RemoveWorker
    <3>2. UNCHANGED <<m_jobQueue, m_callback, job>>
      BY <1>1, <2>3 DEF GetNextJob, LastLook, RemoveWorker
    <3>3. \A p \in 0 .. 2 : Q(p)' \subseteq Q(p)
      BY <3>2 DEF Q
    <3>4. \A v \in Threads : at'[v] = "work" => at[v] = "work" /\ job'[v] = job[v]
      BY <3>1, <3>2 DEF IInv, Types
    <3>5. QED
      BY <2>1, <3>2, <3>3, <3>4, QuietStep
  <2>4. QED
    BY <2>2, <2>3
<1>2. CASE WakeUp(w) \/ TimeOut(w) \/ OnJobComplete(w) \/ Report(w) \/ Forget(w)
  <2>1. /\ UNCHANGED <<m_jobQueue, q_jobQueue, q_processing, added, lost>>
        /\ freed \subseteq freed' /\ cancelled' \subseteq cancelled /\ m_callback' \subseteq m_callback
    BY <1>2 DEF WakeUp, TimeOut, OnJobComplete, Report, Forget, manager, queue, history
  <2>2. \A p \in 0 .. 2 : Q(p)' \subseteq Q(p)
    BY <2>1 DEF Q
  <2>3. \A v \in Threads : at'[v] = "work" => at[v] = "work" /\ job'[v] = job[v]
    BY <1>2 DEF WakeUp, TimeOut, OnJobComplete, Report, Forget, IInv, Types
  <2>4. QED
    BY <2>1, <2>2, <2>3, QuietStep
<1>3. CASE ReportToQueue(w)
  BY <1>3, ReportToQueueIsNoted
<1>4. QED
  BY <1>1, <1>2, <1>3 DEF WorkerStep

LEMMA NotedHolds == IInv /\ Noted /\ Silent /\ [Next]_vars => Noted' /\ Silent'
<1> SUFFICES ASSUME IInv, Noted, Silent, [Next]_vars PROVE Noted' /\ Silent'
  OBVIOUS
<1>1. CASE WakeWorkers \/ UNCHANGED vars
  <2>1. UNCHANGED <<m_jobQueue, m_callback, at, job, q_jobQueue, q_processing, added, freed,
                    cancelled, lost>>
    BY <1>1 DEF WakeWorkers, vars, manager, worker, queue, history
  <2>2. \A p \in 0 .. 2 : Q(p)' = Q(p)
    BY <2>1 DEF Q
  <2>3. QED
    BY <2>1, <2>2, QuietStep
<1>2. QED
  BY <1>1, AddJobIsNoted, CancelJobIsNoted, QueueJobIsNoted, CancelQueueIsNoted,
     CancelJobsIsNoted, WorkerIsNoted DEF Next

\* Only OnJobComplete lets a worker report, and only of a job whose callback is set.
LEMMA ReportsWhatMayBeReported ==
  ASSUME [Next]_vars, NEW w \in reporting' \ reporting
  PROVE  MayReport(job[w])
<1>1. ASSUME NEW v \in Threads, WorkerStep(v) PROVE MayReport(job[w])
  <2>1. OnJobComplete(v) /\ w = v /\ job[v] \in m_callback
    BY <1>1 DEF WorkerStep, GetNextJob, WakeUp, TimeOut, LastLook, OnJobComplete, Report,
                ReportToQueue, Forget
  <2>2. QED
    BY <2>1 DEF OnJobComplete, MayReport
<1>2. CASE UNCHANGED reporting
  BY <1>2
<1>3. QED
  BY <1>1, <1>2 DEF Next, AddJob, CancelJob, QueueJob, CancelQueue, CancelJobs, WakeWorkers, vars, worker
-----------------------------------------------------------------------------
(* The theorems                                                             *)

THEOREM InvariantTheorem == Spec => []IInv
BY InitHolds, StepHolds, PTL DEF Spec

\* However jobs are added, end and are cancelled there are never more workers than
\* CJobManager was made for: one is started only when as many jobs are in progress
\* as there are workers, and fewer than that priority allows.
THEOREM WorkersWithinLimitTheorem == Spec => []WorkersWithinLimit
<1>1. IInv => WorkersWithinLimit
  BY DEF IInv, WorkersOK, WorkersWithinLimit
<1>2. QED
  BY <1>1, InvariantTheorem, PTL

\* No job is deleted that waits or that a worker is busy with, and no two workers
\* have the same job, for all jobs, priorities, equal jobs and threads: each job is
\* in one place, and whoever deletes it takes it from there.
THEOREM JobsAreAliveTheorem == Spec => []JobsAreAlive
<1>1. IInv => JobsAreAlive
  BY ApartMeansAlive DEF IInv
<1>2. QED
  BY <1>1, InvariantTheorem, PTL

\* "Should be called prior to destroying any objects that may be being used as
\* callbacks" (JobManager.h:194): for all jobs, priorities and threads, once
\* CancelJobs has returned no worker is left and none has a job, unless somebody adds
\* a job later.  CJobManager knows every thread that has not gone.
THEOREM NobodyIsLeftTheorem == Spec => []NobodyIsLeft
<1>1. Init => Staffed
  BY DEF Init, Staffed
<1>2. Staffed => NobodyIsLeft
  BY DEF Staffed, NobodyIsLeft, Busy
<1>3. QED
  BY <1>1, <1>2, StaffedHolds, InvariantTheorem, PTL DEF Spec

\* For all jobs, equal jobs and threads, a job cancelled while its completion could
\* still be prevented is not reported, unless the queue has lost it to an equal one:
\* the queue has noted the one of its jobs of which a report may come, and the manager
\* finds each job that waits or is in progress.
THEOREM CancelledIsSilentTheorem == Spec => CancelledIsSilent
<1>1. Init => Noted /\ Silent
  BY DEF Init, Noted, Silent, MayReport, OfQueue, Range0
<1>2. Silent /\ [Next]_vars =>
        [\A w \in reporting' \ reporting : job[w] \notin cancelled \ lost]_vars
  BY ReportsWhatMayBeReported DEF Silent
<1>3. QED
  BY <1>1, <1>2, NotedHolds, InvariantTheorem, PTL DEF Spec, CancelledIsSilent
=============================================================================
