------------------------------ MODULE JobManager ------------------------------
(***************************************************************************)
(* Background jobs (xbmc/utils/JobManager.cpp): CJobManager with its worker *)
(* threads, and one CJobQueue, which gives the manager its jobs one at a    *)
(* time and hears of their completion.                                      *)
(*                                                                         *)
(* What runs under the manager's lock is one step; so is what runs under    *)
(* the queue's lock, with the calls to the manager made from there (the     *)
(* order of the locks is queue, manager; callbacks are made without the     *)
(* manager's).  A worker does its job, reports the completion and forgets   *)
(* the job in steps of their own, and anything may happen in between.       *)
(***************************************************************************)
EXTENDS Integers, Sequences, FiniteSets

CONSTANTS Jobs,         (* every job that is ever added, each once                *)
          Priority,     (* CJob::PRIORITY of a job: 0 low, 1 normal, 2 high       *)
          Queued,       (* the jobs of the CJobQueue                              *)
          Equal,        (* pairs of jobs of the queue that are equal (CJob::==)   *)
          Threads,      (* names for worker threads                               *)
          max_workers

ASSUME JobAssumption ==
  /\ Priority \in [Jobs -> 0 .. 2] /\ Queued \subseteq Jobs
  /\ Equal \subseteq Queued \X Queued
  /\ max_workers \in Nat /\ \A j \in Jobs : max_workers > 2 - Priority[j]
  /\ IsFiniteSet(Threads) /\ Cardinality(Threads) > max_workers

VARIABLES m_jobQueue,   (* the manager's jobs that wait, by priority              *)
          m_processing, (* its jobs that a worker has                             *)
          m_callback,   (* those of them whose callback is not NULL               *)
          m_workers, m_jobEvent, m_running,
          at, job,      (* where a worker is, and its job                         *)
          reporting,    (* the workers that have copied a callback that is set    *)
          q_jobQueue, q_processing,   (* m_jobQueue and m_processing of the queue *)
          added,        (* history: the jobs added so far                         *)
          freed,        (* the jobs deleted                                       *)
          cancelled,    (* history: the other jobs whose cancellation has returned *)
          lost,         (* history: jobs taken off the queue's list by an equal one *)
          shutdown,     (* CancelJobs of the manager: "no", "waiting" or "done"   *)
          straggler     (* history: a job was added after it was done             *)

manager == <<m_jobQueue, m_processing, m_callback, m_workers, m_jobEvent, m_running>>
worker == <<at, job, reporting>>
queue == <<q_jobQueue, q_processing>>
history == <<added, freed, cancelled, lost, straggler>>
vars == <<manager, worker, queue, history, shutdown>>

NoJob == "none"
Range0(s) == {s[i] : i \in 1 .. Len(s)}
Waiting == UNION {Range0(m_jobQueue[p]) : p \in 0 .. 2}

\* find and erase; a job is at most once in a list.
Without(s, j) ==
  LET n == CHOOSE i \in 1 .. Len(s) : s[i] = j
  IN  IF j \in Range0(s) THEN [i \in 1 .. Len(s) - 1 |-> s[IF i < n THEN i ELSE i + 1]] ELSE s

Init ==
  /\ m_jobQueue = [p \in 0 .. 2 |-> << >>] /\ m_processing = {} /\ m_callback = {}
  /\ m_workers = {} /\ m_jobEvent = FALSE /\ m_running = TRUE
  /\ at = [w \in Threads |-> "gone"] /\ job = [w \in Threads |-> NoJob] /\ reporting = {}
  /\ q_jobQueue = << >> /\ q_processing = {}
  /\ added = {} /\ freed = {} /\ cancelled = {} /\ lost = {} /\ straggler = FALSE
  /\ shutdown = "no"
-----------------------------------------------------------------------------
(* CJobManager: adding and cancelling                                       *)

GetMaxWorkers(p) == max_workers - (2 - p)

\* A new worker thread starts with GetNextJob; "place" is where the others are.
NewWorker(place) ==
  LET w == CHOOSE v \in Threads : place[v] = "gone"
  IN  /\ m_workers' = m_workers \cup {w} /\ at' = [place EXCEPT ![w] = "next"]
      /\ UNCHANGED m_jobEvent

\* Mutated form: a worker more for every job.
StartWorkersAlways(p, place) ==
  IF Cardinality(m_processing) >= GetMaxWorkers(p)
  THEN at' = place /\ UNCHANGED <<m_workers, m_jobEvent>>
  ELSE NewWorker(place)

\* There are workers enough, one of them sleeps, or all are busy.
StartWorkers(p, place) ==
  IF Cardinality(m_processing) >= GetMaxWorkers(p)
  THEN at' = place /\ UNCHANGED <<m_workers, m_jobEvent>>
  ELSE IF Cardinality(m_processing) < Cardinality(m_workers)
  THEN at' = place /\ m_jobEvent' = TRUE /\ UNCHANGED m_workers
  ELSE NewWorker(place)

\* AddJob(j), called by a client or by a worker that reports.
AddToManager(j, place) ==
  /\ m_jobQueue' = [m_jobQueue EXCEPT ![Priority[j]] = Append(@, j)]
  /\ StartWorkers(Priority[j], place)
  /\ straggler' = (straggler \/ shutdown = "done")
  /\ UNCHANGED <<m_processing, m_callback, m_running>>

\* A client adds a job and waits for its callback (a job without one is like a
\* job that is cancelled as soon as it is in progress).
AddJob(j) ==
  /\ j \notin added \cup Queued
  /\ added' = added \cup {j}
  /\ AddToManager(j, at)
  /\ UNCHANGED <<job, reporting, queue, freed, cancelled, lost, shutdown>>

\* Mutated form: a job in progress keeps its callback.
CancelWaiting(j) ==
  IF j \in Range0(m_jobQueue[Priority[j]])
  THEN /\ m_jobQueue' = [m_jobQueue EXCEPT ![Priority[j]] = Without(@, j)]
       /\ freed' = freed \cup {j}
       /\ UNCHANGED m_callback
  ELSE UNCHANGED <<m_jobQueue, m_callback, freed>>

\* Mutated form: a job in progress is deleted, too.
CancelAndDelete(j) ==
  /\ m_jobQueue' = [m_jobQueue EXCEPT ![Priority[j]] = Without(@, j)]
  /\ freed' = freed \cup {j}
  /\ m_callback' = m_callback \ {j}

\* CancelJob: a job that waits is deleted; one in progress loses its callback.
Cancel(j) ==
  IF j \in Range0(m_jobQueue[Priority[j]])
  THEN /\ m_jobQueue' = [m_jobQueue EXCEPT ![Priority[j]] = Without(@, j)]
       /\ freed' = freed \cup {j}
       /\ UNCHANGED m_callback
  ELSE m_callback' = m_callback \ {j} /\ UNCHANGED <<m_jobQueue, freed>>

CancelJob(j) ==
  /\ j \in added \ (Queued \cup freed)
  /\ Cancel(j)
  /\ cancelled' = (cancelled \cup {j}) \ freed'
  /\ UNCHANGED <<m_processing, m_workers, m_jobEvent, m_running, worker, queue, added,
                 lost, straggler, shutdown>>

\* CancelJobs, at the end of the program: up to the loop.
CancelJobs ==
  /\ shutdown = "no"
  /\ shutdown' = "waiting"
  /\ m_running' = FALSE
  /\ m_jobQueue' = [p \in 0 .. 2 |-> << >>]
  /\ freed' = freed \cup Waiting /\ cancelled' = cancelled \ freed'
  /\ m_callback' = {}
  /\ UNCHANGED <<m_processing, m_workers, m_jobEvent, worker, queue, added, lost, straggler>>

\* Mutated form: the workers are told, but not waited for.
WakeAndLeave ==
  /\ shutdown = "waiting"
  /\ m_jobEvent' = TRUE /\ shutdown' = "done"
  /\ UNCHANGED <<m_jobQueue, m_processing, m_callback, m_workers, m_running, worker, queue,
                 history>>

\* The loop of CancelJobs: wake the workers as long as there are any.
WakeWorkers ==
  /\ shutdown = "waiting"
  /\ IF m_workers = {} THEN shutdown' = "done" /\ UNCHANGED m_jobEvent
     ELSE m_jobEvent' = TRUE /\ UNCHANGED shutdown
  /\ UNCHANGED <<m_jobQueue, m_processing, m_callback, m_workers, m_running, worker, queue,
                 history>>
-----------------------------------------------------------------------------
(* The workers                                                              *)

\* The priorities of which a job may be started.
Ready == {p \in 0 .. 2 : m_jobQueue[p] # << >> /\ Cardinality(m_processing) < GetMaxWorkers(p)}

\* PopJob: the first job of the highest of them.
PopJob(w) ==
  LET p == CHOOSE r \in Ready : \A s \in Ready : s <= r
      j == Head(m_jobQueue[p])
  IN  /\ Ready # {}
      /\ m_jobQueue' = [m_jobQueue EXCEPT ![p] = Tail(@)]
      /\ m_processing' = m_processing \cup {j} /\ m_callback' = m_callback \cup {j}
      /\ at' = [at EXCEPT ![w] = "work"] /\ job' = [job EXCEPT ![w] = j]
      /\ UNCHANGED m_workers

RemoveWorker(w) ==
  /\ m_workers' = m_workers \ {w}
  /\ at' = [at EXCEPT ![w] = "gone"]
  /\ UNCHANGED <<m_jobQueue, m_processing, m_callback, job>>

\* Mutated form: a worker that is told to finish waits for a job all the same.
GetNextJobForever(w) ==
  /\ at[w] = "next"
  /\ \/ PopJob(w)
     \/ /\ Ready = {}
        /\ at' = [at EXCEPT ![w] = "wait"]
        /\ UNCHANGED <<m_jobQueue, m_processing, m_callback, m_workers, job>>
  /\ UNCHANGED <<m_jobEvent, m_running, reporting, queue, history, shutdown>>

\* GetNextJob: a job is there, or the worker waits for one.
GetNextJob(w) ==
  /\ at[w] = "next" /\ m_running
  /\ \/ PopJob(w)
     \/ /\ Ready = {}
        /\ at' = [at EXCEPT ![w] = "wait"]
        /\ UNCHANGED <<m_jobQueue, m_processing, m_callback, m_workers, job>>
  /\ UNCHANGED <<m_jobEvent, m_running, reporting, queue, history, shutdown>>

\* WaitMSec: the event wakes one worker.
WakeUp(w) ==
  /\ at[w] = "wait" /\ m_jobEvent
  /\ m_jobEvent' = FALSE
  /\ at' = [at EXCEPT ![w] = "next"]
  /\ UNCHANGED <<m_jobQueue, m_processing, m_callback, m_workers, m_running, job, reporting, queue,
                 history, shutdown>>

\* WaitMSec: 30 seconds have passed.
TimeOut(w) ==
  /\ at[w] = "wait"
  /\ at' = [at EXCEPT ![w] = "last"]
  /\ UNCHANGED <<manager, job, reporting, queue, history, shutdown>>

\* Mutated form: the worker is removed without another look.
LeaveAtOnce(w) ==
  /\ at[w] = "last" \/ (at[w] = "next" /\ ~m_running)
  /\ RemoveWorker(w)
  /\ UNCHANGED <<m_jobEvent, m_running, reporting, queue, history, shutdown>>

\* The end of GetNextJob: a last look for a job, or the worker is removed.
LastLook(w) ==
  /\ at[w] = "last" \/ (at[w] = "next" /\ ~m_running)
  /\ PopJob(w) \/ (Ready = {} /\ RemoveWorker(w))
  /\ UNCHANGED <<m_jobEvent, m_running, reporting, queue, history, shutdown>>

\* DoWork comes to its end, with success or not or with an exception, and
\* OnJobComplete copies the item and leaves the lock.
OnJobComplete(w) ==
  /\ at[w] = "work"
  /\ reporting' = IF job[w] \in m_callback THEN reporting \cup {w} ELSE reporting
  /\ at' = [at EXCEPT ![w] = "report"]
  /\ UNCHANGED <<manager, job, queue, history, shutdown>>

\* The callback of a client, if there is one.
Report(w) ==
  /\ at[w] = "report" /\ (w \notin reporting \/ job[w] \notin Queued)
  /\ at' = [at EXCEPT ![w] = "forget"]
  /\ reporting' = reporting \ {w}
  /\ UNCHANGED <<manager, job, queue, added, freed, cancelled, lost, straggler,
                 shutdown>>

\* The rest of OnJobComplete: the job is forgotten and deleted.
Forget(w) ==
  /\ at[w] = "forget"
  /\ m_processing' = m_processing \ {job[w]} /\ m_callback' = m_callback \ {job[w]}
  /\ freed' = freed \cup {job[w]} /\ cancelled' = cancelled \ {job[w]}
  /\ at' = [at EXCEPT ![w] = "next"] /\ job' = [job EXCEPT ![w] = NoJob]
  /\ UNCHANGED <<m_jobQueue, m_workers, m_jobEvent, m_running, reporting, queue, added, lost, straggler,
                 shutdown>>
-----------------------------------------------------------------------------
(* CJobQueue with m_jobsAtOnce 1                                            *)

Same(i, j) == i = j \/ <<i, j>> \in Equal \/ <<j, i>> \in Equal

\* QueueNextJob, of a queue that holds q and processes s; taken from the back.
QueueNextJob(q, s, place) ==
  IF q # << >> /\ s = {}
  THEN /\ q_jobQueue' = SubSeq(q, 1, Len(q) - 1)
       /\ q_processing' = {q[Len(q)]}
       /\ AddToManager(q[Len(q)], place)
  ELSE /\ q_jobQueue' = q /\ q_processing' = s
       /\ at' = place
       /\ UNCHANGED <<manager, straggler>>

\* AddJob of a job that is new to the queue, at either end of it (m_lifo).
QueueJob(j) ==
  /\ j \in Queued \ added
  /\ added' = added \cup {j}
  /\ IF \E i \in Range0(q_jobQueue) \cup q_processing : Same(i, j)
     THEN freed' = freed \cup {j} /\ UNCHANGED <<manager, at, queue, straggler>>
     ELSE /\ \E q \in {Append(q_jobQueue, j), <<j>> \o q_jobQueue} :
               QueueNextJob(q, q_processing, at)
          /\ UNCHANGED freed
  /\ UNCHANGED <<job, reporting, cancelled, lost, shutdown>>

\* OnJobComplete: the job equal to the one that has completed is taken off, and
\* the next one is given to the manager.
ReportToQueue(w) ==
  /\ at[w] = "report" /\ w \in reporting /\ job[w] \in Queued
  /\ reporting' = reporting \ {w}
  /\ QueueNextJob(q_jobQueue, {i \in q_processing : ~Same(i, job[w])},
                  [at EXCEPT ![w] = "forget"])
  /\ lost' = lost \cup {i \in q_processing \ {job[w]} : Same(i, job[w])}
  /\ UNCHANGED <<job, added, freed, cancelled, shutdown>>

\* CancelJobs: the job the manager has is cancelled, the others are deleted.
CancelQueue ==
  /\ q_jobQueue' = << >> /\ q_processing' = {}
  /\ IF q_processing = {}
     THEN freed' = freed \cup Range0(q_jobQueue) /\ UNCHANGED <<m_jobQueue, m_callback>>
     ELSE \E j \in q_processing :
            LET waits == j \in Range0(m_jobQueue[Priority[j]])
            IN  /\ m_jobQueue' = [m_jobQueue EXCEPT ![Priority[j]] = Without(@, j)]
                /\ m_callback' = m_callback \ {j}
                /\ freed' = freed \cup Range0(q_jobQueue) \cup (IF waits THEN {j} ELSE {})
  /\ cancelled' = (cancelled \cup (added \cap Queued)) \ freed'
  /\ UNCHANGED <<m_processing, m_workers, m_jobEvent, m_running, worker, added, lost,
                 straggler, shutdown>>

WorkerStep(w) ==
  \/ GetNextJob(w) \/ WakeUp(w) \/ TimeOut(w) \/ LastLook(w)
  \/ OnJobComplete(w) \/ Report(w) \/ ReportToQueue(w) \/ Forget(w)

Next ==
  \/ \E j \in Jobs : AddJob(j) \/ CancelJob(j) \/ QueueJob(j)
  \/ CancelQueue \/ CancelJobs \/ WakeWorkers
  \/ \E w \in Threads : WorkerStep(w)

Spec == Init /\ [][Next]_vars

\* Worker threads run, jobs end, a wait ends after 30 seconds.
FairSpec ==
  /\ Spec
  /\ \A w \in Threads : WF_vars(WorkerStep(w)) /\ WF_vars(TimeOut(w))
  /\ WF_vars(WakeWorkers)
-----------------------------------------------------------------------------
(* Properties *)

Busy(w) == at[w] \in {"work", "report", "forget"}

\* There are never more workers than max_workers.
WorkersWithinLimit == Cardinality(m_workers) <= max_workers

\* A job that waits or that a worker is busy with exists, and only once: it is not
\* deleted while somebody may use it, and no two workers have it.
JobsAreAlive ==
  /\ Waiting \cap freed = {}
  /\ \A w \in Threads : Busy(w) => job[w] \notin freed \cup Waiting
  /\ \A v, w \in Threads : Busy(v) /\ Busy(w) /\ job[v] = job[w] => v = w

\* "Should be called prior to destroying any objects that may be being used as
\* callbacks" (JobManager.h:194): once CancelJobs has returned no worker is left,
\* unless somebody adds a job later.
NobodyIsLeft ==
  shutdown = "done" /\ ~straggler => m_workers = {} /\ \A w \in Threads : ~Busy(w)

\* A job that was cancelled before its completion was being reported is not
\* reported: CancelJob finds it, waiting or in progress.  The exception are jobs
\* the queue has lost: the report of a job that was cancelled too late takes one
\* that is equal, and was added since, off the list (JobManager.cpp:76).
CancelledIsSilent ==
  [][\A w \in reporting' \ reporting : job[w] \notin cancelled \ lost]_vars

\* Every job is done, or deleted before: a queue goes on to its next job and is not
\* held up by what has been cancelled, and no job is left without a worker that
\* will look for one.  After CancelJobs a queue may wait for a report for ever.
EveryJobEnds == \A j \in Jobs : j \in added ~> (j \in freed \/ shutdown # "no")

\* CancelJobs returns.
ShutdownEnds == shutdown = "waiting" ~> shutdown = "done"

\* "Any job currently being processed may complete after this call has completed,
\* but OnJobComplete will not be performed": said of the cancellation of a job queue
\* (JobManager.h:89-90), which is CancelJob of the manager for the jobs in progress
\* (JobManager.cpp:116).
NoReportAfterCancel == [][\A w \in reporting \ reporting' : job[w] \notin cancelled]_vars
=============================================================================
