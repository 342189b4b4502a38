-------------------------- MODULE ThreadPool_proofs --------------------------
(***************************************************************************)
(* Proofs about ThreadPool for every number of workers, clients and jobs.  *)
(* The running counter is the number of workers that have a job in hand;   *)
(* from that it follows that a counter of zero, read after an empty queue, *)
(* covers every job that was added before the two reads.                   *)
(***************************************************************************)
EXTENDS ThreadPool, FiniteSetTheorems, TLAPS

Busy == {w \in Workers : job[w] # NoJob}

\* The counter is incremented and decremented outside any common lock, but once
\* per job.
Counted == currentJobs = Cardinality(Busy)

\* A worker has a job exactly while it executes it.
HandOK == \A w \in Workers : job[w] # NoJob <=> pc[w] \in {"exec", "notify"}

\* The mutex is held from the loop test to the wait or the pop.
LockOK == \A w \in Workers : pc[w] \in {"loop", "wait", "check"} <=> m_lock = w

\* The queue that the loop test has seen non-empty is still so at the pop.
CheckOK == \A w \in Workers : pc[w] = "check" /\ ~m_stopped => m_jobs # << >>

\* Once the queue has been read as empty, the earlier jobs are in hand or done.
PollOK ==
    poll.at = "sized" /\ poll.totaljobs = 0 =>
        \A j \in poll.before : j \in finished \/ \E w \in Workers : job[w] = j

PInv == TypeOK /\ HandOK /\ LockOK /\ CheckOK /\ Counted /\ ExactlyOnce
              /\ PollOK /\ ClearCoversEarlierJobs

-----------------------------------------------------------------------------
\* There are finitely many workers, so the busy ones can be counted.
LEMMA BusyFinite == IsFiniteSet(Busy) /\ Cardinality(Busy) \in Nat
<1>1. Busy \subseteq Workers
  BY DEF Busy
<1>2. IsFiniteSet(Busy)
  BY <1>1, WorkersFinite, FS_Subset
<1> QED BY <1>2, FS_CardinalityType

\* A pool that has just been started.
LEMMA InitPool == Init => PInv
<1> SUFFICES ASSUME Init PROVE PInv
  OBVIOUS
<1>1. m_jobs \in Seq(Jobs) /\ DOMAIN m_jobs = {}
  BY DEF Init
<1>2. TypeOK
  BY <1>1, ThreadsDistinct DEF Init, TypeOK, Threads, WorkerPC, PollState
<1>3. HandOK /\ LockOK /\ CheckOK
  BY ThreadsDistinct DEF Init, HandOK, LockOK, CheckOK, Threads
<1>4. Counted
  <2>1. Busy = {}
    BY DEF Init, Busy
  <2> QED BY <2>1, FS_EmptySet DEF Init, Counted
<1>5. ExactlyOnce
  BY <1>1, ThreadsDistinct DEF Init, ExactlyOnce
<1>6. PollOK /\ ClearCoversEarlierJobs
  BY DEF Init, PollOK, ClearCoversEarlierJobs
<1> QED BY <1>2, <1>3, <1>4, <1>5, <1>6 DEF PInv

\* A step that leaves the hands, the counter, the queue and the poll alone keeps
\* everything that is said about them.
LEMMA Calm ==
    ASSUME PInv, UNCHANGED <<m_jobs, currentJobs, job, finished, poll>>
    PROVE  Counted' /\ ExactlyOnce' /\ PollOK' /\ ClearCoversEarlierJobs'
<1>1. Counted'
  BY DEF PInv, Counted, Busy
<1>2. ExactlyOnce'
  BY DEF PInv, ExactlyOnce
<1>3. PollOK' /\ ClearCoversEarlierJobs'
  BY DEF PInv, PollOK, ClearCoversEarlierJobs
<1> QED BY <1>1, <1>2, <1>3

\* add: the new job is nowhere yet.
LEMMA PushKeeps ==
    ASSUME PInv, NEW t \in Threads, Push(t)
    PROVE  PInv'
<1> PICK j \in Jobs \ Added : m_jobs' = Append(m_jobs, j)
  BY DEF Push
<1> USE DEF PInv
<1>1. m_jobs \in Seq(Jobs) /\ job \in [Workers -> Jobs \cup {NoJob}]
  BY DEF TypeOK
<1>2. /\ j \in Jobs /\ j # NoJob /\ j \notin finished
      /\ \A i \in DOMAIN m_jobs : m_jobs[i] # j
      /\ \A w \in Workers : job[w] # j
  BY <1>1, ThreadsDistinct DEF Added, Range
<1>3. /\ DOMAIN m_jobs = 1 .. Len(m_jobs) /\ Len(m_jobs) \in Nat
      /\ DOMAIN m_jobs' = 1 .. Len(m_jobs) + 1
      /\ \A i \in DOMAIN m_jobs : m_jobs'[i] = m_jobs[i]
      /\ m_jobs'[Len(m_jobs) + 1] = j
      /\ m_jobs' \in Seq(Jobs) /\ m_jobs' # << >>
  BY <1>1
<1>4. TypeOK'
  BY <1>3, ThreadsDistinct DEF TypeOK, Push, Threads, WorkerPC, PollState
<1>5. HandOK' /\ LockOK'
  BY ThreadsDistinct DEF Push, HandOK, LockOK, TypeOK, Threads
<1>6. CheckOK'
  BY <1>3 DEF CheckOK
<1>7. Counted'
  BY DEF Push, Counted, Busy
<1>8. ExactlyOnce'
  <2>1. UNCHANGED <<job, finished>>
    BY DEF Push
  <2>2. \A i, k \in DOMAIN m_jobs' : i # k => m_jobs'[i] # m_jobs'[k]
    BY <1>2, <1>3 DEF ExactlyOnce
  <2>3. \A i \in DOMAIN m_jobs' : m_jobs'[i] \notin finished
    BY <1>2, <1>3 DEF ExactlyOnce
  <2>4. \A i \in DOMAIN m_jobs' : \A w \in Workers : job[w] # m_jobs'[i]
    BY <1>2, <1>3 DEF ExactlyOnce
  <2> QED BY <2>1, <2>2, <2>3, <2>4 DEF ExactlyOnce
<1>9. PollOK' /\ ClearCoversEarlierJobs'
  BY DEF Push, PollOK, ClearCoversEarlierJobs, TypeOK, PollState
<1> QED BY <1>4, <1>5, <1>6, <1>7, <1>8, <1>9

\* add: wakes at most one sleeping worker.
LEMMA NotifyOneKeeps ==
    ASSUME PInv, NEW t \in Threads, NotifyOne(t)
    PROVE  PInv'
<1> USE DEF PInv
<1>1. TypeOK'
  BY ThreadsDistinct DEF NotifyOne, Sleeping, TypeOK, Threads, WorkerPC
<1>2. HandOK' /\ LockOK' /\ CheckOK'
  BY ThreadsDistinct DEF NotifyOne, Sleeping, HandOK, LockOK, CheckOK, TypeOK, Threads
<1>3. Counted' /\ ExactlyOnce' /\ PollOK' /\ ClearCoversEarlierJobs'
  BY Calm DEF NotifyOne
<1> QED BY <1>1, <1>2, <1>3

\* get: the mutex is free before and held after.
LEMMA AcquireKeeps ==
    ASSUME PInv, NEW w \in Workers, Acquire(w)
    PROVE  PInv'
<1> USE DEF PInv
<1>1. TypeOK'
  BY ThreadsDistinct DEF Acquire, TypeOK, Threads, WorkerPC
<1>2. HandOK' /\ LockOK' /\ CheckOK'
  BY ThreadsDistinct DEF Acquire, HandOK, LockOK, CheckOK, TypeOK, Threads
<1>3. Counted' /\ ExactlyOnce' /\ PollOK' /\ ClearCoversEarlierJobs'
  BY Calm DEF Acquire
<1> QED BY <1>1, <1>2, <1>3

\* get: a non-empty queue or the stop flag ends the loop.
LEMMA LoopTestKeeps ==
    ASSUME PInv, NEW w \in Workers, LoopTest(w)
    PROVE  PInv'
<1> USE DEF PInv
<1>1. TypeOK'
  BY ThreadsDistinct DEF LoopTest, TypeOK, Threads, WorkerPC
<1>2. HandOK' /\ LockOK' /\ CheckOK'
  BY ThreadsDistinct DEF LoopTest, HandOK, LockOK, CheckOK, TypeOK, Threads
<1>3. Counted' /\ ExactlyOnce' /\ PollOK' /\ ClearCoversEarlierJobs'
  BY Calm DEF LoopTest
<1> QED BY <1>1, <1>2, <1>3

\* get: the wait releases the mutex.
LEMMA WaitKeeps ==
    ASSUME PInv, NEW w \in Workers, Wait(w)
    PROVE  PInv'
<1> USE DEF PInv
<1>1. TypeOK'
  BY ThreadsDistinct DEF Wait, TypeOK, Threads, WorkerPC
<1>2. HandOK' /\ LockOK' /\ CheckOK'
  BY ThreadsDistinct DEF Wait, HandOK, LockOK, CheckOK, TypeOK, Threads
<1>3. Counted' /\ ExactlyOnce' /\ PollOK' /\ ClearCoversEarlierJobs'
  BY Calm DEF Wait
<1> QED BY <1>1, <1>2, <1>3

\* A worker wakes without a notification.
LEMMA SpuriousWakeKeeps ==
    ASSUME PInv, NEW w \in Workers, SpuriousWake(w)
    PROVE  PInv'
<1> USE DEF PInv
<1>1. TypeOK'
  BY ThreadsDistinct DEF SpuriousWake, TypeOK, Threads, WorkerPC
<1>2. HandOK' /\ LockOK' /\ CheckOK'
  BY ThreadsDistinct DEF SpuriousWake, HandOK, LockOK, CheckOK, TypeOK, Threads
<1>3. Counted' /\ ExactlyOnce' /\ PollOK' /\ ClearCoversEarlierJobs'
  BY Calm DEF SpuriousWake
<1> QED BY <1>1, <1>2, <1>3

\* get returns false after the stop flag has been set.
LEMMA GetFalseKeeps ==
    ASSUME PInv, NEW w \in Workers, GetFalse(w)
    PROVE  PInv'
<1> USE DEF PInv
<1>1. TypeOK'
  BY ThreadsDistinct DEF GetFalse, TypeOK, Threads, WorkerPC
<1>2. HandOK' /\ LockOK' /\ CheckOK'
  BY ThreadsDistinct DEF GetFalse, HandOK, LockOK, CheckOK, TypeOK, Threads
<1>3. Counted' /\ ExactlyOnce' /\ PollOK' /\ ClearCoversEarlierJobs'
  BY Calm DEF GetFalse
<1> QED BY <1>1, <1>2, <1>3

\* The destructor sets the flag, whoever holds the mutex.
LEMMA SetAbortKeeps ==
    ASSUME PInv, SetAbort
    PROVE  PInv'
<1> USE DEF PInv
<1>1. TypeOK'
  BY ThreadsDistinct DEF SetAbort, TypeOK, Threads, WorkerPC
<1>2. HandOK' /\ LockOK' /\ CheckOK'
  BY ThreadsDistinct DEF SetAbort, HandOK, LockOK, CheckOK, TypeOK, Threads
<1>3. Counted' /\ ExactlyOnce' /\ PollOK' /\ ClearCoversEarlierJobs'
  BY Calm DEF SetAbort
<1> QED BY <1>1, <1>2, <1>3

\* The destructor wakes every sleeping worker.
LEMMA NotifyAllKeeps ==
    ASSUME PInv, NotifyAll
    PROVE  PInv'
<1> USE DEF PInv
<1>1. TypeOK'
  BY ThreadsDistinct DEF NotifyAll, Sleeping, TypeOK, Threads, WorkerPC
<1>2. HandOK' /\ LockOK' /\ CheckOK'
  BY ThreadsDistinct DEF NotifyAll, Sleeping, HandOK, LockOK, CheckOK, TypeOK, Threads
<1>3. Counted' /\ ExactlyOnce' /\ PollOK' /\ ClearCoversEarlierJobs'
  BY Calm DEF NotifyAll
<1> QED BY <1>1, <1>2, <1>3

\* The destructor returns.
LEMMA JoinKeeps ==
    ASSUME PInv, Join
    PROVE  PInv'
<1> USE DEF PInv
<1>1. TypeOK'
  BY ThreadsDistinct DEF Join, TypeOK, Threads, WorkerPC
<1>2. HandOK' /\ LockOK' /\ CheckOK'
  BY ThreadsDistinct DEF Join, HandOK, LockOK, CheckOK, TypeOK, Threads
<1>3. Counted' /\ ExactlyOnce' /\ PollOK' /\ ClearCoversEarlierJobs'
  BY Calm DEF Join
<1> QED BY <1>1, <1>2, <1>3

-----------------------------------------------------------------------------
\* get pops the oldest job and counts it, under the lock.
LEMMA TakeKeeps ==
    ASSUME PInv, NEW w \in Workers, Take(w)
    PROVE  PInv'
<1> USE DEF PInv
<1> DEFINE j == Head(m_jobs)
<1>1. /\ m_jobs \in Seq(Jobs) /\ job \in [Workers -> Jobs \cup {NoJob}]
      /\ pc[w] = "check" /\ m_jobs # << >> /\ job[w] = NoJob
  BY DEF Take, TypeOK, CheckOK, HandOK
<1>2. /\ DOMAIN m_jobs = 1 .. Len(m_jobs) /\ Len(m_jobs) \in Nat \ {0}
      /\ j = m_jobs[1] /\ j \in Jobs /\ 1 \in DOMAIN m_jobs
      /\ Tail(m_jobs) \in Seq(Jobs)
      /\ DOMAIN Tail(m_jobs) = 1 .. Len(m_jobs) - 1
      /\ \A i \in 1 .. Len(m_jobs) - 1 : Tail(m_jobs)[i] = m_jobs[i + 1]
  BY <1>1
<1>3. /\ m_jobs' = Tail(m_jobs) /\ currentJobs' = currentJobs + 1 /\ m_lock' = NoThread
      /\ job' = [job EXCEPT ![w] = j] /\ pc' = [pc EXCEPT ![w] = "exec"]
      /\ UNCHANGED <<m_stopped, finished, poll, destroyer>>
  BY DEF Take
<1>4. j # NoJob
  BY <1>2, ThreadsDistinct
<1> HIDE DEF j
<1>5. TypeOK'
  BY <1>2, <1>3, ThreadsDistinct DEF TypeOK, Threads, WorkerPC
<1>6. HandOK' /\ LockOK' /\ CheckOK'
  BY <1>1, <1>3, <1>4, ThreadsDistinct DEF HandOK, LockOK, CheckOK, TypeOK, Threads
<1>7. Counted'
  <2>1. Busy' = Busy \cup {w} /\ w \notin Busy
    BY <1>1, <1>3, <1>4 DEF Busy
  <2>2. Cardinality(Busy') = Cardinality(Busy) + 1
    BY <2>1, BusyFinite, FS_AddElement
  <2> QED BY <2>2, <1>3 DEF Counted
<1>8. ExactlyOnce'
  <2>1. \A i \in DOMAIN m_jobs' : i + 1 \in DOMAIN m_jobs /\ m_jobs'[i] = m_jobs[i + 1]
    BY <1>2, <1>3
  <2>2. \A i, k \in DOMAIN m_jobs' : i # k => m_jobs'[i] # m_jobs'[k]
    BY <1>2, <1>3, <2>1 DEF ExactlyOnce
  <2>3. \A i \in DOMAIN m_jobs' : m_jobs'[i] \notin finished /\ m_jobs'[i] # j
    BY <1>2, <1>3, <2>1 DEF ExactlyOnce
  <2>4. \A u \in Workers : job'[u] = IF u = w THEN j ELSE job[u]
    BY <1>1, <1>3
  <2>5. \A i \in DOMAIN m_jobs' : \A u \in Workers : job'[u] # m_jobs'[i]
    BY <2>1, <2>3, <2>4 DEF ExactlyOnce
  <2>6. j \notin finished /\ \A u \in Workers : job[u] # j
    BY <1>2 DEF ExactlyOnce
  <2>7. \A u \in Workers : job'[u] \notin finished
    BY <2>4, <2>6 DEF ExactlyOnce
  <2>8. \A u, v \in Workers : u # v /\ job'[u] # NoJob => job'[u] # job'[v]
    BY <2>4, <2>6 DEF ExactlyOnce
  <2> QED BY <1>3, <2>2, <2>3, <2>5, <2>7, <2>8 DEF ExactlyOnce
<1>9. PollOK' /\ ClearCoversEarlierJobs'
  <2>1. \A u \in Workers : job[u] # NoJob => job'[u] = job[u]
    BY <1>1, <1>3
  <2>2. NoJob \notin poll.before
    BY ThreadsDistinct DEF TypeOK, PollState
  <2> QED BY <1>3, <2>1, <2>2 DEF PollOK, ClearCoversEarlierJobs
<1> QED BY <1>5, <1>6, <1>7, <1>8, <1>9

\* The job is done before the counter goes down.
LEMMA FinishJobKeeps ==
    ASSUME PInv, NEW w \in Workers, FinishJob(w)
    PROVE  PInv'
<1> USE DEF PInv
<1> DEFINE j == job[w]
<1>1. /\ job \in [Workers -> Jobs \cup {NoJob}] /\ pc[w] = "exec"
      /\ j \in Jobs /\ j # NoJob
  BY DEF FinishJob, TypeOK, HandOK
<1>2. /\ finished' = finished \cup {j} /\ job' = [job EXCEPT ![w] = NoJob]
      /\ currentJobs' = currentJobs - 1 /\ pc' = [pc EXCEPT ![w] = "get"]
      /\ UNCHANGED <<m_jobs, m_stopped, m_lock, poll, destroyer>>
  BY DEF FinishJob
<1>3. \A u \in Workers : job'[u] = IF u = w THEN NoJob ELSE job[u]
  BY <1>1, <1>2
<1>4. currentJobs' = Cardinality(Busy') /\ currentJobs' \in Nat
  <2>1. Busy' = Busy \ {w} /\ w \in Busy
    BY <1>1, <1>3 DEF Busy
  <2>2. Cardinality(Busy') = Cardinality(Busy) - 1
    BY <2>1, BusyFinite, FS_RemoveElement
  <2>3. IsFiniteSet(Busy')
    BY <2>1, BusyFinite, FS_RemoveElement
  <2>4. Cardinality(Busy') \in Nat
    BY <2>3, FS_CardinalityType
  <2> QED BY <1>2, <2>2, <2>4 DEF Counted
<1>5. TypeOK'
  BY <1>1, <1>2, <1>4, ThreadsDistinct DEF TypeOK, Threads, WorkerPC
<1>6. HandOK' /\ LockOK' /\ CheckOK'
  BY <1>1, <1>2, ThreadsDistinct DEF HandOK, LockOK, CheckOK, TypeOK, Threads
<1>7. Counted'
  BY <1>4 DEF Counted
<1>8. ExactlyOnce'
  <2>1. \A i \in DOMAIN m_jobs : m_jobs[i] \notin finished' /\ m_jobs[i] # NoJob
    BY <1>2, ThreadsDistinct DEF ExactlyOnce, TypeOK
  <2>2. \A u \in Workers : job'[u] \notin finished'
    <3>1. NoJob \notin finished'
      BY <1>1, <1>2, ThreadsDistinct DEF TypeOK
    <3> QED BY <1>1, <1>2, <1>3, <3>1 DEF ExactlyOnce
  <2>3. \A i \in DOMAIN m_jobs : \A u \in Workers : job'[u] # m_jobs[i]
    BY <1>3, <2>1 DEF ExactlyOnce
  <2>4. \A u, v \in Workers : u # v /\ job'[u] # NoJob => job'[u] # job'[v]
    BY <1>3 DEF ExactlyOnce
  <2> QED BY <1>2, <2>1, <2>2, <2>3, <2>4 DEF ExactlyOnce
<1>9. PollOK' /\ ClearCoversEarlierJobs'
  BY <1>2, <1>3 DEF PollOK, ClearCoversEarlierJobs
<1> QED BY <1>5, <1>6, <1>7, <1>8, <1>9

\* The queue length and, as history, the jobs added so far.
LEMMA AllClearSizeKeeps ==
    ASSUME PInv, AllClearSize
    PROVE  PInv'
<1> USE DEF PInv
<1>1. /\ m_jobs \in Seq(Jobs) /\ job \in [Workers -> Jobs \cup {NoJob}]
      /\ finished \subseteq Jobs
  BY DEF TypeOK
<1>2. Len(m_jobs) \in Nat /\ Added \subseteq Jobs
  BY <1>1 DEF Added, Range
<1>3. /\ poll'.at = "sized" /\ poll'.totaljobs = Len(m_jobs) /\ poll'.before = Added
      /\ poll' \in PollState
      /\ UNCHANGED <<m_jobs, currentJobs, m_stopped, m_lock, pc, job, finished, destroyer>>
  BY <1>2 DEF AllClearSize, PollState
<1>4. TypeOK'
  BY <1>3 DEF TypeOK
<1>5. HandOK' /\ LockOK' /\ CheckOK' /\ Counted' /\ ExactlyOnce'
  BY <1>3 DEF HandOK, LockOK, CheckOK, Counted, Busy, ExactlyOnce
<1>6. PollOK'
  <2> SUFFICES ASSUME Len(m_jobs) = 0, NEW j \in Added
               PROVE  j \in finished \/ \E w \in Workers : job[w] = j
    BY <1>3 DEF PollOK
  <2>1. DOMAIN m_jobs = {}
    BY <1>1
  <2> QED BY <1>1, <2>1 DEF Added, Range
<1>7. ClearCoversEarlierJobs'
  BY <1>3 DEF ClearCoversEarlierJobs
<1> QED BY <1>4, <1>5, <1>6, <1>7

\* A counter of zero means that no worker has a job in hand.
LEMMA AllClearCountKeeps ==
    ASSUME PInv, AllClearCount
    PROVE  PInv'
<1> USE DEF PInv
<1>1. /\ poll.at = "sized"
      /\ poll' = [poll EXCEPT !.at = IF currentJobs = 0 /\ poll.totaljobs = 0
                                     THEN "clear" ELSE "call"]
      /\ UNCHANGED <<m_jobs, currentJobs, m_stopped, m_lock, pc, job, finished, destroyer>>
  BY DEF AllClearCount
<1>2. poll \in PollState
  BY DEF TypeOK
<1>3. /\ poll'.at = IF currentJobs = 0 /\ poll.totaljobs = 0 THEN "clear" ELSE "call"
      /\ poll'.before = poll.before /\ poll' \in PollState
  BY <1>1, <1>2 DEF PollState
<1>4. TypeOK'
  BY <1>1, <1>3 DEF TypeOK
<1>5. HandOK' /\ LockOK' /\ CheckOK' /\ Counted' /\ ExactlyOnce'
  BY <1>1 DEF HandOK, LockOK, CheckOK, Counted, Busy, ExactlyOnce
<1>6. PollOK'
  BY <1>3 DEF PollOK
<1>7. ClearCoversEarlierJobs'
  <2> SUFFICES ASSUME currentJobs = 0, poll.totaljobs = 0, NEW j \in poll.before
               PROVE  j \in finished
    BY <1>1, <1>3 DEF ClearCoversEarlierJobs
  <2>1. Busy = {}
    BY BusyFinite, FS_EmptySet DEF Counted
  <2>2. j # NoJob
    BY <1>2, ThreadsDistinct DEF PollState
  <2> QED BY <1>1, <2>1, <2>2 DEF PollOK, Busy
<1> QED BY <1>4, <1>5, <1>6, <1>7

-----------------------------------------------------------------------------
\* Every step keeps the invariant.
LEMMA NextPool == PInv /\ [Next]_vars => PInv'
<1> SUFFICES ASSUME PInv, [Next]_vars PROVE PInv'
  OBVIOUS
<1>1. CASE UNCHANGED vars
  <2>1. UNCHANGED <<m_jobs, currentJobs, m_stopped, m_lock, pc, job, finished, poll, destroyer>>
    BY <1>1 DEF vars
  <2>2. TypeOK'
    BY <2>1 DEF PInv, TypeOK
  <2>3. HandOK' /\ LockOK' /\ CheckOK'
    BY <2>1 DEF PInv, HandOK, LockOK, CheckOK
  <2> QED BY <2>1, <2>2, <2>3, Calm DEF PInv
<1>2. CASE \E t \in Threads : Push(t)
  BY <1>2, PushKeeps
<1>3. CASE \E c \in Clients : NotifyOne(c)
  BY <1>3, NotifyOneKeeps DEF Threads
<1>4. CASE \E w \in Workers : WorkerStep(w) \/ SpuriousWake(w)
  BY <1>4, AcquireKeeps, LoopTestKeeps, WaitKeeps, TakeKeeps, GetFalseKeeps, FinishJobKeeps,
     NotifyOneKeeps, SpuriousWakeKeeps DEF WorkerStep, Threads
<1>5. CASE AllClearSize \/ AllClearCount
  BY <1>5, AllClearSizeKeeps, AllClearCountKeeps
<1>6. CASE SetAbort \/ NotifyAll \/ Join
  BY <1>6, SetAbortKeeps, NotifyAllKeeps, JoinKeeps
<1> QED BY <1>1, <1>2, <1>3, <1>4, <1>5, <1>6 DEF Next

\* The counter, the hands and the queue agree in every reachable state.
THEOREM PoolInvariant == Spec => []PInv
<1>1. Init => PInv
  BY InitPool
<1>2. PInv /\ [Next]_vars => PInv'
  BY NextPool
<1> QED BY <1>1, <1>2, PTL DEF Spec

\* The state keeps its type; in particular currentJobs, which add, get and the workers
\* change without a common lock, never becomes negative (ThreadPool.h:66-95).
THEOREM PoolTypes == Spec => []TypeOK
<1>1. PInv => TypeOK
  BY DEF PInv
<1> QED BY <1>1, PoolInvariant, PTL

\* No job is executed twice or by two workers (ThreadPool.h:77-97).
THEOREM JobsRunOnce == Spec => []ExactlyOnce
<1>1. PInv => ExactlyOnce
  BY DEF PInv
<1> QED BY <1>1, PoolInvariant, PTL

\* A true allClear() covers every job that was added before the call, although its
\* two halves are read at different times (ThreadPool.h:99-112).
THEOREM ClearCovers == Spec => []ClearCoversEarlierJobs
<1>1. PInv => ClearCoversEarlierJobs
  BY DEF PInv
<1> QED BY <1>1, PoolInvariant, PTL
=============================================================================
