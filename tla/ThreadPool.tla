----------------------------- MODULE ThreadPool -----------------------------
(***************************************************************************)
(* Helper::ThreadPool (AnnService/inc/Helper/ThreadPool.h) and the         *)
(* SPDKThreadPool of ExtraDynamicSearcher that inherits it: a job queue    *)
(* under m_lock, a condition variable, a counter of running jobs that is   *)
(* read without the lock, and a stop flag that is written without it.      *)
(* Split, merge and reassign jobs run here, and a running job may add      *)
(* further jobs.                                                           *)
(***************************************************************************)
EXTENDS Naturals, Sequences, FiniteSets, Functions

CONSTANTS
    Workers,   \* threads started by init / initSPDK
    Clients,   \* other threads that call add (insert, search and merge callers)
    Jobs,      \* identities of the jobs ever created; bounds the run
    NoJob,     \* "no job" in a worker's hands
    NoThread   \* m_lock is free

ASSUME ThreadsDistinct ==
    /\ Workers \cap Clients = {}
    /\ NoThread \notin Workers \cup Clients
    /\ NoJob \notin Jobs

ASSUME WorkersFinite == IsFiniteSet(Workers)

Threads == Workers \cup Clients

VARIABLES
    m_jobs,       \* the queue of added jobs
    currentJobs,  \* atomic counter of running jobs
    m_stopped,    \* Abort::m_stopped, not protected by m_lock
    m_lock,       \* holder of the mutex
    pc,           \* where each thread is
    job,          \* the job a worker executes
    finished,     \* history: jobs whose exec has returned
    poll,         \* the thread in "while (!AllFinished()) sleep": totaljobs is its
                  \* local; before and outside are history (the jobs added before
                  \* the call, and whether a client has added one since)
    destroyer     \* the thread that runs ~ThreadPool

vars == <<m_jobs, currentJobs, m_stopped, m_lock, pc, job, finished, poll, destroyer>>

\* Jobs that have been handed to add() so far.
Added == Range(m_jobs) \cup finished \cup (Range(job) \ {NoJob})

Sleeping == {w \in Workers : pc[w] = "sleep"}

Init ==
    /\ m_jobs = << >>
    /\ currentJobs = 0
    /\ m_stopped = FALSE
    /\ m_lock = NoThread
    /\ pc = [t \in Threads |-> IF t \in Workers THEN "get" ELSE "exec"]
    /\ job = [w \in Workers |-> NoJob]
    /\ finished = {}
    /\ poll = [at |-> "call", totaljobs |-> 0, before |-> {}, outside |-> FALSE]
    /\ destroyer = "alive"

(***************************************************************************)
(* The operators whose names start with Mutant are defects that a change   *)
(* of the code could introduce; no specification uses them.  Each follows  *)
(* the action that it would replace by one dropped or altered effect.      *)
(***************************************************************************)
MutantPushSilently(t) ==
    /\ pc[t] = "exec"
    /\ m_lock = NoThread
    /\ \E j \in Jobs \ Added : m_jobs' = Append(m_jobs, j)
    /\ poll' = [poll EXCEPT !.outside = IF t \in Clients THEN TRUE ELSE @]
    /\ UNCHANGED <<currentJobs, m_stopped, m_lock, pc, job, finished, destroyer>>

MutantTakeUncounted(w) ==
    /\ pc[w] = "check"
    /\ ~m_stopped
    /\ job' = [job EXCEPT ![w] = Head(m_jobs)]
    /\ m_jobs' = Tail(m_jobs)
    /\ m_lock' = NoThread
    /\ pc' = [pc EXCEPT ![w] = "exec"]
    /\ UNCHANGED <<currentJobs, m_stopped, finished, poll, destroyer>>

MutantTakeWithoutPop(w) ==
    /\ pc[w] = "check"
    /\ ~m_stopped
    /\ job' = [job EXCEPT ![w] = Head(m_jobs)]
    /\ currentJobs' = currentJobs + 1
    /\ m_lock' = NoThread
    /\ pc' = [pc EXCEPT ![w] = "exec"]
    /\ UNCHANGED <<m_jobs, m_stopped, finished, poll, destroyer>>

MutantAllClearQueueOnly ==
    /\ poll.at = "sized"
    /\ poll' = [poll EXCEPT !.at = IF poll.totaljobs = 0 THEN "clear" ELSE "call"]
    /\ UNCHANGED <<m_jobs, currentJobs, m_stopped, m_lock, pc, job, finished, destroyer>>

MutantNotifyOneAtEnd ==
    /\ destroyer = "stopped"
    /\ pc' = [t \in Threads |-> IF t \in Sleeping /\ t = CHOOSE u \in Sleeping : TRUE
                                THEN "wake" ELSE pc[t]]
    /\ destroyer' = "joining"
    /\ UNCHANGED <<m_jobs, currentJobs, m_stopped, m_lock, job, finished, poll>>

(***************************************************************************)
(* add: push under the lock, then notify_one after the lock is released.   *)
(* A client adds at any time, a worker from inside the job it executes.    *)
(***************************************************************************)
Push(t) ==
    /\ pc[t] = "exec"
    /\ m_lock = NoThread
    /\ \E j \in Jobs \ Added : m_jobs' = Append(m_jobs, j)
    /\ pc' = [pc EXCEPT ![t] = "notify"]
    /\ poll' = [poll EXCEPT !.outside = IF t \in Clients THEN TRUE ELSE @]
    /\ UNCHANGED <<currentJobs, m_stopped, m_lock, job, finished, destroyer>>

NotifyOne(t) ==
    /\ pc[t] = "notify"
    /\ \/ /\ Sleeping = {}
          /\ pc' = [pc EXCEPT ![t] = "exec"]
       \/ \E w \in Sleeping : pc' = [pc EXCEPT ![t] = "exec", ![w] = "wake"]
    /\ UNCHANGED <<m_jobs, currentJobs, m_stopped, m_lock, job, finished, poll, destroyer>>

(***************************************************************************)
(* get: the loop test, the wait and the pop happen under m_lock; the stop  *)
(* flag may change between any two of them.                                *)
(***************************************************************************)
Acquire(w) ==
    /\ pc[w] \in {"get", "wake"}
    /\ m_lock = NoThread
    /\ m_lock' = w
    /\ pc' = [pc EXCEPT ![w] = "loop"]
    /\ UNCHANGED <<m_jobs, currentJobs, m_stopped, job, finished, poll, destroyer>>

LoopTest(w) ==
    /\ pc[w] = "loop"
    /\ pc' = [pc EXCEPT ![w] = IF m_jobs = << >> /\ ~m_stopped THEN "wait" ELSE "check"]
    /\ UNCHANGED <<m_jobs, currentJobs, m_stopped, m_lock, job, finished, poll, destroyer>>

Wait(w) ==
    /\ pc[w] = "wait"
    /\ m_lock' = NoThread
    /\ pc' = [pc EXCEPT ![w] = "sleep"]
    /\ UNCHANGED <<m_jobs, currentJobs, m_stopped, job, finished, poll, destroyer>>

SpuriousWake(w) ==
    /\ pc[w] = "sleep"
    /\ pc' = [pc EXCEPT ![w] = "wake"]
    /\ UNCHANGED <<m_jobs, currentJobs, m_stopped, m_lock, job, finished, poll, destroyer>>

Take(w) ==
    /\ pc[w] = "check"
    /\ ~m_stopped
    /\ job' = [job EXCEPT ![w] = Head(m_jobs)]
    /\ currentJobs' = currentJobs + 1
    /\ m_jobs' = Tail(m_jobs)
    /\ m_lock' = NoThread
    /\ pc' = [pc EXCEPT ![w] = "exec"]
    /\ UNCHANGED <<m_stopped, finished, poll, destroyer>>

GetFalse(w) ==
    /\ pc[w] = "check"
    /\ m_stopped
    /\ m_lock' = NoThread
    /\ pc' = [pc EXCEPT ![w] = "exited"]
    /\ UNCHANGED <<m_jobs, currentJobs, m_stopped, job, finished, poll, destroyer>>

\* exec returns (or throws std::exception, which is caught), delete j, currentJobs--.
FinishJob(w) ==
    /\ pc[w] = "exec"
    /\ finished' = finished \cup {job[w]}
    /\ job' = [job EXCEPT ![w] = NoJob]
    /\ currentJobs' = currentJobs - 1
    /\ pc' = [pc EXCEPT ![w] = "get"]
    /\ UNCHANGED <<m_jobs, m_stopped, m_lock, poll, destroyer>>

(***************************************************************************)
(* allClear: the queue length is read under the lock, the running counter  *)
(* afterwards without it.  AllFinished polls allClear until it is true.    *)
(***************************************************************************)
AllClearSize ==
    /\ poll.at = "call"
    /\ m_lock = NoThread
    /\ poll' = [at |-> "sized", totaljobs |-> Len(m_jobs), before |-> Added,
                outside |-> FALSE]
    /\ UNCHANGED <<m_jobs, currentJobs, m_stopped, m_lock, pc, job, finished, destroyer>>

AllClearCount ==
    /\ poll.at = "sized"
    /\ poll' = [poll EXCEPT !.at = IF currentJobs = 0 /\ poll.totaljobs = 0
                                   THEN "clear" ELSE "call"]
    /\ UNCHANGED <<m_jobs, currentJobs, m_stopped, m_lock, pc, job, finished, destroyer>>

(***************************************************************************)
(* ~ThreadPool: set the flag without the lock, notify_all, join.           *)
(***************************************************************************)
SetAbort ==
    /\ destroyer = "alive"
    /\ m_stopped' = TRUE
    /\ destroyer' = "stopped"
    /\ UNCHANGED <<m_jobs, currentJobs, m_lock, pc, job, finished, poll>>

NotifyAll ==
    /\ destroyer = "stopped"
    /\ pc' = [t \in Threads |-> IF t \in Sleeping THEN "wake" ELSE pc[t]]
    /\ destroyer' = "joining"
    /\ UNCHANGED <<m_jobs, currentJobs, m_stopped, m_lock, job, finished, poll>>

Join ==
    /\ destroyer = "joining"
    /\ \A w \in Workers : pc[w] = "exited"
    /\ destroyer' = "joined"
    /\ UNCHANGED <<m_jobs, currentJobs, m_stopped, m_lock, pc, job, finished, poll>>

WorkerStep(w) ==
    \/ Acquire(w) \/ LoopTest(w) \/ Wait(w) \/ Take(w) \/ GetFalse(w)
    \/ FinishJob(w) \/ NotifyOne(w)

Next ==
    \/ \E t \in Threads : Push(t)
    \/ \E c \in Clients : NotifyOne(c)
    \/ \E w \in Workers : WorkerStep(w) \/ SpuriousWake(w)
    \/ AllClearSize
    \/ AllClearCount
    \/ SetAbort
    \/ NotifyAll
    \/ Join

\* Threads are scheduled fairly and every job terminates; nobody has to add
\* a job or destroy the pool, and no spurious wake-up is owed.
Fairness ==
    /\ \A w \in Workers : WF_vars(WorkerStep(w))
    /\ \A c \in Clients : WF_vars(NotifyOne(c))
    /\ WF_vars(AllClearSize)
    /\ WF_vars(AllClearCount)
    /\ WF_vars(NotifyAll)
    /\ WF_vars(Join)

Spec == Init /\ [][Next]_vars

FairSpec == Spec /\ Fairness

-----------------------------------------------------------------------------
PollState == [at : {"call", "sized", "clear"}, totaljobs : Nat, before : SUBSET Jobs,
              outside : BOOLEAN]

WorkerPC == {"get", "loop", "wait", "sleep", "wake", "check", "exec", "notify", "exited"}

\* The type of the pool's state.
TypeOK ==
    /\ m_jobs \in Seq(Jobs)
    /\ currentJobs \in Nat
    /\ m_stopped \in BOOLEAN
    /\ m_lock \in Workers \cup {NoThread}
    /\ pc \in [Threads -> WorkerPC]
    /\ \A c \in Clients : pc[c] \in {"exec", "notify"}
    /\ job \in [Workers -> Jobs \cup {NoJob}]
    /\ finished \subseteq Jobs
    /\ poll \in PollState
    /\ destroyer \in {"alive", "stopped", "joining", "joined"}

\* No job is executed twice or by two workers: whatever is queued, in a
\* worker's hands and finished never overlaps, although add, get and the
\* counter use different synchronisation (ThreadPool.h:77-97).
ExactlyOnce ==
    /\ \A i, k \in DOMAIN m_jobs : i # k => m_jobs[i] # m_jobs[k]
    /\ \A i \in DOMAIN m_jobs : m_jobs[i] \notin finished
    /\ \A i \in DOMAIN m_jobs : \A w \in Workers : job[w] # m_jobs[i]
    /\ \A w \in Workers : job[w] \notin finished
    /\ \A v, w \in Workers : v # w /\ job[v] # NoJob => job[v] # job[w]

\* A true allClear() covers every job that was added before the call: none of
\* them is still queued or running, even though the two halves of the test are
\* read at different times (ThreadPool.h:107-112).
ClearCoversEarlierJobs == poll.at = "clear" => poll.before \subseteq finished

\* "Waiting for index update complete" (ExtraDynamicSearcher.h:3199): when the
\* wait on AllFinished ends, no index update is queued or running.  Stated for
\* the instant at which allClear() returns true, and only if no thread outside
\* the pool added a job during that call.
ClearMeansIdle ==
    [][poll'.at = "clear" /\ poll.at # "clear" /\ ~poll.outside
          => m_jobs' = << >> /\ \A w \in Workers : job'[w] = NoJob]_vars

\* Every job handed to add is executed unless the pool is being destroyed: a
\* notify_one issued after the lock is released never leaves a job behind with
\* all workers asleep (ThreadPool.h:77-89).
EveryJobRuns ==
    \A j \in Jobs : (j \in Added) ~> (j \in finished \/ m_stopped)

\* ~ThreadPool sets the flag and notifies without m_lock (ThreadPool.h:44-50).  A
\* worker that tested the flag before it was set and is not yet asleep misses the
\* notification, and join then waits for it (only a spurious wake-up helps).  That
\* window is the only way to hang: once the flag is set and no worker is inside it,
\* every worker, asleep or not, leaves get and join returns.
DestructorCompletes ==
    (destroyer = "stopped" /\ \A w \in Workers : pc[w] # "wait")
        ~> (destroyer = "joined")
=============================================================================
