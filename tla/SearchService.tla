---------------------------- MODULE SearchService ----------------------------
(***************************************************************************)
(* The search service: the client program (Client/main.cpp,                *)
(* ClientWrapper.cpp) with one connection to an aggregator, and the        *)
(* aggregator with its servers.  The program sends a query, waits for all  *)
(* queries and goes on to the next one; answers, timeouts and failures     *)
(* come in on other threads.  The aggregator may answer long after the     *)
(* client has given up, and the connection may be lost at any time.        *)
(***************************************************************************)
EXTENDS Aggregator

CONSTANTS
    NoQuery,
    Setups  \* servers of the aggregator, lines that the user types, losses that may happen

ASSUME SetupsAssumption ==
    /\ NoQuery \notin Queries
    /\ Setups \subseteq [servers : SUBSET Servers, lines : SUBSET Queries, losses : 0..MaxLosses]

VARIABLES
    main,      \* the program: what it does, for which query, and the lines still to be typed
    packet,    \* the request packet of each query: where it is, and for which connection
    waiting,   \* m_callbackManager: queries whose callback waits ...
    deadlines, \* ... and its timeouts
    jobs,      \* m_unfinishedJobCount
    tasks,     \* answers, failures and timeouts that other threads are handling
    called,    \* history: how often the callback of a query has run
    finished,  \* history: queries for which WaitAllFinished has returned by itself
    read,      \* history: how many answers to a query have arrived
    link,      \* the last connection to the aggregator: its id and whether it is open
    known,     \* m_connections[0].first; 0 is c_invalidConnectionID
    found      \* what ConnectToServer has returned to HandleDeadConnection

client == <<main, packet, waiting, deadlines, jobs, tasks, called, finished, read, link, known, found>>
vars == <<aggregator, client>>

Waiting == INSTANCE ResourceManager WITH m_resources <- waiting, m_timeoutList <- deadlines

\* Mutants of AnswerSteps and of TimeoutSteps: nobody is woken up; the callback is not run.
MutantAnswerSteps == <<"callback", "decrease">>
MutantTimeoutSteps == <<"decrease", "notify">>

\* What is left to do for a query that is answered or failed, and for one that timed out.
AnswerSteps == <<"callback", "decrease", "notify">>

TimeoutSteps == <<"decrease", "notify", "callback">>

Task(q, kind) == [query |-> q, kind |-> kind, todo |-> IF kind = "timeout" THEN TimeoutSteps ELSE AnswerSteps]

ClientInit(lines) ==
    /\ main = [pc |-> "idle", query |-> NoQuery, lines |-> lines]
    /\ packet = [q \in Queries |-> [st |-> "none", conn |-> 0]]
    /\ waiting = {} /\ deadlines = <<>>
    /\ jobs = 0 /\ tasks = {}
    /\ called = [q \in Queries |-> 0]
    /\ finished = {}
    /\ read = [q \in Queries |-> 0]
    /\ link = [id |-> 1, open |-> TRUE]
    /\ known = 1 /\ found = 0

-----------------------------------------------------------------------------
(* The program.                                                            *)

\* SendQueryAsync copies the connection and registers the callback ...
SendQueryAsync(q) ==
    /\ main.pc = "idle" /\ q \in main.lines
    /\ main' = [pc |-> "send", query |-> q, lines |-> main.lines \ {q}]
    /\ packet' = [packet EXCEPT ![q] = [st |-> "made", conn |-> known]]
    /\ Waiting!Add(q)
    /\ UNCHANGED <<aggregator, jobs, tasks, called, finished, read, link, known, found>>

\* ... and counts the query and hands the packet to the connection.
PostPacket ==
    /\ main.pc = "send"
    /\ main' = [main EXCEPT !.pc = "wait"]
    /\ packet' = [packet EXCEPT ![main.query].st = "posted"]
    /\ jobs' = (jobs + 1) % CounterSize
    /\ UNCHANGED <<aggregator, waiting, deadlines, tasks, called, finished, read, link, known, found>>

\* The test and the wait are one step: the mutex is held between them.
WaitAllFinished ==
    /\ main.pc = "wait"
    /\ IF jobs > 0
       THEN main' = [main EXCEPT !.pc = "waiting"] /\ UNCHANGED finished
       ELSE main' = [main EXCEPT !.pc = "idle"] /\ finished' = finished \cup {main.query}
    /\ UNCHANGED <<aggregator, packet, waiting, deadlines, jobs, tasks, called, read, link, known, found>>

\* A condition variable may wake up by itself, and the count is not tested again.
SpuriousWakeup ==
    /\ main.pc = "waiting"
    /\ main' = [main EXCEPT !.pc = "idle"]
    /\ UNCHANGED <<aggregator, packet, waiting, deadlines, jobs, tasks, called, finished, read, link, known, found>>

-----------------------------------------------------------------------------
(* The threads of the socket and of the timeouts.                          *)

WriteQuery(q) ==
    /\ packet[q].st = "posted"
    /\ link = [id |-> packet[q].conn, open |-> TRUE]
    /\ packet' = [packet EXCEPT ![q].st = "sent"]
    /\ asked' = asked \cup {q}
    /\ UNCHANGED <<execution, machines, losses, main, waiting, deadlines, jobs, tasks, called, finished, read, link, known, found>>

\* The connect callback reports the failure and leaves the callback registered.
WriteQueryFails(q) ==
    /\ packet[q].st = "posted"
    /\ link # [id |-> packet[q].conn, open |-> TRUE]
    /\ packet' = [packet EXCEPT ![q].st = "failed"]
    /\ tasks' = tasks \cup {Task(q, "failure")}
    /\ UNCHANGED <<aggregator, main, waiting, deadlines, jobs, called, finished, read, link, known, found>>

\* An answer of the aggregator arrives on the connection that the query was sent on.
ClientSearchResponse(q) ==
    /\ read[q] < answers[q]
    /\ link = [id |-> packet[q].conn, open |-> TRUE]
    /\ read' = [read EXCEPT ![q] = @ + 1]
    /\ \/ Waiting!GetAndRemove(q) /\ tasks' = tasks \cup {Task(q, "answer")}
       \/ q \notin waiting /\ UNCHANGED <<waiting, deadlines, tasks>>
    /\ UNCHANGED <<aggregator, main, packet, jobs, called, finished, link, known, found>>

\* One thread looks at the timeouts and runs what they call.
ClientTimeout(q) ==
    /\ \A t \in tasks : t.kind # "timeout"
    /\ \/ Waiting!Expire(q) /\ tasks' = tasks \cup {Task(q, "timeout")}
       \/ Waiting!ExpireInVain(q) /\ UNCHANGED tasks
    /\ UNCHANGED <<aggregator, main, packet, jobs, called, finished, read, link, known, found>>

\* The rest of task t when its next step is done.
Done(t) == IF Len(t.todo) = 1 THEN tasks \ {t} ELSE (tasks \ {t}) \cup {[t EXCEPT !.todo = Tail(@)]}

RunCallback(t) ==
    /\ Head(t.todo) = "callback"
    /\ called' = [called EXCEPT ![t.query] = @ + 1]
    /\ tasks' = Done(t)
    /\ UNCHANGED <<aggregator, main, packet, waiting, deadlines, jobs, finished, read, link, known, found>>

\* DecreaseUnfnishedJobCount changes the count without the mutex ...
Decrease(t) ==
    /\ Head(t.todo) = "decrease"
    /\ jobs' = (jobs - 1) % CounterSize
    /\ tasks' = Done(t)
    /\ UNCHANGED <<aggregator, main, packet, waiting, deadlines, called, finished, read, link, known, found>>

\* Mutant of NoJobs: the count is not tested again under the mutex.
MutantNoJobs == TRUE

NoJobs == jobs = 0

\* ... and wakes the program under it if the count is 0.
Notify(t) ==
    /\ Head(t.todo) = "notify"
    /\ IF NoJobs /\ main.pc = "waiting"
       THEN main' = [main EXCEPT !.pc = "idle"] /\ finished' = finished \cup {main.query}
       ELSE UNCHANGED <<main, finished>>
    /\ tasks' = Done(t)
    /\ UNCHANGED <<aggregator, packet, waiting, deadlines, jobs, called, read, link, known, found>>

-----------------------------------------------------------------------------
(* The connection to the aggregator.                                       *)

\* HandleDeadConnection: only the connection that is known is replaced.
LinkFails ==
    /\ link.open
    /\ losses > 0
    /\ losses' = losses - 1
    /\ link' = [link EXCEPT !.open = FALSE]
    /\ known' = IF known = link.id THEN 0 ELSE known
    /\ UNCHANGED <<asked, execution, machines, main, packet, waiting, deadlines, jobs, tasks, called, finished, read, found>>

Reconnect ==
    /\ known = 0 /\ found = 0
    /\ link' = [id |-> link.id + 1, open |-> TRUE]
    /\ found' = link.id + 1
    /\ UNCHANGED <<aggregator, main, packet, waiting, deadlines, jobs, tasks, called, finished, read, known>>

SetLink ==
    /\ found # 0
    /\ known' = found
    /\ found' = 0
    /\ UNCHANGED <<aggregator, main, packet, waiting, deadlines, jobs, tasks, called, finished, read, link>>

-----------------------------------------------------------------------------
Init == \E c \in Setups : AggregatorInit(c.servers, c.losses) /\ ClientInit(c.lines)

ClientRuns ==
    \/ PostPacket \/ WaitAllFinished
    \/ \E q \in Queries : WriteQuery(q) \/ WriteQueryFails(q) \/ ClientTimeout(q)
    \/ \E t \in tasks : RunCallback(t) \/ Decrease(t) \/ Notify(t)
    \/ SetLink

ClientMeets ==
    \/ \E q \in Queries : SendQueryAsync(q) \/ ClientSearchResponse(q)
    \/ SpuriousWakeup \/ LinkFails \/ Reconnect

Next ==
    \/ AggregatorStep /\ UNCHANGED client
    \/ ClientRuns
    \/ ClientMeets

Spec == Init /\ [][Next]_vars

\* The threads and the timers of both programs run on; no server, no network and no user
\* is ever obliged to act.
FairSpec ==
    /\ Spec
    /\ WF_vars(AggregatorRuns /\ UNCHANGED client)
    /\ WF_vars(ClientRuns)

-----------------------------------------------------------------------------
Ids == 0..(MaxLosses + 1)

\* Some query could not be written to the connection.
QueryFailed == \E q \in Queries : packet[q].st = "failed"

\* Tasks of query q that have the step still to do.
ToDo(q, step) == {t \in tasks : t.query = q /\ \E i \in DOMAIN t.todo : t.todo[i] = step}

(* Types; the answers that have arrived have been sent, and a callback     *)
(* waits only as long as the list of timeouts still names it, so that      *)
(* Add and StartCheckTimeout together forget none.                         *)
TypeOK ==
    /\ AggregatorTypeOK
    /\ main \in [pc : {"idle", "send", "wait", "waiting"}, query : Queries \cup {NoQuery}, lines : SUBSET Queries]
    /\ packet \in [Queries -> [st : {"none", "made", "posted", "sent", "failed"}, conn : Ids]]
    /\ waiting \subseteq ToSet(deadlines) /\ ToSet(deadlines) \subseteq Queries
    /\ jobs \in 0..(CounterSize - 1)
    /\ \A t \in tasks : t.query \in Queries /\ t.kind \in {"answer", "failure", "timeout"} /\ t.todo # <<>>
    /\ called \in [Queries -> Nat]
    /\ finished \subseteq Queries
    /\ \A q \in Queries : read[q] \in 0..answers[q]
    /\ link \in [id : 1..(MaxLosses + 1), open : BOOLEAN]
    /\ known \in Ids /\ found \in Ids

(* The callback of a query is run once, by the answer or by the timeout,   *)
(* whichever takes it from the table first, and never by both (a second    *)
(* answer included), unless the query could not be written: its callback   *)
(* runs for the failure and stays registered.                              *)
CallbackOnce ==
    \A q \in Queries :
        packet[q].st \notin {"none", "failed"} =>
            called[q] + Cardinality(ToDo(q, "callback")) + (IF q \in waiting THEN 1 ELSE 0) = 1

(* When WaitAllFinished returns, the result of the query is there, or the  *)
(* thread of the timeouts is about to store it (it decreases the count     *)
(* before it calls back), as long as no query failed to be written.  The   *)
(* count, the test of it and the wait are steps of different threads.      *)
FinishedMeansAnswered ==
    \A q \in finished :
        \/ called[q] > 0
        \/ \E t \in ToDo(q, "callback") : t.kind = "timeout"
        \/ QueryFailed

(* Every query that is sent calls back in the end, whatever becomes of the *)
(* connection, of the aggregator and of the servers: StartCheckTimeout.    *)
EveryQueryReturns ==
    \A q \in Queries : packet[q].st # "none" ~> called[q] > 0

(* The program does not wait for ever: no wake-up is lost between          *)
(* WaitAllFinished and DecreaseUnfnishedJobCount, unless a query failed to *)
(* be written and the count is decreased twice for it.                     *)
WaitReturns ==
    main.pc = "waiting" ~> main.pc # "waiting" \/ QueryFailed

(* A query that the aggregator passes on to at least one server is         *)
(* answered, even if no server ever answers and connections break.         *)
AggregatorAnswers ==
    \A q \in Queries : exec[q].targets # {} ~> answers[q] > 0

=============================================================================
