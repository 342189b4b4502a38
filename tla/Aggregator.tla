----------------------------- MODULE Aggregator -----------------------------
(***************************************************************************)
(* The aggregator of the search service (AggregatorService.cpp): it sends  *)
(* a query to every server it is connected to, collects answers, timeouts  *)
(* and failures, and answers the client when it has counted as many of     *)
(* them as it has sent requests.  In the background it connects again to   *)
(* servers whose connection was lost.  The servers are external here: they *)
(* answer, answer with an error, or drop a request (SearchService.cpp).    *)
(***************************************************************************)
EXTENDS Integers, FiniteSets, Sequences, SequencesExt

CONSTANTS
    Queries, Servers,
    CounterSize,  \* values of m_unfinishedCount and m_unfinishedJobCount: 2^32 in the code
    MaxLosses     \* bound: connections lost and attempts to connect that fail

ASSUME ServiceAssumption ==
    /\ IsFiniteSet(Queries) /\ IsFiniteSet(Servers) /\ MaxLosses \in Nat
    /\ CounterSize \in Nat /\ CounterSize > Cardinality(Servers) + 1 /\ CounterSize > Cardinality(Queries)

VARIABLES
    asked,     \* queries whose packet has reached the aggregator and waits in its pool
    answers,   \* history: how often AggregateResults has run for a query
    exec,      \* AggregatorExecutionContext of each query
    sub,       \* the requests to the servers, by query and server
    callbacks, \* m_aggregatorCallbackManager
    timers,
    status,    \* RemoteMachine::m_status
    connID,    \* RemoteMachine::m_connectionID
    pending,   \* m_pendingConnectServers
    runner,    \* the task of m_threadPool that connects to a server
    line,      \* the last connection to each server: its id and whether it is open
    givenUp,   \* history: servers of which an attempt to connect has failed, or whose
               \* connection was lost while a task had yet to store it, since one was last
               \* lost in use
    losses     \* how many connections may still be lost

execution == <<answers, exec, sub, callbacks, timers>>
machines == <<status, connID, pending, runner, line, givenUp>>
aggregator == <<asked, answers, exec, sub, callbacks, timers, status, connID, pending, runner, line, givenUp, losses>>

Subs == Queries \X Servers
NoExec == [pc |-> "none", todo |-> {}, targets |-> {}, unfinished |-> 0, heard |-> {}]
NoSub == [st |-> "none", conn |-> 0]

Callbacks == INSTANCE ResourceManager WITH m_resources <- callbacks, m_timeoutList <- timers

\* The servers are those of the configuration file.
AggregatorInit(servers, maxLosses) ==
    /\ asked = {}
    /\ answers = [q \in Queries |-> 0]
    /\ exec = [q \in Queries |-> NoExec]
    /\ sub = [p \in Subs |-> NoSub]
    /\ callbacks = {} /\ timers = <<>>
    /\ status = [s \in Servers |-> "Disconnected"]
    /\ connID = [s \in Servers |-> 0]
    /\ pending = servers
    /\ runner = [s \in Servers |-> {}]
    /\ line = [s \in Servers |-> [id |-> 0, open |-> FALSE]]
    /\ givenUp = {}
    /\ losses = maxLosses

-----------------------------------------------------------------------------
(* SearchRequestHanlder.                                                   *)

\* The handler looks up which servers are connected.
SearchRequest(q) ==
    /\ q \in asked
    /\ asked' = asked \ {q}
    /\ LET S == {s \in Servers : status[s] = "Connected"} IN
       /\ exec' = [exec EXCEPT ![q] = [pc |-> "send", todo |-> S, targets |-> S,
                                       unfinished |-> Cardinality(S), heard |-> {}]]
       /\ sub' = [p \in Subs |-> IF p[1] = q /\ p[2] \in S THEN [st |-> "none", conn |-> connID[p[2]]] ELSE sub[p]]
    /\ UNCHANGED <<answers, callbacks, timers, machines, losses>>

\* One request: its callback is registered, and the packet goes to the connection.
SendRequest(q, s) ==
    /\ exec[q].pc = "send" /\ s \in exec[q].todo
    /\ Callbacks!Add(<<q, s>>)
    /\ exec' = [exec EXCEPT ![q].todo = @ \ {s}, ![q].pc = IF exec[q].todo = {s} THEN "wait" ELSE @]
    /\ sub' = [sub EXCEPT ![<<q, s>>].st = "posted"]
    /\ UNCHANGED <<asked, answers, machines, losses>>

-----------------------------------------------------------------------------
(* The callbacks of the requests.                                          *)

\* Mutant of IsCompletedAfterFinsh: one request too few is waited for.
MutantIsCompletedAfterFinsh(n) == n <= 2

\* Mutant of IsCompletedAfterFinsh: the comparison is strict.
MutantIsCompletedStrictly(n) == n < 1

\* m_unfinishedCount has been n and is decreased by 1.
IsCompletedAfterFinsh(n) == n <= 1

\* The result of s is stored and counted; the last one, or what is taken for it,
\* sends the answer to the client.
Callback(q, s) ==
    /\ exec' = [exec EXCEPT ![q].unfinished = (@ - 1) % CounterSize, ![q].heard = @ \cup {s}]
    /\ answers' = [answers EXCEPT ![q] = IF IsCompletedAfterFinsh(exec[q].unfinished) THEN @ + 1 ELSE @]

\* The connection is open, and the packet is written.
Write(q, s) ==
    /\ sub[<<q, s>>].st = "posted"
    /\ line[s] = [id |-> sub[<<q, s>>].conn, open |-> TRUE]
    /\ sub' = [sub EXCEPT ![<<q, s>>].st = "sent"]
    /\ UNCHANGED <<asked, answers, exec, callbacks, timers, machines, losses>>

\* There is no such connection, or it is closed: the connect callback reports a failure
\* and leaves the registered callback where it is.
WriteFails(q, s) ==
    /\ sub[<<q, s>>].st = "posted"
    /\ line[s] # [id |-> sub[<<q, s>>].conn, open |-> TRUE]
    /\ sub' = [sub EXCEPT ![<<q, s>>].st = "failed"]
    /\ Callback(q, s)
    /\ UNCHANGED <<asked, callbacks, timers, machines, losses>>

\* The server answers, with results or with an error, if the connection still exists.
SearchResponse(q, s) ==
    /\ sub[<<q, s>>].st = "sent"
    /\ line[s] = [id |-> sub[<<q, s>>].conn, open |-> TRUE]
    /\ sub' = [sub EXCEPT ![<<q, s>>].st = "answered"]
    /\ \/ Callbacks!GetAndRemove(<<q, s>>) /\ Callback(q, s)
       \/ <<q, s>> \notin callbacks /\ UNCHANGED <<answers, exec, callbacks, timers>>
    /\ UNCHANGED <<asked, machines, losses>>

TimeoutCallback(q, s) ==
    /\ \/ Callbacks!Expire(<<q, s>>) /\ Callback(q, s)
       \/ Callbacks!ExpireInVain(<<q, s>>) /\ UNCHANGED <<answers, exec>>
    /\ UNCHANGED <<asked, sub, machines, losses>>

-----------------------------------------------------------------------------
(* Connections to the servers.                                             *)

Connectable(s) == s \in pending /\ status[s] = "Disconnected"

\* The timer: all pending servers are taken, and those that are disconnected are tried.
ConnectToPendingServers ==
    /\ pending # {}
    /\ pending' = {}
    /\ status' = [s \in Servers |-> IF Connectable(s) THEN "Connecting" ELSE status[s]]
    /\ runner' = [s \in Servers |-> IF Connectable(s) THEN runner[s] \cup {[pc |-> "connect", id |-> 0]} ELSE runner[s]]
    /\ UNCHANGED <<asked, execution, connID, line, givenUp, losses>>

\* The connection exists, and its socket is read, before the server is told of it.
Connect(s) ==
    \E r \in runner[s] :
        /\ r.pc = "connect"
        /\ line' = [line EXCEPT ![s] = [id |-> @.id + 1, open |-> TRUE]]
        /\ runner' = [runner EXCEPT ![s] = (@ \ {r}) \cup {[pc |-> "opened", id |-> line[s].id + 1]}]
        /\ UNCHANGED <<asked, execution, status, connID, pending, givenUp, losses>>

\* The attempt fails: the server is pending again, unless its name could not be resolved,
\* and its status is still Connecting.
ConnectFails(s) ==
    \E r \in runner[s] :
        /\ r.pc = "connect"
        /\ losses > 0
        /\ losses' = losses - 1
        /\ runner' = [runner EXCEPT ![s] = @ \ {r}]
        /\ pending' \in {pending, pending \cup {s}}
        /\ givenUp' = givenUp \cup {s}
        /\ UNCHANGED <<asked, execution, status, connID, line>>

SetConnectionID(s) ==
    \E r \in runner[s] :
        /\ r.pc = "opened"
        /\ connID' = [connID EXCEPT ![s] = r.id]
        /\ runner' = [runner EXCEPT ![s] = (@ \ {r}) \cup {[r EXCEPT !.pc = "named"]}]
        /\ UNCHANGED <<asked, execution, status, pending, line, givenUp, losses>>

SetConnected(s) ==
    \E r \in runner[s] :
        /\ r.pc = "named"
        /\ status' = [status EXCEPT ![s] = "Connected"]
        /\ runner' = [runner EXCEPT ![s] = @ \ {r}]
        /\ UNCHANGED <<asked, execution, connID, pending, line, givenUp, losses>>

\* Mutant of IsKnown: the event takes every lost connection for the one in use.
MutantIsKnown(s) == TRUE

IsKnown(s) == connID[s] = line[s].id

\* A read or a write fails: RemoveConnection, and the event that looks for its server.
ConnectionFails(s) ==
    /\ line[s].open
    /\ losses > 0
    /\ losses' = losses - 1
    /\ line' = [line EXCEPT ![s].open = FALSE]
    /\ IF IsKnown(s)
       THEN /\ status' = [status EXCEPT ![s] = "Disconnected"]
            /\ pending' = pending \cup {s}
       ELSE UNCHANGED <<status, pending>>
    /\ givenUp' = IF runner[s] = {} THEN givenUp \ {s} ELSE givenUp \cup {s}
    /\ UNCHANGED <<asked, execution, connID, runner>>

-----------------------------------------------------------------------------
AggregatorRuns ==
    \/ \E q \in Queries : SearchRequest(q)
    \/ \E q \in Queries, s \in Servers : SendRequest(q, s) \/ Write(q, s) \/ WriteFails(q, s)
    \/ \E q \in Queries, s \in Servers : TimeoutCallback(q, s)
    \/ ConnectToPendingServers
    \/ \E s \in Servers : SetConnectionID(s) \/ SetConnected(s)

ServersAct ==
    \/ \E q \in Queries, s \in Servers : SearchResponse(q, s)
    \/ \E s \in Servers : Connect(s) \/ ConnectFails(s) \/ ConnectionFails(s)

AggregatorStep == AggregatorRuns \/ ServersAct

AggregatorTypeOK ==
    /\ asked \subseteq Queries
    /\ answers \in [Queries -> Nat]
    /\ \A q \in Queries :
        /\ exec[q].pc \in {"none", "send", "wait"}
        /\ exec[q].todo \subseteq exec[q].targets /\ exec[q].targets \subseteq Servers
        /\ exec[q].heard \subseteq exec[q].targets
        /\ exec[q].unfinished \in 0..(CounterSize - 1)
    /\ sub \in [Subs -> [st : {"none", "posted", "sent", "failed", "answered"}, conn : 0..(MaxLosses + 1)]]
    /\ callbacks \subseteq ToSet(timers) /\ ToSet(timers) \subseteq Subs
    /\ status \in [Servers -> {"Disconnected", "Connecting", "Connected"}]
    /\ connID \in [Servers -> 0..(MaxLosses + 1)]
    /\ pending \subseteq Servers
    /\ \A s \in Servers : runner[s] \subseteq [pc : {"connect", "opened", "named"}, id : 0..(MaxLosses + 1)]
    /\ line \in [Servers -> [id : 0..(MaxLosses + 1), open : BOOLEAN]]
    /\ givenUp \subseteq Servers
    /\ losses \in 0..MaxLosses

\* Some request of q could not be written.
SendFailed(q) == \E s \in Servers : sub[<<q, s>>].st = "failed"

(* The aggregator answers a query once, when every server it asked has     *)
(* answered or timed out, however answers, timeouts and the loop that is   *)
(* still sending interleave (IsCompletedAfterFinsh), unless a request  *)
(* could not be written: that one is counted again when it times out.      *)
AggregatesOnce ==
    \A q \in Queries :
        ~SendFailed(q) =>
            answers[q] = IF exec[q].targets # {} /\ exec[q].heard = exec[q].targets THEN 1 ELSE 0

(* When no task works on a server any more and its last connection is      *)
(* open, the server is Connected under the id of that connection: no task  *)
(* that was late has put back the id of a lost one.  When that connection  *)
(* was lost in use, the server is tried again: it is Disconnected and      *)
(* pending (the event of StartClient, ConnectToPendingServers).  Two kinds *)
(* of servers (givenUp) are not tried again and are excepted: one of which *)
(* an attempt to connect has failed stays Connecting, and one that was     *)
(* lost before its task had stored id and status may stay Connected under  *)
(* the id of the lost connection.                                          *)
OpenConnectionUsed ==
    \A s \in Servers :
        runner[s] = {} =>
            /\ line[s].open => status[s] = "Connected" /\ connID[s] = line[s].id
            /\ ~line[s].open /\ line[s].id > 0 /\ s \notin givenUp =>
                  status[s] = "Disconnected" /\ s \in pending

=============================================================================
