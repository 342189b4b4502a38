------------------------------- MODULE Sidecar -------------------------------
(***************************************************************************)
(* The sidecar between the index and TiKV (tikv_uds/main.go).  handleConn  *)
(* reads one request after the other from a connection and starts a        *)
(* goroutine for each.  The goroutines of all connections share a          *)
(* semaphore, and those of one connection share its writer.  Answers carry *)
(* the id of the request and come in any order.                            *)
(*                                                                         *)
(* A request is numbered by its arrival.  Get is a list of one key here,   *)
(* and a value is a model value.  TiKV and its Go client are external.     *)
(***************************************************************************)
EXTENDS Integers, Sequences, FiniteSets

CONSTANTS
    Conns, Keys, Values,
    Requests,     \* what clients may ask
    Workers,      \* SPTAG_TIKV_WORKERS
    MaxBatch,     \* SPTAG_TIKV_MAXBATCH
    MaxReq        \* bound: requests

None == "none"
Contents == Values \cup {None}
Ops == {"health", "get", "mget", "put", "delete", "unknown"}

ASSUME SidecarAssumption ==
    /\ Conns # {}
    /\ Requests \subseteq [op : Ops, keys : Seq(Keys), val : Contents, timed : BOOLEAN]
    /\ \A q \in Requests : /\ q.op \in {"get", "put", "delete"} => Len(q.keys) = 1
                           /\ q.op \in {"health", "unknown"} => q.keys = <<>>
                           /\ q.val = None <=> q.op # "put"
    /\ Workers \in Nat \ {0} /\ MaxBatch \in Nat \ {0} /\ MaxReq \in Nat
    /\ None \notin Values

VARIABLES
    open,     \* the connections that are not closed
    next,     \* the number of requests that have been read
    task,     \* the goroutine of each request
    limit,    \* workerLimit: how many elements the channel holds
    mu,       \* writeMu of each connection: the request that holds it, or 0
    wire,     \* what each connection has been sent
    store,    \* the values at TiKV
    seen      \* history: the values that each key had while a request ran

vars == <<open, next, task, limit, mu, wire, store, seen>>

Reqs == 1..MaxReq

NoTask == [pc |-> "none", conn |-> CHOOSE c \in Conns : TRUE, op |-> "health", keys |-> <<>>,
           val |-> None, timed |-> TRUE, expired |-> FALSE, start |-> 0, served |-> FALSE,
           res |-> <<>>, st |-> "none"]

NothingSeen == [k \in Keys |-> {}]

Init ==
    /\ open = Conns
    /\ next = 0
    /\ task = [r \in Reqs |-> NoTask]
    /\ limit = 0
    /\ mu = [c \in Conns |-> 0]
    /\ wire = [c \in Conns |-> <<>>]
    /\ store \in {[k \in Keys |-> x] : x \in Contents}
    /\ seen = [r \in Reqs |-> NothingSeen]

-----------------------------------------------------------------------------
(* handleConn.                                                             *)

\* Health, an unknown operation and MultiGet without keys are answered at once.
FirstStep(q) == IF q.keys = <<>> THEN "answer" ELSE "acquire"

Read(c) ==
    /\ c \in open /\ next < MaxReq
    /\ next' = next + 1
    /\ \E q \in Requests :
          /\ task' = [task EXCEPT ![next + 1] =
                [NoTask EXCEPT !.pc = FirstStep(q), !.conn = c, !.op = q.op, !.keys = q.keys,
                               !.val = q.val, !.timed = q.timed, !.res = [i \in 1..Len(q.keys) |-> None],
                               !.st = IF q.op = "unknown" THEN "error" ELSE "ok"]]
          /\ seen' = IF q.op \in {"get", "mget"}
                     THEN [seen EXCEPT ![next + 1] = [k \in Keys |-> {store[k]}]] ELSE seen
    /\ UNCHANGED <<open, limit, mu, wire, store>>

\* The end of the stream, a wrong magic number or a length out of range: handleConn
\* returns and closes the connection; its goroutines go on.
Close(c) ==
    /\ c \in open
    /\ open' = open \ {c}
    /\ UNCHANGED <<next, task, limit, mu, wire, store, seen>>

-----------------------------------------------------------------------------
(* handleGet, handleMultiGet, handlePut, handleDelete.                     *)

\* The context of a request expires, while it waits for the semaphore or for TiKV.
Expire(r) ==
    /\ task[r].pc \in {"acquire", "call"}
    /\ task[r].timed /\ ~task[r].expired
    /\ task' = [task EXCEPT ![r].expired = TRUE]
    /\ UNCHANGED <<open, next, limit, mu, wire, store, seen>>

\* Mutant of Acquire: the send never waits.
MutantAcquire(r) ==
    /\ task[r].pc = "acquire"
    /\ limit' = limit + 1
    /\ task' = [task EXCEPT ![r].pc = "call", ![r].served = FALSE]
    /\ UNCHANGED <<open, next, mu, wire, store, seen>>

\* The send to workerLimit waits for room, not for the context.
Acquire(r) ==
    /\ task[r].pc = "acquire"
    /\ limit < Workers
    /\ limit' = limit + 1
    /\ task' = [task EXCEPT ![r].pc = "call", ![r].served = FALSE]
    /\ UNCHANGED <<open, next, mu, wire, store, seen>>

\* The positions of the batch at hand; all operations but MultiGet have one batch.
MinOf(a, b) == IF a < b THEN a ELSE b
Batch(r) == (task[r].start + 1)..MinOf(task[r].start + MaxBatch, Len(task[r].keys))

\* Mutant of Results: the offset of the batch is forgotten.
MutantResults(r) ==
    [i \in DOMAIN task[r].res |->
        IF i \in Batch(r) THEN store[task[r].keys[i - task[r].start]] ELSE task[r].res[i]]

\* What BatchGet returns goes to the positions of its keys.
Results(r) ==
    [i \in DOMAIN task[r].res |-> IF i \in Batch(r) THEN store[task[r].keys[i]] ELSE task[r].res[i]]

Reads(r) == task[r].op \in {"get", "mget"} /\ task[r].pc \in {"acquire", "call"}

\* TiKV executes the request; an expired one is not sent.
Serve(r) ==
    /\ task[r].pc = "call" /\ ~task[r].served /\ ~task[r].expired
    /\ \/ /\ Reads(r)
          /\ task' = [task EXCEPT ![r].served = TRUE, ![r].res = Results(r)]
          /\ UNCHANGED <<store, seen>>
       \/ /\ task[r].op \in {"put", "delete"}
          /\ task' = [task EXCEPT ![r].served = TRUE]
          /\ LET k == task[r].keys[1] IN
             /\ store' = [store EXCEPT ![k] = task[r].val]
             /\ seen' = [q \in Reqs |-> [seen[q] EXCEPT ![k] =
                           IF Reads(q) THEN @ \cup {task[r].val} ELSE @]]
    /\ UNCHANGED <<open, next, limit, mu, wire>>

\* The goroutine has its answer; only a read that succeeds needs its keys for it.
Answer(r, st) ==
    [NoTask EXCEPT !.pc = "answer", !.conn = task[r].conn, !.op = task[r].op, !.timed = task[r].timed,
                   !.st = st,
                   !.keys = IF st \in {"ok", "notfound"} /\ Reads(r) THEN task[r].keys ELSE <<>>,
                   !.res = IF st \in {"ok", "notfound"} /\ Reads(r) THEN task[r].res ELSE <<>>]

\* The next batch, or the answer.
AfterBatch(r) ==
    IF task[r].op = "mget" /\ task[r].start + MaxBatch < Len(task[r].keys)
    THEN [task[r] EXCEPT !.pc = "acquire", !.start = @ + MaxBatch]
    ELSE Answer(r, IF task[r].op = "get" /\ task[r].res[1] = None THEN "notfound" ELSE "ok")

\* The call of TiKV succeeds, and the goroutine leaves the semaphore.
Succeed(r) ==
    /\ task[r].pc = "call" /\ task[r].served
    /\ limit' = limit - 1
    /\ task' = [task EXCEPT ![r] = AfterBatch(r)]
    /\ UNCHANGED <<open, next, mu, wire, store, seen>>

\* Mutant of Fail: the semaphore is left only after a success.
MutantFail(r) ==
    /\ task[r].pc = "call"
    /\ \E st \in {"error"} \cup IF task[r].expired THEN {"timeout"} ELSE {} :
          task' = [task EXCEPT ![r] = Answer(r, st)]
    /\ UNCHANGED <<open, next, limit, mu, wire, store, seen>>

\* The call fails, or its context has expired, whether it has been executed or not.
Fail(r) ==
    /\ task[r].pc = "call"
    /\ \E st \in {"error"} \cup IF task[r].expired THEN {"timeout"} ELSE {} :
          task' = [task EXCEPT ![r] = Answer(r, st)]
    /\ limit' = limit - 1
    /\ UNCHANGED <<open, next, mu, wire, store, seen>>

-----------------------------------------------------------------------------
(* syncWriteStatus.  What is written to a closed connection is lost.       *)

Sent(r, part) ==
    [wire EXCEPT ![task[r].conn] =
        IF task[r].conn \in open THEN Append(@, [req |-> r, part |-> part]) ELSE @]

\* Mutant of WriteHeader: the writer is used without its lock.
MutantWriteHeader(r) ==
    /\ task[r].pc = "answer"
    /\ mu' = [mu EXCEPT ![task[r].conn] = r]
    /\ wire' = Sent(r, "header")
    /\ task' = [task EXCEPT ![r].pc = "body"]
    /\ UNCHANGED <<open, next, limit, store, seen>>

WriteHeader(r) ==
    /\ task[r].pc = "answer"
    /\ mu[task[r].conn] = 0
    /\ mu' = [mu EXCEPT ![task[r].conn] = r]
    /\ wire' = Sent(r, "header")
    /\ task' = [task EXCEPT ![r].pc = "body"]
    /\ UNCHANGED <<open, next, limit, store, seen>>

\* Length and payload; then the writer is flushed and unlocked.  The connection has no
\* deadline, so the flush takes as long as the peer takes to read: that it does read is
\* assumed by the fairness of this step.
WriteBody(r) ==
    /\ task[r].pc = "body"
    /\ mu' = [mu EXCEPT ![task[r].conn] = 0]
    /\ wire' = Sent(r, "body")
    /\ task' = [task EXCEPT ![r] = [NoTask EXCEPT !.pc = "done", !.conn = task[r].conn, !.timed = task[r].timed]]
    /\ seen' = [seen EXCEPT ![r] = NothingSeen]
    /\ UNCHANGED <<open, next, limit, store>>

-----------------------------------------------------------------------------
Step(r) == Acquire(r) \/ Succeed(r) \/ WriteHeader(r) \/ WriteBody(r)

Next ==
    \/ \E c \in Conns : Read(c) \/ Close(c)
    \/ \E r \in Reqs : Step(r) \/ Expire(r) \/ Serve(r) \/ Fail(r)

Spec == Init /\ [][Next]_vars

\* Goroutines run, contexts with a timeout expire, and a call returns when its context
\* has expired.  Nothing is assumed of a call without a timeout, which may hang.
FairSpec ==
    /\ Spec
    /\ \A r \in Reqs :
        /\ WF_vars(Step(r))
        /\ WF_vars(Expire(r))
        /\ WF_vars(task[r].expired /\ Fail(r))

-----------------------------------------------------------------------------
(* Properties.                                                             *)

Task == [pc : {"none", "acquire", "call", "answer", "body", "done"}, conn : Conns, op : Ops,
         keys : Seq(Keys), val : Contents, timed : BOOLEAN,
         expired : BOOLEAN, start : Nat, served : BOOLEAN, res : Seq(Contents),
         st : {"none", "ok", "notfound", "timeout", "error"}]

(* The state has its type, and a request that waits for the semaphore or   *)
(* for TiKV has keys left that its answer needs.                           *)
TypeOK ==
    /\ open \subseteq Conns /\ next \in 0..MaxReq
    /\ task \in [Reqs -> Task]
    /\ \A r \in Reqs : /\ task[r].pc = "none" <=> r > next
                       /\ Len(task[r].res) = Len(task[r].keys)
                       /\ task[r].pc \in {"acquire", "call"} => task[r].start < Len(task[r].keys)
    /\ limit \in 0..Workers
    /\ mu \in [Conns -> Reqs \cup {0}]
    /\ wire \in [Conns -> Seq([req : Reqs, part : {"header", "body"}])]
    /\ store \in [Keys -> Contents]
    /\ seen \in [Reqs -> [Keys -> SUBSET Contents]]

InCall == {r \in Reqs : task[r].pc = "call"}

(* The channel holds one element for each call of TiKV under way, of all   *)
(* connections together, so that none is lost and at most Workers run      *)
(* ("Buffered channel acting as a semaphore to limit concurrency issues"). *)
SlotsMatch == limit = Cardinality(InCall) /\ Cardinality(InCall) <= Workers

Frames(c) == 1..((Len(wire[c]) + 1) \div 2)

(* A connection carries whole answers one after the other, although its    *)
(* goroutines write them in pieces; every request that was read is         *)
(* answered at most once, on the connection it came from, and exactly once *)
(* if that is still open when the goroutine ends.                          *)
AnswersIntact ==
    \A c \in Conns :
        /\ \A i \in Frames(c) :
              /\ wire[c][2 * i - 1].part = "header"
              /\ task[wire[c][2 * i - 1].req].conn = c
              /\ 2 * i <= Len(wire[c]) => wire[c][2 * i] = [wire[c][2 * i - 1] EXCEPT !.part = "body"]
        /\ \A i, j \in Frames(c) : i # j => wire[c][2 * i - 1].req # wire[c][2 * j - 1].req
        /\ c \in open => \A r \in Reqs : task[r].conn = c /\ task[r].pc = "done" =>
              \E i \in Frames(c) : 2 * i <= Len(wire[c]) /\ wire[c][2 * i].req = r

(* A successful Get or MultiGet answers, for each position of its list, a  *)
(* value that the key at this position had while the request ran: never an *)
(* older one, nor that of another key, whatever the batches and the writes *)
(* between them.                                                           *)
ReadsCurrent ==
    \A r \in Reqs :
        task[r].op \in {"get", "mget"} /\ task[r].pc \in {"answer", "body"}
        /\ task[r].st \in {"ok", "notfound"} =>
            \A i \in 1..Len(task[r].keys) : task[r].res[i] \in seen[r][task[r].keys[i]]

\* Calls without a timeout hold the whole semaphore.
Starved == Cardinality({r \in InCall : ~task[r].timed}) = Workers

(* Every request with a timeout is answered, unless calls without one hang *)
(* and hold the whole semaphore: neither failed batches nor connections    *)
(* that are gone use up its elements.                                      *)
AnsweredUnlessStarved ==
    \A r \in Reqs : (task[r].pc # "none" /\ task[r].timed) ~> (task[r].pc = "done" \/ Starved)

=============================================================================
