--------------------------- MODULE Sidecar_proofs ---------------------------
(***************************************************************************)
(* Proofs about Sidecar for every set of connections, keys, values and     *)
(* requests, every size of the semaphore and of the batches, and every     *)
(* number of requests.                                                     *)
(***************************************************************************)
EXTENDS Sidecar, FiniteSetTheorems, SequenceTheorems, TLAPS

\* What is known of the task of each request.
TaskOK(x) ==
    /\ x \in Task
    /\ Len(x.res) = Len(x.keys)
    /\ x.pc \in {"acquire", "call"} => x.start < Len(x.keys)

\* All but MultiGet name one key.
OneKey(x) == x.op # "mget" /\ x.pc \in {"acquire", "call"} => Len(x.keys) = 1

TInv == TypeOK /\ SlotsMatch /\ \A r \in Reqs : OneKey(task[r])

\* The writer of a connection is held by the request that has written a header and no body.
MuInv ==
    /\ \A c \in Conns : mu[c] # 0 => task[mu[c]].pc = "body" /\ task[mu[c]].conn = c
    /\ \A r \in Reqs : task[r].pc = "body" => mu[task[r].conn] = r

\* A header and its body, one after the other, each request once.
Whole(w) ==
    /\ \A i \in 1..Len(w) : 2 * i - 1 <= Len(w) =>
          /\ w[2 * i - 1].part = "header"
          /\ 2 * i <= Len(w) => w[2 * i] = [w[2 * i - 1] EXCEPT !.part = "body"]
    /\ \A i, j \in 1..Len(w) :
          i # j /\ 2 * i - 1 <= Len(w) /\ 2 * j - 1 <= Len(w) => w[2 * i - 1].req # w[2 * j - 1].req

\* Only requests of the connection that have reached their answer are on its wire.
Sender(c, w) == \A i \in 1..Len(w) : task[w[i].req].conn = c /\ task[w[i].req].pc \in {"body", "done"}

\* An open connection ends with the header of the request that holds its writer, if one does.
Ends(c, w) ==
    /\ mu[c] = 0 => \E n \in 0..Len(w) : Len(w) = 2 * n
    /\ mu[c] # 0 => \E n \in 0..Len(w) : Len(w) = 2 * n + 1 /\ w[Len(w)].req = mu[c]

\* The requests of an open connection that are done have been answered.
Answered(c, w) ==
    \A r \in Reqs : task[r].conn = c /\ task[r].pc = "done" =>
        \E i \in 1..Len(w) : 2 * i <= Len(w) /\ w[2 * i].req = r

WireInv ==
    \A c \in Conns : /\ Whole(wire[c]) /\ Sender(c, wire[c])
                     /\ c \in open => Ends(c, wire[c]) /\ Answered(c, wire[c])

\* A read that waits for the semaphore or for TiKV, and the positions it has filled.
Reading(x) == x.op \in {"get", "mget"} /\ x.pc \in {"acquire", "call"}

Filled(x) ==
    {i \in 1..Len(x.keys) : i <= x.start \/ (x.pc = "call" /\ x.served /\ i <= x.start + MaxBatch)}

\* A read may answer what it has got so far, and what it would get now.
ReadOK(x, values, had) ==
    /\ Reading(x) => /\ \A k \in Keys : values[k] \in had[k]
                     /\ \A i \in Filled(x) : x.res[i] \in had[x.keys[i]]
    /\ x.op \in {"get", "mget"} /\ x.pc \in {"answer", "body"} /\ x.st \in {"ok", "notfound"} =>
          \A i \in 1..Len(x.keys) : x.res[i] \in had[x.keys[i]]

ReadInv == \A r \in Reqs : ReadOK(task[r], store, seen[r])

-----------------------------------------------------------------------------
\* The calls under way can be counted.
LEMMA CallsFinite == IsFiniteSet(InCall) /\ Cardinality(InCall) \in Nat
<1>1. IsFiniteSet(Reqs)
  BY FS_Interval, SidecarAssumption DEF Reqs
<1>2. InCall \subseteq Reqs
  BY DEF InCall
<1>3. IsFiniteSet(InCall)
  BY <1>1, <1>2, FS_Subset
<1> QED BY <1>3, FS_CardinalityType

\* A task with nothing to do has the type of a task.
LEMMA NoTaskType ==
    /\ NoTask \in Task
    /\ Len(NoTask.res) = 0 /\ Len(NoTask.keys) = 0
<1>1. (CHOOSE c \in Conns : TRUE) \in Conns
  BY SidecarAssumption
<1>2. <<>> \in Seq(Keys) /\ <<>> \in Seq(Contents)
  OBVIOUS
<1> QED BY <1>1, <1>2 DEF NoTask, Task, Ops, Contents

\* Every task satisfies TaskOK, and the ones that exist are the first ones.
LEMMA TaskTypes ==
    ASSUME TypeOK
    PROVE  \A r \in Reqs : TaskOK(task[r]) /\ (task[r].pc = "none" <=> r > next)
  BY DEF TypeOK, TaskOK

\* A step that gives one existing request another task keeps the types of all.
LEMMA OneTask ==
    ASSUME TypeOK, NEW r \in Reqs, NEW x, TaskOK(x), x.pc # "none", task[r].pc # "none",
           task' = [task EXCEPT ![r] = x], next' = next
    PROVE  /\ task' \in [Reqs -> Task]
           /\ \A q \in Reqs : /\ task'[q].pc = "none" <=> q > next'
                              /\ Len(task'[q].res) = Len(task'[q].keys)
                              /\ task'[q].pc \in {"acquire", "call"} => task'[q].start < Len(task'[q].keys)
<1>1. task \in [Reqs -> Task]
  BY DEF TypeOK
<1>2. \A q \in Reqs : task'[q] = IF q = r THEN x ELSE task[q]
  BY <1>1
<1>3. task' \in [Reqs -> Task]
  BY <1>1 DEF TaskOK
<1> QED BY <1>2, <1>3, TaskTypes DEF TaskOK

\* The semaphore is entered or left by one request, and by no other.
LEMMA OneSlot ==
    ASSUME TInv, NEW r \in Reqs, NEW x, task' = [task EXCEPT ![r] = x],
           \/ task[r].pc # "call" /\ x.pc = "call" /\ limit < Workers /\ limit' = limit + 1
           \/ task[r].pc = "call" /\ x.pc # "call" /\ limit' = limit - 1
           \/ (task[r].pc = "call" <=> x.pc = "call") /\ limit' = limit
    PROVE  SlotsMatch' /\ limit' \in 0..Workers
<1>1. task \in [Reqs -> Task] /\ limit \in 0..Workers /\ limit = Cardinality(InCall) /\ Workers \in Nat
  BY SidecarAssumption DEF TInv, TypeOK, SlotsMatch
<1>2. \A q \in Reqs : task'[q] = IF q = r THEN x ELSE task[q]
  BY <1>1
<1>3. CASE task[r].pc # "call" /\ x.pc = "call" /\ limit < Workers /\ limit' = limit + 1
  <2>1. InCall' = InCall \cup {r} /\ r \notin InCall
    BY <1>2, <1>3 DEF InCall
  <2>2. Cardinality(InCall') = Cardinality(InCall) + 1
    BY <2>1, CallsFinite, FS_AddElement
  <2> QED BY <1>1, <1>3, <2>2, CallsFinite DEF SlotsMatch
<1>4. CASE task[r].pc = "call" /\ x.pc # "call" /\ limit' = limit - 1
  <2>1. InCall' = InCall \ {r} /\ r \in InCall
    BY <1>2, <1>4 DEF InCall
  <2>2. Cardinality(InCall') = Cardinality(InCall) - 1 /\ IsFiniteSet(InCall')
    BY <2>1, CallsFinite, FS_RemoveElement
  <2>3. Cardinality(InCall') \in Nat
    BY <2>2, FS_CardinalityType
  <2> QED BY <1>1, <1>4, <2>2, <2>3, CallsFinite DEF SlotsMatch
<1>5. CASE (task[r].pc = "call" <=> x.pc = "call") /\ limit' = limit
  <2>1. InCall' = InCall
    BY <1>2, <1>5 DEF InCall
  <2> QED BY <1>1, <1>5, <2>1 DEF SlotsMatch, TInv
<1> QED BY <1>3, <1>4, <1>5

\* handleConn reads a request: a new goroutine that holds nothing.
LEMMA ReadTypes ==
    ASSUME TInv, NEW c \in Conns, Read(c)
    PROVE  TInv'
<1> PICK q \in Requests :
      task' = [task EXCEPT ![next + 1] =
                [NoTask EXCEPT !.pc = FirstStep(q), !.conn = c, !.op = q.op, !.keys = q.keys,
                               !.val = q.val, !.timed = q.timed, !.res = [i \in 1..Len(q.keys) |-> None],
                               !.st = IF q.op = "unknown" THEN "error" ELSE "ok"]]
  BY DEF Read
<1> DEFINE x == [NoTask EXCEPT !.pc = FirstStep(q), !.conn = c, !.op = q.op, !.keys = q.keys,
                               !.val = q.val, !.timed = q.timed, !.res = [i \in 1..Len(q.keys) |-> None],
                               !.st = IF q.op = "unknown" THEN "error" ELSE "ok"]
<1>1. /\ q \in [op : Ops, keys : Seq(Keys), val : Contents, timed : BOOLEAN]
      /\ q.op \in {"get", "put", "delete"} => Len(q.keys) = 1
      /\ q.op \in {"health", "unknown"} => q.keys = <<>>
  BY SidecarAssumption
<1>2. TypeOK /\ SlotsMatch /\ next \in Nat /\ next + 1 \in Reqs /\ next' = next + 1 /\ MaxReq \in Nat
  <2>1. MaxReq \in Nat
    BY SidecarAssumption
  <2>2. TypeOK /\ SlotsMatch
    BY DEF TInv
  <2>3. next \in 0..MaxReq
    BY <2>2 DEF TypeOK
  <2>4. next < MaxReq /\ next' = next + 1
    BY DEF Read
  <2> QED BY <2>1, <2>2, <2>3, <2>4 DEF Reqs
<1>3. [i \in 1..Len(q.keys) |-> None] \in Seq(Contents) /\ Len([i \in 1..Len(q.keys) |-> None]) = Len(q.keys)
  BY <1>1 DEF Contents
<1>4. q.keys # <<>> => 0 < Len(q.keys)
  BY <1>1
<1>5. /\ x.pc = FirstStep(q) /\ x.conn = c /\ x.op = q.op /\ x.keys = q.keys /\ x.val = q.val
      /\ x.timed = q.timed /\ x.start = 0 /\ x.res = [i \in 1..Len(q.keys) |-> None]
  BY DEF NoTask
<1>6. x \in Task
  BY <1>1, <1>3, NoTaskType DEF NoTask, Task, FirstStep
<1>7. TaskOK(x) /\ OneKey(x) /\ x.pc \in {"answer", "acquire"}
  BY <1>1, <1>3, <1>4, <1>5, <1>6 DEF TaskOK, OneKey, FirstStep, Ops
<1> HIDE DEF x
<1>8. task \in [Reqs -> Task] /\ task' = [task EXCEPT ![next + 1] = x]
  BY <1>2 DEF TypeOK, x
<1>9. \A r \in Reqs : task'[r] = IF r = next + 1 THEN x ELSE task[r]
  BY <1>2, <1>8
<1>10. /\ task' \in [Reqs -> Task]
       /\ \A r \in Reqs : /\ task'[r].pc = "none" <=> r > next'
                          /\ Len(task'[r].res) = Len(task'[r].keys)
                          /\ task'[r].pc \in {"acquire", "call"} => task'[r].start < Len(task'[r].keys)
  <2>1. task' \in [Reqs -> Task]
    BY <1>7, <1>8 DEF TaskOK
  <2>2. \A r \in Reqs : TaskOK(task[r]) /\ (task[r].pc = "none" <=> r > next)
    BY <1>2, TaskTypes
  <2>3. \A r \in Reqs : TaskOK(task'[r])
    BY <1>7, <1>9, <2>2
  <2>4. \A r \in Reqs : task'[r].pc = "none" <=> r > next + 1
    <3> SUFFICES ASSUME NEW r \in Reqs PROVE task'[r].pc = "none" <=> r > next + 1
      OBVIOUS
    <3>1. r \in Nat /\ next \in Nat
      BY <1>2 DEF Reqs
    <3>2. CASE r = next + 1
      <4>1. task'[r] = x /\ x.pc # "none"
        BY <1>7, <1>9, <3>2
      <4>2. ~(r > next + 1)
        BY <3>1, <3>2
      <4> QED BY <4>1, <4>2
    <3>3. CASE r # next + 1
      BY <1>9, <2>2, <3>1, <3>3
    <3> QED BY <3>2, <3>3
  <2> QED BY <1>2, <2>1, <2>3, <2>4 DEF TaskOK
<1>11. SlotsMatch'
  <2>1. task[next + 1].pc # "call"
    BY <1>2, TaskTypes
  <2>2. InCall' = InCall
    BY <1>7, <1>9, <2>1 DEF InCall
  <2> QED BY <1>2, <2>2 DEF SlotsMatch, Read
<1>12. seen' \in [Reqs -> [Keys -> SUBSET Contents]]
  <2>1. [k \in Keys |-> {store[k]}] \in [Keys -> SUBSET Contents]
    BY <1>2 DEF TypeOK
  <2> QED BY <1>2, <2>1 DEF TypeOK, Read
<1>13. TypeOK'
  <2>1. next' \in 0..MaxReq
    BY <1>2 DEF Reqs
  <2>2. UNCHANGED <<open, limit, mu, wire, store>>
    BY DEF Read
  <2> QED BY <1>2, <1>10, <1>12, <2>1, <2>2 DEF TypeOK
<1> QED BY <1>7, <1>9, <1>11, <1>13 DEF TInv

\* handleConn closes a connection; the goroutines go on.
LEMMA CloseTypes ==
    ASSUME TInv, NEW c \in Conns, Close(c)
    PROVE  TInv'
  BY DEF TInv, Close, TypeOK, SlotsMatch, InCall, OneKey

\* A step of one goroutine keeps the types if the rest of the state does.
LEMMA StepTypes ==
    ASSUME TInv, NEW r \in Reqs, NEW x, TaskOK(x), OneKey(x), x.pc # "none", task[r].pc # "none",
           task' = [task EXCEPT ![r] = x], UNCHANGED <<open, next>>,
           \/ task[r].pc # "call" /\ x.pc = "call" /\ limit < Workers /\ limit' = limit + 1
           \/ task[r].pc = "call" /\ x.pc # "call" /\ limit' = limit - 1
           \/ (task[r].pc = "call" <=> x.pc = "call") /\ limit' = limit,
           mu' \in [Conns -> Reqs \cup {0}],
           wire' \in [Conns -> Seq([req : Reqs, part : {"header", "body"}])],
           store' \in [Keys -> Contents],
           seen' \in [Reqs -> [Keys -> SUBSET Contents]]
    PROVE  TInv'
<1>1. TypeOK /\ \A q \in Reqs : OneKey(task[q])
  BY DEF TInv
<1>2. SlotsMatch' /\ limit' \in 0..Workers
  BY OneSlot
<1>3. TypeOK'
  BY <1>1, <1>2, OneTask DEF TypeOK
<1>4. \A q \in Reqs : task'[q] = IF q = r THEN x ELSE task[q]
  BY <1>1 DEF TypeOK
<1> QED BY <1>1, <1>2, <1>3, <1>4 DEF TInv

\* What a goroutine that runs has at hand.
LEMMA TaskAt ==
    ASSUME TInv, NEW r \in Reqs
    PROVE  /\ TaskOK(task[r]) /\ OneKey(task[r])
           /\ task[r].conn \in Conns /\ task[r].keys \in Seq(Keys) /\ task[r].res \in Seq(Contents)
           /\ task[r].start \in Nat /\ task[r].val \in Contents
           /\ Len(task[r].keys) \in Nat /\ DOMAIN task[r].res = 1..Len(task[r].keys)
<1>1. TypeOK
  BY DEF TInv
<1>2. task[r] \in Task /\ TaskOK(task[r]) /\ OneKey(task[r])
  BY <1>1, TaskTypes DEF TInv, TaskOK
<1>3. task[r].keys \in Seq(Keys) /\ task[r].res \in Seq(Contents) /\ Len(task[r].res) = Len(task[r].keys)
  BY <1>2 DEF TaskOK, Task
<1> QED BY <1>2, <1>3 DEF Task

LEMMA ExpireTypes ==
    ASSUME TInv, NEW r \in Reqs, Expire(r)
    PROVE  TInv'
<1> DEFINE x == [task[r] EXCEPT !.expired = TRUE]
<1>1. TaskOK(x) /\ OneKey(x) /\ x.pc = task[r].pc
  BY TaskAt DEF TaskOK, OneKey, Task
<1>2. task' = [task EXCEPT ![r] = x] /\ task[r].pc \in {"acquire", "call"}
  BY DEF Expire
<1> HIDE DEF x
<1> QED BY <1>1, <1>2, StepTypes DEF Expire, TInv, TypeOK

LEMMA AcquireTypes ==
    ASSUME TInv, NEW r \in Reqs, Acquire(r)
    PROVE  TInv'
<1> DEFINE x == [task[r] EXCEPT !.pc = "call", !.served = FALSE]
<1>1. task[r].pc = "acquire"
  BY DEF Acquire
<1>2. TaskOK(x) /\ OneKey(x) /\ x.pc = "call"
  BY <1>1, TaskAt DEF TaskOK, OneKey, Task
<1>3. task' = [task EXCEPT ![r] = x] /\ limit < Workers /\ limit' = limit + 1
  BY DEF Acquire
<1> HIDE DEF x
<1> QED BY <1>1, <1>2, <1>3, StepTypes DEF Acquire, TInv, TypeOK

\* What BatchGet returns fills positions of the list with contents.
LEMMA ResultsType ==
    ASSUME TInv, NEW r \in Reqs
    PROVE  /\ Results(r) \in Seq(Contents) /\ Len(Results(r)) = Len(task[r].keys)
           /\ \A i \in 1..Len(task[r].keys) :
                 Results(r)[i] = IF i \in Batch(r) THEN store[task[r].keys[i]] ELSE task[r].res[i]
<1>1. task[r].keys \in Seq(Keys) /\ task[r].res \in Seq(Contents) /\ DOMAIN task[r].res = 1..Len(task[r].keys)
  BY TaskAt
<1>2. store \in [Keys -> Contents]
  BY DEF TInv, TypeOK
<1>3. \A i \in 1..Len(task[r].keys) : store[task[r].keys[i]] \in Contents /\ task[r].res[i] \in Contents
  BY <1>1, <1>2
<1>4. Results(r) \in [1..Len(task[r].keys) -> Contents]
  BY <1>1, <1>3 DEF Results
<1>5. Len(task[r].keys) \in Nat
  BY <1>1
<1> QED BY <1>1, <1>4, <1>5 DEF Results

LEMMA ServeTypes ==
    ASSUME TInv, NEW r \in Reqs, Serve(r)
    PROVE  TInv'
<1>1. task[r].pc = "call" /\ UNCHANGED <<open, next, limit, mu, wire>>
  BY DEF Serve
<1>2. CASE Reads(r) /\ task' = [task EXCEPT ![r].served = TRUE, ![r].res = Results(r)] /\ UNCHANGED <<store, seen>>
  <2> DEFINE x == [task[r] EXCEPT !.served = TRUE, !.res = Results(r)]
  <2>1. TaskOK(x) /\ OneKey(x) /\ x.pc = "call"
    BY <1>1, TaskAt, ResultsType DEF TaskOK, OneKey, Task
  <2>2. task' = [task EXCEPT ![r] = x]
    BY <1>2
  <2> HIDE DEF x
  <2> QED BY <1>1, <1>2, <2>1, <2>2, StepTypes DEF TInv, TypeOK
<1>3. CASE ~(Reads(r) /\ task' = [task EXCEPT ![r].served = TRUE, ![r].res = Results(r)] /\ UNCHANGED <<store, seen>>)
  <2> DEFINE x == [task[r] EXCEPT !.served = TRUE]
             k == task[r].keys[1]
  <2>1. TaskOK(x) /\ OneKey(x) /\ x.pc = "call"
    BY <1>1, TaskAt DEF TaskOK, OneKey, Task
  <2>2. /\ task' = [task EXCEPT ![r] = x]
        /\ store' = [store EXCEPT ![k] = task[r].val]
        /\ seen' = [q \in Reqs |-> [seen[q] EXCEPT ![k] = IF Reads(q) THEN @ \cup {task[r].val} ELSE @]]
    BY <1>3 DEF Serve
  <2>3. k \in Keys /\ task[r].val \in Contents
    BY <1>1, TaskAt DEF TaskOK
  <2> HIDE DEF x, k
  <2>4. store' \in [Keys -> Contents] /\ seen' \in [Reqs -> [Keys -> SUBSET Contents]]
    BY <2>2, <2>3 DEF TInv, TypeOK
  <2> QED BY <1>1, <2>1, <2>2, <2>4, StepTypes DEF TInv, TypeOK
<1> QED BY <1>2, <1>3

\* The answer of a goroutine.
LEMMA AnswerType ==
    ASSUME TInv, NEW r \in Reqs, NEW st \in {"ok", "notfound", "timeout", "error"}
    PROVE  /\ TaskOK(Answer(r, st)) /\ OneKey(Answer(r, st))
           /\ Answer(r, st).pc = "answer" /\ Answer(r, st).st = st
           /\ Answer(r, st).conn = task[r].conn /\ Answer(r, st).op = task[r].op
           /\ st \in {"ok", "notfound"} /\ Reads(r) =>
                 Answer(r, st).keys = task[r].keys /\ Answer(r, st).res = task[r].res
           /\ ~(st \in {"ok", "notfound"} /\ Reads(r)) => Answer(r, st).keys = <<>>
<1>1. task[r] \in Task /\ Len(task[r].res) = Len(task[r].keys)
  BY TaskAt DEF TaskOK
<1>2. NoTask \in Task /\ Len(<<>>) = 0 /\ <<>> \in Seq(Keys) /\ <<>> \in Seq(Contents)
  BY NoTaskType
<1> DEFINE needs == st \in {"ok", "notfound"} /\ Reads(r)
           ks == IF needs THEN task[r].keys ELSE <<>>
           rs == IF needs THEN task[r].res ELSE <<>>
<1>3. ks \in Seq(Keys) /\ rs \in Seq(Contents) /\ Len(rs) = Len(ks)
  <2>1. task[r].keys \in Seq(Keys) /\ task[r].res \in Seq(Contents)
    BY <1>1 DEF Task
  <2>2. CASE needs
    BY <1>1, <2>1, <2>2
  <2>3. CASE ~needs
    BY <1>2, <2>3
  <2> QED BY <2>2, <2>3
<1>4. (needs => ks = task[r].keys /\ rs = task[r].res) /\ (~needs => ks = <<>>)
  OBVIOUS
<1>5. Answer(r, st) = [NoTask EXCEPT !.pc = "answer", !.conn = task[r].conn, !.op = task[r].op,
                                     !.timed = task[r].timed, !.st = st, !.keys = ks, !.res = rs]
  BY DEF Answer
<1> HIDE DEF ks, rs
<1>6. Answer(r, st) \in Task
  BY <1>1, <1>2, <1>3, <1>5 DEF Task
<1>7. /\ Answer(r, st).pc = "answer" /\ Answer(r, st).st = st
      /\ Answer(r, st).conn = task[r].conn /\ Answer(r, st).op = task[r].op
      /\ Answer(r, st).keys = ks /\ Answer(r, st).res = rs
  BY <1>5 DEF NoTask
<1>8. TaskOK(Answer(r, st)) /\ OneKey(Answer(r, st))
  BY <1>3, <1>6, <1>7 DEF TaskOK, OneKey
<1> QED BY <1>4, <1>7, <1>8

LEMMA SucceedTypes ==
    ASSUME TInv, NEW r \in Reqs, Succeed(r)
    PROVE  TInv'
<1>1. /\ task[r].pc = "call" /\ limit' = limit - 1 /\ task' = [task EXCEPT ![r] = AfterBatch(r)]
      /\ UNCHANGED <<open, next, mu, wire, store, seen>>
  BY DEF Succeed
<1>2. TaskOK(AfterBatch(r)) /\ OneKey(AfterBatch(r)) /\ AfterBatch(r).pc \in {"acquire", "answer"}
  <2>1. CASE task[r].op = "mget" /\ task[r].start + MaxBatch < Len(task[r].keys)
    <3>1. AfterBatch(r) = [task[r] EXCEPT !.pc = "acquire", !.start = @ + MaxBatch]
      BY <2>1 DEF AfterBatch
    <3>2. MaxBatch \in Nat
      BY SidecarAssumption
    <3>3. task[r] \in Task /\ task[r].start \in Nat /\ Len(task[r].res) = Len(task[r].keys)
      BY TaskAt DEF TaskOK
    <3>4. task[r].start + MaxBatch \in Nat
      BY <3>2, <3>3
    <3> DEFINE n == task[r].start + MaxBatch
    <3>5. AfterBatch(r) = [task[r] EXCEPT !.pc = "acquire", !.start = n] /\ n \in Nat /\ n < Len(task[r].keys)
      BY <2>1, <3>1, <3>4
    <3> HIDE DEF n
    <3>6. /\ AfterBatch(r) \in Task /\ AfterBatch(r).pc = "acquire" /\ AfterBatch(r).start = n
          /\ AfterBatch(r).op = task[r].op /\ AfterBatch(r).keys = task[r].keys /\ AfterBatch(r).res = task[r].res
      BY <3>3, <3>5 DEF Task
    <3> QED BY <2>1, <3>3, <3>5, <3>6 DEF TaskOK, OneKey
  <2>2. CASE ~(task[r].op = "mget" /\ task[r].start + MaxBatch < Len(task[r].keys))
    <3>1. AfterBatch(r) = Answer(r, IF task[r].op = "get" /\ task[r].res[1] = None THEN "notfound" ELSE "ok")
      BY <2>2 DEF AfterBatch
    <3> QED BY <3>1, AnswerType
  <2> QED BY <2>1, <2>2
<1> QED BY <1>1, <1>2, StepTypes DEF TInv, TypeOK

LEMMA FailTypes ==
    ASSUME TInv, NEW r \in Reqs, Fail(r)
    PROVE  TInv'
<1>1. PICK st \in {"ok", "notfound", "timeout", "error"} : task' = [task EXCEPT ![r] = Answer(r, st)]
  BY DEF Fail
<1>2. task[r].pc = "call" /\ limit' = limit - 1 /\ UNCHANGED <<open, next, mu, wire, store, seen>>
  BY DEF Fail
<1> QED BY <1>1, <1>2, AnswerType, StepTypes DEF TInv, TypeOK

\* What is written goes to the end of the wire, or is lost.
LEMMA SentType ==
    ASSUME TInv, NEW r \in Reqs, NEW part \in {"header", "body"}
    PROVE  Sent(r, part) \in [Conns -> Seq([req : Reqs, part : {"header", "body"}])]
<1>1. task[r].conn \in Conns
  BY TaskAt
<1>2. wire \in [Conns -> Seq([req : Reqs, part : {"header", "body"}])]
  BY DEF TInv, TypeOK
<1>3. [req |-> r, part |-> part] \in [req : Reqs, part : {"header", "body"}]
  OBVIOUS
<1> DEFINE s == wire[task[r].conn]
           t == IF task[r].conn \in open THEN Append(s, [req |-> r, part |-> part]) ELSE s
<1>4. s \in Seq([req : Reqs, part : {"header", "body"}])
  BY <1>1, <1>2
<1>5. t \in Seq([req : Reqs, part : {"header", "body"}])
  <2>1. Append(s, [req |-> r, part |-> part]) \in Seq([req : Reqs, part : {"header", "body"}])
    BY <1>3, <1>4, AppendProperties
  <2> QED BY <1>4, <2>1
<1>6. Sent(r, part) = [wire EXCEPT ![task[r].conn] = t]
  BY DEF Sent
<1> HIDE DEF t
<1> QED BY <1>1, <1>2, <1>5, <1>6

LEMMA WriteHeaderTypes ==
    ASSUME TInv, NEW r \in Reqs, WriteHeader(r)
    PROVE  TInv'
<1> DEFINE x == [task[r] EXCEPT !.pc = "body"]
<1>1. /\ task[r].pc = "answer" /\ UNCHANGED <<open, next, limit, store, seen>>
      /\ task' = [task EXCEPT ![r] = x] /\ wire' = Sent(r, "header")
      /\ mu' = [mu EXCEPT ![task[r].conn] = r]
  BY DEF WriteHeader
<1>2. TaskOK(x) /\ OneKey(x) /\ x.pc = "body"
  BY <1>1, TaskAt DEF TaskOK, OneKey, Task
<1> HIDE DEF x
<1>3. mu' \in [Conns -> Reqs \cup {0}]
  BY <1>1 DEF TInv, TypeOK
<1> QED BY <1>1, <1>2, <1>3, SentType, StepTypes DEF TInv, TypeOK

LEMMA WriteBodyTypes ==
    ASSUME TInv, NEW r \in Reqs, WriteBody(r)
    PROVE  TInv'
<1> DEFINE x == [NoTask EXCEPT !.pc = "done", !.conn = task[r].conn, !.timed = task[r].timed]
<1>1. /\ task[r].pc = "body" /\ UNCHANGED <<open, next, limit, store>>
      /\ task' = [task EXCEPT ![r] = x] /\ wire' = Sent(r, "body")
      /\ mu' = [mu EXCEPT ![task[r].conn] = 0] /\ seen' = [seen EXCEPT ![r] = NothingSeen]
  BY DEF WriteBody
<1>2. task[r] \in Task /\ NoTask \in Task /\ Len(NoTask.res) = Len(NoTask.keys)
  BY TaskAt, NoTaskType DEF TaskOK
<1>3. TaskOK(x) /\ OneKey(x) /\ x.pc = "done"
  BY <1>2 DEF TaskOK, OneKey, Task
<1> HIDE DEF x
<1>4. mu' \in [Conns -> Reqs \cup {0}] /\ seen' \in [Reqs -> [Keys -> SUBSET Contents]]
  BY <1>1 DEF TInv, TypeOK, NothingSeen
<1> QED BY <1>1, <1>3, <1>4, SentType, StepTypes DEF TInv, TypeOK

LEMMA InitTypes == Init => TInv
<1> SUFFICES ASSUME Init PROVE TInv
  OBVIOUS
<1>1. InCall = {}
  BY DEF Init, InCall, NoTask
<1>2. SlotsMatch
  BY <1>1, FS_EmptySet, SidecarAssumption DEF SlotsMatch, Init
<1>3. \A r \in Reqs : task[r] = NoTask /\ OneKey(task[r])
  BY DEF Init, OneKey, NoTask
<1>4. MaxReq \in Nat /\ Workers \in Nat
  BY SidecarAssumption
<1>5. store \in [Keys -> Contents] /\ wire \in [Conns -> Seq([req : Reqs, part : {"header", "body"}])]
  BY DEF Init
<1>6. seen \in [Reqs -> [Keys -> SUBSET Contents]] /\ task \in [Reqs -> Task]
  BY NoTaskType DEF Init, NothingSeen
<1>7. \A r \in Reqs : /\ task[r].pc = "none" <=> r > next
                      /\ Len(task[r].res) = Len(task[r].keys)
                      /\ task[r].pc \in {"acquire", "call"} => task[r].start < Len(task[r].keys)
  BY <1>3, <1>4, NoTaskType DEF Init, NoTask, Reqs
<1>8. TypeOK
  BY <1>4, <1>5, <1>6, <1>7 DEF Init, TypeOK
<1> QED BY <1>2, <1>3, <1>8 DEF TInv

LEMMA NextTypes == TInv /\ [Next]_vars => TInv'
<1> SUFFICES ASSUME TInv, [Next]_vars PROVE TInv'
  OBVIOUS
<1>1. CASE Next
  BY <1>1, ReadTypes, CloseTypes, ExpireTypes, AcquireTypes, ServeTypes, SucceedTypes, FailTypes,
     WriteHeaderTypes, WriteBodyTypes DEF Next, Step
<1>2. CASE UNCHANGED vars
  BY <1>2 DEF vars, TInv, TypeOK, SlotsMatch, InCall, OneKey
<1> QED BY <1>1, <1>2

\* The types, the semaphore and the keys of single-key requests form an inductive invariant.
THEOREM TypesInvariant == Spec => []TInv
  BY InitTypes, NextTypes, PTL DEF Spec

-----------------------------------------------------------------------------
(* The wires.                                                              *)

Frame == [req : Reqs, part : {"header", "body"}]

\* A wire of whole answers takes the header of a request that is not on it.
LEMMA HeaderAppended ==
    ASSUME NEW w \in Seq(Frame), Whole(w), NEW n \in Nat, Len(w) = 2 * n, NEW r \in Reqs,
           \A p \in 1..Len(w) : w[p].req # r
    PROVE  /\ Whole(Append(w, [req |-> r, part |-> "header"]))
           /\ Len(Append(w, [req |-> r, part |-> "header"])) = 2 * n + 1
<1> DEFINE e == [req |-> r, part |-> "header"]
           v == Append(w, e)
<1>1. Len(v) = 2 * n + 1 /\ v[2 * n + 1] = e /\ (\A p \in 1..Len(w) : v[p] = w[p])
  BY AppendProperties DEF Frame
<1>2. e.part = "header" /\ e.req = r
  OBVIOUS
<1> HIDE DEF v, e
<1>3. ASSUME NEW i \in 1..Len(v), 2 * i - 1 <= Len(v)
      PROVE  /\ v[2 * i - 1].part = "header"
             /\ 2 * i <= Len(v) => v[2 * i] = [v[2 * i - 1] EXCEPT !.part = "body"]
  <2>1. CASE i = n + 1
    <3>1. 2 * i - 1 = 2 * n + 1 /\ ~(2 * i <= 2 * n + 1)
      BY <2>1
    <3> QED BY <1>1, <1>2, <3>1
  <2>2. CASE i # n + 1
    <3>1. i \in 1..Len(w) /\ 2 * i - 1 \in 1..Len(w) /\ 2 * i \in 1..Len(w)
      BY <1>1, <1>3, <2>2
    <3>2. v[2 * i - 1] = w[2 * i - 1] /\ v[2 * i] = w[2 * i]
      BY <1>1, <3>1
    <3> QED BY <3>1, <3>2 DEF Whole
  <2> QED BY <2>1, <2>2
<1>4. ASSUME NEW i \in 1..Len(v), NEW j \in 1..Len(v), i # j, 2 * i - 1 <= Len(v), 2 * j - 1 <= Len(v)
      PROVE  v[2 * i - 1].req # v[2 * j - 1].req
  <2>1. \A k \in 1..Len(v) : 2 * k - 1 <= Len(v) /\ k # n + 1 =>
           k \in 1..Len(w) /\ 2 * k - 1 \in 1..Len(w) /\ 2 * k - 1 <= Len(w)
    BY <1>1
  <2>2. CASE i = n + 1
    <3>1. 2 * i - 1 = 2 * n + 1 /\ j # n + 1
      BY <1>4, <2>2
    <3> QED BY <1>1, <1>2, <1>4, <2>1, <3>1
  <2>3. CASE j = n + 1
    <3>1. 2 * j - 1 = 2 * n + 1 /\ i # n + 1
      BY <1>4, <2>3
    <3> QED BY <1>1, <1>2, <1>4, <2>1, <3>1
  <2>4. CASE i # n + 1 /\ j # n + 1
    BY <1>1, <1>4, <2>1, <2>4 DEF Whole
  <2> QED BY <2>2, <2>3, <2>4
<1>5. Whole(v)
  BY <1>3, <1>4 DEF Whole
<1> QED BY <1>1, <1>5 DEF v, e

\* A wire that ends with a header takes the body that belongs to it.
LEMMA BodyAppended ==
    ASSUME NEW w \in Seq(Frame), Whole(w), NEW n \in Nat, Len(w) = 2 * n + 1, NEW r \in Reqs,
           w[Len(w)].req = r
    PROVE  /\ Whole(Append(w, [req |-> r, part |-> "body"]))
           /\ Len(Append(w, [req |-> r, part |-> "body"])) = 2 * (n + 1)
           /\ Append(w, [req |-> r, part |-> "body"])[2 * (n + 1)].req = r
<1> DEFINE e == [req |-> r, part |-> "body"]
           v == Append(w, e)
<1>1. Len(v) = 2 * (n + 1) /\ v[2 * (n + 1)] = e /\ (\A p \in 1..Len(w) : v[p] = w[p])
  BY AppendProperties DEF Frame
<1>2. w[2 * n + 1] \in Frame /\ w[2 * n + 1].req = r
  OBVIOUS
<1>3. e = [w[2 * n + 1] EXCEPT !.part = "body"] /\ e.req = r
  BY <1>2 DEF Frame
<1> HIDE DEF v, e
<1>4. ASSUME NEW i \in 1..Len(v), 2 * i - 1 <= Len(v)
      PROVE  i \in 1..Len(w) /\ 2 * i - 1 \in 1..Len(w) /\ 2 * i - 1 <= Len(w) /\ v[2 * i - 1] = w[2 * i - 1]
  <2>1. i \in 1..Len(w) /\ 2 * i - 1 \in 1..Len(w) /\ 2 * i - 1 <= Len(w)
    BY <1>1, <1>4
  <2> QED BY <1>1, <2>1
<1>5. ASSUME NEW i \in 1..Len(v), 2 * i - 1 <= Len(v)
      PROVE  /\ v[2 * i - 1].part = "header"
             /\ 2 * i <= Len(v) => v[2 * i] = [v[2 * i - 1] EXCEPT !.part = "body"]
  <2>1. v[2 * i - 1].part = "header"
    BY <1>4, <1>5 DEF Whole
  <2>2. CASE i = n + 1
    <3>1. 2 * i - 1 = 2 * n + 1 /\ 2 * i = 2 * (n + 1)
      BY <2>2
    <3> QED BY <1>1, <1>3, <1>4, <1>5, <2>1, <3>1
  <2>3. CASE i # n + 1
    <3>1. 2 * i \in 1..Len(w) /\ 2 * i <= Len(w)
      BY <1>1, <1>5, <2>3
    <3> QED BY <1>1, <1>4, <1>5, <2>1, <3>1 DEF Whole
  <2> QED BY <2>2, <2>3
<1>6. ASSUME NEW i \in 1..Len(v), NEW j \in 1..Len(v), i # j, 2 * i - 1 <= Len(v), 2 * j - 1 <= Len(v)
      PROVE  v[2 * i - 1].req # v[2 * j - 1].req
  BY <1>4, <1>6 DEF Whole
<1>7. Whole(v)
  BY <1>5, <1>6 DEF Whole
<1> QED BY <1>1, <1>3, <1>7 DEF v, e

AInv == TInv /\ MuInv /\ WireInv

\* What is on the wires, and who holds their writers.
LEMMA WireTypes ==
    ASSUME TInv
    PROVE  /\ \A c \in Conns : wire[c] \in Seq(Frame) /\ mu[c] \in Reqs \cup {0}
           /\ \A c \in Conns : \A p \in 1..Len(wire[c]) : wire[c][p].req \in Reqs
           /\ 0 \notin Reqs
<1>1. \A c \in Conns : wire[c] \in Seq(Frame) /\ mu[c] \in Reqs \cup {0}
  BY DEF TInv, TypeOK, Frame
<1>2. \A c \in Conns : \A p \in 1..Len(wire[c]) : wire[c][p] \in Frame
  BY <1>1
<1>3. 0 \notin Reqs
  BY SidecarAssumption DEF Reqs
<1> QED BY <1>1, <1>2, <1>3 DEF Frame

\* A goroutine that writes nothing, before its answer and after, leaves the wires as they are.
LEMMA QuietStep ==
    ASSUME AInv, NEW r \in Reqs, NEW x, task' = [task EXCEPT ![r] = x],
           task[r].pc \notin {"body", "done"}, x.pc \notin {"body", "done"}, UNCHANGED <<open, mu, wire>>
    PROVE  MuInv' /\ WireInv'
<1>1. TInv /\ MuInv /\ WireInv /\ task \in [Reqs -> Task]
  BY DEF AInv, TInv, TypeOK
<1>2. \A q \in Reqs : task'[q] = IF q = r THEN x ELSE task[q]
  BY <1>1
<1>3. MuInv'
  BY <1>1, <1>2, WireTypes DEF MuInv
<1>4. ASSUME NEW c \in Conns
      PROVE  /\ Whole(wire[c])' /\ Sender(c, wire[c])'
             /\ c \in open' => Ends(c, wire[c])' /\ Answered(c, wire[c])'
  <2>1. Whole(wire[c])'
    BY <1>1 DEF WireInv, Whole
  <2>2. Sender(c, wire[c])'
    BY <1>1, <1>2, WireTypes DEF WireInv, Sender
  <2>3. c \in open' => Ends(c, wire[c])'
    BY <1>1 DEF WireInv, Ends
  <2>4. c \in open' => Answered(c, wire[c])'
    BY <1>1, <1>2 DEF WireInv, Answered
  <2> QED BY <2>1, <2>2, <2>3, <2>4
<1> QED BY <1>3, <1>4 DEF WireInv

LEMMA ReadWires ==
    ASSUME AInv, NEW c \in Conns, Read(c)
    PROVE  MuInv' /\ WireInv'
<1>1. PICK q \in Requests :
      task' = [task EXCEPT ![next + 1] =
                [NoTask EXCEPT !.pc = FirstStep(q), !.conn = c, !.op = q.op, !.keys = q.keys,
                               !.val = q.val, !.timed = q.timed, !.res = [i \in 1..Len(q.keys) |-> None],
                               !.st = IF q.op = "unknown" THEN "error" ELSE "ok"]]
  BY DEF Read
<1> DEFINE x == [NoTask EXCEPT !.pc = FirstStep(q), !.conn = c, !.op = q.op, !.keys = q.keys,
                               !.val = q.val, !.timed = q.timed, !.res = [i \in 1..Len(q.keys) |-> None],
                               !.st = IF q.op = "unknown" THEN "error" ELSE "ok"]
<1>5. x.pc \in {"acquire", "answer"} /\ task' = [task EXCEPT ![next + 1] = x]
  BY <1>1 DEF FirstStep, NoTask
<1> HIDE DEF x
<1>2. MaxReq \in Nat /\ next \in 0..MaxReq /\ next < MaxReq
  BY SidecarAssumption DEF AInv, TInv, TypeOK, Read
<1>3. next + 1 \in Reqs /\ next + 1 > next
  BY <1>2 DEF Reqs
<1>4. task[next + 1].pc = "none"
  BY <1>3, TaskTypes DEF AInv, TInv
<1> QED BY <1>3, <1>4, <1>5, QuietStep DEF Read

LEMMA CloseWires ==
    ASSUME AInv, NEW c \in Conns, Close(c)
    PROVE  MuInv' /\ WireInv'
<1>1. MuInv' /\ open' \subseteq open /\ UNCHANGED <<task, mu, wire>>
  BY DEF AInv, Close, MuInv
<1>2. WireInv
  BY DEF AInv
<1> QED BY <1>1, <1>2 DEF WireInv, Whole, Sender, Ends, Answered

\* The goroutine has its answer or goes on.
LEMMA AfterBatchPc ==
    ASSUME NEW r \in Reqs
    PROVE  /\ AfterBatch(r).pc \in {"acquire", "answer"}
           /\ \A st : Answer(r, st).pc = "answer"
<1>1. \A st : Answer(r, st).pc = "answer"
  BY DEF Answer, NoTask
<1>2. CASE task[r].op = "mget" /\ task[r].start + MaxBatch < Len(task[r].keys)
  <2>1. AfterBatch(r) = [task[r] EXCEPT !.pc = "acquire", !.start = @ + MaxBatch]
    BY <1>2 DEF AfterBatch
  <2> QED BY <1>1, <2>1 
<1> QED BY <1>1, <1>2 DEF AfterBatch

LEMMA TaskWires ==
    ASSUME AInv, NEW r \in Reqs, Expire(r) \/ Acquire(r) \/ Serve(r) \/ Succeed(r) \/ Fail(r)
    PROVE  MuInv' /\ WireInv'
<1> USE DEF AInv
<1>1. CASE Expire(r)
  <2> DEFINE x == [task[r] EXCEPT !.expired = TRUE]
  <2>1. task' = [task EXCEPT ![r] = x] /\ x.pc \in {"acquire", "call"}
    BY <1>1, TaskAt DEF Expire, TaskOK, Task
  <2> HIDE DEF x
  <2> QED BY <1>1, <2>1, QuietStep DEF Expire
<1>2. CASE Acquire(r)
  <2> DEFINE x == [task[r] EXCEPT !.pc = "call", !.served = FALSE]
  <2>1. task' = [task EXCEPT ![r] = x] /\ x.pc = "call"
    BY <1>2, TaskAt DEF Acquire, TaskOK, Task
  <2> HIDE DEF x
  <2> QED BY <1>2, <2>1, QuietStep DEF Acquire
<1>3. CASE Serve(r)
  <2> DEFINE x == [task[r] EXCEPT !.served = TRUE, !.res = Results(r)]
             y == [task[r] EXCEPT !.served = TRUE]
  <2>1. x.pc = "call" /\ y.pc = "call" /\ task[r].pc = "call" /\ UNCHANGED <<open, mu, wire>>
    BY <1>3, TaskAt DEF Serve, TaskOK, Task
  <2>2. task' = [task EXCEPT ![r] = x] \/ task' = [task EXCEPT ![r] = y]
    BY <1>3 DEF Serve
  <2> HIDE DEF x, y
  <2> QED BY <2>1, <2>2, QuietStep
<1>4. CASE Succeed(r)
  BY <1>4, AfterBatchPc, QuietStep DEF Succeed
<1>5. CASE Fail(r)
  <2>1. PICK st : task' = [task EXCEPT ![r] = Answer(r, st)]
    BY <1>5 DEF Fail
  <2> QED BY <1>5, <2>1, AfterBatchPc, QuietStep DEF Fail
<1> QED BY <1>1, <1>2, <1>3, <1>4, <1>5

\* What a write to a connection does to the wires.
LEMMA SentIs ==
    ASSUME TInv, NEW r \in Reqs, NEW part
    PROVE  \A c \in Conns : Sent(r, part)[c] =
              IF c = task[r].conn /\ c \in open THEN Append(wire[c], [req |-> r, part |-> part]) ELSE wire[c]
<1>1. wire \in [Conns -> Seq(Frame)]
  BY DEF TInv, TypeOK, Frame
<1> QED BY <1>1 DEF Sent

\* A connection that a write does not reach keeps its wire.
LEMMA OtherWire ==
    ASSUME AInv, NEW r \in Reqs, NEW x, task' = [task EXCEPT ![r] = x], NEW c \in Conns, open' = open,
           wire'[c] = wire[c], c \in open => mu'[c] = mu[c] /\ task[r].conn # c,
           x.conn = task[r].conn, task[r].pc \in {"answer", "body"}, x.pc \in {"body", "done"}
    PROVE  /\ Whole(wire[c])' /\ Sender(c, wire[c])'
           /\ c \in open' => Ends(c, wire[c])' /\ Answered(c, wire[c])'
<1>1. TInv /\ WireInv /\ task \in [Reqs -> Task]
  BY DEF AInv, TInv, TypeOK
<1>2. \A q \in Reqs : task'[q] = IF q = r THEN x ELSE task[q]
  BY <1>1
<1>3. Whole(wire[c])'
  BY <1>1 DEF WireInv, Whole
<1>4. Sender(c, wire[c])'
  BY <1>1, <1>2, WireTypes DEF WireInv, Sender
<1>5. c \in open' => Ends(c, wire[c])'
  BY <1>1 DEF WireInv, Ends
<1>6. c \in open' => Answered(c, wire[c])'
  BY <1>1, <1>2 DEF WireInv, Answered
<1> QED BY <1>3, <1>4, <1>5, <1>6

\* syncWriteStatus takes the lock of the writer and writes the header.
LEMMA WriteHeaderWires ==
    ASSUME AInv, NEW r \in Reqs, WriteHeader(r)
    PROVE  MuInv' /\ WireInv'
<1> DEFINE x == [task[r] EXCEPT !.pc = "body"]
           d == task[r].conn
<1>1. /\ task[r].pc = "answer" /\ UNCHANGED <<open, next, limit, store, seen>>
      /\ task' = [task EXCEPT ![r] = x] /\ wire' = Sent(r, "header")
      /\ mu[d] = 0 /\ mu' = [mu EXCEPT ![d] = r]
  BY DEF WriteHeader
<1>2. TInv /\ MuInv /\ WireInv /\ task \in [Reqs -> Task] /\ mu \in [Conns -> Reqs \cup {0}]
  BY DEF AInv, TInv, TypeOK
<1>3. d \in Conns /\ x.pc = "body" /\ x.conn = d
  BY <1>2, TaskAt DEF TaskOK, Task
<1> HIDE DEF x, d
<1>4. \A q \in Reqs : task'[q] = IF q = r THEN x ELSE task[q]
  BY <1>1, <1>2
<1>5. \A c \in Conns : mu'[c] = IF c = d THEN r ELSE mu[c]
  BY <1>1, <1>2
<1>6. 0 \notin Reqs /\ \A c \in Conns : mu[c] \in Reqs \cup {0}
  BY <1>2, WireTypes
<1>7. MuInv'
  <2>1. ASSUME NEW c \in Conns, mu'[c] # 0
        PROVE  task'[mu'[c]].pc = "body" /\ task'[mu'[c]].conn = c
    <3>1. CASE c = d
      BY <1>3, <1>4, <1>5, <3>1
    <3>2. CASE c # d
      BY <1>1, <1>2, <1>4, <1>5, <1>6, <2>1, <3>2 DEF MuInv
    <3> QED BY <3>1, <3>2
  <2>2. ASSUME NEW q \in Reqs, task'[q].pc = "body"
        PROVE  mu'[task'[q].conn] = q
    <3>1. CASE q = r
      BY <1>3, <1>4, <1>5, <3>1
    <3>2. CASE q # r
      <4>1. task'[q] = task[q] /\ mu[task[q].conn] = q /\ task[q].conn \in Conns
        BY <1>2, <1>4, <2>2, <3>2, TaskAt DEF MuInv
      <4>2. task[q].conn # d
        BY <1>1, <1>6, <4>1
      <4> QED BY <1>5, <4>1, <4>2
    <3> QED BY <3>1, <3>2
  <2> QED BY <2>1, <2>2 DEF MuInv
<1>8. ASSUME NEW c \in Conns
      PROVE  /\ Whole(wire[c])' /\ Sender(c, wire[c])'
             /\ c \in open' => Ends(c, wire[c])' /\ Answered(c, wire[c])'
  <2>1. wire'[c] = IF c = d /\ c \in open THEN Append(wire[c], [req |-> r, part |-> "header"]) ELSE wire[c]
    BY <1>1, <1>2, SentIs DEF d
  <2>2. CASE ~(c = d /\ c \in open)
    BY <1>1, <1>3, <1>5, <2>1, <2>2, OtherWire DEF d
  <2>3. CASE c = d /\ c \in open
    <3> DEFINE w == wire[c]
               v == Append(w, [req |-> r, part |-> "header"])
    <3>1. w \in Seq(Frame) /\ Whole(w) /\ Sender(c, w) /\ Ends(c, w) /\ Answered(c, w)
      BY <1>2, <2>3, WireTypes DEF WireInv
    <3>2. PICK n \in Nat : Len(w) = 2 * n
      BY <1>1, <2>3, <3>1 DEF Ends
    <3>3. \A p \in 1..Len(w) : w[p].req \in Reqs /\ w[p].req # r
      BY <1>1, <1>2, <3>1, WireTypes DEF Sender
    <3>4. Whole(v) /\ Len(v) = 2 * n + 1
      BY <3>1, <3>2, <3>3, HeaderAppended
    <3>5. v[Len(v)] = [req |-> r, part |-> "header"] /\ Len(v) = Len(w) + 1 /\ \A p \in 1..Len(w) : v[p] = w[p]
      BY <3>1, AppendProperties DEF Frame
    <3>6. v[Len(v)].req = r
      BY <3>5
    <3>7. wire'[c] = v
      BY <2>1, <2>3
    <3> HIDE DEF v, w
    <3>8. ASSUME NEW p \in 1..Len(v)
          PROVE  task'[v[p].req].conn = c /\ task'[v[p].req].pc \in {"body", "done"}
      <4>1. CASE p = Len(v)
        BY <1>3, <1>4, <2>3, <3>6, <4>1
      <4>2. CASE p # Len(v)
        <5>1. p \in 1..Len(w)
          BY <3>1, <3>2, <3>4, <4>2
        <5> QED BY <1>4, <3>1, <3>3, <3>5, <5>1 DEF Sender
      <4> QED BY <4>1, <4>2
    <3>9. Ends(c, wire[c])'
      <4>1. mu'[c] = r /\ r # 0
        BY <1>5, <1>6, <2>3
      <4>2. n \in 0..Len(v)
        BY <3>4
      <4> QED BY <3>4, <3>6, <3>7, <4>1, <4>2 DEF Ends
    <3>10. Answered(c, wire[c])'
      <4> SUFFICES ASSUME NEW q \in Reqs, task'[q].conn = c, task'[q].pc = "done"
                   PROVE  \E i \in 1..Len(v) : 2 * i <= Len(v) /\ v[2 * i].req = q
        BY <3>7 DEF Answered
      <4>1. task[q].conn = c /\ task[q].pc = "done"
        BY <1>3, <1>4
      <4>2. PICK i \in 1..Len(w) : 2 * i <= Len(w) /\ w[2 * i].req = q
        BY <3>1, <4>1 DEF Answered
      <4>3. i \in 1..Len(v) /\ 2 * i <= Len(v) /\ 2 * i \in 1..Len(w)
        BY <3>2, <3>5, <4>2
      <4> QED BY <3>5, <4>2, <4>3
    <3> QED BY <3>4, <3>7, <3>8, <3>9, <3>10 DEF Sender, Whole
  <2> QED BY <2>2, <2>3
<1> QED BY <1>7, <1>8 DEF WireInv

\* syncWriteStatus writes the length and the payload, and gives the writer back.
LEMMA WriteBodyWires ==
    ASSUME AInv, NEW r \in Reqs, WriteBody(r)
    PROVE  MuInv' /\ WireInv'
<1> DEFINE x == [NoTask EXCEPT !.pc = "done", !.conn = task[r].conn, !.timed = task[r].timed]
           d == task[r].conn
<1>1. /\ task[r].pc = "body" /\ open' = open
      /\ task' = [task EXCEPT ![r] = x] /\ wire' = Sent(r, "body")
      /\ mu' = [mu EXCEPT ![d] = 0]
  BY DEF WriteBody
<1>2. TInv /\ MuInv /\ WireInv /\ task \in [Reqs -> Task] /\ mu \in [Conns -> Reqs \cup {0}]
  BY DEF AInv, TInv, TypeOK
<1>3. d \in Conns /\ x.pc = "done" /\ x.conn = d
  BY <1>2, TaskAt DEF NoTask
<1>4. mu[d] = r
  BY <1>1, <1>2 DEF MuInv
<1> HIDE DEF x, d
<1>5. \A q \in Reqs : task'[q] = IF q = r THEN x ELSE task[q]
  BY <1>1, <1>2
<1>6. \A c \in Conns : mu'[c] = IF c = d THEN 0 ELSE mu[c]
  BY <1>1, <1>2
<1>7. 0 \notin Reqs /\ \A c \in Conns : mu[c] \in Reqs \cup {0}
  BY <1>2, WireTypes
<1>8. MuInv'
  <2>1. ASSUME NEW c \in Conns, mu'[c] # 0
        PROVE  task'[mu'[c]].pc = "body" /\ task'[mu'[c]].conn = c
    <3>1. c # d /\ mu'[c] = mu[c] /\ mu[c] \in Reqs /\ task[mu[c]].pc = "body" /\ task[mu[c]].conn = c
      BY <1>2, <1>6, <1>7, <2>1 DEF MuInv
    <3>2. mu[c] # r
      BY <3>1 DEF d
    <3> QED BY <1>5, <3>1, <3>2
  <2>2. ASSUME NEW q \in Reqs, task'[q].pc = "body"
        PROVE  mu'[task'[q].conn] = q
    <3>1. q # r
      BY <1>3, <1>5, <2>2
    <3>2. task'[q] = task[q] /\ mu[task[q].conn] = q /\ task[q].conn \in Conns
      BY <1>2, <1>5, <2>2, <3>1, TaskAt DEF MuInv
    <3>3. task[q].conn # d
      BY <1>4, <3>1, <3>2
    <3> QED BY <1>6, <3>2, <3>3
  <2> QED BY <2>1, <2>2 DEF MuInv
<1>9. ASSUME NEW c \in Conns
      PROVE  /\ Whole(wire[c])' /\ Sender(c, wire[c])'
             /\ c \in open' => Ends(c, wire[c])' /\ Answered(c, wire[c])'
  <2>1. wire'[c] = IF c = d /\ c \in open THEN Append(wire[c], [req |-> r, part |-> "body"]) ELSE wire[c]
    BY <1>1, <1>2, SentIs DEF d
  <2>2. CASE ~(c = d /\ c \in open)
    BY <1>1, <1>3, <1>6, <2>1, <2>2, OtherWire DEF d
  <2>3. CASE c = d /\ c \in open
    <3> DEFINE w == wire[c]
               v == Append(w, [req |-> r, part |-> "body"])
    <3>1. w \in Seq(Frame) /\ Whole(w) /\ Sender(c, w) /\ Ends(c, w) /\ Answered(c, w)
      BY <1>2, <2>3, WireTypes DEF WireInv
    <3>2. PICK n \in Nat : Len(w) = 2 * n + 1 /\ w[Len(w)].req = r
      BY <1>4, <1>7, <2>3, <3>1 DEF Ends
    <3>3. \A p \in 1..Len(w) : w[p].req \in Reqs
      BY <1>2, WireTypes
    <3>4. Whole(v) /\ Len(v) = 2 * (n + 1) /\ v[2 * (n + 1)].req = r
      BY <3>1, <3>2, BodyAppended
    <3>5. Len(v) = Len(w) + 1 /\ \A p \in 1..Len(w) : v[p] = w[p]
      BY <3>1, AppendProperties DEF Frame
    <3>6. wire'[c] = v
      BY <2>1, <2>3
    <3> HIDE DEF v, w
    <3>7. ASSUME NEW p \in 1..Len(v)
          PROVE  task'[v[p].req].conn = c /\ task'[v[p].req].pc \in {"body", "done"}
      <4>1. CASE p = 2 * (n + 1)
        BY <1>3, <1>5, <2>3, <3>4, <4>1
      <4>2. CASE p # 2 * (n + 1)
        <5>1. p \in 1..Len(w)
          BY <3>1, <3>2, <3>4, <4>2
        <5> QED BY <1>3, <1>5, <2>3, <3>1, <3>3, <3>5, <5>1 DEF Sender
      <4> QED BY <4>1, <4>2
    <3>8. Ends(c, wire[c])'
      <4>1. mu'[c] = 0
        BY <1>6, <2>3
      <4>2. n + 1 \in 0..Len(v)
        BY <3>4
      <4> QED BY <3>4, <3>6, <4>1, <4>2 DEF Ends
    <3>9. Answered(c, wire[c])'
      <4> SUFFICES ASSUME NEW q \in Reqs, task'[q].conn = c, task'[q].pc = "done"
                   PROVE  \E i \in 1..Len(v) : 2 * i <= Len(v) /\ v[2 * i].req = q
        BY <3>6 DEF Answered
      <4>1. CASE q = r
        <5>1. n + 1 \in 1..Len(v) /\ 2 * (n + 1) <= Len(v)
          BY <3>4
        <5> QED BY <3>4, <4>1, <5>1
      <4>2. CASE q # r
        <5>1. task[q].conn = c /\ task[q].pc = "done"
          BY <1>5, <4>2
        <5>2. PICK i \in 1..Len(w) : 2 * i <= Len(w) /\ w[2 * i].req = q
          BY <3>1, <5>1 DEF Answered
        <5>3. i \in 1..Len(v) /\ 2 * i <= Len(v) /\ 2 * i \in 1..Len(w)
          BY <3>2, <3>5, <5>2
        <5> QED BY <3>5, <5>2, <5>3
      <4> QED BY <4>1, <4>2
    <3> QED BY <3>4, <3>6, <3>7, <3>8, <3>9 DEF Sender, Whole
  <2> QED BY <2>2, <2>3
<1> QED BY <1>8, <1>9 DEF WireInv

LEMMA InitWires == Init => AInv
<1> SUFFICES ASSUME Init PROVE AInv
  OBVIOUS
<1>1. TInv
  BY InitTypes
<1>2. \A r \in Reqs : task[r].pc = "none"
  BY DEF Init, NoTask
<1>3. MuInv
  BY <1>2 DEF Init, MuInv
<1>4. \A c \in Conns : wire[c] = <<>> /\ mu[c] = 0
  BY DEF Init
<1>5. Len(<<>>) = 0 /\ 0 \in 0..0 /\ 2 * 0 = 0
  OBVIOUS
<1>6. \A c \in Conns : Whole(wire[c]) /\ Sender(c, wire[c])
  BY <1>4, <1>5 DEF Whole, Sender
<1>7. \A c \in Conns : Ends(c, wire[c])
  BY <1>4, <1>5 DEF Ends
<1>8. \A c \in Conns : Answered(c, wire[c])
  BY <1>2 DEF Answered
<1> QED BY <1>1, <1>3, <1>6, <1>7, <1>8 DEF AInv, WireInv

LEMMA NextWires == AInv /\ [Next]_vars => AInv'
<1> SUFFICES ASSUME AInv, [Next]_vars PROVE AInv'
  OBVIOUS
<1>1. TInv'
  BY NextTypes DEF AInv
<1>2. CASE Next
  BY <1>1, <1>2, ReadWires, CloseWires, TaskWires, WriteHeaderWires, WriteBodyWires DEF Next, Step, AInv
<1>3. CASE UNCHANGED vars
  BY <1>1, <1>3 DEF vars, AInv, MuInv, WireInv, Whole, Sender, Ends, Answered
<1> QED BY <1>2, <1>3

\* The frames of a wire are its headers.
LEMMA FrameIndex ==
    ASSUME NEW n \in Nat, NEW i \in 1..((n + 1) \div 2)
    PROVE  i \in 1..n /\ 2 * i - 1 <= n /\ 2 * i - 1 \in 1..n
  OBVIOUS

LEMMA IndexFrame ==
    ASSUME NEW n \in Nat, NEW i \in 1..n, 2 * i <= n
    PROVE  i \in 1..((n + 1) \div 2) /\ 2 * i \in 1..n
  OBVIOUS

LEMMA WiresIntact == AInv => AnswersIntact
<1> SUFFICES ASSUME AInv, NEW c \in Conns
             PROVE  /\ \A i \in Frames(c) :
                          /\ wire[c][2 * i - 1].part = "header"
                          /\ task[wire[c][2 * i - 1].req].conn = c
                          /\ 2 * i <= Len(wire[c]) => wire[c][2 * i] = [wire[c][2 * i - 1] EXCEPT !.part = "body"]
                    /\ \A i, j \in Frames(c) : i # j => wire[c][2 * i - 1].req # wire[c][2 * j - 1].req
                    /\ c \in open => \A r \in Reqs : task[r].conn = c /\ task[r].pc = "done" =>
                          \E i \in Frames(c) : 2 * i <= Len(wire[c]) /\ wire[c][2 * i].req = r
  BY DEF AnswersIntact
<1> DEFINE w == wire[c]
<1>1. w \in Seq(Frame) /\ Whole(w) /\ Sender(c, w) /\ (c \in open => Answered(c, w))
  BY WireTypes DEF AInv, WireInv
<1> HIDE DEF w
<1>2. Len(w) \in Nat /\ Frames(c) = 1..((Len(w) + 1) \div 2)
  BY <1>1 DEF Frames, w
<1>3. \A i \in Frames(c) : i \in 1..Len(w) /\ 2 * i - 1 <= Len(w) /\ 2 * i - 1 \in 1..Len(w)
  BY <1>2, FrameIndex
<1>4. \A i \in 1..Len(w) : 2 * i <= Len(w) => i \in Frames(c)
  BY <1>2, IndexFrame
<1>5. \A i \in Frames(c) : /\ w[2 * i - 1].part = "header"
                           /\ task[w[2 * i - 1].req].conn = c
                           /\ 2 * i <= Len(w) => w[2 * i] = [w[2 * i - 1] EXCEPT !.part = "body"]
  BY <1>1, <1>3 DEF Whole, Sender
<1>6. \A i, j \in Frames(c) : i # j => w[2 * i - 1].req # w[2 * j - 1].req
  BY <1>1, <1>3 DEF Whole
<1>7. c \in open => \A r \in Reqs : task[r].conn = c /\ task[r].pc = "done" =>
        \E i \in Frames(c) : 2 * i <= Len(w) /\ w[2 * i].req = r
  BY <1>1, <1>4 DEF Answered
<1> QED BY <1>5, <1>6, <1>7 DEF w

\* syncWriteStatus keeps the answers of a connection whole: a header and its own body,
\* one answer after the other, each request once and on the connection it came from, and
\* none missing on a connection that is still open.
THEOREM AnswersStayIntact == Spec => []AnswersIntact
  BY InitWires, NextWires, WiresIntact, PTL DEF Spec

-----------------------------------------------------------------------------
(* The reads.                                                              *)

RInv == TInv /\ ReadInv

\* A step of one goroutine that changes no value leaves the reads of the others alone.
LEMMA OneRead ==
    ASSUME RInv, NEW r \in Reqs, NEW x, task' = [task EXCEPT ![r] = x], UNCHANGED store,
           ReadOK(x, store, seen'[r]), \A q \in Reqs : q # r => seen'[q] = seen[q]
    PROVE  ReadInv'
<1>1. task \in [Reqs -> Task]
  BY DEF RInv, TInv, TypeOK
<1>2. \A q \in Reqs : task'[q] = IF q = r THEN x ELSE task[q]
  BY <1>1
<1>3. ASSUME NEW q \in Reqs PROVE ReadOK(task'[q], store', seen'[q])
  BY <1>2 DEF RInv, ReadInv
<1> QED BY <1>3 DEF ReadInv

LEMMA ReadReads ==
    ASSUME RInv, NEW c \in Conns, Read(c)
    PROVE  ReadInv'
<1>1. PICK q \in Requests :
      /\ task' = [task EXCEPT ![next + 1] =
                [NoTask EXCEPT !.pc = FirstStep(q), !.conn = c, !.op = q.op, !.keys = q.keys,
                               !.val = q.val, !.timed = q.timed, !.res = [i \in 1..Len(q.keys) |-> None],
                               !.st = IF q.op = "unknown" THEN "error" ELSE "ok"]]
      /\ seen' = IF q.op \in {"get", "mget"}
                 THEN [seen EXCEPT ![next + 1] = [k \in Keys |-> {store[k]}]] ELSE seen
  BY DEF Read
<1> DEFINE x == [NoTask EXCEPT !.pc = FirstStep(q), !.conn = c, !.op = q.op, !.keys = q.keys,
                               !.val = q.val, !.timed = q.timed, !.res = [i \in 1..Len(q.keys) |-> None],
                               !.st = IF q.op = "unknown" THEN "error" ELSE "ok"]
<1>2. /\ x.pc = FirstStep(q) /\ x.op = q.op /\ x.keys = q.keys /\ x.start = 0
      /\ task' = [task EXCEPT ![next + 1] = x] /\ store' = store
  BY <1>1 DEF NoTask, Read
<1> HIDE DEF x
<1>3. MaxReq \in Nat /\ next \in 0..MaxReq /\ next < MaxReq
  BY SidecarAssumption DEF RInv, TInv, TypeOK, Read
<1>4. next + 1 \in Reqs
  BY <1>3 DEF Reqs
<1>5. q.keys \in Seq(Keys)
  BY SidecarAssumption
<1>6. seen \in [Reqs -> [Keys -> SUBSET Contents]]
  BY DEF RInv, TInv, TypeOK
<1>7. ReadOK(x, store, seen'[next + 1])
  <2>1. Reading(x) => \A k \in Keys : store[k] \in seen'[next + 1][k]
    BY <1>1, <1>2, <1>4, <1>6 DEF Reading
  <2>2. Reading(x) => Filled(x) = {}
    BY <1>2, <1>5 DEF Filled, Reading, FirstStep
  <2>3. x.pc \in {"answer", "body"} => x.keys = <<>>
    BY <1>2 DEF FirstStep
  <2>4. x.pc \in {"answer", "body"} => 1..Len(x.keys) = {}
    BY <2>3
  <2> QED BY <2>1, <2>2, <2>4 DEF ReadOK
<1>8. \A p \in Reqs : p # next + 1 => seen'[p] = seen[p]
  BY <1>1, <1>4, <1>6
<1> QED BY <1>2, <1>4, <1>7, <1>8, OneRead

LEMMA ExpireReads ==
    ASSUME RInv, NEW r \in Reqs, Expire(r)
    PROVE  ReadInv'
<1> DEFINE x == [task[r] EXCEPT !.expired = TRUE]
<1>1. task' = [task EXCEPT ![r] = x] /\ UNCHANGED <<store, seen>>
  BY DEF Expire
<1>2. /\ x.pc = task[r].pc /\ x.op = task[r].op /\ x.keys = task[r].keys /\ x.start = task[r].start
      /\ x.served = task[r].served /\ x.res = task[r].res /\ x.st = task[r].st
  BY TaskAt DEF RInv, TaskOK, Task
<1> HIDE DEF x
<1>3. ReadOK(x, store, seen[r])
  <2>1. ReadOK(task[r], store, seen[r])
    BY DEF RInv, ReadInv
  <2> QED BY <1>2, <2>1 DEF ReadOK, Reading, Filled
<1> QED BY <1>1, <1>3, OneRead

LEMMA AcquireReads ==
    ASSUME RInv, NEW r \in Reqs, Acquire(r)
    PROVE  ReadInv'
<1> DEFINE x == [task[r] EXCEPT !.pc = "call", !.served = FALSE]
<1>1. task' = [task EXCEPT ![r] = x] /\ UNCHANGED <<store, seen>> /\ task[r].pc = "acquire"
  BY DEF Acquire
<1>2. /\ x.pc = "call" /\ x.op = task[r].op /\ x.keys = task[r].keys /\ x.start = task[r].start
      /\ x.served = FALSE /\ x.res = task[r].res
  BY TaskAt DEF RInv, TaskOK, Task
<1> HIDE DEF x
<1>3. ReadOK(x, store, seen[r])
  <2>1. ReadOK(task[r], store, seen[r])
    BY DEF RInv, ReadInv
  <2>2. Reading(x) <=> Reading(task[r])
    BY <1>1, <1>2 DEF Reading
  <2>3. Filled(x) \subseteq Filled(task[r])
    BY <1>2 DEF Filled
  <2> QED BY <1>2, <2>1, <2>2, <2>3 DEF ReadOK
<1> QED BY <1>1, <1>3, OneRead

\* A successful read answers all positions of its list: the last batch filled them.
LEMMA AnswerFilled ==
    ASSUME TInv, NEW r \in Reqs, Reads(r), task[r].pc = "call", task[r].served,
           ~(task[r].op = "mget" /\ task[r].start + MaxBatch < Len(task[r].keys))
    PROVE  Filled(task[r]) = 1..Len(task[r].keys)
<1>1. /\ task[r].start \in Nat /\ Len(task[r].keys) \in Nat /\ task[r].start < Len(task[r].keys)
      /\ task[r].op # "mget" => Len(task[r].keys) = 1
  BY TaskAt DEF TaskOK, OneKey
<1>2. MaxBatch \in Nat /\ MaxBatch >= 1
  BY SidecarAssumption
<1>3. Len(task[r].keys) <= task[r].start + MaxBatch
  <2>1. CASE task[r].op = "mget"
    BY <1>1, <1>2, <2>1
  <2>2. CASE task[r].op # "mget"
    <3>1. Len(task[r].keys) = 1
      BY <1>1, <2>2
    <3> QED BY <1>1, <1>2, <3>1
  <2> QED BY <2>1, <2>2
<1>4. ASSUME NEW i \in 1..Len(task[r].keys) PROVE i <= task[r].start + MaxBatch
  BY <1>1, <1>2, <1>3
<1> QED BY <1>4 DEF Filled

LEMMA SucceedReads ==
    ASSUME RInv, NEW r \in Reqs, Succeed(r)
    PROVE  ReadInv'
<1>1. /\ task[r].pc = "call" /\ task[r].served /\ task' = [task EXCEPT ![r] = AfterBatch(r)]
      /\ UNCHANGED <<store, seen>>
  BY DEF Succeed
<1>2. ReadOK(task[r], store, seen[r]) /\ TInv
  BY DEF RInv, ReadInv
<1>3. ReadOK(AfterBatch(r), store, seen[r])
  <2>1. CASE task[r].op = "mget" /\ task[r].start + MaxBatch < Len(task[r].keys)
    <3> DEFINE n == task[r].start + MaxBatch
               x == AfterBatch(r)
    <3>1. x = [task[r] EXCEPT !.pc = "acquire", !.start = n]
      BY <2>1 DEF AfterBatch
    <3>2. task[r] \in Task /\ task[r].start \in Nat /\ MaxBatch \in Nat /\ Len(task[r].keys) \in Nat
      BY <1>2, TaskAt, SidecarAssumption DEF TaskOK
    <3>3. /\ x.pc = "acquire" /\ x.op = task[r].op /\ x.start = n /\ x.keys = task[r].keys
          /\ x.res = task[r].res
      BY <3>1, <3>2 DEF Task
    <3> HIDE DEF x
    <3>4. Reading(task[r])
      BY <1>1, <2>1 DEF Reading
    <3>5. Filled(x) \subseteq Filled(task[r])
      BY <1>1, <3>2, <3>3 DEF Filled
    <3> QED BY <1>2, <3>3, <3>4, <3>5 DEF ReadOK, x
  <2>2. CASE ~(task[r].op = "mget" /\ task[r].start + MaxBatch < Len(task[r].keys))
    <3> DEFINE st == IF task[r].op = "get" /\ task[r].res[1] = None THEN "notfound" ELSE "ok"
    <3>1. AfterBatch(r) = Answer(r, st) /\ st \in {"ok", "notfound", "timeout", "error"}
          /\ st \in {"ok", "notfound"}
      BY <2>2 DEF AfterBatch
    <3> HIDE DEF st
    <3>2. /\ Answer(r, st).pc = "answer" /\ Answer(r, st).op = task[r].op
          /\ Reads(r) => Answer(r, st).keys = task[r].keys /\ Answer(r, st).res = task[r].res
      BY <1>2, <3>1, AnswerType
    <3>3. CASE ~Reads(r)
      BY <1>1, <3>1, <3>2, <3>3 DEF ReadOK, Reading, Reads
    <3>4. CASE Reads(r)
      <4>1. Filled(task[r]) = 1..Len(task[r].keys) /\ Reading(task[r])
        BY <1>1, <1>2, <2>2, <3>4, AnswerFilled DEF Reading, Reads
      <4> QED BY <1>2, <3>1, <3>2, <3>4, <4>1 DEF ReadOK, Reading
    <3> QED BY <3>3, <3>4
  <2> QED BY <2>1, <2>2
<1> HIDE DEF AfterBatch
<1> QED BY <1>1, <1>3, OneRead

LEMMA FailReads ==
    ASSUME RInv, NEW r \in Reqs, Fail(r)
    PROVE  ReadInv'
<1>1. PICK st \in {"timeout", "error"} : task' = [task EXCEPT ![r] = Answer(r, st)]
  BY DEF Fail
<1>2. Answer(r, st).pc = "answer" /\ Answer(r, st).st = st
  BY AnswerType DEF RInv
<1>3. ReadOK(Answer(r, st), store, seen[r])
  BY <1>2 DEF ReadOK, Reading
<1> QED BY <1>1, <1>3, OneRead DEF Fail

LEMMA WriteReads ==
    ASSUME RInv, NEW r \in Reqs, WriteHeader(r) \/ WriteBody(r)
    PROVE  ReadInv'
<1>1. CASE WriteHeader(r)
  <2> DEFINE x == [task[r] EXCEPT !.pc = "body"]
  <2>1. task' = [task EXCEPT ![r] = x] /\ UNCHANGED <<store, seen>> /\ task[r].pc = "answer"
    BY <1>1 DEF WriteHeader
  <2>2. x.pc = "body" /\ x.op = task[r].op /\ x.keys = task[r].keys /\ x.res = task[r].res /\ x.st = task[r].st
    BY TaskAt DEF RInv, TaskOK, Task
  <2> HIDE DEF x
  <2>3. ReadOK(task[r], store, seen[r])
    BY DEF RInv, ReadInv
  <2>4. ReadOK(x, store, seen[r])
    BY <2>1, <2>2, <2>3 DEF ReadOK, Reading
  <2> QED BY <2>1, <2>4, OneRead
<1>2. CASE WriteBody(r)
  <2> DEFINE x == [NoTask EXCEPT !.pc = "done", !.conn = task[r].conn, !.timed = task[r].timed]
  <2>1. task' = [task EXCEPT ![r] = x] /\ UNCHANGED store /\ seen' = [seen EXCEPT ![r] = NothingSeen]
    BY <1>2 DEF WriteBody
  <2>2. x.pc = "done"
    BY DEF NoTask
  <2> HIDE DEF x
  <2>3. ReadOK(x, store, seen'[r])
    BY <2>2 DEF ReadOK, Reading
  <2>4. \A q \in Reqs : q # r => seen'[q] = seen[q]
    BY <2>1 DEF RInv, TInv, TypeOK
  <2> QED BY <2>1, <2>3, <2>4, OneRead
<1> QED BY <1>1, <1>2

\* A value that TiKV takes on while a read runs is one that the read may answer.
LEMMA ServeReads ==
    ASSUME RInv, NEW r \in Reqs, Serve(r)
    PROVE  ReadInv'
<1>1. task[r].pc = "call" /\ TInv /\ \A q \in Reqs : ReadOK(task[q], store, seen[q])
  BY DEF Serve, RInv, ReadInv
<1>2. /\ task \in [Reqs -> Task] /\ store \in [Keys -> Contents]
      /\ seen \in [Reqs -> [Keys -> SUBSET Contents]]
  BY <1>1 DEF TInv, TypeOK
<1>3. CASE Reads(r) /\ task' = [task EXCEPT ![r].served = TRUE, ![r].res = Results(r)] /\ UNCHANGED <<store, seen>>
  <2> DEFINE x == [task[r] EXCEPT !.served = TRUE, !.res = Results(r)]
  <2>1. task' = [task EXCEPT ![r] = x]
    BY <1>3
  <2>2. /\ x.pc = "call" /\ x.op = task[r].op /\ x.keys = task[r].keys /\ x.start = task[r].start
        /\ x.served /\ x.res = Results(r)
    BY <1>1, TaskAt DEF TaskOK, Task
  <2> HIDE DEF x
  <2>3. Reading(x) /\ Reading(task[r])
    BY <1>1, <1>3, <2>2 DEF Reading, Reads
  <2>4. /\ \A k \in Keys : store[k] \in seen[r][k]
        /\ \A i \in Filled(task[r]) : task[r].res[i] \in seen[r][task[r].keys[i]]
    BY <1>1, <2>3 DEF ReadOK
  <2>5. ASSUME NEW i \in Filled(x) PROVE x.res[i] \in seen[r][x.keys[i]]
    <3>1. task[r].keys \in Seq(Keys) /\ task[r].start \in Nat /\ Len(task[r].keys) \in Nat /\ MaxBatch \in Nat
      BY <1>1, TaskAt, SidecarAssumption
    <3>2. i \in 1..Len(task[r].keys) /\ (i <= task[r].start \/ i <= task[r].start + MaxBatch)
      BY <2>2 DEF Filled
    <3>3. task[r].keys[i] \in Keys
      BY <3>1, <3>2
    <3>4. x.res[i] = IF i \in Batch(r) THEN store[task[r].keys[i]] ELSE task[r].res[i]
      BY <1>1, <2>2, <3>2, ResultsType
    <3>5. CASE i \in Batch(r)
      BY <2>2, <2>4, <3>3, <3>4, <3>5
    <3>6. CASE i \notin Batch(r)
      <4>1. i <= task[r].start
        BY <3>1, <3>2, <3>6 DEF Batch, MinOf
      <4>2. i \in Filled(task[r])
        BY <3>2, <4>1 DEF Filled
      <4> QED BY <2>2, <2>4, <3>4, <3>6, <4>2
    <3> QED BY <3>5, <3>6
  <2>6. ReadOK(x, store, seen[r])
    BY <2>2, <2>4, <2>5 DEF ReadOK
  <2> QED BY <1>3, <2>1, <2>6, OneRead
<1>4. CASE ~(Reads(r) /\ task' = [task EXCEPT ![r].served = TRUE, ![r].res = Results(r)] /\ UNCHANGED <<store, seen>>)
  <2> DEFINE x == [task[r] EXCEPT !.served = TRUE]
             k == task[r].keys[1]
             v == task[r].val
  <2>1. /\ task' = [task EXCEPT ![r] = x] /\ task[r].op \in {"put", "delete"}
        /\ store' = [store EXCEPT ![k] = v]
        /\ seen' = [q \in Reqs |-> [seen[q] EXCEPT ![k] = IF Reads(q) THEN @ \cup {v} ELSE @]]
    BY <1>4 DEF Serve
  <2>2. k \in Keys /\ x.pc = "call" /\ x.op = task[r].op
    BY <1>1, TaskAt DEF TaskOK, Task
  <2> HIDE DEF x, k, v
  <2>3. \A q \in Reqs : task'[q] = IF q = r THEN x ELSE task[q]
    BY <1>2, <2>1
  <2>4. \A j \in Keys : store'[j] = IF j = k THEN v ELSE store[j]
    BY <1>2, <2>1
  <2>5. ASSUME NEW q \in Reqs, q # r PROVE ReadOK(task[q], store', seen'[q])
    <3>1. seen'[q] = [seen[q] EXCEPT ![k] = IF Reads(q) THEN @ \cup {v} ELSE @] /\ seen[q] \in [Keys -> SUBSET Contents]
      BY <1>2, <2>1
    <3>2. \A j \in Keys : seen[q][j] \subseteq seen'[q][j]
      BY <3>1
    <3>3. Reads(q) => v \in seen'[q][k]
      BY <2>2, <3>1
    <3>4. Reading(task[q]) => \A j \in Keys : store'[j] \in seen'[q][j]
      BY <1>1, <2>4, <3>2, <3>3 DEF ReadOK, Reading, Reads
    <3>5. \A i \in 1..Len(task[q].keys) : task[q].keys[i] \in Keys
      BY <1>1, TaskAt
    <3>6. Filled(task[q]) \subseteq 1..Len(task[q].keys)
      BY DEF Filled
    <3>7. Reading(task[q]) => \A i \in Filled(task[q]) : task[q].res[i] \in seen'[q][task[q].keys[i]]
      BY <1>1, <3>2, <3>5, <3>6 DEF ReadOK
    <3>8. task[q].op \in {"get", "mget"} /\ task[q].pc \in {"answer", "body"} /\ task[q].st \in {"ok", "notfound"} =>
             \A i \in 1..Len(task[q].keys) : task[q].res[i] \in seen'[q][task[q].keys[i]]
      BY <1>1, <3>2, <3>5 DEF ReadOK
    <3> QED BY <3>4, <3>7, <3>8 DEF ReadOK
  <2>6. ReadOK(x, store', seen'[r])
    BY <2>1, <2>2 DEF ReadOK, Reading
  <2>7. ASSUME NEW q \in Reqs PROVE ReadOK(task'[q], store', seen'[q])
    BY <2>3, <2>5, <2>6
  <2> QED BY <2>7 DEF ReadInv
<1> QED BY <1>3, <1>4

LEMMA InitReads == Init => RInv
<1> SUFFICES ASSUME Init PROVE RInv
  OBVIOUS
<1>1. \A r \in Reqs : task[r].pc = "none"
  BY DEF Init, NoTask
<1> QED BY <1>1, InitTypes DEF RInv, ReadInv, ReadOK, Reading

LEMMA NextReads == RInv /\ [Next]_vars => RInv'
<1> SUFFICES ASSUME RInv, [Next]_vars PROVE RInv'
  OBVIOUS
<1>1. TInv'
  BY NextTypes DEF RInv
<1>2. CASE Next
  <2>1. \A c \in Conns : Close(c) => ReadInv'
    BY DEF Close, RInv, ReadInv
  <2> QED BY <1>1, <1>2, <2>1, ReadReads, ExpireReads, AcquireReads, ServeReads, SucceedReads, FailReads, WriteReads
          DEF Next, Step, RInv
<1>3. CASE UNCHANGED vars
  BY <1>1, <1>3 DEF vars, RInv, ReadInv
<1> QED BY <1>2, <1>3

\* handleGet and handleMultiGet answer, for every position of the list, a value that the
\* key at this position had while the request ran, whatever the size of the batches and
\* whatever other goroutines write between them.
THEOREM ReadsStayCurrent == Spec => []ReadsCurrent
<1>1. RInv => ReadsCurrent
  BY DEF RInv, ReadInv, ReadOK, ReadsCurrent
<1> QED BY <1>1, InitReads, NextReads, PTL DEF Spec

\* The semaphore holds one element for each call of TiKV under way, and at most Workers
\* calls run: Acquire and the deferred releases of Succeed and Fail keep them together.
THEOREM SlotsStayMatched == Spec => []SlotsMatch
  BY TypesInvariant, PTL DEF TInv

=============================================================================
