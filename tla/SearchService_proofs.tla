------------------------ MODULE SearchService_proofs ------------------------
(***************************************************************************)
(* Proofs about SearchService for every set of queries and of servers,     *)
(* every number of lost connections and every order of answers, timeouts   *)
(* and failures.                                                           *)
(***************************************************************************)
EXTENDS SearchService, FiniteSetTheorems, SequenceTheorems, TLAPS

-----------------------------------------------------------------------------
(* Types.                                                                  *)

ExecT == [pc : {"none", "send", "wait"}, todo : SUBSET Servers, targets : SUBSET Servers,
          unfinished : 0..(CounterSize - 1), heard : SUBSET Servers]
SubT == [st : {"none", "posted", "sent", "failed", "answered"}, conn : Ids]
RunnerT == [pc : {"connect", "opened", "named"}, id : Ids]
LineT == [id : Ids, open : BOOLEAN]
AnswerTodo == {<<"callback", "decrease", "notify">>, <<"decrease", "notify">>, <<"notify">>}
TimeoutTodo == {<<"decrease", "notify", "callback">>, <<"notify", "callback">>, <<"callback">>}
TaskT ==
    [query : Queries, kind : {"answer", "failure"}, todo : AnswerTodo]
        \cup [query : Queries, kind : {"timeout"}, todo : TimeoutTodo]

\* The list names every id once, and every callback that waits is in it.
TableOK(resources, list, S) ==
    /\ list \in Seq(S)
    /\ \A i, j \in DOMAIN list : list[i] = list[j] => i = j
    /\ resources \subseteq ToSet(list)

QueryTypes ==
    /\ asked \subseteq Queries
    /\ answers \in [Queries -> Nat]
    /\ exec \in [Queries -> ExecT]
    /\ sub \in [Subs -> SubT]
    /\ TableOK(callbacks, timers, Subs)

MachineTypes ==
    /\ status \in [Servers -> {"Disconnected", "Connecting", "Connected"}]
    /\ connID \in [Servers -> Ids]
    /\ pending \subseteq Servers
    /\ runner \in [Servers -> SUBSET RunnerT]
    /\ line \in [Servers -> LineT]
    /\ losses \in 0..MaxLosses

ClientTypes ==
    /\ main \in [pc : {"idle", "send", "wait", "waiting"}, query : Queries \cup {NoQuery}, lines : SUBSET Queries]
    /\ packet \in [Queries -> [st : {"none", "made", "posted", "sent", "failed"}, conn : Ids]]
    /\ TableOK(waiting, deadlines, Queries)
    /\ jobs \in 0..(CounterSize - 1)
    /\ tasks \subseteq TaskT
    /\ called \in [Queries -> Nat]
    /\ finished \subseteq Queries
    /\ read \in [Queries -> Nat]

LinkTypes ==
    /\ link \in [id : 1..(MaxLosses + 1), open : BOOLEAN]
    /\ known \in Ids /\ found \in Ids

-----------------------------------------------------------------------------
(* The connections.                                                        *)

\* A task that works on a connection that the server does not yet name.
Fresh(r) == r.pc \in {"connect", "opened"}

\* Every new connection has cost a loss, except the first one.
BudgetOK(id, open, left) == id + left <= MaxLosses + (IF open THEN 1 ELSE 0)

RunnerOK(r, st, id, l) ==
    /\ r.pc = "connect" => r.id = 0 /\ ~l.open
    /\ r.pc = "opened" => r.id = l.id /\ id < l.id
    /\ r.pc = "named" => r.id <= id
    /\ Fresh(r) => st # "Disconnected"

\* One server: its status st, its connection id, whether it is pending, its tasks R, and
\* its last connection l.
MachineOK(st, id, waits, R, l) ==
    /\ id <= l.id
    /\ \A r \in R : RunnerOK(r, st, id, l)
    /\ \A r1, r2 \in R : Fresh(r1) /\ Fresh(r2) => r1 = r2
    /\ l.open => st = "Connected" \/ (st = "Connecting" /\ R # {})
    /\ l.open => id = l.id \/ \E r \in R : r.pc = "opened"
    /\ l.id > 0 /\ st = "Disconnected" => waits

MachinesInv ==
    /\ MachineTypes
    /\ \A s \in Servers :
        /\ BudgetOK(line[s].id, line[s].open, losses)
        /\ MachineOK(status[s], connID[s], s \in pending, runner[s], line[s])

LinkInv ==
    /\ LinkTypes
    /\ BudgetOK(link.id, link.open, losses)
    /\ found # 0 => known = 0 /\ found = link.id
    /\ found = 0 /\ known # 0 => known = link.id
    /\ found = 0 /\ known = 0 => ~link.open

ConnectionsInv == MachinesInv /\ LinkInv

\* A server whose connection was lost in use waits to be tried, or is being tried by tasks
\* none of which has failed.
Retried(st, waits, R) ==
    \/ st = "Disconnected" /\ waits /\ R = {}
    \/ st = "Connecting" /\ R # {} /\ \A r \in R : r.pc = "connect"

RetryInv ==
    /\ givenUp \subseteq Servers
    /\ \A s \in Servers :
        ~line[s].open /\ line[s].id > 0 /\ s \notin givenUp =>
            Retried(status[s], s \in pending, runner[s])

-----------------------------------------------------------------------------
(* One query in the aggregator.                                            *)

\* The counter and the answer, as long as no request has failed: e is the context of the
\* query, n the number of answers.
CountOK(e, n) ==
    /\ e.unfinished = Cardinality(e.targets) - Cardinality(e.heard)
    /\ n = IF e.targets # {} /\ e.heard = e.targets THEN 1 ELSE 0

\* Server s is not asked, or not yet.
Untouched(q, s) ==
    /\ sub[<<q, s>>].st = "none" /\ <<q, s>> \notin ToSet(timers)
    /\ s \notin exec[q].heard

QueryOK(q) ==
    /\ exec[q].pc = "none" => exec[q] = NoExec /\ answers[q] = 0
    /\ q \in asked => packet[q].st = "sent"
    /\ q \in asked \/ packet[q].st # "sent" => exec[q].pc = "none"
    /\ exec[q].todo \subseteq exec[q].targets /\ exec[q].heard \subseteq exec[q].targets
    /\ \A s \in Servers : s \notin exec[q].targets \ exec[q].todo => Untouched(q, s)
    /\ ~SendFailed(q) => /\ CountOK(exec[q], answers[q])
                         /\ \A s \in Servers : <<q, s>> \in callbacks => s \notin exec[q].heard

-----------------------------------------------------------------------------
(* One query in the client.                                                *)

Mine(q) == {t \in tasks : t.query = q}
Has(t, step) == \E i \in DOMAIN t.todo : t.todo[i] = step

\* Who owns the callback: the table, or a task that has it still to run; or it has run.
OwnerOK(T, n, waits) ==
    \/ waits /\ T = {} /\ n = 0
    \/ ~waits /\ n = 0 /\ \E t : T = {t} /\ Has(t, "callback")
    \/ ~waits /\ n = 1 /\ (T = {} \/ \E t : T = {t} /\ ~Has(t, "callback"))

PacketOK(q) ==
    /\ packet[q].st = "none" => q \notin ToSet(deadlines) /\ Mine(q) = {} /\ called[q] = 0
    /\ q \in main.lines => packet[q].st = "none"
    /\ packet[q].st = "made" => main.pc = "send" /\ main.query = q
    /\ packet[q].st \notin {"none", "failed"} => OwnerOK(Mine(q), called[q], q \in waiting)
    /\ read[q] <= answers[q]

MainOK ==
    /\ main.pc # "idle" => main.query \in Queries
    /\ main.pc = "send" => packet[main.query].st = "made"
    /\ main.pc \in {"wait", "waiting"} => packet[main.query].st \in {"posted", "sent", "failed"}

QueriesInv ==
    /\ QueryTypes /\ ClientTypes
    /\ MainOK
    /\ \A q \in Queries : QueryOK(q) /\ PacketOK(q)

-----------------------------------------------------------------------------
(* The count of unfinished queries.                                        *)

Counted == {q \in Queries : packet[q].st \in {"posted", "sent"}}
Decreased == {q \in Queries : /\ packet[q].st # "none" /\ q \notin waiting
                              /\ \A t \in Mine(q) : ~Has(t, "decrease")}

\* The timeout may come before the query is counted: the counter wraps around.
JobsOK(n) == jobs = IF n = -1 THEN CounterSize - 1 ELSE n

JobsInv ==
    ~QueryFailed => JobsOK(Cardinality(Counted) - Cardinality(Decreased))

FinishInv == JobsInv /\ FinishedMeansAnswered

-----------------------------------------------------------------------------
(* Facts about tables, tasks and counters.                                 *)

USE DEF TimeoutSteps, AnswerSteps

LEMMA Constants ==
    /\ IsFiniteSet(Queries) /\ IsFiniteSet(Servers) /\ MaxLosses \in Nat
    /\ CounterSize \in Nat /\ Cardinality(Servers) \in Nat /\ Cardinality(Queries) \in Nat
    /\ CounterSize > Cardinality(Servers) + 1 /\ CounterSize > Cardinality(Queries)
BY ServiceAssumption, FS_CardinalityType DEF ServiceAssumption

LEMMA IdsFact == Ids = 0..(MaxLosses + 1) /\ Ids \subseteq Nat /\ 0 \in Ids
BY Constants DEF Ids

LEMMA TableAdd ==
    ASSUME NEW m, NEW l, NEW S, NEW r, r \in S, TableOK(m, l, S), r \notin ToSet(l)
    PROVE  TableOK(m \cup {r}, Append(l, r), S) /\ ToSet(Append(l, r)) = ToSet(l) \cup {r}
<1> DEFINE a == Append(l, r)
<1>1. l \in Seq(S) BY DEF TableOK
<1>2. /\ a \in Seq(S) /\ Len(a) = Len(l) + 1 /\ Len(l) \in Nat
      /\ \A i \in 1..Len(l) : a[i] = l[i]
      /\ a[Len(l) + 1] = r
  BY <1>1, AppendProperties, LenProperties
<1>3. DOMAIN l = 1..Len(l) /\ DOMAIN a = 1..(Len(l) + 1)
  BY <1>1, <1>2, LenProperties
<1> HIDE DEF a
<1>4. \A i \in 1..Len(l) : l[i] # r
  BY <1>3 DEF ToSet
<1>5. \A i, j \in 1..(Len(l) + 1) : a[i] = a[j] => i = j
  <2> SUFFICES ASSUME NEW i \in 1..(Len(l) + 1), NEW j \in 1..(Len(l) + 1), a[i] = a[j] PROVE i = j
    OBVIOUS
  <2>1. \A k \in 1..(Len(l) + 1) : k \in 1..Len(l) \/ k = Len(l) + 1
    BY <1>2
  <2>2. \A x, y \in 1..Len(l) : l[x] = l[y] => x = y
    BY <1>3 DEF TableOK
  <2> QED BY <2>1, <2>2, <1>2, <1>4
<1>6. ToSet(a) = ToSet(l) \cup {r}
  <2>1. ASSUME NEW x \in ToSet(a) PROVE x \in ToSet(l) \cup {r}
    <3>1. PICK i \in 1..(Len(l) + 1) : x = a[i] BY <1>3 DEF ToSet
    <3>2. i \in 1..Len(l) \/ i = Len(l) + 1 BY <1>2
    <3> QED BY <3>1, <3>2, <1>2, <1>3 DEF ToSet
  <2>2. ASSUME NEW x \in ToSet(l) \cup {r} PROVE x \in ToSet(a)
    <3>1. CASE x = r
      <4>1. Len(l) + 1 \in DOMAIN a BY <1>2, <1>3
      <4> QED BY <4>1, <3>1, <1>2 DEF ToSet
    <3>2. CASE x \in ToSet(l)
      <4>1. PICK i \in 1..Len(l) : x = l[i] BY <3>2, <1>3 DEF ToSet
      <4>2. i \in DOMAIN a /\ a[i] = x BY <4>1, <1>2, <1>3
      <4> QED BY <4>2 DEF ToSet
    <3> QED BY <3>1, <3>2
  <2> QED BY <2>1, <2>2
<1> QED BY <1>2, <1>3, <1>5, <1>6 DEF TableOK, a

LEMMA TableTail ==
    ASSUME NEW m, NEW l, NEW S, TableOK(m, l, S), l # <<>>
    PROVE  /\ TableOK(m \ {Head(l)}, Tail(l), S) /\ ToSet(Tail(l)) = ToSet(l) \ {Head(l)}
           /\ Head(l) \in ToSet(l) /\ Head(l) \in S
<1> DEFINE a == Tail(l)  h == Head(l)
<1>1. l \in Seq(S) BY DEF TableOK
<1>2. /\ a \in Seq(S) /\ Len(a) = Len(l) - 1 /\ Len(l) \in Nat \ {0} /\ h = l[1] /\ h \in S
      /\ \A i \in 1..(Len(l) - 1) : a[i] = l[i + 1]
  BY <1>1, HeadTailProperties, LenProperties, EmptySeq
<1>3. DOMAIN l = 1..Len(l) /\ DOMAIN a = 1..(Len(l) - 1)
  BY <1>1, <1>2, LenProperties
<1> HIDE DEF a, h
<1>4. \A x, y \in 1..Len(l) : l[x] = l[y] => x = y
  BY <1>3 DEF TableOK
<1>5. \A i, j \in 1..(Len(l) - 1) : a[i] = a[j] => i = j
  <2> SUFFICES ASSUME NEW i \in 1..(Len(l) - 1), NEW j \in 1..(Len(l) - 1), a[i] = a[j] PROVE i = j
    OBVIOUS
  <2>1. i + 1 \in 1..Len(l) /\ j + 1 \in 1..Len(l) BY <1>2
  <2>2. i + 1 = j + 1 BY <2>1, <1>2, <1>4
  <2> QED BY <2>2
<1>6. ToSet(a) = ToSet(l) \ {h}
  <2>1. ASSUME NEW x \in ToSet(a) PROVE x \in ToSet(l) \ {h}
    <3>1. PICK i \in 1..(Len(l) - 1) : x = a[i] BY <1>3 DEF ToSet
    <3>2. i + 1 \in 1..Len(l) /\ i + 1 # 1 /\ 1 \in 1..Len(l) BY <1>2
    <3>3. x = l[i + 1] BY <3>1, <1>2
    <3>4. x # h BY <3>2, <3>3, <1>2, <1>4
    <3> QED BY <3>2, <3>3, <3>4, <1>3 DEF ToSet
  <2>2. ASSUME NEW x \in ToSet(l) \ {h} PROVE x \in ToSet(a)
    <3>1. PICK i \in 1..Len(l) : x = l[i] BY <1>3 DEF ToSet
    <3>2. i # 1 BY <3>1, <1>2
    <3>3. i - 1 \in 1..(Len(l) - 1) /\ (i - 1) + 1 = i BY <3>2, <1>2
    <3>4. a[i - 1] = x BY <3>1, <3>3, <1>2
    <3> QED BY <3>3, <3>4, <1>3 DEF ToSet
  <2> QED BY <2>1, <2>2
<1>7. h \in ToSet(l)
  <2>1. 1 \in DOMAIN l BY <1>2, <1>3
  <2> QED BY <2>1, <1>2 DEF ToSet
<1>8. m \ {h} \subseteq ToSet(a) BY <1>6 DEF TableOK
<1> QED BY <1>2, <1>3, <1>5, <1>6, <1>7, <1>8 DEF TableOK, a, h

LEMMA TableGet ==
    ASSUME NEW m, NEW l, NEW S, NEW r, TableOK(m, l, S)
    PROVE  TableOK(m \ {r}, l, S)
BY DEF TableOK

LEMMA TableEmpty ==
    ASSUME NEW S
    PROVE  TableOK({}, <<>>, S) /\ ToSet(<<>>) = {}
BY DEF TableOK, ToSet

LEMMA TableTypes ==
    ASSUME NEW m, NEW l, NEW S, TableOK(m, l, S)
    PROVE  m \subseteq ToSet(l) /\ ToSet(l) \subseteq S
<1>1. l \in Seq(S) /\ DOMAIN l = 1..Len(l) BY LenProperties DEF TableOK
<1>2. \A i \in DOMAIN l : l[i] \in S BY <1>1, ElementOfSeq
<1> QED BY <1>2 DEF TableOK, ToSet

\* The steps that a list of at most three steps still has.
LEMMA Steps ==
    ASSUME NEW t
    PROVE  /\ \A a : t.todo = <<a>> =>
                Len(t.todo) = 1 /\ Head(t.todo) = a /\ \A x : Has(t, x) <=> x = a
           /\ \A a, b : t.todo = <<a, b>> =>
                /\ Len(t.todo) = 2 /\ Head(t.todo) = a /\ Tail(t.todo) = <<b>>
                /\ \A x : Has(t, x) <=> x \in {a, b}
           /\ \A a, b, c : t.todo = <<a, b, c>> =>
                /\ Len(t.todo) = 3 /\ Head(t.todo) = a /\ Tail(t.todo) = <<b, c>>
                /\ \A x : Has(t, x) <=> x \in {a, b, c}
<1>1. ASSUME NEW a, t.todo = <<a>>
      PROVE  Len(t.todo) = 1 /\ Head(t.todo) = a /\ \A x : Has(t, x) <=> x = a
  <2>1. DOMAIN t.todo = {1} BY <1>1
  <2> QED BY <1>1, <2>1 DEF Has
<1>2. ASSUME NEW a, NEW b, t.todo = <<a, b>>
      PROVE  /\ Len(t.todo) = 2 /\ Head(t.todo) = a /\ Tail(t.todo) = <<b>>
             /\ \A x : Has(t, x) <=> x \in {a, b}
  <2>1. DOMAIN t.todo = {1, 2} BY <1>2
  <2> QED BY <1>2, <2>1 DEF Has
<1>3. ASSUME NEW a, NEW b, NEW c, t.todo = <<a, b, c>>
      PROVE  /\ Len(t.todo) = 3 /\ Head(t.todo) = a /\ Tail(t.todo) = <<b, c>>
             /\ \A x : Has(t, x) <=> x \in {a, b, c}
  <2>1. DOMAIN t.todo = {1, 2, 3} BY <1>3
  <2> QED BY <1>3, <2>1 DEF Has
<1> QED BY <1>1, <1>2, <1>3

Rest(t) == [t EXCEPT !.todo = Tail(@)]

\* What a task has still to do when its next step is done.
LEMMA TaskSteps ==
    ASSUME NEW t \in TaskT
    PROVE  /\ t.query \in Queries
           /\ Has(t, Head(t.todo))
           /\ Len(t.todo) = 1 => \A x : Has(t, x) <=> x = Head(t.todo)
           /\ Len(t.todo) # 1 => /\ Rest(t) \in TaskT /\ Rest(t).query = t.query /\ Rest(t).kind = t.kind
                                 /\ \A x : Has(Rest(t), x) <=> Has(t, x) /\ x # Head(t.todo)
           /\ t.kind # "timeout" /\ Has(t, "callback") => Has(t, "decrease")
           /\ t.todo # <<>>
<1>1. /\ t.query \in Queries
      /\ \/ t.kind \in {"answer", "failure"} /\ t.todo \in AnswerTodo
         \/ t.kind = "timeout" /\ t.todo \in TimeoutTodo
      /\ \A d : [t EXCEPT !.todo = d] = [query |-> t.query, kind |-> t.kind, todo |-> d]
  BY DEF TaskT
<1>2. Rest(t) = [query |-> t.query, kind |-> t.kind, todo |-> Tail(t.todo)]
  BY <1>1 DEF Rest
<1>3. Rest(t).todo = Tail(t.todo) /\ Rest(t).query = t.query /\ Rest(t).kind = t.kind
  BY <1>2
<1>4. ASSUME NEW a, NEW b, t.todo = <<a, b>>, a # b
      PROVE  /\ Has(t, a) /\ Len(t.todo) = 2 /\ Head(t.todo) = a /\ Rest(t).todo = <<b>>
             /\ \A x : Has(t, x) <=> x \in {a, b}
             /\ \A x : Has(Rest(t), x) <=> x \in {a, b} /\ x # a
  <2>1. Rest(t).todo = <<b>> BY <1>3, <1>4
  <2>2. \A x : Has(Rest(t), x) <=> x = b BY <2>1, Steps
  <2>3. /\ Len(t.todo) = 2 /\ Head(t.todo) = a
        /\ \A x : Has(t, x) <=> x \in {a, b}
    BY <1>4, Steps
  <2> QED BY <1>4, <2>1, <2>2, <2>3
<1>5. ASSUME NEW a, NEW b, NEW c, t.todo = <<a, b, c>>, a # b, a # c
      PROVE  /\ Has(t, a) /\ Len(t.todo) = 3 /\ Head(t.todo) = a /\ Rest(t).todo = <<b, c>>
             /\ \A x : Has(t, x) <=> x \in {a, b, c}
             /\ \A x : Has(Rest(t), x) <=> x \in {a, b, c} /\ x # a
  <2>1. Rest(t).todo = <<b, c>> BY <1>3, <1>5
  <2>2. \A x : Has(Rest(t), x) <=> x \in {b, c} BY <2>1, Steps
  <2>3. /\ Len(t.todo) = 3 /\ Head(t.todo) = a
        /\ \A x : Has(t, x) <=> x \in {a, b, c}
    BY <1>5, Steps
  <2> QED BY <1>5, <2>1, <2>2, <2>3
<1>6. CASE t.kind \in {"answer", "failure"} /\ t.todo = <<"callback", "decrease", "notify">>
  <2>1. Rest(t).todo = <<"decrease", "notify">> BY <1>6, <1>5
  <2>2. Rest(t) \in TaskT BY <1>6, <2>1, <1>1, <1>2, <1>3 DEF TaskT, AnswerTodo
  <2> QED BY <1>6, <2>2, <1>1, <1>3, <1>5
<1>7. CASE t.kind \in {"answer", "failure"} /\ t.todo = <<"decrease", "notify">>
  <2>1. Rest(t).todo = <<"notify">> BY <1>7, <1>4
  <2>2. Rest(t) \in TaskT BY <1>7, <2>1, <1>1, <1>2, <1>3 DEF TaskT, AnswerTodo
  <2> QED BY <1>7, <2>2, <1>1, <1>3, <1>4
<1>8. CASE t.kind \in {"answer", "failure"} /\ t.todo = <<"notify">>
  BY <1>8, <1>1, Steps
<1>9. CASE t.kind = "timeout" /\ t.todo = <<"decrease", "notify", "callback">>
  <2>1. Rest(t).todo = <<"notify", "callback">> BY <1>9, <1>5
  <2>2. Rest(t) \in TaskT BY <1>9, <2>1, <1>1, <1>2, <1>3 DEF TaskT, TimeoutTodo
  <2> QED BY <1>9, <2>2, <1>1, <1>3, <1>5
<1>10. CASE t.kind = "timeout" /\ t.todo = <<"notify", "callback">>
  <2>1. Rest(t).todo = <<"callback">> BY <1>10, <1>4
  <2>2. Rest(t) \in TaskT BY <1>10, <2>1, <1>1, <1>2, <1>3 DEF TaskT, TimeoutTodo
  <2> QED BY <1>10, <2>2, <1>1, <1>3, <1>4
<1>11. CASE t.kind = "timeout" /\ t.todo = <<"callback">>
  BY <1>11, <1>1, Steps
<1> QED BY <1>1, <1>6, <1>7, <1>8, <1>9, <1>10, <1>11 DEF AnswerTodo, TimeoutTodo

\* A task that begins has its callback and its decrease still to do.
LEMMA NewTask ==
    ASSUME NEW q \in Queries, NEW k \in {"answer", "failure", "timeout"}
    PROVE  /\ Task(q, k) \in TaskT /\ Task(q, k).query = q
           /\ Has(Task(q, k), "callback") /\ Has(Task(q, k), "decrease")
<1>1. CASE k = "timeout"
  <2>1. Task(q, k) = [query |-> q, kind |-> k, todo |-> <<"decrease", "notify", "callback">>] BY <1>1 DEF Task
  <2>2. Task(q, k).todo = <<"decrease", "notify", "callback">> BY <2>1
  <2> QED BY <1>1, <2>1, <2>2, Steps DEF TaskT, TimeoutTodo
<1>2. CASE k # "timeout"
  <2>1. Task(q, k) = [query |-> q, kind |-> k, todo |-> <<"callback", "decrease", "notify">>] BY <1>2 DEF Task
  <2>2. Task(q, k).todo = <<"callback", "decrease", "notify">> BY <2>1
  <2> QED BY <1>2, <2>1, <2>2, Steps DEF TaskT, AnswerTodo
<1> QED BY <1>1, <1>2

\* The counters wrap around below 0 and at their size.
LEMMA Wrap ==
    ASSUME NEW n \in 0..(CounterSize - 1)
    PROVE  /\ (n - 1) % CounterSize = IF n = 0 THEN CounterSize - 1 ELSE n - 1
           /\ (n + 1) % CounterSize = IF n = CounterSize - 1 THEN 0 ELSE n + 1
           /\ (n - 1) % CounterSize \in 0..(CounterSize - 1)
           /\ (n + 1) % CounterSize \in 0..(CounterSize - 1)
BY Constants

\* One more element of T is heard of.
LEMMA OneMore ==
    ASSUME NEW T \in SUBSET Servers, NEW H \in SUBSET T, NEW s \in T \ H
    PROVE  /\ Cardinality(T) \in Nat /\ Cardinality(H) \in Nat /\ Cardinality(T) <= Cardinality(Servers)
           /\ Cardinality(H \cup {s}) = Cardinality(H) + 1
           /\ Cardinality(H) + 1 <= Cardinality(T)
           /\ Cardinality(H) + 1 = Cardinality(T) <=> H \cup {s} = T
<1>1. IsFiniteSet(T) /\ Cardinality(T) <= Cardinality(Servers) BY Constants, FS_Subset
<1>2. IsFiniteSet(H) /\ IsFiniteSet(H \cup {s}) BY <1>1, FS_Subset, FS_AddElement
<1>3. Cardinality(H \cup {s}) = Cardinality(H) + 1 BY <1>2, FS_AddElement
<1>4. Cardinality(H \cup {s}) <= Cardinality(T) /\ (Cardinality(T) = Cardinality(H \cup {s}) => T = H \cup {s})
  BY <1>1, FS_Subset
<1> QED BY <1>1, <1>2, <1>3, <1>4, FS_CardinalityType

-----------------------------------------------------------------------------
(* The connections: MachinesInv and LinkInv are inductive.                 *)

connections == <<status, connID, pending, runner, line, givenUp, losses, link, known, found>>

LEMMA ConnectionsInit == Init => ConnectionsInv
<1> SUFFICES ASSUME Init PROVE ConnectionsInv
  OBVIOUS
<1>1. PICK c \in Setups : AggregatorInit(c.servers, c.losses) /\ ClientInit(c.lines)
  BY DEF Init
<1>2. c.servers \subseteq Servers /\ c.losses \in 0..MaxLosses
  BY SetupsAssumption DEF SetupsAssumption
<1>3. MachineTypes /\ LinkTypes
  BY <1>1, <1>2, Constants, IdsFact DEF AggregatorInit, ClientInit, MachineTypes, LinkTypes, LineT
<1>4. BudgetOK(link.id, link.open, losses) /\ known = 1 /\ known = link.id /\ found = 0
  BY <1>1, <1>2, Constants DEF AggregatorInit, ClientInit, BudgetOK
<1>5. ASSUME NEW s \in Servers
      PROVE  /\ BudgetOK(line[s].id, line[s].open, losses)
             /\ MachineOK(status[s], connID[s], s \in pending, runner[s], line[s])
  BY <1>1, <1>2, Constants DEF AggregatorInit, BudgetOK, MachineOK
<1> QED BY <1>3, <1>4, <1>5 DEF ConnectionsInv, MachinesInv, LinkInv

LEMMA ConnectionsSteps ==
    ASSUME Next
    PROVE  \/ UNCHANGED connections
           \/ ConnectToPendingServers /\ UNCHANGED client
           \/ \E s \in Servers : /\ \/ Connect(s) \/ ConnectFails(s) \/ SetConnectionID(s)
                                    \/ SetConnected(s) \/ ConnectionFails(s)
                                 /\ UNCHANGED client
           \/ LinkFails \/ Reconnect \/ SetLink
<1> USE DEF connections, machines, execution, aggregator, client
<1>1. CASE AggregatorRuns /\ UNCHANGED client
  <2>1. CASE \E q \in Queries : SearchRequest(q) BY <1>1, <2>1 DEF SearchRequest
  <2>2. ASSUME NEW q \in Queries, NEW s \in Servers, SendRequest(q, s) \/ Write(q, s) \/ WriteFails(q, s)
        PROVE  UNCHANGED connections
    BY <1>1, <2>2 DEF SendRequest, Write, WriteFails
  <2>3. ASSUME NEW q \in Queries, NEW s \in Servers, TimeoutCallback(q, s)
        PROVE  UNCHANGED connections
    BY <1>1, <2>3 DEF TimeoutCallback
  <2> QED BY <1>1, <2>1, <2>2, <2>3 DEF AggregatorRuns
<1>2. CASE ServersAct /\ UNCHANGED client
  <2>1. ASSUME NEW q \in Queries, NEW s \in Servers, SearchResponse(q, s)
        PROVE  UNCHANGED connections
    BY <1>2, <2>1 DEF SearchResponse
  <2> QED BY <1>2, <2>1 DEF ServersAct
<1>3. CASE ClientRuns
  <2>1. CASE PostPacket \/ WaitAllFinished BY <2>1 DEF PostPacket, WaitAllFinished
  <2>2. ASSUME NEW q \in Queries, WriteQuery(q) \/ WriteQueryFails(q) \/ ClientTimeout(q)
        PROVE  UNCHANGED connections
    BY <2>2 DEF WriteQuery, WriteQueryFails, ClientTimeout
  <2>3. ASSUME NEW t \in tasks, RunCallback(t) \/ Decrease(t) \/ Notify(t)
        PROVE  UNCHANGED connections
    BY <2>3 DEF RunCallback, Decrease, Notify
  <2> QED BY <1>3, <2>1, <2>2, <2>3 DEF ClientRuns
<1>4. CASE ClientMeets
  <2>1. ASSUME NEW q \in Queries, SendQueryAsync(q) \/ ClientSearchResponse(q)
        PROVE  UNCHANGED connections
    BY <2>1 DEF SendQueryAsync, ClientSearchResponse
  <2>2. CASE SpuriousWakeup BY <2>2 DEF SpuriousWakeup
  <2> QED BY <1>4, <2>1, <2>2 DEF ClientMeets
<1> QED BY <1>1, <1>2, <1>3, <1>4 DEF Next, AggregatorStep

\* A server whose own variables do not change, when connections of others are lost.
LEMMA OtherMachine ==
    ASSUME NEW id \in Nat, NEW open \in BOOLEAN, NEW n \in Nat, NEW k \in Nat, k <= n,
           BudgetOK(id, open, n)
    PROVE  BudgetOK(id, open, k)
BY Constants DEF BudgetOK

LEMMA PendingStep ==
    ASSUME MachinesInv, ConnectToPendingServers
    PROVE  MachinesInv'
<1> USE DEF ConnectToPendingServers, MachinesInv, MachineTypes
<1>1. MachineTypes'
  <2>1. \A s \in Servers : runner[s] \cup {[pc |-> "connect", id |-> 0]} \subseteq RunnerT
    BY IdsFact DEF RunnerT
  <2> QED BY <2>1
<1>2. ASSUME NEW s \in Servers
      PROVE  /\ BudgetOK(line[s].id, line[s].open, losses)'
             /\ MachineOK(status[s], connID[s], s \in pending, runner[s], line[s])'
  <2>1. BudgetOK(line[s].id, line[s].open, losses)'
    OBVIOUS
  <2>2. CASE Connectable(s)
    <3>1. status[s] = "Disconnected" /\ s \in pending BY <2>2 DEF Connectable
    <3>2. /\ status'[s] = "Connecting" /\ connID'[s] = connID[s] /\ line'[s] = line[s]
          /\ runner'[s] = runner[s] \cup {[pc |-> "connect", id |-> 0]}
      BY <2>2
    <3>3. ~line[s].open BY <3>1 DEF MachineOK
    <3>4. \A r \in runner[s] : ~Fresh(r) BY <3>1 DEF MachineOK, RunnerOK
    <3>5. \A r \in runner'[s] : RunnerOK(r, "Connecting", connID[s], line[s])
      BY <3>2, <3>3, <3>4 DEF MachineOK, RunnerOK, Fresh
    <3>6. \A r1, r2 \in runner'[s] : Fresh(r1) /\ Fresh(r2) => r1 = r2
      BY <3>2, <3>4
    <3>7. MachineOK("Connecting", connID[s], s \in pending', runner'[s], line[s])
      BY <3>3, <3>5, <3>6 DEF MachineOK
    <3> QED BY <2>1, <3>2, <3>7
  <2>3. CASE ~Connectable(s)
    <3>1. status'[s] = status[s] /\ connID'[s] = connID[s] /\ line'[s] = line[s] /\ runner'[s] = runner[s]
      BY <2>3
    <3>2. line[s].id > 0 => status[s] # "Disconnected" BY <2>3 DEF Connectable, MachineOK
    <3> QED BY <2>1, <3>1, <3>2 DEF MachineOK
  <2> QED BY <2>2, <2>3
<1> QED BY <1>1, <1>2

LEMMA ConnectStep ==
    ASSUME MachinesInv, NEW s \in Servers, Connect(s)
    PROVE  MachinesInv'
<1> USE DEF MachinesInv, MachineTypes
<1>1. PICK r \in runner[s] :
        /\ r.pc = "connect"
        /\ line' = [line EXCEPT ![s] = [id |-> line[s].id + 1, open |-> TRUE]]
        /\ runner' = [runner EXCEPT ![s] = (runner[s] \ {r}) \cup {[pc |-> "opened", id |-> line[s].id + 1]}]
        /\ UNCHANGED <<status, connID, pending, losses>>
  BY DEF Connect, machines
<1> DEFINE l == [id |-> line[s].id + 1, open |-> TRUE]
           o == [pc |-> "opened", id |-> line[s].id + 1]
<1>2. /\ line'[s] = l /\ runner'[s] = (runner[s] \ {r}) \cup {o}
      /\ status'[s] = status[s] /\ connID'[s] = connID[s] /\ losses' = losses /\ pending' = pending
      /\ \A x \in Servers \ {s} : line'[x] = line[x] /\ runner'[x] = runner[x]
  BY <1>1
<1>3. /\ RunnerOK(r, status[s], connID[s], line[s]) /\ connID[s] <= line[s].id
      /\ BudgetOK(line[s].id, line[s].open, losses)
      /\ line[s].id \in Nat /\ line[s].open \in BOOLEAN /\ connID[s] \in Nat /\ losses \in Nat
  BY IdsFact DEF MachineOK, LineT
<1>4. ~line[s].open /\ status[s] # "Disconnected" BY <1>1, <1>3 DEF RunnerOK, Fresh
<1>5. line[s].id + 1 \in Ids /\ line[s].id + 1 \in Nat /\ BudgetOK(line[s].id + 1, TRUE, losses)
  BY <1>3, <1>4, IdsFact, Constants DEF BudgetOK
<1>6. MachineTypes'
  <2>1. l \in LineT /\ o \in RunnerT BY <1>5 DEF LineT, RunnerT
  <2> QED BY <2>1, <1>1
<1>7. MachineOK(status[s], connID[s], s \in pending, (runner[s] \ {r}) \cup {o}, l)
  <2> USE <1>3, <1>4
  <2>1. connID[s] < l.id /\ connID[s] <= l.id /\ l.open /\ l.id = o.id BY <1>5
  <2>2. \A x \in runner[s] \ {r} : ~Fresh(x) /\ x.pc \in {"connect", "opened", "named"} BY <1>1 DEF MachineOK, Fresh, RunnerT
  <2>3. \A x \in (runner[s] \ {r}) \cup {o} : RunnerOK(x, status[s], connID[s], l)
    BY <2>1, <2>2 DEF MachineOK, RunnerOK, Fresh
  <2>4. \A r1, r2 \in (runner[s] \ {r}) \cup {o} : Fresh(r1) /\ Fresh(r2) => r1 = r2
    BY <2>2
  <2>5. status[s] \in {"Connecting", "Connected"} BY <1>4
  <2>6. o \in (runner[s] \ {r}) \cup {o} /\ o.pc = "opened" OBVIOUS
  <2> HIDE DEF l, o
  <2>7. (runner[s] \ {r}) \cup {o} # {} /\ \E x \in (runner[s] \ {r}) \cup {o} : x.pc = "opened"
    BY <2>6
  <2> QED BY <2>1, <2>3, <2>4, <2>5, <2>7 DEF MachineOK
<1> QED
  <2>1. \A x \in Servers : /\ BudgetOK(line[x].id, line[x].open, losses)'
                           /\ MachineOK(status[x], connID[x], x \in pending, runner[x], line[x])'
    BY <1>2, <1>5, <1>7, <1>1
  <2> QED BY <2>1, <1>6

LEMMA ConnectFailsStep ==
    ASSUME MachinesInv, NEW s \in Servers, ConnectFails(s)
    PROVE  MachinesInv' /\ losses' \in Nat /\ losses' <= losses
<1> USE DEF MachinesInv, MachineTypes
<1>1. PICK r \in runner[s] :
        /\ r.pc = "connect" /\ losses > 0 /\ losses' = losses - 1
        /\ runner' = [runner EXCEPT ![s] = runner[s] \ {r}]
        /\ pending' \in {pending, pending \cup {s}}
        /\ UNCHANGED <<status, connID, line>>
  BY DEF ConnectFails
<1>2. losses \in Nat /\ losses' \in Nat /\ losses' <= losses /\ losses' \in 0..MaxLosses
  BY <1>1, Constants
<1>3. MachineTypes' BY <1>1, <1>2
<1>4. \A x \in Servers : BudgetOK(line[x].id, line[x].open, losses)'
  <2>1. \A x \in Servers : line[x].id \in Nat /\ line[x].open \in BOOLEAN BY IdsFact DEF LineT
  <2> QED BY <1>1, <1>2, <2>1, OtherMachine
<1>5. MachineOK(status[s], connID[s], s \in pending', runner[s] \ {r}, line[s])
  <2>1. RunnerOK(r, status[s], connID[s], line[s]) BY DEF MachineOK
  <2>2. ~line[s].open /\ status[s] # "Disconnected" BY <1>1, <2>1 DEF RunnerOK, Fresh
  <2> QED BY <2>2 DEF MachineOK
<1>6. ASSUME NEW x \in Servers \ {s}
      PROVE  MachineOK(status[x], connID[x], x \in pending', runner[x], line[x])
  <2>1. x \in pending' <=> x \in pending BY <1>1
  <2> QED BY <2>1 DEF MachineOK
<1>7. \A x \in Servers : MachineOK(status[x], connID[x], x \in pending, runner[x], line[x])'
  BY <1>1, <1>5, <1>6
<1> QED BY <1>2, <1>3, <1>4, <1>7

LEMMA SetIDStep ==
    ASSUME MachinesInv, NEW s \in Servers, SetConnectionID(s)
    PROVE  MachinesInv' /\ UNCHANGED losses
<1> USE DEF MachinesInv, MachineTypes
<1>1. PICK r \in runner[s] :
        /\ r.pc = "opened"
        /\ connID' = [connID EXCEPT ![s] = r.id]
        /\ runner' = [runner EXCEPT ![s] = (runner[s] \ {r}) \cup {[r EXCEPT !.pc = "named"]}]
        /\ UNCHANGED <<status, pending, line, losses>>
  BY DEF SetConnectionID
<1> DEFINE n == [pc |-> "named", id |-> r.id]
<1>2. r \in RunnerT /\ [r EXCEPT !.pc = "named"] = n /\ n \in RunnerT /\ r.id \in Ids
  BY DEF RunnerT
<1>3. MachineTypes' BY <1>1, <1>2
<1>4. RunnerOK(r, status[s], connID[s], line[s]) BY DEF MachineOK
<1>5. r.id = line[s].id /\ connID[s] < r.id /\ status[s] # "Disconnected" BY <1>1, <1>4 DEF RunnerOK, Fresh
<1>6. MachineOK(status[s], r.id, s \in pending, (runner[s] \ {r}) \cup {n}, line[s])
  <2>1. \A x \in runner[s] \ {r} : x.pc = "named" /\ RunnerOK(x, status[s], connID[s], line[s]) /\ x.id \in Ids
    BY <1>1 DEF MachineOK, RunnerT, Fresh
  <2>2. n.pc = "named" /\ n.id = r.id /\ n \in (runner[s] \ {r}) \cup {n} OBVIOUS
  <2> HIDE DEF n
  <2>3. connID[s] \in Nat /\ r.id \in Nat /\ \A x \in runner[s] \ {r} : x.id \in Nat BY <1>2, <2>1, IdsFact
  <2>4. \A x \in runner[s] \ {r} : x.id <= r.id BY <2>1, <2>3, <1>5 DEF RunnerOK
  <2>5. \A x \in (runner[s] \ {r}) \cup {n} : x.pc = "named" /\ x.id <= r.id BY <2>1, <2>2, <2>3, <2>4
  <2>6. \A x \in (runner[s] \ {r}) \cup {n} : RunnerOK(x, status[s], r.id, line[s]) /\ ~Fresh(x)
    BY <2>5 DEF RunnerOK, Fresh
  <2>7. status[s] \in {"Connecting", "Connected"} BY <1>5
  <2>8. (runner[s] \ {r}) \cup {n} # {} BY <2>2
  <2>9. r.id <= line[s].id BY <2>3, <1>5
  <2> QED BY <2>6, <2>7, <2>8, <2>9, <1>5 DEF MachineOK
<1>7. \A x \in Servers : MachineOK(status[x], connID[x], x \in pending, runner[x], line[x])'
  BY <1>1, <1>2, <1>6
<1> QED BY <1>1, <1>3, <1>7

LEMMA SetConnectedStep ==
    ASSUME MachinesInv, NEW s \in Servers, SetConnected(s)
    PROVE  MachinesInv' /\ UNCHANGED losses
<1> USE DEF MachinesInv, MachineTypes
<1>1. PICK r \in runner[s] :
        /\ r.pc = "named"
        /\ status' = [status EXCEPT ![s] = "Connected"]
        /\ runner' = [runner EXCEPT ![s] = runner[s] \ {r}]
        /\ UNCHANGED <<connID, pending, line, losses>>
  BY DEF SetConnected
<1>2. MachineTypes' BY <1>1
<1>3. MachineOK("Connected", connID[s], s \in pending, runner[s] \ {r}, line[s])
  <2>1. \A x \in runner[s] \ {r} : RunnerOK(x, "Connected", connID[s], line[s])
    BY DEF MachineOK, RunnerOK
  <2>2. r.pc # "opened" BY <1>1
  <2> QED BY <2>1, <2>2 DEF MachineOK
<1>4. \A x \in Servers : MachineOK(status[x], connID[x], x \in pending, runner[x], line[x])'
  BY <1>1, <1>3
<1> QED BY <1>1, <1>2, <1>4

LEMMA ClosedLine ==
    ASSUME NEW A, NEW B, NEW x \in [id : A, open : B], NEW v
    PROVE  [x EXCEPT !.open = v] = [id |-> x.id, open |-> v]
OBVIOUS

LEMMA ConnectionFailsStep ==
    ASSUME MachinesInv, NEW s \in Servers, ConnectionFails(s)
    PROVE  MachinesInv' /\ losses' \in Nat /\ losses' <= losses
<1> USE DEF MachinesInv, MachineTypes
<1> DEFINE l == [id |-> line[s].id, open |-> FALSE]
<1>1. /\ line[s].open /\ losses > 0 /\ losses' = losses - 1
      /\ UNCHANGED <<connID, runner>>
      /\ line' = [line EXCEPT ![s].open = FALSE]
  BY DEF ConnectionFails
<1>2. /\ line[s] \in LineT /\ [line[s] EXCEPT !.open = FALSE] = l
      /\ l \in LineT /\ line[s].id \in Nat /\ line[s].open = TRUE /\ line[s].id \in Ids
  <2>1. line[s] \in LineT OBVIOUS
  <2>2. line[s].id \in Ids /\ line[s].open \in BOOLEAN BY <2>1 DEF LineT
  <2>3. [line[s] EXCEPT !.open = FALSE] = l BY <2>1, ClosedLine DEF LineT
  <2>4. l \in LineT BY <2>2 DEF LineT
  <2> QED BY <1>1, <2>1, <2>2, <2>3, <2>4, IdsFact
<1>3. line' = [line EXCEPT ![s] = l]
  BY <1>1, <1>2
<1>4. losses \in Nat /\ losses' \in Nat /\ losses' <= losses /\ losses' \in 0..MaxLosses
  BY <1>1, Constants
<1>5. \A x \in Servers : BudgetOK(line[x].id, line[x].open, losses)'
  <2>1. \A x \in Servers : line[x].id \in Nat /\ line[x].open \in BOOLEAN BY IdsFact DEF LineT
  <2>2. BudgetOK(line[s].id, line[s].open, losses) OBVIOUS
  <2>3. BudgetOK(l.id, l.open, losses')
    BY <2>2, <1>1, <1>2, <1>4, Constants DEF BudgetOK
  <2>4. \A x \in Servers \ {s} : BudgetOK(line[x].id, line[x].open, losses')
    BY <1>4, <2>1, OtherMachine
  <2> HIDE DEF l
  <2> QED BY <1>3, <2>3, <2>4
<1>6. /\ connID[s] <= l.id /\ ~l.open /\ l.id = line[s].id
      /\ \A x \in runner[s] : x.pc # "connect"
      /\ \A x \in runner[s] : RunnerOK(x, status[s], connID[s], l)
  BY <1>1, <1>2 DEF MachineOK, RunnerOK
<1> HIDE DEF l
<1>7. CASE IsKnown(s)
  <2>1. status' = [status EXCEPT ![s] = "Disconnected"] /\ pending' = pending \cup {s}
    BY <1>7 DEF ConnectionFails
  <2>2. MachineTypes' BY <2>1, <1>1, <1>2, <1>3, <1>4
  <2>3. connID[s] = line[s].id BY <1>7 DEF IsKnown
  <2>4. \A x \in runner[s] : ~Fresh(x)
    <3>1. connID[s] \in Nat BY IdsFact
    <3>2. ~(connID[s] < l.id) BY <3>1, <2>3, <1>6
    <3> QED BY <3>2, <1>6 DEF RunnerOK, Fresh
  <2>5. \A x \in runner[s] : RunnerOK(x, "Disconnected", connID[s], l)
    BY <1>6, <2>4 DEF RunnerOK
  <2>6. s \in pending' BY <2>1
  <2>7. MachineOK("Disconnected", connID[s], s \in pending', runner[s], l)
    BY <1>6, <2>4, <2>5, <2>6 DEF MachineOK
  <2>8. ASSUME NEW x \in Servers \ {s}
        PROVE  MachineOK(status[x], connID[x], x \in pending', runner[x], line[x])
    BY <2>1 DEF MachineOK
  <2>9. \A x \in Servers : MachineOK(status[x], connID[x], x \in pending, runner[x], line[x])'
    BY <2>1, <2>7, <2>8, <1>1, <1>3
  <2> QED BY <2>2, <2>9, <1>4, <1>5
<1>8. CASE ~IsKnown(s)
  <2>1. UNCHANGED <<status, pending>> BY <1>8 DEF ConnectionFails
  <2>2. MachineTypes' BY <2>1, <1>1, <1>2, <1>3, <1>4
  <2>3. status[s] # "Disconnected" BY <1>1 DEF MachineOK
  <2>4. MachineOK(status[s], connID[s], s \in pending, runner[s], l)
    BY <1>6, <2>3 DEF MachineOK
  <2>5. \A x \in Servers : MachineOK(status[x], connID[x], x \in pending, runner[x], line[x])'
    BY <2>1, <2>4, <1>1, <1>3
  <2> QED BY <2>2, <2>5, <1>4, <1>5
<1> QED BY <1>7, <1>8

LEMMA ConnectionsNext ==
    ASSUME ConnectionsInv, [Next]_vars
    PROVE  ConnectionsInv'
<1>1. LinkInv /\ MachinesInv BY DEF ConnectionsInv
<1>2. losses \in Nat /\ link.id \in Nat /\ link.open \in BOOLEAN
  BY <1>1, Constants DEF LinkInv, LinkTypes, MachinesInv, MachineTypes
<1>3. ASSUME UNCHANGED client, losses' \in Nat, losses' <= losses
      PROVE  LinkInv'
  <2>1. BudgetOK(link.id, link.open, losses') BY <1>1, <1>2, <1>3, OtherMachine DEF LinkInv
  <2> QED BY <1>1, <1>3, <2>1 DEF LinkInv, LinkTypes, client
<1>4. CASE UNCHANGED connections
  BY <1>1, <1>4 DEF connections, ConnectionsInv, LinkInv, LinkTypes, MachinesInv, MachineTypes
<1>5. CASE ConnectToPendingServers /\ UNCHANGED client
  <2>1. UNCHANGED losses BY <1>5 DEF ConnectToPendingServers
  <2> QED BY <1>1, <1>2, <1>3, <1>5, <2>1, PendingStep DEF ConnectionsInv
<1>6. ASSUME NEW s \in Servers, UNCHANGED client,
             \/ Connect(s) \/ ConnectFails(s) \/ SetConnectionID(s) \/ SetConnected(s) \/ ConnectionFails(s)
      PROVE  ConnectionsInv'
  <2>1. Connect(s) => UNCHANGED losses BY DEF Connect
  <2>2. MachinesInv' /\ losses' \in Nat /\ losses' <= losses
    BY <1>1, <1>2, <1>6, <2>1, ConnectStep, ConnectFailsStep, SetIDStep, SetConnectedStep, ConnectionFailsStep
  <2> QED BY <1>3, <1>6, <2>2 DEF ConnectionsInv
<1>7. CASE LinkFails
  <2>1. /\ link.open /\ losses > 0 /\ losses' = losses - 1
        /\ link' = [link EXCEPT !.open = FALSE]
        /\ known' = IF known = link.id THEN 0 ELSE known
        /\ found' = found
        /\ UNCHANGED <<status, connID, pending, runner, line>>
    BY <1>7 DEF LinkFails, machines
  <2>2. losses' \in Nat /\ losses' <= losses /\ losses' \in 0..MaxLosses
    BY <2>1, <1>1, <1>2, Constants DEF MachinesInv, MachineTypes
  <2>3. MachinesInv'
    <3>1. \A x \in Servers : line[x].id \in Nat /\ line[x].open \in BOOLEAN
      BY <1>1, IdsFact DEF LineT, MachinesInv, MachineTypes
    <3>2. \A x \in Servers : BudgetOK(line[x].id, line[x].open, losses')
      BY <1>1, <1>2, <2>2, <3>1, OtherMachine DEF MachinesInv
    <3>3. MachineTypes' BY <1>1, <2>1, <2>2 DEF MachinesInv, MachineTypes
    <3> QED BY <1>1, <2>1, <3>2, <3>3 DEF MachinesInv
  <2>4. link.id \in 1..(MaxLosses + 1) /\ link' = [id |-> link.id, open |-> FALSE] /\ link.open = TRUE
    BY <1>1, <2>1 DEF LinkInv, LinkTypes
  <2>5. LinkTypes' BY <1>1, <2>1, <2>4, IdsFact DEF LinkInv, LinkTypes
  <2>6. BudgetOK(link'.id, link'.open, losses')
    <3>1. BudgetOK(link.id, link.open, losses) BY <1>1 DEF LinkInv
    <3>2. link'.id = link.id /\ link'.open = FALSE BY <2>4
    <3> QED BY <1>2, <2>1, <2>4, <3>1, <3>2, Constants DEF BudgetOK
  <2>7. link'.id = link.id /\ ~link'.open BY <2>4
  <2>8. LinkInv' BY <1>1, <2>1, <2>5, <2>6, <2>7 DEF LinkInv
  <2> QED BY <2>3, <2>8 DEF ConnectionsInv
<1>8. CASE Reconnect
  <2>1. /\ known = 0 /\ found = 0 /\ found' = link.id + 1 /\ known' = known /\ losses' = losses
        /\ link' = [id |-> link.id + 1, open |-> TRUE]
        /\ UNCHANGED <<status, connID, pending, runner, line>>
    BY <1>8 DEF Reconnect, aggregator
  <2>2. MachinesInv' BY <1>1, <2>1 DEF MachinesInv, MachineTypes
  <2>3. ~link.open /\ BudgetOK(link.id, link.open, losses) /\ link.id \in 1..(MaxLosses + 1)
    BY <1>1, <2>1 DEF LinkInv, LinkTypes
  <2>4. link.id + 1 \in 1..(MaxLosses + 1) /\ link.id + 1 \in Ids /\ BudgetOK(link.id + 1, TRUE, losses)
    BY <1>2, <2>3, IdsFact, Constants DEF BudgetOK
  <2>5. link'.id = link.id + 1 /\ link'.open = TRUE BY <2>1
  <2>6. LinkTypes' BY <2>1, <2>4, IdsFact DEF LinkTypes
  <2>7. BudgetOK(link.id, link.open, losses)' BY <2>1, <2>4, <2>5
  <2>8. found' = link'.id /\ found' # 0 /\ known' = 0 BY <1>2, <2>1, <2>5
  <2>9. LinkInv' BY <2>6, <2>7, <2>8 DEF LinkInv
  <2> QED BY <2>2, <2>9 DEF ConnectionsInv
<1>9. CASE SetLink
  <2>1. /\ found # 0 /\ known' = found /\ found' = 0 /\ losses' = losses /\ link' = link
        /\ UNCHANGED <<status, connID, pending, runner, line>>
    BY <1>9 DEF SetLink, aggregator
  <2>2. MachinesInv' BY <1>1, <2>1 DEF MachinesInv, MachineTypes
  <2>3. LinkTypes' BY <1>1, <2>1, IdsFact DEF LinkInv, LinkTypes
  <2>4. found = link.id /\ known = 0 BY <1>1, <2>1 DEF LinkInv
  <2>5. BudgetOK(link.id, link.open, losses)' BY <1>1, <2>1 DEF LinkInv
  <2>6. LinkInv' BY <2>1, <2>3, <2>4, <2>5 DEF LinkInv
  <2> QED BY <2>2, <2>6 DEF ConnectionsInv
<1>10. CASE UNCHANGED vars
  BY <1>4, <1>10 DEF vars, aggregator, client, connections
<1> QED BY <1>4, <1>5, <1>6, <1>7, <1>8, <1>9, <1>10, ConnectionsSteps

LEMMA ConnectionsInvariant == Spec => []ConnectionsInv
<1>1. ConnectionsInv /\ [Next]_vars => ConnectionsInv' BY ConnectionsNext
<1> QED BY ConnectionsInit, <1>1, PTL DEF Spec

(* Servers that were lost in use: RetryInv is inductive.                   *)

\* A step that touches one server at most.
LEMMA RetryOthers ==
    ASSUME RetryInv, NEW s \in Servers, givenUp' \subseteq Servers,
           \A x \in Servers \ {s} :
               /\ status'[x] = status[x] /\ runner'[x] = runner[x] /\ line'[x] = line[x]
               /\ x \in pending' <=> x \in pending
               /\ x \in givenUp' <=> x \in givenUp,
           ~line'[s].open /\ line'[s].id > 0 /\ s \notin givenUp' =>
               Retried(status'[s], s \in pending', runner'[s])
    PROVE  RetryInv'
<1>1. ASSUME NEW x \in Servers \ {s}
      PROVE  ~line'[x].open /\ line'[x].id > 0 /\ x \notin givenUp' =>
                 Retried(status'[x], x \in pending', runner'[x])
  BY DEF RetryInv, Retried
<1> QED BY <1>1 DEF RetryInv, Retried

\* A server that waits is tried; one that is being tried is not tried twice.
LEMMA PendingRetry ==
    ASSUME MachinesInv, RetryInv, ConnectToPendingServers
    PROVE  RetryInv'
<1> SUFFICES ASSUME NEW s \in Servers, ~line[s].open, line[s].id > 0, s \notin givenUp
             PROVE  Retried(status'[s], s \in pending', runner'[s])
  BY DEF RetryInv, ConnectToPendingServers
<1>1. CASE status[s] = "Disconnected" /\ s \in pending /\ runner[s] = {}
  <2>1. status'[s] = "Connecting" /\ runner'[s] = {[pc |-> "connect", id |-> 0]}
    BY <1>1 DEF ConnectToPendingServers, Connectable
  <2> QED BY <2>1 DEF Retried
<1>2. CASE status[s] = "Connecting" /\ runner[s] # {} /\ \A r \in runner[s] : r.pc = "connect"
  <2>1. status'[s] = status[s] /\ runner'[s] = runner[s]
    BY <1>2 DEF ConnectToPendingServers, Connectable
  <2> QED BY <1>2, <2>1 DEF Retried
<1> QED BY <1>1, <1>2 DEF RetryInv, Retried

LEMMA ConnectRetry ==
    ASSUME MachinesInv, RetryInv, NEW s \in Servers, Connect(s) \/ ConnectFails(s)
    PROVE  RetryInv'
<1> USE DEF MachinesInv, MachineTypes
<1>1. CASE Connect(s)
  <2>1. PICK r \in runner[s] :
          /\ line' = [line EXCEPT ![s] = [id |-> line[s].id + 1, open |-> TRUE]]
          /\ runner' = [runner EXCEPT ![s] = (runner[s] \ {r}) \cup {[pc |-> "opened", id |-> line[s].id + 1]}]
          /\ UNCHANGED <<status, pending, givenUp>>
    BY <1>1 DEF Connect
  <2>2. line'[s].open BY <2>1
  <2>3. \A x \in Servers \ {s} : runner'[x] = runner[x] /\ line'[x] = line[x] BY <2>1
  <2> QED BY <2>1, <2>2, <2>3, RetryOthers DEF RetryInv
<1>2. CASE ConnectFails(s)
  <2>1. PICK r \in runner[s] :
          /\ runner' = [runner EXCEPT ![s] = runner[s] \ {r}]
          /\ pending' \in {pending, pending \cup {s}}
          /\ givenUp' = givenUp \cup {s}
          /\ UNCHANGED <<status, line>>
    BY <1>2 DEF ConnectFails
  <2>2. \A x \in Servers \ {s} : runner'[x] = runner[x] /\ (x \in pending' <=> x \in pending) BY <2>1
  <2>3. s \in givenUp' /\ givenUp' \subseteq Servers BY <2>1 DEF RetryInv
  <2> QED BY <2>1, <2>2, <2>3, RetryOthers
<1> QED BY <1>1, <1>2

\* No task stores anything while a server that was lost in use waits for a connection.
LEMMA StoreRetry ==
    ASSUME MachinesInv, RetryInv, NEW s \in Servers, SetConnectionID(s) \/ SetConnected(s)
    PROVE  RetryInv'
<1> USE DEF MachinesInv, MachineTypes
<1>1. PICK r \in runner[s] : r.pc \in {"opened", "named"}
  BY DEF SetConnectionID, SetConnected
<1>2. ~Retried(status[s], s \in pending, runner[s]) BY <1>1 DEF Retried
<1>3. UNCHANGED <<line, pending, givenUp>> BY DEF SetConnectionID, SetConnected
<1>4. \A x \in Servers \ {s} : status'[x] = status[x] /\ runner'[x] = runner[x]
  <2>1. CASE SetConnectionID(s) BY <2>1 DEF SetConnectionID
  <2>2. CASE SetConnected(s) BY <2>2 DEF SetConnected
  <2> QED BY <2>1, <2>2
<1>5. ~(~line[s].open /\ line[s].id > 0 /\ s \notin givenUp) BY <1>2 DEF RetryInv
<1> QED BY <1>3, <1>4, <1>5, RetryOthers DEF RetryInv

\* The event knows a connection that no task works on, and makes its server pending.
LEMMA LossRetry ==
    ASSUME MachinesInv, RetryInv, NEW s \in Servers, ConnectionFails(s)
    PROVE  RetryInv'
<1> USE DEF MachinesInv, MachineTypes
<1>1. /\ line[s].open /\ runner' = runner
      /\ line' = [line EXCEPT ![s].open = FALSE]
      /\ givenUp' = IF runner[s] = {} THEN givenUp \ {s} ELSE givenUp \cup {s}
  BY DEF ConnectionFails
<1>2. givenUp' \subseteq Servers /\ \A x \in Servers \ {s} : x \in givenUp' <=> x \in givenUp
  BY <1>1 DEF RetryInv
<1>3. \A x \in Servers \ {s} :
          /\ status'[x] = status[x] /\ runner'[x] = runner[x] /\ line'[x] = line[x]
          /\ x \in pending' <=> x \in pending
          /\ x \in givenUp' <=> x \in givenUp
  BY <1>1, <1>2 DEF ConnectionFails
<1>4. CASE runner[s] = {}
  <2>1. IsKnown(s) BY <1>1, <1>4 DEF MachineOK, IsKnown
  <2>2. status'[s] = "Disconnected" /\ s \in pending' BY <2>1 DEF ConnectionFails
  <2>3. Retried(status'[s], s \in pending', runner'[s]) BY <1>1, <1>4, <2>2 DEF Retried
  <2> QED BY <1>2, <1>3, <2>3, RetryOthers
<1>5. CASE runner[s] # {}
  <2>1. s \in givenUp' BY <1>1, <1>5
  <2> QED BY <1>2, <1>3, <2>1, RetryOthers
<1> QED BY <1>4, <1>5

LEMMA RetryNext ==
    ASSUME ConnectionsInv, RetryInv, [Next]_vars
    PROVE  RetryInv'
<1>1. MachinesInv BY DEF ConnectionsInv
<1>2. CASE UNCHANGED <<status, pending, runner, line, givenUp>>
  BY <1>2 DEF RetryInv, Retried
<1>3. CASE LinkFails \/ Reconnect \/ SetLink
  BY <1>2, <1>3 DEF LinkFails, Reconnect, SetLink, machines, aggregator
<1>4. CASE UNCHANGED connections \/ UNCHANGED vars
  BY <1>2, <1>4 DEF connections, vars, aggregator
<1> QED BY <1>1, <1>3, <1>4, ConnectionsSteps, PendingRetry, ConnectRetry, StoreRetry, LossRetry

LEMMA RetryInit == Init => RetryInv
BY DEF Init, AggregatorInit, RetryInv

LEMMA RetryInvariant == Spec => []RetryInv
<1>1. ConnectionsInv /\ RetryInv /\ [Next]_vars => RetryInv' BY RetryNext
<1> QED BY RetryInit, ConnectionsInvariant, <1>1, PTL DEF Spec

(***************************************************************************)
(* The aggregator uses the connection that it has: when no task works on a *)
(* server any more and its last connection is open, the server is          *)
(* Connected under the id of that connection.  A task that is late cannot  *)
(* put back an old id, because a second task is only started after the     *)
(* first has set the id of its own connection.  A server whose connection  *)
(* was lost in use, and of which no attempt to connect has failed since,   *)
(* is Disconnected and pending (StartClient, ConnectToPendingServers): the *)
(* event always finds it under its id.                                     *)
(***************************************************************************)
THEOREM OpenConnectionsStayUsed == Spec => []OpenConnectionUsed
<1>1. ASSUME ConnectionsInv, RetryInv PROVE OpenConnectionUsed
  <2> SUFFICES ASSUME NEW s \in Servers, runner[s] = {}
               PROVE  /\ line[s].open => status[s] = "Connected" /\ connID[s] = line[s].id
                      /\ ~line[s].open /\ line[s].id > 0 /\ s \notin givenUp =>
                            status[s] = "Disconnected" /\ s \in pending
    BY DEF OpenConnectionUsed
  <2>1. MachineOK(status[s], connID[s], s \in pending, runner[s], line[s])
    BY <1>1 DEF ConnectionsInv, MachinesInv
  <2>2. line[s].open => status[s] = "Connected" /\ connID[s] = line[s].id
    BY <2>1 DEF MachineOK
  <2>3. ~line[s].open /\ line[s].id > 0 /\ s \notin givenUp => status[s] = "Disconnected" /\ s \in pending
    BY <1>1 DEF RetryInv, Retried
  <2> QED BY <2>2, <2>3
<1> QED BY <1>1, ConnectionsInvariant, RetryInvariant, PTL

-----------------------------------------------------------------------------
(* The queries: QueriesInv is inductive.  First the aggregator.            *)

LEMMA QueriesInit == Init => QueriesInv
<1> SUFFICES ASSUME Init PROVE QueriesInv
  OBVIOUS
<1>1. PICK c \in Setups : AggregatorInit(c.servers, c.losses) /\ ClientInit(c.lines)
  BY DEF Init
<1>2. c.lines \subseteq Queries
  BY SetupsAssumption DEF SetupsAssumption
<1>3. QueryTypes
  <2>1. NoExec \in ExecT /\ NoSub \in SubT
    BY Constants, IdsFact DEF NoExec, NoSub, ExecT, SubT
  <2> QED BY <1>1, <2>1, TableEmpty DEF AggregatorInit, QueryTypes
<1>4. ClientTypes
  BY <1>1, <1>2, TableEmpty, Constants, IdsFact DEF ClientInit, ClientTypes
<1>5. MainOK BY <1>1 DEF ClientInit, MainOK
<1>6. ASSUME NEW q \in Queries PROVE QueryOK(q)
  <2>1. exec[q] = NoExec /\ answers[q] = 0 /\ asked = {} /\ packet[q].st = "none" /\ callbacks = {}
    BY <1>1 DEF AggregatorInit, ClientInit
  <2>2. \A s \in Servers : sub[<<q, s>>] = NoSub /\ <<q, s>> \notin ToSet(timers)
    BY <1>1, TableEmpty DEF AggregatorInit, Subs
  <2>3. \A s \in Servers : Untouched(q, s)
    BY <2>1, <2>2 DEF Untouched, NoSub, NoExec
  <2>4. CountOK(exec[q], answers[q])
    BY <2>1, FS_EmptySet DEF CountOK, NoExec
  <2>5. exec[q].todo = {} /\ exec[q].targets = {} /\ exec[q].heard = {} /\ exec[q].pc = "none"
    BY <2>1 DEF NoExec
  <2> QED BY <2>1, <2>3, <2>4, <2>5 DEF QueryOK
<1>7. ASSUME NEW q \in Queries PROVE PacketOK(q)
  <2>1. /\ packet[q].st = "none" /\ deadlines = <<>> /\ tasks = {} /\ called[q] = 0
        /\ read[q] = 0 /\ answers[q] = 0
    BY <1>1 DEF AggregatorInit, ClientInit
  <2> QED BY <2>1, TableEmpty DEF PacketOK, Mine
<1> QED BY <1>3, <1>4, <1>5, <1>6, <1>7 DEF QueriesInv

\* Nothing of query q changes in the aggregator, except that callbacks and timers may go.
SameQuery(q) ==
    /\ exec'[q] = exec[q] /\ answers'[q] = answers[q]
    /\ q \in asked' <=> q \in asked
    /\ packet'[q].st = packet[q].st \/ (packet[q].st # "sent" /\ packet'[q].st # "sent")
    /\ \A s \in Servers : /\ sub'[<<q, s>>].st = sub[<<q, s>>].st
                          /\ <<q, s>> \in ToSet(timers') => <<q, s>> \in ToSet(timers)
                          /\ <<q, s>> \in callbacks' => <<q, s>> \in callbacks

LEMMA QueryFrame ==
    ASSUME NEW q \in Queries, QueryOK(q), SameQuery(q)
    PROVE  QueryOK(q)'
<1>1. SendFailed(q)' <=> SendFailed(q) BY DEF SendFailed, SameQuery
<1>2. \A s \in Servers : Untouched(q, s) => Untouched(q, s)' BY DEF Untouched, SameQuery
<1>3. q \in asked' \/ packet'[q].st # "sent" => q \in asked \/ packet[q].st # "sent"
  BY DEF SameQuery
<1>4. q \in asked' => packet'[q].st = "sent" BY DEF SameQuery, QueryOK
<1> QED BY <1>1, <1>2, <1>3, <1>4 DEF QueryOK, SameQuery

\* The client sees nothing of the aggregator but the number of its answers.
LEMMA ClientFrame ==
    ASSUME QueriesInv, UNCHANGED client, QueryTypes', \A q \in Queries : answers'[q] >= answers[q]
    PROVE  ClientTypes' /\ MainOK' /\ \A q \in Queries : PacketOK(q)'
<1>1. ClientTypes' BY DEF QueriesInv, ClientTypes, client
<1>2. MainOK' BY DEF QueriesInv, MainOK, client
<1>3. ASSUME NEW q \in Queries PROVE PacketOK(q)'
  <2>1. read[q] \in Nat /\ answers[q] \in Nat /\ answers'[q] \in Nat /\ read[q] <= answers[q]
    BY DEF QueriesInv, ClientTypes, QueryTypes, PacketOK
  <2>2. read'[q] <= answers'[q] BY <2>1 DEF client
  <2>3. Mine(q)' = Mine(q) BY DEF Mine, client
  <2> QED BY <2>2, <2>3 DEF QueriesInv, PacketOK, client
<1> QED BY <1>1, <1>2, <1>3

LEMMA SearchRequestStep ==
    ASSUME QueriesInv, ConnectionsInv, NEW q \in Queries, SearchRequest(q), UNCHANGED client
    PROVE  QueriesInv'
<1> USE DEF client
<1> DEFINE S == {s \in Servers : status[s] = "Connected"}
           e == [pc |-> "send", todo |-> S, targets |-> S, unfinished |-> Cardinality(S), heard |-> {}]
<1>1. /\ q \in asked /\ asked' = asked \ {q} /\ exec' = [exec EXCEPT ![q] = e]
      /\ sub' = [p \in Subs |-> IF p[1] = q /\ p[2] \in S THEN [st |-> "none", conn |-> connID[p[2]]] ELSE sub[p]]
      /\ UNCHANGED <<answers, callbacks, timers>>
  BY DEF SearchRequest
<1>2. QueryTypes /\ QueryOK(q) /\ \A x \in Queries : QueryOK(x) BY DEF QueriesInv
<1>3. exec[q] = NoExec /\ answers[q] = 0 /\ packet[q].st = "sent" BY <1>1, <1>2 DEF QueryOK
<1>4. Cardinality(S) \in Nat /\ Cardinality(S) < CounterSize
  BY Constants, FS_Subset, FS_CardinalityType
<1>5. S \subseteq Servers OBVIOUS
<1> HIDE DEF S
<1>6. e \in ExecT BY <1>4, <1>5, Constants DEF ExecT
<1>7. connID \in [Servers -> Ids] BY DEF ConnectionsInv, MachinesInv, MachineTypes
<1>8. QueryTypes'
  <2>1. \A p \in Subs : sub'[p] \in SubT
    BY <1>1, <1>2, <1>5, <1>7 DEF QueryTypes, SubT
  <2>2. sub' \in [Subs -> SubT] BY <1>1, <2>1
  <2> QED BY <1>1, <1>2, <1>6, <2>2 DEF QueryTypes
<1>9. \A s \in Servers : sub'[<<q, s>>].st = "none" /\ <<q, s>> \notin ToSet(timers)
  <2>1. \A s \in Servers : Untouched(q, s) BY <1>2, <1>3 DEF QueryOK, NoExec
  <2>2. \A s \in Servers : <<q, s>> \in Subs BY DEF Subs
  <2> QED BY <1>1, <2>1, <2>2 DEF Untouched
<1>10. QueryOK(q)'
  <2>1. /\ exec'[q].pc = "send" /\ exec'[q].todo = S /\ exec'[q].targets = S /\ exec'[q].heard = {}
        /\ exec'[q].unfinished = Cardinality(S) /\ answers'[q] = 0 /\ q \notin asked' /\ packet'[q] = packet[q]
    BY <1>1, <1>2, <1>3 DEF QueryTypes
  <2>2. CountOK(exec'[q], answers'[q]) BY <2>1, <1>4, FS_EmptySet DEF CountOK
  <2>3. \A s \in Servers : Untouched(q, s)' BY <1>1, <1>9, <2>1 DEF Untouched
  <2> QED BY <2>1, <2>2, <2>3, <1>3 DEF QueryOK
<1>11. ASSUME NEW x \in Queries, x # q PROVE QueryOK(x)'
  <2>1. \A s \in Servers : <<x, s>> \in Subs BY DEF Subs
  <2>2. SameQuery(x) BY <1>1, <1>2, <1>11, <2>1 DEF SameQuery, QueryTypes
  <2> QED BY <1>2, <2>2, QueryFrame
<1>12. \A x \in Queries : answers'[x] >= answers[x] BY <1>1, <1>2 DEF QueryTypes
<1> QED BY <1>8, <1>10, <1>11, <1>12, ClientFrame DEF QueriesInv

\* Requests and what happens to them: p = <<q, s>> for one query and server only.
LEMMA SubUpdate ==
    ASSUME QueryTypes, NEW q \in Queries, NEW s \in Servers,
           NEW v \in {"none", "posted", "sent", "failed", "answered"},
           sub' = [sub EXCEPT ![<<q, s>>].st = v]
    PROVE  /\ sub' \in [Subs -> SubT] /\ sub'[<<q, s>>].st = v
           /\ \A x \in Queries, y \in Servers : <<x, y>> # <<q, s>> => sub'[<<x, y>>] = sub[<<x, y>>]
<1>1. <<q, s>> \in Subs /\ sub \in [Subs -> SubT] BY DEF Subs, QueryTypes
<1>2. [sub[<<q, s>>] EXCEPT !.st = v] \in SubT /\ [sub[<<q, s>>] EXCEPT !.st = v].st = v
  BY <1>1 DEF SubT
<1>3. \A x \in Queries, y \in Servers : <<x, y>> \in Subs BY DEF Subs
<1> QED BY <1>1, <1>2, <1>3

\* Query x is not the one that the step is about.
LEMMA OtherQuery ==
    ASSUME QueriesInv, UNCHANGED client, NEW q \in Queries, NEW s \in Servers,
           NEW x \in Queries, x # q,
           exec'[x] = exec[x], answers'[x] = answers[x], asked' = asked,
           \A y \in Servers : <<x, y>> # <<q, s>> => sub'[<<x, y>>] = sub[<<x, y>>],
           ToSet(timers') \subseteq ToSet(timers) \cup {<<q, s>>},
           callbacks' \subseteq callbacks \cup {<<q, s>>}
    PROVE  QueryOK(x)'
<1>1. \A y \in Servers : <<x, y>> # <<q, s>> OBVIOUS
<1>2. SameQuery(x) BY <1>1 DEF SameQuery, client
<1> QED BY <1>2, QueryFrame DEF QueriesInv

LEMMA SendRequestStep ==
    ASSUME QueriesInv, NEW q \in Queries, NEW s \in Servers, SendRequest(q, s), UNCHANGED client
    PROVE  QueriesInv'
<1> DEFINE e == [pc |-> IF exec[q].todo = {s} THEN "wait" ELSE "send", todo |-> exec[q].todo \ {s},
                 targets |-> exec[q].targets, unfinished |-> exec[q].unfinished, heard |-> exec[q].heard]
<1> HIDE DEF e
<1>1. /\ exec[q].pc = "send" /\ s \in exec[q].todo
      /\ callbacks' = callbacks \cup {<<q, s>>} /\ timers' = Append(timers, <<q, s>>)
      /\ exec' = [exec EXCEPT ![q].todo = @ \ {s}, ![q].pc = IF exec[q].todo = {s} THEN "wait" ELSE @]
      /\ sub' = [sub EXCEPT ![<<q, s>>].st = "posted"]
      /\ UNCHANGED <<asked, answers>>
  BY DEF SendRequest, Callbacks!Add
<1>2. QueryTypes /\ QueryOK(q) BY DEF QueriesInv
<1>3. exec[q] \in ExecT BY <1>2 DEF QueryTypes
<1>4. exec' = [exec EXCEPT ![q] = e]
  <2> DEFINE p == IF exec[q].todo = {s} THEN "wait" ELSE "send"
             d == exec[q].todo \ {s}
  <2> HIDE DEF p, d
  <2>1. exec' = [exec EXCEPT ![q].todo = d, ![q].pc = p]
    BY <1>1, <1>2 DEF QueryTypes, p, d
  <2>2. exec \in [Queries -> ExecT] BY <1>2 DEF QueryTypes
  <2> DEFINE x == exec[q]
             l == [pc |-> x.pc, todo |-> d, targets |-> x.targets, unfinished |-> x.unfinished, heard |-> x.heard]
             k == [pc |-> p, todo |-> d, targets |-> x.targets, unfinished |-> x.unfinished, heard |-> x.heard]
  <2>3. x \in ExecT BY <2>2
  <2> HIDE DEF x
  <2>4. [x EXCEPT !.todo = d] = l BY <2>3 DEF ExecT
  <2>5. [l EXCEPT !.pc = p] = k OBVIOUS
  <2> HIDE DEF l, k
  <2>6. [[x EXCEPT !.todo = d] EXCEPT !.pc = p] = k BY <2>4, <2>5
  <2>7. exec' = [exec EXCEPT ![q] = [[exec[q] EXCEPT !.todo = d] EXCEPT !.pc = p]]
    BY <2>1, <2>2
  <2>8. exec' = [exec EXCEPT ![q] = k] BY <2>6, <2>7 DEF x
  <2> QED BY <2>8 DEF p, d, e, k, x
<1>5. e \in ExecT BY <1>3 DEF ExecT, e
<1>6. exec'[q] = e /\ \A x \in Queries \ {q} : exec'[x] = exec[x] BY <1>2, <1>4 DEF QueryTypes
<1>7. s \in exec[q].targets /\ Untouched(q, s) BY <1>1, <1>2 DEF QueryOK
<1>8. /\ TableOK(callbacks', timers', Subs) /\ ToSet(timers') = ToSet(timers) \cup {<<q, s>>}
  <2>1. <<q, s>> \in Subs BY DEF Subs
  <2>2. TableOK(callbacks, timers, Subs) /\ <<q, s>> \notin ToSet(timers)
    BY <1>2, <1>7 DEF QueryTypes, Untouched
  <2>3. /\ TableOK(callbacks \cup {<<q, s>>}, Append(timers, <<q, s>>), Subs)
        /\ ToSet(Append(timers, <<q, s>>)) = ToSet(timers) \cup {<<q, s>>}
    BY <2>1, <2>2, TableAdd
  <2>4. callbacks' = callbacks \cup {<<q, s>>} /\ timers' = Append(timers, <<q, s>>) BY <1>1
  <2> QED BY <2>3, <2>4
<1>9. /\ sub' \in [Subs -> SubT] /\ sub'[<<q, s>>].st = "posted"
      /\ \A x \in Queries, y \in Servers : <<x, y>> # <<q, s>> => sub'[<<x, y>>] = sub[<<x, y>>]
  <2>1. sub' = [sub EXCEPT ![<<q, s>>].st = "posted"] BY <1>1
  <2> QED BY <2>1, <1>2, SubUpdate
<1>10. QueryTypes' BY <1>1, <1>2, <1>4, <1>5, <1>8, <1>9 DEF QueryTypes
<1>11. /\ e.pc # "none" /\ e.todo = exec[q].todo \ {s} /\ e.targets = exec[q].targets
       /\ e.unfinished = exec[q].unfinished /\ e.heard = exec[q].heard
  BY DEF e
<1>12. QueryOK(q)'
  <2>1. q \notin asked /\ packet[q].st = "sent" BY <1>1, <1>2 DEF QueryOK
  <2>2. SendFailed(q)' <=> SendFailed(q)
    <3>1. sub[<<q, s>>].st = "none" BY <1>7 DEF Untouched
    <3> QED BY <1>9, <3>1 DEF SendFailed
  <2>3. CountOK(exec[q], answers[q]) => CountOK(exec'[q], answers'[q])
    BY <1>1, <1>6, <1>11 DEF CountOK
  <2>4. ASSUME NEW y \in Servers, y \notin e.targets \ e.todo
        PROVE  Untouched(q, y)'
    <3>1. y # s BY <2>4, <1>7, <1>11
    <3>2. Untouched(q, y) BY <2>4, <3>1, <1>2, <1>11 DEF QueryOK
    <3>3. <<q, y>> # <<q, s>> BY <3>1
    <3> QED BY <3>2, <3>3, <1>6, <1>8, <1>9, <1>11 DEF Untouched
  <2>5. ~SendFailed(q) => \A y \in Servers : <<q, y>> \in callbacks' => y \notin e.heard
    BY <1>1, <1>2, <1>7, <1>11 DEF QueryOK, Untouched
  <2> QED BY <1>1, <1>2, <1>6, <1>11, <2>1, <2>2, <2>3, <2>4, <2>5 DEF QueryOK, client
<1>13. \A x \in Queries : x # q => QueryOK(x)'
  BY <1>1, <1>6, <1>8, <1>9, OtherQuery
<1>14. \A x \in Queries : answers'[x] >= answers[x] BY <1>1, <1>2 DEF QueryTypes
<1> QED BY <1>10, <1>12, <1>13, <1>14, ClientFrame DEF QueriesInv

LEMMA WriteStep ==
    ASSUME QueriesInv, NEW q \in Queries, NEW s \in Servers, Write(q, s), UNCHANGED client
    PROVE  QueriesInv'
<1>1. /\ sub[<<q, s>>].st = "posted" /\ sub' = [sub EXCEPT ![<<q, s>>].st = "sent"]
      /\ UNCHANGED <<asked, answers, exec, callbacks, timers>>
  BY DEF Write
<1>2. QueryTypes /\ QueryOK(q) BY DEF QueriesInv
<1>3. /\ sub' \in [Subs -> SubT] /\ sub'[<<q, s>>].st = "sent"
      /\ \A x \in Queries, y \in Servers : <<x, y>> # <<q, s>> => sub'[<<x, y>>] = sub[<<x, y>>]
  BY <1>1, <1>2, SubUpdate
<1>4. QueryTypes' BY <1>1, <1>2, <1>3 DEF QueryTypes
<1>5. QueryOK(q)'
  <2>1. SendFailed(q)' <=> SendFailed(q) BY <1>1, <1>3 DEF SendFailed
  <2>2. \A y \in Servers : Untouched(q, y) => Untouched(q, y)'
    <3> SUFFICES ASSUME NEW y \in Servers, Untouched(q, y) PROVE Untouched(q, y)'
      OBVIOUS
    <3>1. y # s BY <1>1 DEF Untouched
    <3>2. <<q, y>> # <<q, s>> BY <3>1
    <3> QED BY <3>2, <1>1, <1>3 DEF Untouched
  <2> QED BY <1>1, <1>2, <2>1, <2>2 DEF QueryOK, client
<1>6. \A x \in Queries : x # q => QueryOK(x)'
  BY <1>1, <1>3, OtherQuery
<1>7. \A x \in Queries : answers'[x] >= answers[x] BY <1>1, <1>2 DEF QueryTypes
<1> QED BY <1>4, <1>5, <1>6, <1>7, ClientFrame DEF QueriesInv

\* A result of s for q is counted.
LEMMA CallbackEffect ==
    ASSUME QueriesInv, NEW q \in Queries, NEW s \in Servers, Callback(q, s),
           s \in exec[q].targets \ exec[q].todo
    PROVE  /\ exec' \in [Queries -> ExecT] /\ answers' \in [Queries -> Nat]
           /\ exec'[q].pc = exec[q].pc /\ exec'[q].todo = exec[q].todo /\ exec'[q].targets = exec[q].targets
           /\ exec'[q].heard = exec[q].heard \cup {s}
           /\ \A x \in Queries : answers'[x] >= answers[x]
           /\ \A x \in Queries : x # q => exec'[x] = exec[x] /\ answers'[x] = answers[x]
           /\ s \notin exec[q].heard /\ CountOK(exec[q], answers[q]) => CountOK(exec'[q], answers'[q])
<1> DEFINE u == (exec[q].unfinished - 1) % CounterSize
           e == [pc |-> exec[q].pc, todo |-> exec[q].todo, targets |-> exec[q].targets,
                 unfinished |-> u, heard |-> exec[q].heard \cup {s}]
           n == exec[q].unfinished
<1>1. QueryTypes /\ QueryOK(q) /\ exec[q] \in ExecT BY DEF QueriesInv, QueryTypes
<1>2. n \in 0..(CounterSize - 1) /\ exec[q].targets \subseteq Servers /\ exec[q].heard \subseteq exec[q].targets
  BY <1>1 DEF ExecT, QueryOK
<1>3. u \in 0..(CounterSize - 1) /\ (n # 0 => u = n - 1) BY <1>2, Wrap
<1> HIDE DEF u
<1>4. e \in ExecT BY <1>1, <1>3 DEF ExecT
<1>5. exec' = [exec EXCEPT ![q] = e]
  <2> DEFINE h == exec[q].heard \cup {s}
  <2> HIDE DEF h
  <2>1. exec' = [exec EXCEPT ![q].unfinished = u, ![q].heard = h]
    BY <1>1 DEF Callback, QueryTypes, u, h
  <2>2. exec \in [Queries -> ExecT] BY <1>1 DEF QueryTypes
  <2> DEFINE x == exec[q]
             l == [pc |-> x.pc, todo |-> x.todo, targets |-> x.targets, unfinished |-> u, heard |-> x.heard]
             k == [pc |-> x.pc, todo |-> x.todo, targets |-> x.targets, unfinished |-> u, heard |-> h]
  <2>3. x \in ExecT BY <2>2
  <2> HIDE DEF x
  <2>4. [x EXCEPT !.unfinished = u] = l BY <2>3 DEF ExecT
  <2>5. [l EXCEPT !.heard = h] = k OBVIOUS
  <2> HIDE DEF l, k
  <2>6. [[x EXCEPT !.unfinished = u] EXCEPT !.heard = h] = k BY <2>4, <2>5
  <2>7. exec' = [exec EXCEPT ![q] = [[exec[q] EXCEPT !.unfinished = u] EXCEPT !.heard = h]]
    BY <2>1, <2>2
  <2>8. exec' = [exec EXCEPT ![q] = k] BY <2>6, <2>7 DEF x
  <2> QED BY <2>8 DEF h, k, x
<1>6. exec' \in [Queries -> ExecT] /\ exec'[q] = e /\ \A x \in Queries : x # q => exec'[x] = exec[x]
  BY <1>1, <1>4, <1>5 DEF QueryTypes
<1>7. /\ answers' = [answers EXCEPT ![q] = IF n <= 1 THEN answers[q] + 1 ELSE answers[q]]
      /\ answers \in [Queries -> Nat]
  BY <1>1 DEF Callback, IsCompletedAfterFinsh, QueryTypes
<1>8. /\ e.pc = exec[q].pc /\ e.todo = exec[q].todo /\ e.targets = exec[q].targets
      /\ e.heard = exec[q].heard \cup {s} /\ e.unfinished = u
  OBVIOUS
<1>9. ASSUME s \notin exec[q].heard, CountOK(exec[q], answers[q])
      PROVE  CountOK(e, answers'[q])
  <2> DEFINE T == exec[q].targets  H == exec[q].heard
  <2>1. /\ Cardinality(T) \in Nat /\ Cardinality(H) \in Nat /\ Cardinality(T) <= Cardinality(Servers)
        /\ Cardinality(H \cup {s}) = Cardinality(H) + 1
        /\ Cardinality(H) + 1 <= Cardinality(T)
        /\ Cardinality(H) + 1 = Cardinality(T) <=> H \cup {s} = T
    BY <1>2, <1>9, OneMore
  <2>2. n = Cardinality(T) - Cardinality(H) /\ answers[q] = IF T # {} /\ H = T THEN 1 ELSE 0
    BY <1>9 DEF CountOK
  <2>3. T # {} /\ H # T BY <1>9
  <2> HIDE DEF T, H, n
  <2>4. n # 0 /\ (n <= 1 <=> H \cup {s} = T) BY <2>1, <2>2
  <2>5. u = Cardinality(T) - Cardinality(H \cup {s}) BY <2>1, <2>2, <2>4, <1>3
  <2>6. answers'[q] = IF H \cup {s} = T THEN 1 ELSE 0 BY <2>2, <2>3, <2>4, <1>7
  <2>7. e.targets = T /\ e.heard = H \cup {s} /\ e.unfinished = u BY DEF T, H
  <2> HIDE DEF e
  <2> QED BY <2>3, <2>5, <2>6, <2>7 DEF CountOK
<1> HIDE DEF e
<1>10. answers' \in [Queries -> Nat] /\ \A x \in Queries : answers'[x] >= answers[x]
  BY <1>7
<1>11. \A x \in Queries : x # q => answers'[x] = answers[x]
  BY <1>7
<1> QED BY <1>6, <1>8, <1>9, <1>10, <1>11

\* A result is counted, and its callback is gone; sub may change to st = v for <<q, s>>.
LEMMA Heard ==
    ASSUME QueriesInv, NEW q \in Queries, NEW s \in Servers, Callback(q, s), UNCHANGED <<client, asked>>,
           s \in exec[q].targets \ exec[q].todo,
           TableOK(callbacks', timers', Subs), ToSet(timers') \subseteq ToSet(timers),
           callbacks' \subseteq callbacks,
           sub' \in [Subs -> SubT],
           \A x \in Queries, y \in Servers : <<x, y>> # <<q, s>> => sub'[<<x, y>>] = sub[<<x, y>>],
           SendFailed(q) => SendFailed(q)',
           SendFailed(q)' \/ (<<q, s>> \in callbacks /\ <<q, s>> \notin callbacks')
    PROVE  QueriesInv'
<1>1. QueryTypes /\ QueryOK(q) BY DEF QueriesInv
<1>2. /\ exec' \in [Queries -> ExecT] /\ answers' \in [Queries -> Nat]
      /\ exec'[q].pc = exec[q].pc /\ exec'[q].todo = exec[q].todo /\ exec'[q].targets = exec[q].targets
      /\ exec'[q].heard = exec[q].heard \cup {s}
      /\ \A x \in Queries : answers'[x] >= answers[x]
      /\ \A x \in Queries : x # q => exec'[x] = exec[x] /\ answers'[x] = answers[x]
      /\ s \notin exec[q].heard /\ CountOK(exec[q], answers[q]) => CountOK(exec'[q], answers'[q])
  BY CallbackEffect
<1>3. QueryTypes' BY <1>1, <1>2 DEF QueryTypes
<1>4. exec[q].pc # "none" BY <1>1 DEF QueryOK, NoExec
<1>5. ASSUME NEW y \in Servers, y \notin exec[q].targets \ exec[q].todo
      PROVE  Untouched(q, y)'
  <2>1. y # s /\ Untouched(q, y) BY <1>1, <1>5 DEF QueryOK
  <2>2. <<q, y>> # <<q, s>> BY <2>1
  <2>3. sub'[<<q, y>>] = sub[<<q, y>>] BY <2>2
  <2> QED BY <2>1, <2>3, <1>2 DEF Untouched
<1>6. ASSUME ~SendFailed(q)'
      PROVE  /\ CountOK(exec'[q], answers'[q])
             /\ \A y \in Servers : <<q, y>> \in callbacks' => y \notin exec'[q].heard
  <2>1. ~SendFailed(q) /\ <<q, s>> \in callbacks /\ <<q, s>> \notin callbacks' BY <1>6
  <2>2. s \notin exec[q].heard /\ CountOK(exec[q], answers[q]) BY <1>1, <2>1 DEF QueryOK
  <2>3. \A y \in Servers : <<q, y>> \in callbacks' => y \notin exec[q].heard /\ y # s
    BY <1>1, <2>1 DEF QueryOK
  <2> QED BY <1>2, <2>2, <2>3
<1>7. QueryOK(q)'
  <2>1. q \notin asked' /\ packet'[q].st = "sent" BY <1>1, <1>4 DEF QueryOK, client
  <2>2. exec'[q].todo \subseteq exec'[q].targets /\ exec'[q].heard \subseteq exec'[q].targets
    BY <1>1, <1>2 DEF QueryOK
  <2>3. exec'[q].pc # "none" BY <1>2, <1>4
  <2> QED BY <1>2, <1>5, <1>6, <2>1, <2>2, <2>3 DEF QueryOK
<1>8. \A x \in Queries : x # q => QueryOK(x)'
  <2>1. ASSUME NEW x \in Queries, x # q PROVE QueryOK(x)'
    <3>1. \A y \in Servers : <<x, y>> # <<q, s>> => sub'[<<x, y>>] = sub[<<x, y>>] OBVIOUS
    <3> QED BY <1>2, <2>1, <3>1, OtherQuery
  <2> QED BY <2>1
<1> QED BY <1>2, <1>3, <1>7, <1>8, ClientFrame DEF QueriesInv

\* A callback or a timer belongs to a request that has been sent.
LEMMA TimerSent ==
    ASSUME QueriesInv, NEW q \in Queries, NEW s \in Servers,
           <<q, s>> \in ToSet(timers) \/ <<q, s>> \in callbacks \/ sub[<<q, s>>].st # "none"
    PROVE  s \in exec[q].targets \ exec[q].todo /\ TableOK(callbacks, timers, Subs)
<1>1. TableOK(callbacks, timers, Subs) /\ QueryOK(q) BY DEF QueriesInv, QueryTypes
<1>2. ~Untouched(q, s) BY <1>1 DEF Untouched, TableOK
<1> QED BY <1>1, <1>2 DEF QueryOK

LEMMA WriteFailsStep ==
    ASSUME QueriesInv, NEW q \in Queries, NEW s \in Servers, WriteFails(q, s), UNCHANGED client
    PROVE  QueriesInv'
<1>1. /\ sub[<<q, s>>].st = "posted" /\ sub' = [sub EXCEPT ![<<q, s>>].st = "failed"]
      /\ Callback(q, s) /\ UNCHANGED <<asked, callbacks, timers>>
  BY DEF WriteFails
<1>2. QueryTypes BY DEF QueriesInv
<1>3. /\ sub' \in [Subs -> SubT] /\ sub'[<<q, s>>].st = "failed"
      /\ \A x \in Queries, y \in Servers : <<x, y>> # <<q, s>> => sub'[<<x, y>>] = sub[<<x, y>>]
  BY <1>1, <1>2, SubUpdate
<1>4. s \in exec[q].targets \ exec[q].todo BY <1>1, TimerSent
<1>5. SendFailed(q)' BY <1>3 DEF SendFailed
<1>6. TableOK(callbacks', timers', Subs) BY <1>1, <1>2 DEF QueryTypes
<1>7. UNCHANGED <<client, asked>> /\ timers' = timers /\ callbacks' = callbacks BY <1>1
<1> QED BY <1>1, <1>3, <1>4, <1>5, <1>6, <1>7, Heard

LEMMA TimeoutStep ==
    ASSUME QueriesInv, NEW q \in Queries, NEW s \in Servers, TimeoutCallback(q, s), UNCHANGED client
    PROVE  QueriesInv'
<1>1. /\ UNCHANGED <<asked, sub>>
      /\ timers # <<>> /\ <<q, s>> = Head(timers) /\ timers' = Tail(timers)
      /\ \/ <<q, s>> \in callbacks /\ callbacks' = callbacks \ {<<q, s>>} /\ Callback(q, s)
         \/ <<q, s>> \notin callbacks /\ callbacks' = callbacks /\ UNCHANGED <<answers, exec>>
  BY DEF TimeoutCallback, Callbacks!Expire, Callbacks!ExpireInVain
<1>2. QueryTypes /\ TableOK(callbacks, timers, Subs) BY DEF QueriesInv, QueryTypes
<1>3. /\ TableOK(callbacks \ {<<q, s>>}, timers', Subs) /\ ToSet(timers') = ToSet(timers) \ {<<q, s>>}
      /\ <<q, s>> \in ToSet(timers)
  BY <1>1, <1>2, TableTail
<1>4. s \in exec[q].targets \ exec[q].todo BY <1>3, TimerSent
<1>5. TableOK(callbacks', timers', Subs)
  <2>1. callbacks' = callbacks \ {<<q, s>>} BY <1>1
  <2> QED BY <1>3, <2>1
<1>6. /\ sub' \in [Subs -> SubT]
      /\ \A x \in Queries, y \in Servers : <<x, y>> # <<q, s>> => sub'[<<x, y>>] = sub[<<x, y>>]
      /\ SendFailed(q)' <=> SendFailed(q)
      /\ UNCHANGED <<client, asked>> /\ ToSet(timers') \subseteq ToSet(timers) /\ callbacks' \subseteq callbacks
  BY <1>1, <1>2, <1>3 DEF QueryTypes, SendFailed
<1>7. CASE <<q, s>> \in callbacks
  <2>1. Callback(q, s) /\ <<q, s>> \notin callbacks' BY <1>1, <1>7
  <2> QED BY <1>4, <1>5, <1>6, <1>7, <2>1, Heard
<1>8. CASE <<q, s>> \notin callbacks
  <2>1. UNCHANGED <<answers, exec, callbacks>> BY <1>1, <1>8
  <2>2. QueryTypes' BY <1>1, <1>2, <1>5, <2>1 DEF QueryTypes
  <2>3. \A x \in Queries : SameQuery(x) BY <1>1, <1>6, <2>1 DEF SameQuery, client
  <2>4. \A x \in Queries : QueryOK(x)' BY <2>3, QueryFrame DEF QueriesInv
  <2>5. \A x \in Queries : answers'[x] >= answers[x] BY <1>2, <2>1 DEF QueryTypes
  <2> QED BY <2>2, <2>4, <2>5, ClientFrame DEF QueriesInv
<1> QED BY <1>7, <1>8

LEMMA SearchResponseStep ==
    ASSUME QueriesInv, NEW q \in Queries, NEW s \in Servers, SearchResponse(q, s), UNCHANGED client
    PROVE  QueriesInv'
<1>1. /\ UNCHANGED <<asked, timers>>
      /\ sub[<<q, s>>].st = "sent" /\ sub' = [sub EXCEPT ![<<q, s>>].st = "answered"]
      /\ \/ <<q, s>> \in callbacks /\ callbacks' = callbacks \ {<<q, s>>} /\ Callback(q, s)
         \/ <<q, s>> \notin callbacks /\ callbacks' = callbacks /\ UNCHANGED <<answers, exec>>
  BY DEF SearchResponse, Callbacks!GetAndRemove
<1>2. QueryTypes /\ TableOK(callbacks, timers, Subs) BY DEF QueriesInv, QueryTypes
<1>3. /\ sub' \in [Subs -> SubT] /\ sub'[<<q, s>>].st = "answered"
      /\ \A x \in Queries, y \in Servers : <<x, y>> # <<q, s>> => sub'[<<x, y>>] = sub[<<x, y>>]
  <2>1. sub' = [sub EXCEPT ![<<q, s>>].st = "answered"] BY <1>1
  <2> QED BY <1>2, <2>1, SubUpdate
<1>4. s \in exec[q].targets \ exec[q].todo BY <1>1, TimerSent
<1>5. callbacks' = callbacks \ {<<q, s>>} /\ timers' = timers /\ asked' = asked BY <1>1
<1>6. TableOK(callbacks', timers', Subs) BY <1>2, <1>5, TableGet
<1>7. SendFailed(q)' <=> SendFailed(q) BY <1>1, <1>3 DEF SendFailed
<1>8. UNCHANGED <<client, asked>> /\ ToSet(timers') \subseteq ToSet(timers) /\ callbacks' \subseteq callbacks
  BY <1>5
<1>9. CASE <<q, s>> \in callbacks
  <2>1. Callback(q, s) /\ <<q, s>> \notin callbacks' BY <1>1, <1>9
  <2> QED BY <1>3, <1>4, <1>6, <1>7, <1>8, <1>9, <2>1, Heard
<1>10. CASE <<q, s>> \notin callbacks
  <2>1. UNCHANGED <<answers, exec, callbacks>> BY <1>1, <1>10
  <2>2. QueryTypes' BY <1>2, <1>3, <1>5, <1>6, <2>1 DEF QueryTypes
  <2>3. QueryOK(q) BY DEF QueriesInv
  <2>4. \A y \in Servers : Untouched(q, y) => Untouched(q, y)'
    <3> SUFFICES ASSUME NEW y \in Servers, Untouched(q, y) PROVE Untouched(q, y)'
      OBVIOUS
    <3>1. y # s BY <1>1 DEF Untouched
    <3>2. <<q, y>> # <<q, s>> BY <3>1
    <3> QED BY <3>2, <1>3, <1>5, <2>1 DEF Untouched
  <2>5. QueryOK(q)' BY <1>5, <1>7, <2>1, <2>3, <2>4 DEF QueryOK, client
  <2>6. ASSUME NEW x \in Queries, x # q PROVE QueryOK(x)'
    <3>1. \A y \in Servers : <<x, y>> # <<q, s>> => sub'[<<x, y>>] = sub[<<x, y>>] BY <1>3
    <3> QED BY <1>5, <1>8, <2>1, <2>6, <3>1, OtherQuery
  <2>7. \A x \in Queries : answers'[x] >= answers[x] BY <1>2, <2>1 DEF QueryTypes
  <2> QED BY <2>2, <2>5, <2>6, <2>7, ClientFrame DEF QueriesInv
<1> QED BY <1>9, <1>10

-----------------------------------------------------------------------------
(* The client.                                                             *)

SamePacket(q) ==
    /\ packet'[q].st = packet[q].st
    /\ Mine(q)' = Mine(q) /\ called'[q] = called[q]
    /\ q \in waiting' <=> q \in waiting
    /\ q \in ToSet(deadlines') => q \in ToSet(deadlines)
    /\ q \in main'.lines => q \in main.lines
    /\ packet[q].st = "made" => main'.pc = "send" /\ main'.query = q
    /\ read'[q] <= answers'[q]

LEMMA PacketFrame ==
    ASSUME NEW q \in Queries, PacketOK(q), SamePacket(q)
    PROVE  PacketOK(q)'
<1>1. packet'[q].st \notin {"none", "failed"} => OwnerOK(Mine(q)', called'[q], q \in waiting')
  <2>1. CASE q \in waiting BY <2>1 DEF PacketOK, SamePacket, OwnerOK
  <2>2. CASE q \notin waiting BY <2>2 DEF PacketOK, SamePacket, OwnerOK
  <2> QED BY <2>1, <2>2
<1> QED BY <1>1 DEF PacketOK, SamePacket

\* Steps of the client that leave the aggregator alone.
LEMMA AggregatorFrame ==
    ASSUME QueriesInv, UNCHANGED <<asked, execution>>,
           \A q \in Queries : packet'[q].st = packet[q].st \/ (packet[q].st # "sent" /\ packet'[q].st # "sent")
    PROVE  QueryTypes' /\ \A q \in Queries : QueryOK(q)'
<1>1. QueryTypes' BY DEF QueriesInv, QueryTypes, execution
<1>2. \A q \in Queries : SameQuery(q) BY DEF SameQuery, execution
<1> QED BY <1>1, <1>2, QueryFrame DEF QueriesInv

\* The numbers of answers, and those that have been read, are ordered.
LEMMA ReadOrder ==
    ASSUME QueriesInv, UNCHANGED answers, UNCHANGED read
    PROVE  \A q \in Queries : read'[q] <= answers'[q]
BY DEF QueriesInv, PacketOK

LEMMA PacketUpdate ==
    ASSUME QueriesInv, NEW q \in Queries, NEW v \in {"none", "made", "posted", "sent", "failed"},
           packet' = [packet EXCEPT ![q].st = v]
    PROVE  /\ packet' \in [Queries -> [st : {"none", "made", "posted", "sent", "failed"}, conn : Ids]]
           /\ packet'[q].st = v
           /\ \A x \in Queries : x # q => packet'[x] = packet[x]
<1>1. packet \in [Queries -> [st : {"none", "made", "posted", "sent", "failed"}, conn : Ids]]
  BY DEF QueriesInv, ClientTypes
<1>2. [packet[q] EXCEPT !.st = v] \in [st : {"none", "made", "posted", "sent", "failed"}, conn : Ids]
  BY <1>1
<1>3. [packet[q] EXCEPT !.st = v].st = v BY <1>1
<1> QED BY <1>1, <1>2, <1>3

LEMMA SendQueryStep ==
    ASSUME QueriesInv, ConnectionsInv, NEW q \in Queries, SendQueryAsync(q)
    PROVE  QueriesInv'
<1>1. /\ main.pc = "idle" /\ q \in main.lines
      /\ main' = [pc |-> "send", query |-> q, lines |-> main.lines \ {q}]
      /\ packet' = [packet EXCEPT ![q] = [st |-> "made", conn |-> known]]
      /\ waiting' = waiting \cup {q} /\ deadlines' = Append(deadlines, q)
      /\ UNCHANGED <<aggregator, jobs, tasks, called, finished, read>>
  BY DEF SendQueryAsync, Waiting!Add
<1>2. UNCHANGED <<asked, execution>> /\ answers' = answers BY <1>1 DEF aggregator, execution
<1>3. ClientTypes /\ PacketOK(q) /\ known \in Ids BY DEF QueriesInv, ConnectionsInv, LinkInv, LinkTypes
<1>4. packet[q].st = "none" /\ q \notin ToSet(deadlines) /\ Mine(q) = {} /\ called[q] = 0
  BY <1>1, <1>3 DEF PacketOK
<1>5. TableOK(waiting', deadlines', Queries) /\ ToSet(deadlines') = ToSet(deadlines) \cup {q}
  <2>1. TableOK(waiting, deadlines, Queries) BY <1>3 DEF ClientTypes
  <2>2. /\ TableOK(waiting \cup {q}, Append(deadlines, q), Queries)
        /\ ToSet(Append(deadlines, q)) = ToSet(deadlines) \cup {q}
    <3>1. q \notin ToSet(deadlines) /\ q \in Queries BY <1>4
    <3>2. TableOK(waiting \cup {q}, Append(deadlines, q), Queries)
      BY ONLY <2>1, <3>1, TableAdd
    <3>3. ToSet(Append(deadlines, q)) = ToSet(deadlines) \cup {q}
      BY ONLY <2>1, <3>1, <3>2, TableAdd
    <3> QED BY <3>2, <3>3
  <2>3. waiting' = waiting \cup {q} /\ deadlines' = Append(deadlines, q) BY <1>1
  <2> QED BY <2>2, <2>3
<1>6. /\ packet' \in [Queries -> [st : {"none", "made", "posted", "sent", "failed"}, conn : Ids]]
      /\ packet'[q].st = "made" /\ \A x \in Queries : x # q => packet'[x] = packet[x]
  BY <1>1, <1>3 DEF ClientTypes
<1>7. ClientTypes'
  <2>1. main' \in [pc : {"idle", "send", "wait", "waiting"}, query : Queries \cup {NoQuery}, lines : SUBSET Queries]
    BY <1>1, <1>3 DEF ClientTypes
  <2> QED BY <1>1, <1>3, <1>5, <1>6, <2>1 DEF ClientTypes
<1>8. main'.pc = "send" /\ main'.query = q /\ main'.lines = main.lines \ {q} BY <1>1
<1>9. MainOK' BY <1>6, <1>8 DEF MainOK
<1>10. QueryTypes' /\ \A x \in Queries : QueryOK(x)'
  <2>1. \A x \in Queries : packet'[x].st = packet[x].st \/ (packet[x].st # "sent" /\ packet'[x].st # "sent")
    BY <1>4, <1>6
  <2> QED BY <1>2, <2>1, AggregatorFrame
<1>11. \A x \in Queries : read'[x] <= answers'[x] BY <1>1, <1>2, ReadOrder
<1>12. \A x \in Queries : Mine(x)' = Mine(x) /\ called'[x] = called[x] BY <1>1 DEF Mine
<1>13. PacketOK(q)'
  <2>1. q \in waiting' BY <1>1
  <2>2. OwnerOK(Mine(q)', called'[q], q \in waiting') BY <2>1, <1>4, <1>12 DEF OwnerOK
  <2>3. q \notin main'.lines BY <1>8
  <2> QED BY <1>6, <1>8, <1>11, <2>2, <2>3 DEF PacketOK
<1>14. ASSUME NEW x \in Queries, x # q PROVE PacketOK(x)'
  <2>1. PacketOK(x) BY DEF QueriesInv
  <2>2. packet[x].st # "made" BY <1>1, <2>1 DEF PacketOK
  <2>3. SamePacket(x)
    BY <1>1, <1>5, <1>6, <1>8, <1>11, <1>12, <1>14, <2>2 DEF SamePacket
  <2> QED BY <2>1, <2>3, PacketFrame
<1> QED BY <1>7, <1>9, <1>10, <1>13, <1>14 DEF QueriesInv

LEMMA PostPacketStep ==
    ASSUME QueriesInv, PostPacket
    PROVE  QueriesInv'
<1> DEFINE q == main.query
<1>1. /\ main.pc = "send" /\ main' = [main EXCEPT !.pc = "wait"]
      /\ packet' = [packet EXCEPT ![q].st = "posted"] /\ jobs' = (jobs + 1) % CounterSize
      /\ UNCHANGED <<aggregator, waiting, deadlines, tasks, called, finished, read>>
  BY DEF PostPacket
<1>2. UNCHANGED <<asked, execution>> /\ answers' = answers BY <1>1 DEF aggregator, execution
<1>3. q \in Queries /\ packet[q].st = "made" /\ ClientTypes BY <1>1 DEF QueriesInv, MainOK
<1> HIDE DEF q
<1>4. /\ main'.pc = "wait" /\ main'.query = q /\ main'.lines = main.lines
      /\ main' \in [pc : {"idle", "send", "wait", "waiting"}, query : Queries \cup {NoQuery}, lines : SUBSET Queries]
  BY <1>1, <1>3 DEF ClientTypes, q
<1>5. /\ packet' \in [Queries -> [st : {"none", "made", "posted", "sent", "failed"}, conn : Ids]]
      /\ packet'[q].st = "posted" /\ \A x \in Queries : x # q => packet'[x] = packet[x]
  BY <1>1, <1>3, PacketUpdate
<1>6. ClientTypes'
  <2>1. jobs' \in 0..(CounterSize - 1) BY <1>1, <1>3, Wrap DEF ClientTypes
  <2> QED BY <1>1, <1>3, <1>4, <1>5, <2>1 DEF ClientTypes
<1>7. MainOK' BY <1>3, <1>4, <1>5 DEF MainOK
<1>8. QueryTypes' /\ \A x \in Queries : QueryOK(x)'
  <2>1. \A x \in Queries : packet'[x].st = packet[x].st \/ (packet[x].st # "sent" /\ packet'[x].st # "sent")
    BY <1>3, <1>5
  <2> QED BY <1>2, <2>1, AggregatorFrame
<1>9. \A x \in Queries : read'[x] <= answers'[x] BY <1>1, <1>2, ReadOrder
<1>10. \A x \in Queries : Mine(x)' = Mine(x) BY <1>1 DEF Mine
<1>11. ASSUME NEW x \in Queries PROVE PacketOK(x)'
  <2>1. PacketOK(x) BY DEF QueriesInv
  <2>2. CASE x = q
    <3>1. x \notin main'.lines BY <1>3, <1>4, <2>1, <2>2 DEF PacketOK
    <3>2. OwnerOK(Mine(x), called[x], x \in waiting) BY <1>3, <2>1, <2>2 DEF PacketOK
    <3>3. OwnerOK(Mine(x)', called'[x], x \in waiting') BY <1>1, <1>10, <3>2
    <3> QED BY <1>5, <1>9, <2>2, <3>1, <3>3 DEF PacketOK
  <2>3. CASE x # q
    <3>1. packet[x].st # "made" BY <2>1, <2>3 DEF PacketOK, q
    <3>2. SamePacket(x) BY <1>1, <1>4, <1>5, <1>9, <1>10, <2>3, <3>1 DEF SamePacket
    <3> QED BY <2>1, <3>2, PacketFrame
  <2> QED BY <2>2, <2>3
<1> QED BY <1>6, <1>7, <1>8, <1>11 DEF QueriesInv

\* The program waits, or goes on to the next query.
LEMMA MainStep ==
    ASSUME QueriesInv, NEW p \in {"idle", "waiting"}, main.pc \in {"wait", "waiting"},
           main' = [main EXCEPT !.pc = p], finished' \subseteq finished \cup {main.query},
           UNCHANGED <<aggregator, packet, waiting, deadlines, jobs, called, read>>,
           tasks' \subseteq TaskT,
           \A q \in Queries : packet[q].st \notin {"none", "failed"} =>
                                OwnerOK(Mine(q)', called[q], q \in waiting),
           \A q \in Queries : Mine(q) = {} => Mine(q)' = {}
    PROVE  QueriesInv'
<1>1. UNCHANGED <<asked, execution>> /\ answers' = answers BY DEF aggregator, execution
<1>2. ClientTypes /\ MainOK BY DEF QueriesInv
<1>3. /\ main'.pc = p /\ main'.query = main.query /\ main'.lines = main.lines
      /\ main' \in [pc : {"idle", "send", "wait", "waiting"}, query : Queries \cup {NoQuery}, lines : SUBSET Queries]
  BY <1>2 DEF ClientTypes
<1>4. main.query \in Queries /\ packet[main.query].st \in {"posted", "sent", "failed"} BY <1>2 DEF MainOK
<1>5. ClientTypes' BY <1>2, <1>3, <1>4 DEF ClientTypes
<1>6. MainOK' BY <1>2, <1>3, <1>4 DEF MainOK
<1>7. QueryTypes' /\ \A x \in Queries : QueryOK(x)' BY <1>1, AggregatorFrame
<1>8. ASSUME NEW q \in Queries PROVE PacketOK(q)'
  <2>1. PacketOK(q) BY DEF QueriesInv
  <2>2. packet[q].st # "made" BY <2>1 DEF PacketOK
  <2>3. read'[q] <= answers'[q] BY <1>1, <2>1 DEF PacketOK
  <2>4. packet'[q].st \notin {"none", "failed"} => OwnerOK(Mine(q)', called'[q], q \in waiting') OBVIOUS
  <2> QED BY <1>3, <2>1, <2>2, <2>3, <2>4 DEF PacketOK
<1> QED BY <1>5, <1>6, <1>7, <1>8 DEF QueriesInv

LEMMA WaitStep ==
    ASSUME QueriesInv, WaitAllFinished \/ SpuriousWakeup
    PROVE  QueriesInv'
<1>1. /\ UNCHANGED <<aggregator, packet, waiting, deadlines, jobs, called, read>> /\ tasks' = tasks
      /\ main.pc \in {"wait", "waiting"} /\ finished' \subseteq finished \cup {main.query}
      /\ \E p \in {"idle", "waiting"} : main' = [main EXCEPT !.pc = p]
  BY DEF WaitAllFinished, SpuriousWakeup
<1>2. PICK p \in {"idle", "waiting"} : main' = [main EXCEPT !.pc = p] BY <1>1
<1>3. \A q \in Queries : Mine(q)' = Mine(q) BY <1>1 DEF Mine
<1>4. tasks' \subseteq TaskT BY <1>1 DEF QueriesInv, ClientTypes
<1>5. \A q \in Queries : packet[q].st \notin {"none", "failed"} => OwnerOK(Mine(q)', called[q], q \in waiting)
  BY <1>3 DEF QueriesInv, PacketOK
<1> QED BY <1>1, <1>2, <1>3, <1>4, <1>5, MainStep

LEMMA WriteQueryStep ==
    ASSUME QueriesInv, NEW q \in Queries, WriteQuery(q)
    PROVE  QueriesInv'
<1>1. /\ packet[q].st = "posted" /\ packet' = [packet EXCEPT ![q].st = "sent"] /\ asked' = asked \cup {q}
      /\ UNCHANGED <<execution, main, waiting, deadlines, jobs, tasks, called, finished, read>>
  BY DEF WriteQuery
<1>2. answers' = answers BY <1>1 DEF execution
<1>3. ClientTypes /\ QueryTypes /\ MainOK BY DEF QueriesInv
<1>4. /\ packet' \in [Queries -> [st : {"none", "made", "posted", "sent", "failed"}, conn : Ids]]
      /\ packet'[q].st = "sent" /\ \A x \in Queries : x # q => packet'[x] = packet[x]
  BY <1>1, PacketUpdate
<1>5. ClientTypes' BY <1>1, <1>3, <1>4 DEF ClientTypes
<1>6. MainOK' BY <1>1, <1>3, <1>4 DEF MainOK
<1>7. QueryTypes' BY <1>1, <1>3 DEF QueryTypes, execution
<1>8. ASSUME NEW x \in Queries PROVE QueryOK(x)'
  <2>1. QueryOK(x) BY DEF QueriesInv
  <2>2. CASE x = q
    <3>1. exec[x].pc = "none" BY <1>1, <2>1, <2>2 DEF QueryOK
    <3>2. \A s \in Servers : Untouched(x, s) => Untouched(x, s)' BY <1>1 DEF Untouched, execution
    <3>3. SendFailed(x)' <=> SendFailed(x) BY <1>1 DEF SendFailed, execution
    <3>4. exec' = exec /\ answers' = answers /\ callbacks' = callbacks BY <1>1 DEF execution
    <3> QED BY <1>4, <2>1, <2>2, <3>1, <3>2, <3>3, <3>4 DEF QueryOK
  <2>3. CASE x # q
    <3>1. SameQuery(x) BY <1>1, <1>4, <2>3 DEF SameQuery, execution
    <3> QED BY <2>1, <3>1, QueryFrame
  <2> QED BY <2>2, <2>3
<1>9. ASSUME NEW x \in Queries PROVE PacketOK(x)'
  <2>1. PacketOK(x) /\ Mine(x)' = Mine(x) /\ read'[x] <= answers'[x] BY <1>1, <1>2 DEF QueriesInv, PacketOK, Mine
  <2>2. CASE x = q
    <3>1. OwnerOK(Mine(x), called[x], x \in waiting) /\ x \notin main.lines BY <1>1, <2>1, <2>2 DEF PacketOK
    <3>2. OwnerOK(Mine(x)', called'[x], x \in waiting') /\ x \notin main'.lines BY <1>1, <2>1, <3>1
    <3> QED BY <1>4, <2>1, <2>2, <3>2 DEF PacketOK
  <2>3. CASE x # q
    <3>1. packet[x].st = "made" => main.pc = "send" /\ main.query = x BY <2>1 DEF PacketOK
    <3>2. SamePacket(x) BY <1>1, <1>4, <2>1, <2>3, <3>1 DEF SamePacket
    <3> QED BY <2>1, <3>2, PacketFrame
  <2> QED BY <2>2, <2>3
<1> QED BY <1>5, <1>6, <1>7, <1>8, <1>9 DEF QueriesInv

LEMMA WriteQueryFailsStep ==
    ASSUME QueriesInv, NEW q \in Queries, WriteQueryFails(q)
    PROVE  QueriesInv'
<1>1. /\ packet[q].st = "posted" /\ packet' = [packet EXCEPT ![q].st = "failed"]
      /\ tasks' = tasks \cup {Task(q, "failure")}
      /\ UNCHANGED <<aggregator, main, waiting, deadlines, jobs, called, finished, read>>
  BY DEF WriteQueryFails
<1>2. UNCHANGED <<asked, execution>> /\ answers' = answers BY <1>1 DEF aggregator, execution
<1>3. ClientTypes /\ MainOK BY DEF QueriesInv
<1>4. /\ packet' \in [Queries -> [st : {"none", "made", "posted", "sent", "failed"}, conn : Ids]]
      /\ packet'[q].st = "failed" /\ \A x \in Queries : x # q => packet'[x] = packet[x]
  BY <1>1, PacketUpdate
<1>5. Task(q, "failure") \in TaskT /\ Task(q, "failure").query = q BY NewTask
<1>6. ClientTypes' BY <1>1, <1>3, <1>4, <1>5 DEF ClientTypes
<1>7. MainOK' BY <1>1, <1>3, <1>4 DEF MainOK
<1>8. QueryTypes' /\ \A x \in Queries : QueryOK(x)'
  <2>1. \A x \in Queries : packet'[x].st = packet[x].st \/ (packet[x].st # "sent" /\ packet'[x].st # "sent")
    BY <1>1, <1>4
  <2> QED BY <1>2, <2>1, AggregatorFrame
<1>9. \A x \in Queries : read'[x] <= answers'[x] BY <1>1, <1>2, ReadOrder
<1>10. \A x \in Queries : x # q => Mine(x)' = Mine(x) BY <1>1, <1>5 DEF Mine
<1>11. ASSUME NEW x \in Queries PROVE PacketOK(x)'
  <2>1. PacketOK(x) BY DEF QueriesInv
  <2>2. CASE x = q
    <3>1. x \notin main'.lines BY <1>1, <2>1, <2>2 DEF PacketOK
    <3> QED BY <1>4, <1>9, <2>2, <3>1 DEF PacketOK
  <2>3. CASE x # q
    <3>1. packet[x].st = "made" => main.pc = "send" /\ main.query = x BY <2>1 DEF PacketOK
    <3>2. SamePacket(x) BY <1>1, <1>4, <1>9, <1>10, <2>3, <3>1 DEF SamePacket
    <3> QED BY <2>1, <3>2, PacketFrame
  <2> QED BY <2>2, <2>3
<1> QED BY <1>6, <1>7, <1>8, <1>11 DEF QueriesInv

\* The callback of q is taken from the table, by an answer or by the timeout.
LEMMA TakeStep ==
    ASSUME QueriesInv, NEW q \in Queries, NEW k \in {"answer", "timeout"},
           q \in waiting, waiting' = waiting \ {q}, tasks' = tasks \cup {Task(q, k)},
           TableOK(waiting', deadlines', Queries), ToSet(deadlines') \subseteq ToSet(deadlines),
           UNCHANGED <<aggregator, main, packet, jobs, called, finished>>,
           read' \in [Queries -> Nat], \A x \in Queries : read'[x] <= answers[x]
    PROVE  QueriesInv'
<1>1. UNCHANGED <<asked, execution>> /\ answers' = answers BY DEF aggregator, execution
<1>2. ClientTypes /\ MainOK BY DEF QueriesInv
<1>3. Task(q, k) \in TaskT /\ Task(q, k).query = q /\ Has(Task(q, k), "callback") BY NewTask
<1>4. ClientTypes' BY <1>2, <1>3 DEF ClientTypes
<1>5. MainOK' BY <1>2 DEF MainOK
<1>6. QueryTypes' /\ \A x \in Queries : QueryOK(x)' BY <1>1, AggregatorFrame
<1>7. \A x \in Queries : x # q => Mine(x)' = Mine(x) BY <1>3 DEF Mine
<1>8. ASSUME NEW x \in Queries PROVE PacketOK(x)'
  <2>1. PacketOK(x) BY DEF QueriesInv
  <2>2. CASE x = q
    <3>1. packet[q].st # "none"
      <4>1. q \in ToSet(deadlines) BY <1>2, TableTypes DEF ClientTypes
      <4> QED BY <4>1, <2>1, <2>2 DEF PacketOK
    <3>2. ASSUME packet[q].st # "failed" PROVE OwnerOK(Mine(q)', called'[q], q \in waiting')
      <4>1. OwnerOK(Mine(q), called[q], q \in waiting) BY <2>1, <2>2, <3>1, <3>2 DEF PacketOK
      <4>2. Mine(q) = {} /\ called[q] = 0 BY <4>1 DEF OwnerOK
      <4>3. Mine(q)' = {Task(q, k)} BY <4>2, <1>3 DEF Mine
      <4>4. q \notin waiting' OBVIOUS
      <4> QED BY <1>3, <4>2, <4>3, <4>4 DEF OwnerOK
    <3> QED BY <1>1, <2>1, <2>2, <3>1, <3>2 DEF PacketOK
  <2>3. CASE x # q
    <3>1. packet[x].st = "made" => main.pc = "send" /\ main.query = x BY <2>1 DEF PacketOK
    <3>2. SamePacket(x) BY <1>1, <1>7, <2>3, <3>1 DEF SamePacket
    <3> QED BY <2>1, <3>2, PacketFrame
  <2> QED BY <2>2, <2>3
<1> QED BY <1>4, <1>5, <1>6, <1>8 DEF QueriesInv

\* The answer or the timeout finds that the callback has been taken.
LEMMA InVainStep ==
    ASSUME QueriesInv, waiting' = waiting, tasks' = tasks,
           TableOK(waiting', deadlines', Queries), ToSet(deadlines') \subseteq ToSet(deadlines),
           UNCHANGED <<aggregator, main, packet, jobs, called, finished>>,
           read' \in [Queries -> Nat], \A x \in Queries : read'[x] <= answers[x]
    PROVE  QueriesInv'
<1>1. UNCHANGED <<asked, execution>> /\ answers' = answers BY DEF aggregator, execution
<1>2. ClientTypes /\ MainOK BY DEF QueriesInv
<1>3. ClientTypes' BY <1>2 DEF ClientTypes
<1>4. MainOK' BY <1>2 DEF MainOK
<1>5. QueryTypes' /\ \A x \in Queries : QueryOK(x)' BY <1>1, AggregatorFrame
<1>6. ASSUME NEW x \in Queries PROVE PacketOK(x)'
  <2>1. PacketOK(x) /\ Mine(x)' = Mine(x) BY DEF QueriesInv, Mine
  <2>2. packet[x].st = "made" => main.pc = "send" /\ main.query = x BY <2>1 DEF PacketOK
  <2>3. SamePacket(x) BY <1>1, <2>1, <2>2 DEF SamePacket
  <2> QED BY <2>1, <2>3, PacketFrame
<1> QED BY <1>3, <1>4, <1>5, <1>6 DEF QueriesInv

LEMMA ResponseStep ==
    ASSUME QueriesInv, NEW q \in Queries, ClientSearchResponse(q)
    PROVE  QueriesInv'
<1>1. /\ read[q] < answers[q] /\ read' = [read EXCEPT ![q] = @ + 1]
      /\ deadlines' = deadlines
      /\ \/ q \in waiting /\ waiting' = waiting \ {q} /\ tasks' = tasks \cup {Task(q, "answer")}
         \/ q \notin waiting /\ waiting' = waiting /\ tasks' = tasks
      /\ UNCHANGED <<aggregator, main, packet, jobs, called, finished>>
  BY DEF ClientSearchResponse, Waiting!GetAndRemove
<1>2. read \in [Queries -> Nat] /\ answers \in [Queries -> Nat] /\ TableOK(waiting, deadlines, Queries)
  BY DEF QueriesInv, ClientTypes, QueryTypes
<1>3. \A x \in Queries : read[x] <= answers[x] BY DEF QueriesInv, PacketOK
<1>4. read' \in [Queries -> Nat] /\ \A x \in Queries : read'[x] <= answers[x]
  BY <1>1, <1>2, <1>3
<1>5. TableOK(waiting', deadlines', Queries)
  <2>1. waiting' = waiting \ {q} BY <1>1
  <2> QED BY <1>1, <1>2, <2>1, TableGet
<1>6. ToSet(deadlines') \subseteq ToSet(deadlines) BY <1>1
<1>7. CASE q \in waiting
  <2>1. waiting' = waiting \ {q} /\ tasks' = tasks \cup {Task(q, "answer")} BY <1>1, <1>7
  <2> QED BY <1>1, <1>4, <1>5, <1>6, <1>7, <2>1, TakeStep
<1>8. CASE q \notin waiting
  <2>1. waiting' = waiting /\ tasks' = tasks BY <1>1, <1>8
  <2> QED BY <1>1, <1>4, <1>5, <1>6, <2>1, InVainStep
<1> QED BY <1>7, <1>8

LEMMA ClientTimeoutStep ==
    ASSUME QueriesInv, NEW q \in Queries, ClientTimeout(q)
    PROVE  QueriesInv'
<1>1. /\ deadlines # <<>> /\ q = Head(deadlines) /\ deadlines' = Tail(deadlines)
      /\ \/ q \in waiting /\ waiting' = waiting \ {q} /\ tasks' = tasks \cup {Task(q, "timeout")}
         \/ q \notin waiting /\ waiting' = waiting /\ tasks' = tasks
      /\ UNCHANGED <<aggregator, main, packet, jobs, called, finished, read>>
  BY DEF ClientTimeout, Waiting!Expire, Waiting!ExpireInVain
<1>2. read \in [Queries -> Nat] /\ TableOK(waiting, deadlines, Queries)
  BY DEF QueriesInv, ClientTypes
<1>3. \A x \in Queries : read[x] <= answers[x] BY DEF QueriesInv, PacketOK
<1>4. read' \in [Queries -> Nat] /\ \A x \in Queries : read'[x] <= answers[x]
  BY <1>1, <1>2, <1>3
<1>5. TableOK(waiting', deadlines', Queries) /\ ToSet(deadlines') \subseteq ToSet(deadlines)
  <2>1. waiting' = waiting \ {q} /\ deadlines' = Tail(deadlines) /\ q = Head(deadlines) /\ deadlines # <<>> BY <1>1
  <2>2. /\ TableOK(waiting \ {Head(deadlines)}, Tail(deadlines), Queries)
        /\ ToSet(Tail(deadlines)) = ToSet(deadlines) \ {Head(deadlines)}
    BY <1>2, <2>1, TableTail
  <2> QED BY <2>1, <2>2
<1>6. CASE q \in waiting
  <2>1. waiting' = waiting \ {q} /\ tasks' = tasks \cup {Task(q, "timeout")} BY <1>1, <1>6
  <2> QED BY <1>1, <1>4, <1>5, <1>6, <2>1, TakeStep
<1>7. CASE q \notin waiting
  <2>1. waiting' = waiting /\ tasks' = tasks BY <1>1, <1>7
  <2> QED BY <1>1, <1>4, <1>5, <2>1, InVainStep
<1> QED BY <1>6, <1>7

\* Task t has done its next step; n is how often the callback of its query has run by then.
LEMMA TaskDone ==
    ASSUME QueriesInv, NEW t \in tasks, tasks' = Done(t), NEW n,
           n = IF Head(t.todo) = "callback" THEN called[t.query] + 1 ELSE called[t.query]
    PROVE  /\ tasks' \subseteq TaskT /\ t.query \in Queries /\ packet[t.query].st # "none"
           /\ \A q \in Queries : q # t.query => Mine(q)' = Mine(q)
           /\ packet[t.query].st # "failed" =>
                /\ Mine(t.query) = {t} /\ t.query \notin waiting
                /\ OwnerOK(Mine(t.query)', n, FALSE)
                /\ Mine(t.query)' = IF Len(t.todo) = 1 THEN {} ELSE {Rest(t)}
<1> DEFINE q == t.query
<1>1. tasks \subseteq TaskT /\ t \in TaskT /\ called \in [Queries -> Nat] BY DEF QueriesInv, ClientTypes
<1>2. /\ q \in Queries
      /\ Has(t, Head(t.todo))
      /\ Len(t.todo) = 1 => \A x : Has(t, x) <=> x = Head(t.todo)
      /\ Len(t.todo) # 1 => /\ Rest(t) \in TaskT /\ Rest(t).query = q
                            /\ \A x : Has(Rest(t), x) <=> Has(t, x) /\ x # Head(t.todo)
  BY <1>1, TaskSteps
<1>3. tasks' = IF Len(t.todo) = 1 THEN tasks \ {t} ELSE (tasks \ {t}) \cup {Rest(t)} BY DEF Done, Rest
<1>4. tasks' \subseteq TaskT BY <1>1, <1>2, <1>3
<1>5. t \in Mine(q) /\ PacketOK(q) BY <1>2 DEF Mine, QueriesInv
<1>6. packet[q].st # "none" BY <1>5 DEF PacketOK
<1>7. \A x \in Queries : x # q => Mine(x)' = Mine(x) BY <1>2, <1>3 DEF Mine
<1>8. ASSUME packet[q].st # "failed"
      PROVE  /\ Mine(q) = {t} /\ q \notin waiting
             /\ OwnerOK(Mine(q)', n, FALSE)
             /\ Mine(q)' = IF Len(t.todo) = 1 THEN {} ELSE {Rest(t)}
  <2>1. OwnerOK(Mine(q), called[q], q \in waiting) BY <1>5, <1>6, <1>8 DEF PacketOK
  <2>2. /\ Mine(q) = {t} /\ q \notin waiting
        /\ \/ called[q] = 0 /\ Has(t, "callback")
           \/ called[q] = 1 /\ ~Has(t, "callback")
    BY <2>1, <1>5 DEF OwnerOK
  <2>3. Mine(q)' = IF Len(t.todo) = 1 THEN {} ELSE {Rest(t)}
    <3>1. CASE Len(t.todo) = 1 BY <3>1, <2>2, <1>3 DEF Mine
    <3>2. CASE Len(t.todo) # 1 BY <3>2, <2>2, <1>2, <1>3 DEF Mine
    <3> QED BY <3>1, <3>2
  <2>4. OwnerOK(Mine(q)', n, FALSE)
    <3>1. CASE Head(t.todo) = "callback"
      <4>1. n = 1 BY <3>1, <2>2, <1>2
      <4>2. Len(t.todo) # 1 => ~Has(Rest(t), "callback") BY <3>1, <1>2
      <4> QED BY <4>1, <4>2, <2>3 DEF OwnerOK
    <3>2. CASE Head(t.todo) # "callback"
      <4>1. n = called[q] BY <3>2
      <4>2. Len(t.todo) = 1 => ~Has(t, "callback") BY <3>2, <1>2
      <4>3. Len(t.todo) # 1 => (Has(Rest(t), "callback") <=> Has(t, "callback")) BY <3>2, <1>2
      <4> QED BY <4>1, <4>2, <4>3, <2>2, <2>3 DEF OwnerOK
    <3> QED BY <3>1, <3>2
  <2> QED BY <2>2, <2>3, <2>4
<1> QED BY <1>2, <1>4, <1>6, <1>7, <1>8

LEMMA TaskStep ==
    ASSUME QueriesInv, NEW t \in tasks, RunCallback(t) \/ Decrease(t)
    PROVE  QueriesInv'
<1> DEFINE n == IF Head(t.todo) = "callback" THEN called[t.query] + 1 ELSE called[t.query]
<1>1. /\ tasks' = Done(t) /\ UNCHANGED <<aggregator, main, packet, waiting, deadlines, finished, read>>
      /\ jobs' = jobs \/ jobs' = (jobs - 1) % CounterSize
  BY DEF RunCallback, Decrease
<1>2. ClientTypes /\ MainOK BY DEF QueriesInv
<1>3. /\ tasks' \subseteq TaskT /\ t.query \in Queries /\ packet[t.query].st # "none"
      /\ \A q \in Queries : q # t.query => Mine(q)' = Mine(q)
      /\ packet[t.query].st # "failed" => t.query \notin waiting /\ OwnerOK(Mine(t.query)', n, FALSE)
  BY <1>1, TaskDone
<1>4. called' = [called EXCEPT ![t.query] = n] /\ n \in Nat
  BY <1>2, <1>3 DEF RunCallback, Decrease, ClientTypes
<1> HIDE DEF n
<1>5. called' \in [Queries -> Nat] /\ called'[t.query] = n /\ \A q \in Queries : q # t.query => called'[q] = called[q]
  BY <1>2, <1>3, <1>4 DEF ClientTypes
<1>6. UNCHANGED <<asked, execution>> /\ answers' = answers BY <1>1 DEF aggregator, execution
<1>7. ClientTypes'
  <2>1. jobs' \in 0..(CounterSize - 1) BY <1>1, <1>2, Wrap DEF ClientTypes
  <2> QED BY <1>1, <1>2, <1>3, <1>5, <2>1 DEF ClientTypes
<1>8. MainOK' BY <1>1, <1>2 DEF MainOK
<1>9. QueryTypes' /\ \A x \in Queries : QueryOK(x)'
  <2>1. \A x \in Queries : packet'[x].st = packet[x].st BY <1>1
  <2> QED BY <1>6, <2>1, AggregatorFrame
<1>10. \A x \in Queries : read'[x] <= answers'[x]
  <2>1. read' = read BY <1>1
  <2> QED BY <1>6, <2>1, ReadOrder
<1>11. ASSUME NEW x \in Queries PROVE PacketOK(x)'
  <2>1. PacketOK(x) BY DEF QueriesInv
  <2>2. CASE x = t.query
    <3>1. packet'[x].st # "failed" => OwnerOK(Mine(x)', called'[x], x \in waiting')
      <4>1. ASSUME packet[x].st # "failed" PROVE OwnerOK(Mine(x)', called'[x], x \in waiting')
        <5>1. x \notin waiting' BY <1>1, <1>3, <2>2, <4>1
        <5>2. OwnerOK(Mine(x)', called'[x], FALSE) BY <1>3, <1>5, <2>2, <4>1
        <5> QED BY <5>1, <5>2 DEF OwnerOK
      <4> QED BY <4>1, <1>1
    <3> QED BY <1>1, <1>3, <1>10, <2>1, <2>2, <3>1 DEF PacketOK
  <2>3. CASE x # t.query
    <3>1. packet[x].st = "made" => main.pc = "send" /\ main.query = x BY <2>1 DEF PacketOK
    <3>2. SamePacket(x) BY <1>1, <1>3, <1>5, <1>10, <2>3, <3>1 DEF SamePacket
    <3> QED BY <2>1, <3>2, PacketFrame
  <2> QED BY <2>2, <2>3
<1> QED BY <1>7, <1>8, <1>9, <1>11 DEF QueriesInv

LEMMA NotifyStep ==
    ASSUME QueriesInv, NEW t \in tasks, Notify(t)
    PROVE  QueriesInv'
<1>1. /\ tasks' = Done(t) /\ Head(t.todo) = "notify"
      /\ UNCHANGED <<aggregator, packet, waiting, deadlines, jobs, called, read>>
      /\ \/ main.pc = "waiting" /\ main' = [main EXCEPT !.pc = "idle"] /\ finished' = finished \cup {main.query}
         \/ UNCHANGED <<main, finished>>
  BY DEF Notify
<1>2. /\ tasks' \subseteq TaskT /\ t.query \in Queries /\ packet[t.query].st # "none"
      /\ \A q \in Queries : q # t.query => Mine(q)' = Mine(q)
      /\ packet[t.query].st # "failed" => t.query \notin waiting /\ OwnerOK(Mine(t.query)', called[t.query], FALSE)
  <2>1. called[t.query] = IF Head(t.todo) = "callback" THEN called[t.query] + 1 ELSE called[t.query] BY <1>1
  <2> QED BY <1>1, <2>1, TaskDone
<1>3. \A q \in Queries : packet[q].st \notin {"none", "failed"} => OwnerOK(Mine(q)', called[q], q \in waiting)
  <2>1. ASSUME NEW q \in Queries, packet[q].st \notin {"none", "failed"}
        PROVE  OwnerOK(Mine(q)', called[q], q \in waiting)
    <3>1. CASE q = t.query
      <4>1. q \notin waiting /\ OwnerOK(Mine(q)', called[q], FALSE) BY <1>2, <2>1, <3>1
      <4> QED BY <4>1 DEF OwnerOK
    <3>2. CASE q # t.query
      BY <1>2, <2>1, <3>2 DEF QueriesInv, PacketOK
    <3> QED BY <3>1, <3>2
  <2> QED BY <2>1
<1>4. \A q \in Queries : Mine(q) = {} => Mine(q)' = {}
  <2>1. t \in Mine(t.query) BY DEF Mine
  <2> QED BY <1>2, <2>1
<1>5. CASE main.pc = "waiting" /\ main' = [main EXCEPT !.pc = "idle"] /\ finished' = finished \cup {main.query}
  BY <1>1, <1>2, <1>3, <1>4, <1>5, MainStep
<1>6. CASE UNCHANGED <<main, finished>>
  <2>1. ClientTypes /\ MainOK BY DEF QueriesInv
  <2>2. UNCHANGED <<asked, execution>> /\ answers' = answers BY <1>1 DEF aggregator, execution
  <2>3. ClientTypes' BY <1>1, <1>2, <1>6, <2>1 DEF ClientTypes
  <2>4. MainOK' BY <1>1, <1>6, <2>1 DEF MainOK
  <2>5. QueryTypes' /\ \A x \in Queries : QueryOK(x)'
    <3>1. \A x \in Queries : packet'[x].st = packet[x].st BY <1>1
    <3> QED BY <2>2, <3>1, AggregatorFrame
  <2>6. ASSUME NEW x \in Queries PROVE PacketOK(x)'
    <3>1. PacketOK(x) BY DEF QueriesInv
    <3>2. packet'[x].st \notin {"none", "failed"} => OwnerOK(Mine(x)', called'[x], x \in waiting') BY <1>1, <1>3
    <3> QED BY <1>1, <1>4, <1>6, <2>2, <3>1, <3>2 DEF PacketOK
  <2> QED BY <2>3, <2>4, <2>5, <2>6 DEF QueriesInv
<1> QED BY <1>1, <1>5, <1>6

LEMMA QueriesNext ==
    ASSUME QueriesInv, ConnectionsInv, [Next]_vars
    PROVE  QueriesInv'
<1>1. ASSUME UNCHANGED <<client, asked, execution>> PROVE QueriesInv'
  <2>1. \A q \in Queries : packet'[q].st = packet[q].st BY <1>1 DEF client
  <2>2. QueryTypes' /\ \A x \in Queries : QueryOK(x)' BY <1>1, <2>1, AggregatorFrame
  <2>3. \A x \in Queries : answers'[x] >= answers[x] BY <1>1 DEF execution, QueriesInv, QueryTypes
  <2> QED BY <1>1, <2>2, <2>3, ClientFrame DEF QueriesInv
<1>2. CASE AggregatorRuns /\ UNCHANGED client
  <2>1. ASSUME ConnectToPendingServers \/ \E s \in Servers : SetConnectionID(s) \/ SetConnected(s)
        PROVE  UNCHANGED <<asked, execution>>
    BY <2>1 DEF ConnectToPendingServers, SetConnectionID, SetConnected
  <2> QED BY <1>1, <1>2, <2>1, SearchRequestStep, SendRequestStep, WriteStep, WriteFailsStep, TimeoutStep
         DEF AggregatorRuns
<1>3. CASE ServersAct /\ UNCHANGED client
  <2>1. ASSUME \E s \in Servers : Connect(s) \/ ConnectFails(s) \/ ConnectionFails(s)
        PROVE  UNCHANGED <<asked, execution>>
    BY <2>1 DEF Connect, ConnectFails, ConnectionFails
  <2> QED BY <1>1, <1>3, <2>1, SearchResponseStep DEF ServersAct
<1>4. ASSUME UNCHANGED <<asked, execution, main, packet, waiting, deadlines, jobs, tasks, called, finished, read>>
      PROVE  QueriesInv'
  <2>1. \A q \in Queries : packet'[q].st = packet[q].st BY <1>4
  <2>2. QueryTypes' /\ \A x \in Queries : QueryOK(x)' BY <1>4, <2>1, AggregatorFrame
  <2>3. ClientTypes' BY <1>4 DEF QueriesInv, ClientTypes
  <2>4. MainOK' BY <1>4 DEF QueriesInv, MainOK
  <2>5. \A x \in Queries : PacketOK(x)' BY <1>4 DEF QueriesInv, PacketOK, Mine, execution
  <2> QED BY <2>2, <2>3, <2>4, <2>5 DEF QueriesInv
<1>5. CASE ClientRuns
  <2>1. ASSUME SetLink PROVE QueriesInv'
    BY <1>4, <2>1 DEF SetLink, aggregator, execution
  <2> QED BY <1>5, <2>1, PostPacketStep, WaitStep, WriteQueryStep, WriteQueryFailsStep, ClientTimeoutStep,
             TaskStep, NotifyStep
         DEF ClientRuns
<1>6. CASE ClientMeets
  <2>1. ASSUME LinkFails \/ Reconnect PROVE QueriesInv'
    BY <1>4, <2>1 DEF LinkFails, Reconnect, aggregator, execution
  <2> QED BY <1>6, <2>1, SendQueryStep, ResponseStep, WaitStep DEF ClientMeets
<1>7. CASE UNCHANGED vars
  BY <1>1, <1>7 DEF vars, aggregator, execution
<1> QED BY <1>2, <1>3, <1>5, <1>6, <1>7 DEF Next, AggregatorStep

LEMMA QueriesInvariant == Spec => [](QueriesInv /\ ConnectionsInv)
<1>1. QueriesInv /\ ConnectionsInv /\ [Next]_vars => (QueriesInv /\ ConnectionsInv)'
  BY QueriesNext, ConnectionsNext
<1>2. Init => QueriesInv /\ ConnectionsInv BY QueriesInit, ConnectionsInit
<1> QED BY <1>1, <1>2, PTL DEF Spec

(***************************************************************************)
(* Every variable of the client and of the aggregator keeps its type, the  *)
(* counters their width and the connection ids their bound; every callback *)
(* that waits is in the list of StartCheckTimeout, and no answer is read   *)
(* that was not sent.                                                      *)
(***************************************************************************)
THEOREM TypesInvariant == Spec => []TypeOK
<1>1. ASSUME QueriesInv, ConnectionsInv, RetryInv PROVE TypeOK
  <2>1. AggregatorTypeOK
    <3>1. QueryTypes /\ MachineTypes BY <1>1 DEF QueriesInv, ConnectionsInv, MachinesInv
    <3>2. ASSUME NEW q \in Queries
          PROVE  /\ exec[q].pc \in {"none", "send", "wait"}
                 /\ exec[q].todo \subseteq exec[q].targets /\ exec[q].targets \subseteq Servers
                 /\ exec[q].heard \subseteq exec[q].targets
                 /\ exec[q].unfinished \in 0..(CounterSize - 1)
      <4>1. exec[q] \in ExecT /\ QueryOK(q) BY <1>1, <3>1 DEF QueryTypes, QueriesInv
      <4> QED BY <4>1 DEF ExecT, QueryOK
    <3>3. callbacks \subseteq ToSet(timers) /\ ToSet(timers) \subseteq Subs
      BY <3>1, TableTypes DEF QueryTypes
    <3>4. \A s \in Servers : runner[s] \subseteq [pc : {"connect", "opened", "named"}, id : 0..(MaxLosses + 1)]
      BY <3>1 DEF MachineTypes, RunnerT, Ids
    <3>5. givenUp \subseteq Servers BY <1>1 DEF RetryInv
    <3> QED BY <3>1, <3>2, <3>3, <3>4, <3>5 DEF AggregatorTypeOK, QueryTypes, MachineTypes, SubT, LineT, Ids
  <2>2. ClientTypes /\ LinkTypes BY <1>1 DEF QueriesInv, ConnectionsInv, LinkInv
  <2>3. waiting \subseteq ToSet(deadlines) /\ ToSet(deadlines) \subseteq Queries
    BY <2>2, TableTypes DEF ClientTypes
  <2>4. \A t \in tasks : t.query \in Queries /\ t.kind \in {"answer", "failure", "timeout"} /\ t.todo # <<>>
    <3> SUFFICES ASSUME NEW t \in tasks
                 PROVE  t.query \in Queries /\ t.kind \in {"answer", "failure", "timeout"} /\ t.todo # <<>>
      OBVIOUS
    <3>1. t \in TaskT BY <2>2 DEF ClientTypes
    <3>2. t.kind \in {"answer", "failure", "timeout"} BY <3>1 DEF TaskT
    <3> QED BY <3>1, <3>2, TaskSteps
  <2>5. \A q \in Queries : read[q] \in 0..answers[q]
    <3> SUFFICES ASSUME NEW q \in Queries PROVE read[q] \in 0..answers[q]
      OBVIOUS
    <3>1. read[q] \in Nat /\ answers[q] \in Nat /\ read[q] <= answers[q]
      BY <1>1 DEF QueriesInv, ClientTypes, QueryTypes, PacketOK
    <3> QED BY <3>1
  <2> QED BY <2>1, <2>2, <2>3, <2>4, <2>5 DEF TypeOK, ClientTypes, LinkTypes
<1> QED BY <1>1, QueriesInvariant, RetryInvariant, PTL

(***************************************************************************)
(* The aggregator answers a query exactly once, when every server it asked *)
(* has answered or timed out, and not before, however the answers, the     *)
(* timeouts and the loop that is still sending interleave                  *)
(* (IsCompletedAfterFinsh), as long as every request could be written.     *)
(***************************************************************************)
THEOREM AnswersAreAggregatedOnce == Spec => []AggregatesOnce
<1>1. ASSUME QueriesInv PROVE AggregatesOnce
  BY <1>1 DEF QueriesInv, QueryOK, CountOK, AggregatesOnce
<1> QED BY <1>1, QueriesInvariant, PTL

(***************************************************************************)
(* The callback of a query that could be written is run once: it is in the *)
(* table of the client, or one task has it still to run, or it has run,    *)
(* and never two of these, whether the answer or the timeout takes it and  *)
(* however many answers arrive (SearchResponseHandler, StartCheckTimeout). *)
(***************************************************************************)
THEOREM CallbacksRunOnce == Spec => []CallbackOnce
<1>1. ASSUME QueriesInv PROVE CallbackOnce
  <2> SUFFICES ASSUME NEW q \in Queries, packet[q].st \notin {"none", "failed"}
               PROVE  called[q] + Cardinality(ToDo(q, "callback")) + (IF q \in waiting THEN 1 ELSE 0) = 1
    BY DEF CallbackOnce
  <2>1. OwnerOK(Mine(q), called[q], q \in waiting) BY <1>1 DEF QueriesInv, PacketOK
  <2>2. ToDo(q, "callback") = {t \in Mine(q) : Has(t, "callback")} BY DEF ToDo, Mine, Has
  <2>3. CASE q \in waiting
    <3>1. ToDo(q, "callback") = {} /\ called[q] = 0 BY <2>1, <2>2, <2>3 DEF OwnerOK
    <3> QED BY <3>1, <2>3, FS_EmptySet
  <2>4. CASE q \notin waiting /\ called[q] = 0
    <3>1. \E t : Mine(q) = {t} /\ Has(t, "callback") BY <2>1, <2>4 DEF OwnerOK
    <3>2. \E t : ToDo(q, "callback") = {t} BY <3>1, <2>2
    <3>3. Cardinality(ToDo(q, "callback")) = 1 BY <3>2, FS_Singleton
    <3> QED BY <3>3, <2>4
  <2>5. CASE q \notin waiting /\ called[q] # 0
    <3>1. called[q] = 1 /\ ToDo(q, "callback") = {} BY <2>1, <2>2, <2>5 DEF OwnerOK
    <3> QED BY <3>1, <2>5, FS_EmptySet
  <2> QED BY <2>3, <2>4, <2>5
<1> QED BY <1>1, QueriesInvariant, PTL

-----------------------------------------------------------------------------
(* The count of unfinished queries: FinishInv is inductive.                *)

\* The sets that are counted, when no query has failed.
LEMMA CountedFacts ==
    ASSUME QueriesInv, ~QueryFailed
    PROVE  /\ IsFiniteSet(Counted) /\ IsFiniteSet(Decreased)
           /\ Cardinality(Counted) \in Nat /\ Cardinality(Decreased) \in Nat
           /\ Cardinality(Counted) < CounterSize
           /\ Cardinality(Decreased) <= Cardinality(Counted) + 1
           /\ main.pc # "send" => /\ Cardinality(Decreased) <= Cardinality(Counted)
                                  /\ Cardinality(Counted) = Cardinality(Decreased) => Counted = Decreased
           /\ main.pc = "send" => main.query \in Queries \ Counted
<1>1. Counted \subseteq Queries /\ Decreased \subseteq Queries BY DEF Counted, Decreased
<1>2. /\ IsFiniteSet(Counted) /\ IsFiniteSet(Decreased) /\ Cardinality(Counted) <= Cardinality(Queries)
      /\ Cardinality(Counted) \in Nat /\ Cardinality(Decreased) \in Nat
  BY <1>1, Constants, FS_Subset, FS_CardinalityType
<1>3. ASSUME NEW q \in Decreased PROVE q \in Counted \/ (main.pc = "send" /\ q = main.query)
  <2>1. q \in Queries /\ packet[q].st # "none" BY DEF Decreased
  <2>2. packet[q].st # "failed" BY <2>1 DEF QueryFailed
  <2>3. packet[q].st \in {"none", "made", "posted", "sent", "failed"} BY <2>1 DEF QueriesInv, ClientTypes
  <2>4. packet[q].st = "made" => main.pc = "send" /\ main.query = q BY <2>1 DEF QueriesInv, PacketOK
  <2> QED BY <2>1, <2>2, <2>3, <2>4 DEF Counted
<1>4. CASE main.pc # "send"
  <2>1. Decreased \subseteq Counted BY <1>3, <1>4
  <2>2. /\ Cardinality(Decreased) <= Cardinality(Counted)
        /\ Cardinality(Counted) = Cardinality(Decreased) => Counted = Decreased
    BY <1>2, <2>1, FS_Subset
  <2> QED BY <1>2, <1>4, <2>2, Constants
<1>5. CASE main.pc = "send"
  <2>1. main.query \in Queries /\ main.query \notin Counted BY <1>5 DEF QueriesInv, MainOK, Counted
  <2>2. Decreased \subseteq Counted \cup {main.query} BY <1>3
  <2>3. IsFiniteSet(Counted \cup {main.query}) /\ Cardinality(Counted \cup {main.query}) = Cardinality(Counted) + 1
    BY <1>2, <2>1, FS_AddElement
  <2>4. Cardinality(Decreased) <= Cardinality(Counted) + 1 BY <2>2, <2>3, FS_Subset
  <2> QED BY <1>2, <1>5, <2>1, <2>4, Constants
<1> QED BY <1>4, <1>5

\* The count is 0 and the program waits for it: its query has been decreased.
LEMMA ZeroMeansDone ==
    ASSUME QueriesInv, JobsInv, main.pc \in {"wait", "waiting"}, jobs = 0, ~QueryFailed
    PROVE  /\ main.query \in Queries
           /\ called[main.query] > 0 \/ \E t \in ToDo(main.query, "callback") : t.kind = "timeout"
<1> DEFINE q == main.query
<1>1. q \in Queries /\ packet[q].st \in {"posted", "sent", "failed"} BY DEF QueriesInv, MainOK
<1>2. packet[q].st # "failed" BY <1>1 DEF QueryFailed
<1>3. Counted = Decreased
  <2>1. /\ Cardinality(Counted) \in Nat /\ Cardinality(Decreased) \in Nat
        /\ Cardinality(Decreased) <= Cardinality(Counted)
        /\ Cardinality(Counted) = Cardinality(Decreased) => Counted = Decreased
    BY CountedFacts
  <2>2. JobsOK(Cardinality(Counted) - Cardinality(Decreased)) BY DEF JobsInv
  <2> QED BY <2>1, <2>2, Constants DEF JobsOK
<1>4. q \in Decreased BY <1>1, <1>2, <1>3 DEF Counted
<1>5. q \notin waiting /\ \A t \in Mine(q) : ~Has(t, "decrease") BY <1>4 DEF Decreased
<1>6. OwnerOK(Mine(q), called[q], q \in waiting) BY <1>1, <1>2 DEF QueriesInv, PacketOK
<1>7. CASE called[q] = 1 BY <1>1, <1>7
<1>8. CASE called[q] # 1
  <2>1. PICK t : Mine(q) = {t} /\ Has(t, "callback") BY <1>5, <1>6, <1>8 DEF OwnerOK
  <2>2. t \in tasks /\ t.query = q /\ t \in TaskT BY <2>1 DEF Mine, QueriesInv, ClientTypes
  <2>3. t.kind = "timeout" BY <1>5, <2>1, <2>2, TaskSteps
  <2>4. t \in ToDo(q, "callback") BY <2>1, <2>2 DEF ToDo, Has
  <2> QED BY <1>1, <2>3, <2>4
<1> QED BY <1>7, <1>8

LEMMA ClientSteps ==
    ASSUME [Next]_vars
    PROVE  \/ UNCHANGED <<main, packet, waiting, jobs, tasks, called, finished>>
           \/ PostPacket \/ WaitAllFinished \/ SpuriousWakeup
           \/ \E q \in Queries : \/ SendQueryAsync(q) \/ WriteQuery(q) \/ WriteQueryFails(q)
                                 \/ ClientSearchResponse(q) \/ ClientTimeout(q)
           \/ \E t \in tasks : RunCallback(t) \/ Decrease(t) \/ Notify(t)
<1>1. CASE ClientRuns BY <1>1 DEF ClientRuns, SetLink
<1>2. CASE ClientMeets BY <1>2 DEF ClientMeets, LinkFails, Reconnect
<1>3. CASE AggregatorStep /\ UNCHANGED client BY <1>3 DEF client
<1>4. CASE UNCHANGED vars BY <1>4 DEF vars, client
<1> QED BY <1>1, <1>2, <1>3, <1>4 DEF Next

\* A step that takes the callback of q from the table, or finds that it is gone.
Takes(q) ==
    /\ UNCHANGED <<main, packet, jobs, called, finished>>
    /\ \/ q \in waiting /\ waiting' = waiting \ {q} /\ \E k \in {"answer", "timeout"} : tasks' = tasks \cup {Task(q, k)}
       \/ waiting' = waiting /\ tasks' = tasks

LEMMA TakesFact ==
    ASSUME NEW q \in Queries, ClientSearchResponse(q) \/ ClientTimeout(q)
    PROVE  Takes(q)
BY DEF ClientSearchResponse, ClientTimeout, Takes, Waiting!GetAndRemove, Waiting!Expire, Waiting!ExpireInVain

LEMMA FailedStays ==
    ASSUME QueriesInv, [Next]_vars, QueryFailed
    PROVE  QueryFailed'
<1>1. PICK q \in Queries : packet[q].st = "failed" BY DEF QueryFailed
<1>2. \A x \in Queries : Takes(x) => packet' = packet BY DEF Takes
<1>3. ASSUME NEW x \in Queries, SendQueryAsync(x) PROVE packet'[q].st = "failed"
  <2>1. packet[x].st = "none" BY <1>3 DEF SendQueryAsync, QueriesInv, PacketOK
  <2> QED BY <1>1, <1>3, <2>1 DEF SendQueryAsync, QueriesInv, ClientTypes
<1>4. ASSUME PostPacket PROVE packet'[q].st = "failed"
  <2>1. main.query \in Queries /\ packet[main.query].st = "made" BY <1>4 DEF PostPacket, QueriesInv, MainOK
  <2>2. packet' = [packet EXCEPT ![main.query].st = "posted"] BY <1>4 DEF PostPacket
  <2> QED BY <1>1, <2>1, <2>2, PacketUpdate
<1>5. ASSUME NEW x \in Queries, WriteQuery(x) \/ WriteQueryFails(x) PROVE packet'[q].st = "failed"
  <2>1. packet[x].st = "posted" BY <1>5 DEF WriteQuery, WriteQueryFails
  <2>2. packet' = [packet EXCEPT ![x].st = "sent"] \/ packet' = [packet EXCEPT ![x].st = "failed"]
    BY <1>5 DEF WriteQuery, WriteQueryFails
  <2>3. q # x BY <1>1, <2>1
  <2> QED BY <1>1, <2>2, <2>3, PacketUpdate
<1>6. ASSUME \/ UNCHANGED packet
             \/ WaitAllFinished \/ SpuriousWakeup
             \/ \E t \in tasks : RunCallback(t) \/ Decrease(t) \/ Notify(t)
      PROVE  packet'[q].st = "failed"
  BY <1>1, <1>6 DEF WaitAllFinished, SpuriousWakeup, RunCallback, Decrease, Notify
<1>7. packet'[q].st = "failed"
  BY <1>2, <1>3, <1>4, <1>5, <1>6, TakesFact, ClientSteps
<1> QED BY <1>1, <1>7 DEF QueryFailed

Answered(q) == called[q] > 0 \/ \E t \in ToDo(q, "callback") : t.kind = "timeout"

LEMMA AnsweredStays ==
    ASSUME QueriesInv, [Next]_vars, NEW q \in Queries, Answered(q)
    PROVE  Answered(q)'
<1>1. called \in [Queries -> Nat] /\ tasks \subseteq TaskT BY DEF QueriesInv, ClientTypes
<1>2. ASSUME called' = called, tasks \subseteq tasks' PROVE Answered(q)'
  BY <1>2 DEF Answered, ToDo
<1>3. ASSUME NEW t \in tasks, RunCallback(t) \/ Decrease(t) \/ Notify(t) PROVE Answered(q)'
  <2>1. tasks' = Done(t) BY <1>3 DEF RunCallback, Decrease, Notify
  <2>2. t \in TaskT /\ t.query \in Queries
        /\ (Len(t.todo) = 1 => \A x : Has(t, x) <=> x = Head(t.todo))
        /\ (Len(t.todo) # 1 => /\ Rest(t).query = t.query /\ Rest(t).kind = t.kind
                               /\ \A x : Has(Rest(t), x) <=> Has(t, x) /\ x # Head(t.todo))
    BY <1>1, TaskSteps
  <2>3. called' = [called EXCEPT ![t.query] = IF Head(t.todo) = "callback" THEN called[t.query] + 1 ELSE called[t.query]]
    BY <1>1, <1>3, <2>2 DEF RunCallback, Decrease, Notify
  <2>4. CASE called[q] > 0
    <3>1. called'[q] > 0 BY <1>1, <2>2, <2>3, <2>4
    <3> QED BY <3>1 DEF Answered
  <2>5. CASE ~(called[q] > 0)
    <3>1. PICK u \in tasks : u.query = q /\ Has(u, "callback") /\ u.kind = "timeout"
      BY <2>5 DEF Answered, ToDo, Has
    <3>2. CASE u # t
      <4>1. u \in tasks' BY <2>1, <3>2 DEF Done
      <4> QED BY <3>1, <4>1 DEF Answered, ToDo, Has
    <3>3. CASE u = t /\ Head(t.todo) = "callback"
      <4>1. called'[q] = called[q] + 1 BY <1>1, <2>2, <2>3, <3>1, <3>3
      <4>2. called'[q] > 0 BY <4>1, <1>1
      <4> QED BY <4>2 DEF Answered
    <3>4. CASE u = t /\ Head(t.todo) # "callback"
      <4>1. Len(t.todo) # 1 BY <2>2, <3>1, <3>4
      <4>2. Rest(t) \in tasks' BY <2>1, <4>1 DEF Done, Rest
      <4>3. Rest(t).query = q /\ Rest(t).kind = "timeout" /\ Has(Rest(t), "callback") BY <2>2, <3>1, <3>4, <4>1
      <4> QED BY <4>2, <4>3 DEF Answered, ToDo, Has
    <3> QED BY <3>2, <3>3, <3>4
  <2> QED BY <2>4, <2>5
<1>4. ASSUME NEW x \in Queries, Takes(x) PROVE Answered(q)'
  <2>1. called' = called /\ tasks \subseteq tasks' BY <1>4 DEF Takes
  <2> QED BY <1>2, <2>1
<1>5. ASSUME \/ PostPacket \/ WaitAllFinished \/ SpuriousWakeup
             \/ \E x \in Queries : SendQueryAsync(x) \/ WriteQuery(x) \/ WriteQueryFails(x)
      PROVE  called' = called /\ tasks \subseteq tasks'
  BY <1>5 DEF PostPacket, WaitAllFinished, SpuriousWakeup, SendQueryAsync, WriteQuery, WriteQueryFails
<1> QED BY <1>2, <1>3, <1>4, <1>5, TakesFact, ClientSteps

LEMMA FinishedStep ==
    ASSUME QueriesInv, JobsInv, FinishedMeansAnswered, [Next]_vars
    PROVE  FinishedMeansAnswered'
<1> SUFFICES ASSUME NEW q \in finished', ~QueryFailed' PROVE Answered(q)'
  BY DEF FinishedMeansAnswered, Answered
<1>1. ~QueryFailed BY FailedStays
<1>2. finished \subseteq Queries BY DEF QueriesInv, ClientTypes
<1>3. CASE q \in finished
  <2>1. Answered(q) BY <1>1, <1>3 DEF FinishedMeansAnswered, Answered
  <2> QED BY <1>2, <1>3, <2>1, AnsweredStays
<1>4. CASE q \notin finished
  <2>1. q = main.query /\ jobs = 0 /\ main.pc \in {"wait", "waiting"}
    <3>1. ASSUME NEW t \in tasks, Notify(t) PROVE q = main.query /\ jobs = 0 /\ main.pc \in {"wait", "waiting"}
      BY <1>4, <3>1 DEF Notify, NoJobs
    <3>2. ASSUME WaitAllFinished PROVE q = main.query /\ jobs = 0 /\ main.pc \in {"wait", "waiting"}
      <4>1. ~(jobs > 0) /\ q = main.query /\ main.pc = "wait" BY <1>4, <3>2 DEF WaitAllFinished
      <4>2. jobs \in 0..(CounterSize - 1) BY DEF QueriesInv, ClientTypes
      <4> QED BY <4>1, <4>2, Constants
    <3>3. \A x \in Queries : Takes(x) => finished' = finished BY DEF Takes
    <3>4. ASSUME \/ PostPacket \/ SpuriousWakeup
                 \/ \E x \in Queries : SendQueryAsync(x) \/ WriteQuery(x) \/ WriteQueryFails(x)
                 \/ \E t \in tasks : RunCallback(t) \/ Decrease(t)
          PROVE  finished' = finished
      BY <3>4 DEF PostPacket, SpuriousWakeup, SendQueryAsync, WriteQuery, WriteQueryFails, RunCallback, Decrease
    <3> QED BY <1>4, <3>1, <3>2, <3>3, <3>4, TakesFact, ClientSteps
  <2>2. q \in Queries /\ Answered(q) BY <1>1, <2>1, ZeroMeansDone DEF Answered
  <2> QED BY <2>2, AnsweredStays
<1> QED BY <1>3, <1>4

LEMMA JobsFrame ==
    ASSUME JobsInv, ~QueryFailed, jobs' = jobs, Counted' = Counted, Decreased' = Decreased
    PROVE  JobsInv'
BY DEF JobsInv, JobsOK

LEMMA JobsStep ==
    ASSUME QueriesInv, QueriesInv', JobsInv, [Next]_vars
    PROVE  JobsInv'
<1> SUFFICES ASSUME ~QueryFailed' PROVE JobsInv'
  BY DEF JobsInv
<1>1. ~QueryFailed BY FailedStays
<1>2. ASSUME UNCHANGED <<packet, waiting, tasks, jobs>> PROVE JobsInv'
  <2>1. Counted' = Counted /\ Decreased' = Decreased BY <1>2 DEF Counted, Decreased, Mine
  <2> QED BY <1>1, <1>2, <2>1, JobsFrame
<1>3. CASE WaitAllFinished \/ SpuriousWakeup
  BY <1>2, <1>3 DEF WaitAllFinished, SpuriousWakeup
<1>4. ASSUME NEW q \in Queries, SendQueryAsync(q) PROVE JobsInv'
  <2>1. /\ packet' = [packet EXCEPT ![q] = [st |-> "made", conn |-> known]] /\ q \in main.lines
        /\ waiting' = waiting \cup {q} /\ jobs' = jobs /\ tasks' = tasks
    BY <1>4 DEF SendQueryAsync, Waiting!Add
  <2>2. packet[q].st = "none" BY <2>1 DEF QueriesInv, PacketOK
  <2>3. packet'[q].st = "made" /\ \A x \in Queries : x # q => packet'[x] = packet[x]
    BY <2>1 DEF QueriesInv, ClientTypes
  <2>4. \A x \in Queries : Mine(x)' = Mine(x) BY <2>1 DEF Mine
  <2>5. Counted' = Counted BY <2>2, <2>3 DEF Counted
  <2>6. Decreased' = Decreased BY <2>1, <2>2, <2>3, <2>4 DEF Decreased
  <2> QED BY <1>1, <2>1, <2>5, <2>6, JobsFrame
<1>5. ASSUME NEW q \in Queries, WriteQuery(q) PROVE JobsInv'
  <2>1. /\ packet' = [packet EXCEPT ![q].st = "sent"] /\ packet[q].st = "posted"
        /\ waiting' = waiting /\ jobs' = jobs /\ tasks' = tasks
    BY <1>5 DEF WriteQuery
  <2>2. packet'[q].st = "sent" /\ \A x \in Queries : x # q => packet'[x] = packet[x]
    BY <2>1, PacketUpdate
  <2>3. \A x \in Queries : Mine(x)' = Mine(x) BY <2>1 DEF Mine
  <2>4. Counted' = Counted BY <2>1, <2>2 DEF Counted
  <2>5. Decreased' = Decreased BY <2>1, <2>2, <2>3 DEF Decreased
  <2> QED BY <1>1, <2>1, <2>4, <2>5, JobsFrame
<1>6. ASSUME NEW q \in Queries, WriteQueryFails(q) PROVE FALSE
  <2>1. packet' = [packet EXCEPT ![q].st = "failed"] BY <1>6 DEF WriteQueryFails
  <2>2. packet'[q].st = "failed" BY <2>1, PacketUpdate
  <2> QED BY <2>2 DEF QueryFailed
<1>7. ASSUME NEW q \in Queries, Takes(q) PROVE JobsInv'
  <2>1. CASE waiting' = waiting /\ tasks' = tasks BY <1>2, <1>7, <2>1 DEF Takes
  <2>2. CASE q \in waiting /\ waiting' = waiting \ {q} /\ \E k \in {"answer", "timeout"} : tasks' = tasks \cup {Task(q, k)}
    <3>1. PICK k \in {"answer", "timeout"} : tasks' = tasks \cup {Task(q, k)} BY <2>2
    <3>2. Task(q, k).query = q /\ Has(Task(q, k), "decrease") BY NewTask
    <3>3. \A x \in Queries : x # q => Mine(x)' = Mine(x) BY <3>1, <3>2 DEF Mine
    <3>4. Task(q, k) \in Mine(q)' BY <3>1, <3>2 DEF Mine
    <3>5. q \notin Decreased /\ q \notin Decreased' BY <2>2, <3>2, <3>4 DEF Decreased
    <3>6. packet' = packet /\ jobs' = jobs BY <1>7 DEF Takes
    <3>7. \A x \in Queries : x # q => (x \in Decreased' <=> x \in Decreased)
      BY <2>2, <3>3, <3>6 DEF Decreased
    <3>8. Decreased' = Decreased
      <4>1. Decreased \subseteq Queries /\ Decreased' \subseteq Queries BY DEF Decreased
      <4> QED BY <3>5, <3>7, <4>1
    <3>9. Counted' = Counted BY <3>6 DEF Counted
    <3> QED BY <1>1, <3>6, <3>8, <3>9, JobsFrame
  <2> QED BY <1>7, <2>1, <2>2 DEF Takes
<1>8. CASE PostPacket
  <2> DEFINE q == main.query
  <2>1. /\ main.pc = "send" /\ packet' = [packet EXCEPT ![q].st = "posted"] /\ jobs' = (jobs + 1) % CounterSize
        /\ waiting' = waiting /\ tasks' = tasks
    BY <1>8 DEF PostPacket
  <2>2. q \in Queries /\ packet[q].st = "made" /\ jobs \in 0..(CounterSize - 1)
    BY <2>1 DEF QueriesInv, MainOK, ClientTypes
  <2>3. packet'[q].st = "posted" /\ \A x \in Queries : x # q => packet'[x] = packet[x]
    BY <2>1, <2>2, PacketUpdate
  <2>4. Counted' = Counted \cup {q} /\ q \notin Counted BY <2>2, <2>3 DEF Counted
  <2>5. \A x \in Queries : Mine(x)' = Mine(x) BY <2>1 DEF Mine
  <2>6. Decreased' = Decreased BY <2>1, <2>2, <2>3, <2>5 DEF Decreased
  <2>7. /\ IsFiniteSet(Counted) /\ Cardinality(Counted) \in Nat /\ Cardinality(Decreased) \in Nat
        /\ Cardinality(Decreased) <= Cardinality(Counted) + 1
    BY <1>1, CountedFacts
  <2>8. Cardinality(Counted') = Cardinality(Counted) + 1 BY <2>4, <2>7, FS_AddElement
  <2>9. Cardinality(Counted') < CounterSize
    <3>1. Counted' \subseteq Queries BY <2>2, <2>4 DEF Counted
    <3>2. Cardinality(Counted') <= Cardinality(Queries) BY <3>1, Constants, FS_Subset
    <3> QED BY <2>7, <2>8, <3>2, Constants
  <2>10. JobsOK(Cardinality(Counted) - Cardinality(Decreased)) BY <1>1 DEF JobsInv
  <2>11. jobs' = IF jobs = CounterSize - 1 THEN 0 ELSE jobs + 1 BY <2>1, <2>2, Wrap
  <2>12. jobs' = Cardinality(Counted') - Cardinality(Decreased') /\ Cardinality(Counted') - Cardinality(Decreased') # -1
    BY <2>2, <2>6, <2>7, <2>8, <2>9, <2>10, <2>11, Constants DEF JobsOK
  <2> QED BY <2>12 DEF JobsInv, JobsOK
<1>9. ASSUME NEW t \in tasks, RunCallback(t) \/ Decrease(t) \/ Notify(t) PROVE JobsInv'
  <2> DEFINE q == t.query
             n == IF Head(t.todo) = "callback" THEN called[q] + 1 ELSE called[q]
  <2>1. tasks' = Done(t) /\ packet' = packet /\ waiting' = waiting BY <1>9 DEF RunCallback, Decrease, Notify
  <2>2. /\ q \in Queries /\ packet[q].st # "none"
        /\ \A x \in Queries : x # q => Mine(x)' = Mine(x)
        /\ packet[q].st # "failed" => /\ Mine(q) = {t} /\ q \notin waiting
                                      /\ Mine(q)' = IF Len(t.todo) = 1 THEN {} ELSE {Rest(t)}
    BY <2>1, TaskDone
  <2>3. packet[q].st # "failed" BY <1>1, <2>2 DEF QueryFailed
  <2>4. /\ Has(t, Head(t.todo))
        /\ Len(t.todo) = 1 => \A x : Has(t, x) <=> x = Head(t.todo)
        /\ Len(t.todo) # 1 => \A x : Has(Rest(t), x) <=> Has(t, x) /\ x # Head(t.todo)
    <3>1. t \in TaskT BY DEF QueriesInv, ClientTypes
    <3> QED BY <3>1, TaskSteps
  <2>5. Counted' = Counted BY <2>1 DEF Counted
  <2>6. \A x \in Queries : x # q => (x \in Decreased' <=> x \in Decreased) BY <2>1, <2>2 DEF Decreased
  <2>7. q \in Decreased <=> ~Has(t, "decrease") BY <2>2, <2>3 DEF Decreased
  <2>8. q \in Decreased' <=> ~Has(t, "decrease") \/ Head(t.todo) = "decrease"
    <3>1. q \in Decreased' <=> \A u \in Mine(q)' : ~Has(u, "decrease") BY <2>1, <2>2, <2>3 DEF Decreased
    <3> QED BY <2>2, <2>3, <2>4, <3>1
  <2>9. Decreased \subseteq Queries /\ Decreased' \subseteq Queries BY DEF Decreased
  <2>10. CASE Head(t.todo) # "decrease"
    <3>1. jobs' = jobs BY <1>9, <2>10 DEF RunCallback, Decrease, Notify
    <3>2. Decreased' = Decreased BY <2>6, <2>7, <2>8, <2>9, <2>10
    <3> QED BY <1>1, <2>5, <3>1, <3>2, JobsFrame
  <2>11. CASE Head(t.todo) = "decrease"
    <3>1. jobs' = (jobs - 1) % CounterSize BY <1>9, <2>11 DEF RunCallback, Decrease, Notify
    <3>2. Decreased' = Decreased \cup {q} /\ q \notin Decreased BY <2>2, <2>4, <2>6, <2>7, <2>8, <2>9, <2>11
    <3>3. /\ IsFiniteSet(Decreased) /\ Cardinality(Counted) \in Nat /\ Cardinality(Decreased) \in Nat
      BY <1>1, CountedFacts
    <3>4. Cardinality(Decreased') = Cardinality(Decreased) + 1 BY <3>2, <3>3, FS_AddElement
    <3>5. Cardinality(Decreased') <= Cardinality(Counted) + 1
      <4>1. (Cardinality(Decreased) <= Cardinality(Counted) + 1)'
        <5>1. \A x \in Decreased' : x \in Counted \/ (main.pc = "send" /\ x = main.query)
          <6> SUFFICES ASSUME NEW x \in Decreased' PROVE x \in Counted \/ (main.pc = "send" /\ x = main.query)
            OBVIOUS
          <6>1. x \in Queries /\ packet[x].st # "none" /\ packet[x].st # "failed"
            BY <1>1, <2>1 DEF Decreased, QueryFailed
          <6>2. packet[x].st \in {"none", "made", "posted", "sent", "failed"} BY <6>1 DEF QueriesInv, ClientTypes
          <6>3. packet[x].st = "made" => main.pc = "send" /\ main.query = x BY <6>1 DEF QueriesInv, PacketOK
          <6> QED BY <6>1, <6>2, <6>3 DEF Counted
        <5>2. Decreased' \subseteq Counted \cup {main.query} BY <5>1
        <5>3. IsFiniteSet(Counted) BY <1>1, CountedFacts
        <5>4. /\ IsFiniteSet(Counted \cup {main.query})
              /\ Cardinality(Counted \cup {main.query}) <= Cardinality(Counted) + 1
          BY <3>3, <5>3, FS_AddElement
        <5>5. Cardinality(Decreased') <= Cardinality(Counted \cup {main.query}) BY <5>2, <5>4, FS_Subset
        <5>6. Cardinality(Counted \cup {main.query}) \in Nat BY <5>4, FS_CardinalityType
        <5> QED BY <2>5, <3>3, <3>4, <5>4, <5>5, <5>6
      <4> QED BY <2>5, <4>1
    <3>6. JobsOK(Cardinality(Counted) - Cardinality(Decreased)) BY <1>1 DEF JobsInv
    <3>7. jobs \in 0..(CounterSize - 1) BY DEF QueriesInv, ClientTypes
    <3>8. jobs' = IF jobs = 0 THEN CounterSize - 1 ELSE jobs - 1 BY <3>1, <3>7, Wrap
    <3>9. JobsOK(Cardinality(Counted) - Cardinality(Decreased))'
      BY <2>5, <3>3, <3>4, <3>5, <3>6, <3>7, <3>8, Constants DEF JobsOK
    <3> QED BY <3>9 DEF JobsInv
  <2> QED BY <2>10, <2>11
<1> QED BY <1>2, <1>3, <1>4, <1>5, <1>6, <1>7, <1>8, <1>9, TakesFact, ClientSteps

LEMMA FinishInit == Init => FinishInv
<1> SUFFICES ASSUME Init PROVE FinishInv
  OBVIOUS
<1>1. PICK c \in Setups : ClientInit(c.lines) BY DEF Init
<1>2. finished = {} /\ jobs = 0 /\ \A q \in Queries : packet[q].st = "none"
  BY <1>1 DEF ClientInit
<1>3. Counted = {} /\ Decreased = {} BY <1>2 DEF Counted, Decreased
<1>4. JobsOK(Cardinality(Counted) - Cardinality(Decreased)) BY <1>2, <1>3, FS_EmptySet DEF JobsOK
<1> QED BY <1>2, <1>4 DEF FinishInv, JobsInv, FinishedMeansAnswered

(***************************************************************************)
(* When WaitAllFinished returns by itself the result of the query has been *)
(* stored, or the thread of the timeouts has taken its callback and is     *)
(* about to run it, as long as no query failed to be written: the count    *)
(* that PostPacket increases and DecreaseUnfnishedJobCount decreases is    *)
(* the number of queries that are posted and not finished, although a      *)
(* timeout may decrease it before its query is counted and wrap it around. *)
(***************************************************************************)
THEOREM FinishedStaysAnswered == Spec => []FinishedMeansAnswered
<1>1. QueriesInv /\ ConnectionsInv /\ FinishInv /\ [Next]_vars => (QueriesInv /\ ConnectionsInv /\ FinishInv)'
  BY QueriesNext, ConnectionsNext, JobsStep, FinishedStep DEF FinishInv
<1>2. Init => QueriesInv /\ ConnectionsInv /\ FinishInv BY QueriesInit, ConnectionsInit, FinishInit
<1>3. FinishInv => FinishedMeansAnswered BY DEF FinishInv
<1> QED BY <1>1, <1>2, <1>3, PTL DEF Spec

=============================================================================
